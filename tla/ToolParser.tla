------------------------------- MODULE ToolParser -------------------------------
(***************************************************************************)
(* The tool-call parser (server/tool_parser.cpp) over texts that are       *)
(* sequences of lexical units.  A unit is a piece of markup, a function    *)
(* name, a brace, a well-formed argument, a word or white space; the       *)
(* openers the streaming emitter must recognise across token boundaries    *)
(* are two units long ("<" and the rest of the tag).                       *)
(***************************************************************************)
EXTENDS Integers, Sequences, FiniteSets, SequencesExt

CONSTANTS Names,   \* the units that are function names
          Tools    \* the names the request declares, as texts; {} allows all

TOOL_OPEN      == << "<", "tool_call>" >>
FUNCTION_OPEN  == << "<", "function=" >>
TOOL_CODE_OPEN == << "<", "tool_code>" >>
TOOL_CLOSE     == << "</tool_call>" >>
FUNCTION_CLOSE == << "</function>" >>
TOOL_CODE_CLOSE == << "</tool_code>" >>

IsSpace(u) == u = " "

\* The first position at or after from where pat occurs in s; 0 is npos.
FindFrom(s, pat, from) ==
    LET at == { i \in from..(Len(s) - Len(pat) + 1) :
                  SubSeq(s, i, i + Len(pat) - 1) = pat }
    IN  IF at = {} THEN 0 ELSE CHOOSE i \in at : \A j \in at : i <= j

Find(s, pat) == FindFrom(s, pat, 1)

\* The units from position i on (none when i is past the end).
From(s, i) == SubSeq(s, i, Len(s))

Trim(s) ==
    LET text == { i \in 1..Len(s) : ~IsSpace(s[i]) }
    IN  IF text = {} THEN << >>
        ELSE SubSeq(s, CHOOSE i \in text : \A j \in text : i <= j,
                       CHOOSE i \in text : \A j \in text : i >= j)

\* White space between two constructs, as \s* of a regular expression.
SkipSpace(s, i) ==
    LET stop == { j \in i..Len(s) : ~IsSpace(s[j]) }
    IN  IF stop = {} THEN Len(s) + 1 ELSE CHOOSE j \in stop : \A k \in stop : j <= k

-----------------------------------------------------------------------------
tool_allowed(name) == Tools = {} \/ name \in Tools

\* A removal: the units start .. end - 1 of the text.
overlaps(removals, pos) ==
    \E k \in DOMAIN removals : removals[k].start <= pos /\ pos < removals[k].end

\* A parse in progress: the calls found so far and the spans they came from.
add_call(r, name, start, end) ==
    IF ~tool_allowed(name) THEN r
    ELSE [calls    |-> Append(r.calls, name),
          removals |-> Append(r.removals, [start |-> start, end |-> end])]

\* The matches of a pattern, left to right and without overlap; ends[i] is
\* the end of the match that starts at i, 0 when none does.
RECURSIVE MatchesFrom(_, _)
MatchesFrom(ends, i) ==
    IF i > Len(ends) THEN << >>
    ELSE IF ends[i] = 0 THEN MatchesFrom(ends, i + 1)
    ELSE << [start |-> i, end |-> ends[i]] >> \o MatchesFrom(ends, ends[i])

Starts(s, i, pat) == i + Len(pat) - 1 <= Len(s) /\ SubSeq(s, i, i + Len(pat) - 1) = pat

\* The end of "open body close" at i with the shortest body, 0 if there is none.
Enclosed(s, i, open, close) ==
    IF ~Starts(s, i, open) THEN 0
    ELSE LET c == FindFrom(s, close, i + Len(open))
         IN  IF c = 0 THEN 0 ELSE c + Len(close)

\* re_bare_function_xml: a named function, closed, and a closing tool_call
\* tag that follows it.
BareFunctionEnd(s, i) ==
    IF ~(/\ Starts(s, i, FUNCTION_OPEN) /\ i + 3 <= Len(s)
         /\ s[i + 2] \in Names /\ s[i + 3] = ">") THEN 0
    ELSE LET end == Enclosed(s, i, FUNCTION_OPEN, FUNCTION_CLOSE)
             j   == SkipSpace(s, end)
         IN  IF end = 0 THEN 0
             ELSE IF Starts(s, j, TOOL_CLOSE) THEN j + 1 ELSE end

\* re_function_signature: name(args) directly followed by the closing tag.
SignatureEnd(s, i) ==
    IF ~(/\ Starts(s, i, FUNCTION_OPEN) /\ i + 3 <= Len(s)
         /\ s[i + 2] \in Names /\ s[i + 3] = "(") THEN 0
    ELSE LET c == FindFrom(s, << ")" >> \o FUNCTION_CLOSE, i + 4)
         IN  IF c = 0 THEN 0 ELSE c + 2

\* The arguments of a signature: "a" stands for one key=value pair.
parse_function_sig_args(args) == \A k \in DOMAIN args : args[k] \in {"a", " "}

\* Is t a JSON tool call, another JSON value, or not JSON?  "{" name "}"
\* stands for an object with a name and object arguments.
JsonKind(t) ==
    IF Len(t) = 3 /\ t[1] = "{" /\ t[2] \in Names /\ t[3] = "}" THEN "call"
    ELSE IF t = << "{", "}" >> THEN "other" ELSE "bad"

-----------------------------------------------------------------------------
\* Pattern 1: a complete tool_call element; its first function, closed or
\* not, is the call.
Pattern1(s, r0) ==
    LET Step(r, m) ==
          LET body == SubSeq(s, m.start + 2, m.end - 2)
              f    == Find(body, FUNCTION_OPEN)
              c    == FindFrom(body, FUNCTION_CLOSE, f + 2)
              fn   == IF c = 0 THEN From(body, f + 2) ELSE SubSeq(body, f + 2, c - 1)
              gt   == Find(fn, << ">" >>)
              name == Trim(SubSeq(fn, 1, gt - 1))
          IN  IF f = 0 \/ gt = 0 THEN r ELSE add_call(r, name, m.start, m.end)
    IN  FoldLeft(Step, r0, MatchesFrom([i \in 1..Len(s) |-> Enclosed(s, i, TOOL_OPEN, TOOL_CLOSE)], 1))

\* Pattern 2: a function element outside what is already removed.
Pattern2(s, r0) ==
    LET Step(r, m) == IF overlaps(r.removals, m.start) THEN r
                      ELSE add_call(r, << s[m.start + 2] >>, m.start, m.end)
    IN  FoldLeft(Step, r0, MatchesFrom([i \in 1..Len(s) |-> BareFunctionEnd(s, i)], 1))

\* Pattern 3: a function with its arguments in parentheses.
Pattern3(s, r0) ==
    LET Step(r, m) ==
          IF \/ overlaps(r.removals, m.start)
             \/ ~parse_function_sig_args(SubSeq(s, m.start + 4, m.end - 3))
          THEN r ELSE add_call(r, << s[m.start + 2] >>, m.start, m.end)
    IN  FoldLeft(Step, r0, MatchesFrom([i \in 1..Len(s) |-> SignatureEnd(s, i)], 1))

\* Pattern 4: a JSON tool call in a tool_code element.
Pattern4(s, r0) ==
    LET Step(r, m) ==
          LET inner == Trim(SubSeq(s, m.start + 2, m.end - 2))
          IN  IF overlaps(r.removals, m.start) \/ JsonKind(inner) # "call" THEN r
              ELSE add_call(r, << inner[2] >>, m.start, m.end)
    IN  FoldLeft(Step, r0, MatchesFrom([i \in 1..Len(s) |-> Enclosed(s, i, TOOL_CODE_OPEN, TOOL_CODE_CLOSE)], 1))

\* The end of the text from i on whose braces outside strings balance (i
\* itself when they never do); "q" is a quotation mark, an escaped one is
\* part of a word.
BalancedEnd(s, i) ==
    LET Count(u, j) == Cardinality({ k \in i..j : s[k] = u })
        Outside(j) == Count("q", j) % 2 = 0
        Depth(j) == Cardinality({ k \in i..j : s[k] = "{" /\ Outside(k) })
                    - Cardinality({ k \in i..j : s[k] = "}" /\ Outside(k) })
        ends == { j \in i..Len(s) : s[j] = "}" /\ Outside(j) /\ Depth(j) = 0 }
    IN  IF ends = {} THEN i ELSE (CHOOSE j \in ends : \A k \in ends : j <= k) + 1

\* Pattern 5: bare JSON objects, scanned from cursor on.
RECURSIVE Pattern5(_, _, _)
Pattern5(s, r, cursor) ==
    LET start == FindFrom(s, << "{" >>, cursor)
        end   == BalancedEnd(s, start)
        obj   == SubSeq(s, start, end - 1)
    IN  IF start = 0 THEN r
        ELSE IF overlaps(r.removals, start) \/ end <= start \/ JsonKind(obj) = "bad"
        THEN Pattern5(s, r, start + 1)
        ELSE Pattern5(s, IF JsonKind(obj) = "call"
                         THEN add_call(r, << obj[2] >>, start, end) ELSE r, end)

\* The text without the removed spans, taken in the order of their starts.
Cleaned(s, removals) ==
    LET sorted == SortSeq(removals, LAMBDA a, b : a.start < b.start)
        Step(c, m) == IF m.start < c.cursor THEN c
                      ELSE [text |-> c.text \o SubSeq(s, c.cursor, m.start - 1),
                            cursor |-> m.end]
        last == FoldLeft(Step, [text |-> << >>, cursor |-> 1], sorted)
    IN  IF removals = << >> THEN s ELSE Trim(last.text \o From(s, last.cursor))

parse_tool_calls(s) ==
    LET found == Pattern5(s, Pattern4(s, Pattern3(s, Pattern2(s, Pattern1(s,
                     [calls |-> << >>, removals |-> << >>])))), 1)
    IN  [tool_calls |-> found.calls, cleaned_text |-> Cleaned(s, found.removals),
         removals |-> found.removals]

=============================================================================
