------------------------------- MODULE SseEmitter -------------------------------
(***************************************************************************)
(* The streaming state machine of one request (server/sse_emitter.cpp),    *)
(* fed by the worker's token callback or, for a response that is not       *)
(* streamed, after the generation (server/http_server.cpp, worker_loop).   *)
(* Texts are sequences of lexical units, as in ToolParser; "L" and "K" are *)
(* the lead and the continuation byte of a two-byte character, "R" the     *)
(* replacement character.  The emitter's fields are one record, e; e.out   *)
(* is every event it produced.                                             *)
(***************************************************************************)
EXTENDS ToolParser

CONSTANTS Formats,        \* API formats the requests use
          StopLists,      \* the stop_sequences of a request: sets of texts
          Vocab,          \* tokens: records with a kind and a text
          BASE_HOLDBACK,  \* units held back while a tag may be incomplete
          MaxTokens       \* bound: tokens of a generation

THINK_OPEN  == << "<", "think>" >>
THINK_CLOSE == << "<", "/think>" >>

\* The holdback covers the longest tag (12 bytes for tags of up to 11).
ASSUME HoldbackCoversTags ==
    \A tag \in {THINK_OPEN, THINK_CLOSE, TOOL_OPEN, FUNCTION_OPEN, TOOL_CODE_OPEN} :
        BASE_HOLDBACK >= Len(tag)

VARIABLES format,     \* the request: its API format,
          stops,      \* its stop sequences,
          started,    \* whether the prompt left the model thinking,
          stream,     \* and whether the response is streamed
          e,          \* the emitter
          tokens,     \* the tokens generated so far
          phase       \* "generate", "done" or "gone" (client disconnected)

vars == << format, stops, started, stream, e, tokens, phase >>

-----------------------------------------------------------------------------
MaxOf(S) == CHOOSE m \in S : \A n \in S : m >= n

\* Mutant: only stop sequences are held back.
Holdback_StopsOnly == MaxOf({0} \cup { Len(q) : q \in stops })

\* Mutant: only tags are held back.
Holdback_TagsOnly == BASE_HOLDBACK
Holdback == MaxOf({BASE_HOLDBACK} \cup { Len(q) : q \in stops })

\* Mutant: the cut is not moved back to the start of a character.
utf8_safe_len_AnyByte(s, pos) == IF pos >= Len(s) THEN Len(s) ELSE pos
utf8_safe_len(s, pos) ==
    IF pos >= Len(s) THEN Len(s)
    ELSE MaxOf({0} \cup { p \in 1..pos : s[p + 1] # "K" })

\* A lead byte without its continuation, or the reverse, becomes U+FFFD.
utf8_sanitize(s) ==
    [i \in 1..Len(s) |->
        IF \/ s[i] = "L" /\ ~(i < Len(s) /\ s[i + 1] = "K")
           \/ s[i] = "K" /\ ~(i > 1 /\ s[i - 1] = "L")
        THEN "R" ELSE s[i]]

-----------------------------------------------------------------------------
(* Events.  A delta carries the kind of its text; the Anthropic format      *)
(* wraps deltas in numbered content blocks.                                 *)
Delta(kind, index, text) == [ev |-> "delta", kind |-> kind, index |-> index, text |-> text]
BlockStart(kind, index)  == [ev |-> "start", kind |-> kind, index |-> index, text |-> << >>]
BlockStop(index)         == [ev |-> "stop", kind |-> "", index |-> index, text |-> << >>]
Final(reason, text)      == [ev |-> "final", kind |-> reason, index |-> 0, text |-> text]

Out(em, events) == [em EXCEPT !.out = @ \o events]

\* Close the open block and open one of the given kind, if it differs.
SwitchBlock(em, kind) ==
    IF em.active_kind = kind THEN em
    ELSE Out([em EXCEPT !.active_kind = kind, !.block_index = @ + 1],
             << BlockStop(em.block_index), BlockStart(kind, em.block_index + 1) >>)

\* A delta in the block that is open, whatever its kind.
BareDelta(em, kind, text) == Out(em, << Delta(kind, em.block_index, text) >>)

emit_content_delta(em, text) ==
    IF text = << >> THEN em
    ELSE IF format = "ANTHROPIC" THEN BareDelta(SwitchBlock(em, "text"), "text", text)
    ELSE BareDelta(em, "text", text)

Content(em, text) ==
    emit_content_delta([em EXCEPT !.accumulated_content = @ \o text], text)

\* Reasoning while tokens arrive; the Responses API does not stream it.
Reasoning(em, text) ==
    LET r == [em EXCEPT !.reasoning_text = @ \o text]
    IN  CASE text = << >>           -> em
          [] format = "OPENAI_CHAT" -> BareDelta(r, "thinking", text)
          [] format = "ANTHROPIC"   -> BareDelta(SwitchBlock(r, "thinking"), "thinking", text)
          [] OTHER                  -> r

\* Reasoning flushed by a stop sequence or at the end: no block is opened.
FlushReasoning(em, text) ==
    LET r == [em EXCEPT !.reasoning_text = @ \o text]
    IN  IF text = << >> \/ format = "RESPONSES" THEN r ELSE BareDelta(r, "thinking", text)

-----------------------------------------------------------------------------
emit_start(em) ==
    IF format = "ANTHROPIC" THEN Out(em, << BlockStart(em.active_kind, em.block_index) >>) ELSE em

\* Nothing but the units no tag can start in is emitted without a tag.
SafePrefix(em) ==
    LET cut  == utf8_safe_len(em.window, Len(em.window) - Holdback)
        text == SubSeq(em.window, 1, cut)
        sent == IF em.mode = "REASONING" THEN Reasoning(em, text) ELSE Content(em, text)
    IN  IF Len(em.window) <= Holdback \/ cut = 0 THEN em
        ELSE [sent EXCEPT !.window = From(em.window, cut + 1)]

\* The think tag the model may echo at the very start of its reasoning.
LeadingSpace(em) == SkipSpace(em.window, 1) - 1

PrefixUndecided(em) ==
    ~em.checked_think_prefix /\ LeadingSpace(em) + Len(THINK_OPEN) > Len(em.window)

StripThinkPrefix(em) ==
    IF em.checked_think_prefix THEN em
    ELSE LET ws == LeadingSpace(em)
         IN  [em EXCEPT !.checked_think_prefix = TRUE,
                 !.window = IF Starts(em.window, ws + 1, THINK_OPEN)
                            THEN From(em.window, ws + Len(THINK_OPEN) + 1) ELSE @]

\* The tags looked for in content, and the first that occurs in the window.
ContentTags == {THINK_OPEN, THINK_CLOSE, TOOL_OPEN, FUNCTION_OPEN, TOOL_CODE_OPEN}

Hits(w) == { h \in [pos : 1..Len(w), tag : ContentTags] : Find(w, h.tag) = h.pos }

\* The loop of emit_token: one iteration per tag found.
RECURSIVE Drain(_)
Drain(em) ==
    CASE em.mode = "TOOL_BUFFER" ->
             [em EXCEPT !.tool_buffer = @ \o em.window, !.window = << >>]
      [] em.mode = "REASONING" /\ PrefixUndecided(em) -> em
      [] em.mode = "REASONING" /\ ~PrefixUndecided(em) ->
             LET p == StripThinkPrefix(em)
                 i == Find(p.window, THINK_CLOSE)
             IN  IF i # 0
                 THEN Drain([Reasoning(p, SubSeq(p.window, 1, i - 1)) EXCEPT
                               !.window = From(p.window, i + Len(THINK_CLOSE)),
                               !.mode = "CONTENT"])
                 ELSE SafePrefix(p)
      [] em.mode = "CONTENT" /\ Hits(em.window) # {} ->
             LET h == CHOOSE x \in Hits(em.window) :
                          \A y \in Hits(em.window) : x.pos <= y.pos
                 c == Content(em, SubSeq(em.window, 1, h.pos - 1))
                 rest == From(em.window, h.pos + Len(h.tag))
             IN  CASE h.tag = THINK_OPEN  -> Drain([c EXCEPT !.window = rest, !.mode = "REASONING"])
                   [] h.tag = THINK_CLOSE -> Drain([c EXCEPT !.window = rest])
                   [] OTHER -> Drain([c EXCEPT !.tool_buffer = From(em.window, h.pos),
                                               !.window = << >>, !.mode = "TOOL_BUFFER"])
      [] em.mode = "CONTENT" /\ Hits(em.window) = {} -> SafePrefix(em)

\* Where the first stop sequence occurs in the window, 0 when none does.
StopAt(w) ==
    LET at == { Find(w, q) : q \in stops } \ {0}
    IN  IF at = {} THEN 0 ELSE CHOOSE i \in at : \A j \in at : i <= j

emit_token(em, raw_piece) ==
    LET piece == utf8_sanitize(raw_piece)
        n == [em EXCEPT !.accumulated_raw = @ \o piece, !.window = @ \o piece]
        i == IF n.mode = "TOOL_BUFFER" THEN 0 ELSE StopAt(n.window)
        pre == SubSeq(n.window, 1, i - 1)
    IN  IF em.stop_hit THEN em
        ELSE IF i = 0 THEN Drain(n)
        ELSE [ (IF n.mode = "REASONING" THEN FlushReasoning(n, pre) ELSE Content(n, pre))
               EXCEPT !.window = << >>, !.stop_hit = TRUE ]

-----------------------------------------------------------------------------
\* Events for the parsed tool calls.
ToolEvents(em) ==
    IF format = "ANTHROPIC"
    THEN LET Block(i) == << BlockStart("tool_use", em.block_index + i),
                            Delta("tool_use", em.block_index + i, em.tool_calls[i]),
                            BlockStop(em.block_index + i) >>
         IN  [Out(em, (IF em.active_kind = "" THEN << >> ELSE << BlockStop(em.block_index) >>)
                      \o FlattenSeq([i \in 1..Len(em.tool_calls) |-> Block(i)]))
              EXCEPT !.active_kind = "", !.block_index = @ + Len(em.tool_calls)]
    ELSE Out(em, [i \in 1..Len(em.tool_calls) |-> Delta("tool_use", 0, em.tool_calls[i])])

\* Mutant: the flushed window is kept.
FlushWindow_Kept(em) ==
    CASE em.mode = "REASONING"   -> FlushReasoning(em, em.window)
      [] em.mode = "CONTENT"     -> Content(em, em.window)
      [] em.mode = "TOOL_BUFFER" -> [em EXCEPT !.tool_buffer = @ \o em.window]
FlushWindow(em) ==
    [ (CASE em.mode = "REASONING"   -> FlushReasoning(em, em.window)
         [] em.mode = "CONTENT"     -> Content(em, em.window)
         [] em.mode = "TOOL_BUFFER" -> [em EXCEPT !.tool_buffer = @ \o em.window])
      EXCEPT !.window = << >> ]

\* Mutant: a buffer without a call is sent but not added to the content.
ParseTools_Unaccounted(em) ==
    LET parsed == parse_tool_calls(em.tool_buffer)
        t == [em EXCEPT !.tool_calls = parsed.tool_calls]
    IN  IF em.mode # "TOOL_BUFFER" \/ em.tool_buffer = << >> THEN em
        ELSE IF parsed.tool_calls = << >> THEN emit_content_delta(t, em.tool_buffer)
        ELSE ToolEvents(Content(t, parsed.cleaned_text))
\* remember: the tool memory is given the raw text when there are calls.
ParseTools(em) ==
    LET parsed == parse_tool_calls(em.tool_buffer)
        t == [em EXCEPT !.tool_calls = parsed.tool_calls,
                        !.remembered = IF parsed.tool_calls = << >> THEN @ ELSE em.accumulated_raw]
    IN  IF em.mode # "TOOL_BUFFER" \/ em.tool_buffer = << >> THEN em
        ELSE IF parsed.tool_calls = << >> THEN Content(t, em.tool_buffer)
        ELSE ToolEvents(Content(t, parsed.cleaned_text))

finish_reason(em) == IF em.tool_calls = << >> THEN "stop" ELSE "tool_calls"

\* Mutant: the last block is stopped even when it is closed already.
FinalEvents_StopsTwice(em) ==
    Out([em EXCEPT !.active_kind = ""],
        (IF format = "ANTHROPIC" THEN << BlockStop(em.block_index) >> ELSE << >>)
        \o << Final(finish_reason(em), em.accumulated_content) >>)
FinalEvents(em) ==
    LET final == << Final(finish_reason(em), em.accumulated_content) >>
    IN  IF format = "ANTHROPIC" /\ em.active_kind # ""
        THEN [Out(em, << BlockStop(em.block_index) >> \o final) EXCEPT !.active_kind = ""]
        ELSE Out(em, final)

emit_finish(em) == FinalEvents(ParseTools(FlushWindow(em)))

-----------------------------------------------------------------------------
NewEmitter ==
    [mode |-> IF started THEN "REASONING" ELSE "CONTENT", window |-> << >>,
     tool_buffer |-> << >>, accumulated_content |-> << >>, accumulated_raw |-> << >>,
     reasoning_text |-> << >>, tool_calls |-> << >>, block_index |-> 0,
     active_kind |-> IF started THEN "thinking" ELSE "text",
     checked_think_prefix |-> FALSE, stop_hit |-> FALSE, remembered |-> << >>, out |-> << >>]

\* What of a token reaches the emitter.  End-of-text and special tokens are
\* dropped; the channel tokens of one model family become think tags.
PieceOf(token) ==
    CASE token.kind = "channel_open"  -> THINK_OPEN
      [] token.kind = "channel_close" -> THINK_CLOSE \o << " " >>
      [] token.kind \in {"eos", "special"} -> << >>
      [] OTHER -> token.text

Feed(em, token) == IF PieceOf(token) = << >> THEN em ELSE emit_token(em, PieceOf(token))

\* The stop sequence is only looked at after an ordinary token.
StopsGeneration(em, token) == em.stop_hit /\ token.kind = "text"

Init ==
    /\ format \in Formats /\ stops \in StopLists
    /\ started \in BOOLEAN /\ stream \in BOOLEAN
    /\ e = IF stream THEN emit_start(NewEmitter) ELSE NewEmitter
    /\ tokens = << >> /\ phase = "generate"

\* The token callback.  The streamed emitter refuses more once a stop
\* sequence was hit; without streaming it only counts.
OnToken(token) ==
    /\ phase = "generate" /\ Len(tokens) < MaxTokens
    /\ ~(stream /\ tokens # << >> /\ StopsGeneration(e, Last(tokens)))
    /\ tokens' = Append(tokens, token)
    /\ e' = IF stream THEN Feed(e, token) ELSE e
    /\ UNCHANGED << format, stops, started, stream, phase >>

\* A send fails: the callback reports it, and nothing more is sent.
Disconnect ==
    /\ phase = "generate" /\ stream /\ tokens # << >>
    /\ phase' = "gone"
    /\ UNCHANGED << format, stops, started, stream, e, tokens >>

\* Finalisation.  Without streaming every token is fed here, until a stop
\* sequence is hit.
Finish ==
    /\ phase = "generate"
    /\ phase' = "done"
    /\ e' = emit_finish(IF stream THEN e ELSE FoldLeft(Feed, e, tokens))
    /\ UNCHANGED << format, stops, started, stream, tokens >>

Next ==
    \/ \E token \in Vocab : OnToken(token)
    \/ Disconnect
    \/ Finish

Spec == Init /\ [][Next]_vars

-----------------------------------------------------------------------------
(* Properties.                                                              *)

\* The emitter stays within its states; a text is a sequence of units.
TypeOK ==
    /\ phase \in {"generate", "done", "gone"} /\ Len(tokens) <= MaxTokens
    /\ e.mode \in {"REASONING", "CONTENT", "TOOL_BUFFER"}
    /\ e.active_kind \in {"thinking", "text", ""} /\ e.block_index >= 0
    /\ e.active_kind = "" => phase = "done"
    /\ e.window # << >> => phase # "done" /\ ~e.stop_hit

\* The reference for a whole text, one unit at a time: what belongs to the
\* reasoning, to the content and to the tool buffer.  first is TRUE until the
\* first reasoning began, when an echoed think tag is dropped.
RECURSIVE Split(_, _, _, _)
Split(raw, i, first, r) ==
    LET tag == CHOOSE t \in ContentTags : Starts(raw, i, t)
        echo == SkipSpace(raw, i)
    IN  CASE i > Len(raw) -> r
          [] i <= Len(raw) /\ r.mode = "REASONING" ->
               IF first THEN Split(raw, IF Starts(raw, echo, THINK_OPEN)
                                        THEN echo + Len(THINK_OPEN) ELSE i, FALSE, r)
               ELSE IF Starts(raw, i, THINK_CLOSE)
               THEN Split(raw, i + Len(THINK_CLOSE), first, [r EXCEPT !.mode = "CONTENT"])
               ELSE Split(raw, i + 1, first, [r EXCEPT !.reasoning = Append(@, raw[i])])
          [] i <= Len(raw) /\ r.mode = "CONTENT" ->
               IF \A t \in ContentTags : ~Starts(raw, i, t)
               THEN Split(raw, i + 1, first, [r EXCEPT !.content = Append(@, raw[i])])
               ELSE IF tag = THINK_OPEN
               THEN Split(raw, i + Len(tag), first, [r EXCEPT !.mode = "REASONING"])
               ELSE IF tag = THINK_CLOSE THEN Split(raw, i + Len(tag), first, r)
               ELSE [r EXCEPT !.mode = "TOOL_BUFFER", !.tool = From(raw, i)]

WholeText ==
    Split(e.accumulated_raw, 1, TRUE,
          [mode |-> IF started THEN "REASONING" ELSE "CONTENT",
           content |-> << >>, reasoning |-> << >>, tool |-> << >>])

\* However the text is cut into tokens, what the client gets as reasoning, as
\* content and as tool calls is what a parser of the whole text would give: no
\* tag cut by a token boundary leaks, and no unit is lost, repeated or moved.
SplitIsIndependentOfTokens ==
    phase = "done" /\ stops = {} =>
        LET w == WholeText
            p == parse_tool_calls(w.tool)
        IN  /\ e.reasoning_text = w.reasoning
            /\ e.tool_calls = p.tool_calls
            /\ e.accumulated_content = w.content \o p.cleaned_text

DeltaTexts(kind) ==
    FlattenSeq([k \in 1..Len(e.out) |->
        IF e.out[k].ev = "delta" /\ e.out[k].kind = kind THEN e.out[k].text ELSE << >>])

\* The deltas sent so far add up to the text the emitter accounts for, so a
\* streamed response and the text of the final event agree.
DeltasAddUp ==
    stream => /\ DeltaTexts("text") = e.accumulated_content
              /\ format # "RESPONSES" => DeltaTexts("thinking") = e.reasoning_text

\* In a text without tags, exactly what precedes the first stop sequence is
\* delivered (sent or still held back), whatever tokens it is spread over.
StopIsExact ==
    LET raw  == e.accumulated_raw
        text == e.reasoning_text \o e.accumulated_content \o e.window
        at   == StopAt(raw)
    IN  (\A t \in ContentTags : Find(raw, t) = 0) =>
            /\ e.stop_hit <=> at # 0
            /\ text = IF at = 0 THEN raw ELSE SubSeq(raw, 1, at - 1)

\* The block open after the first k events; -1 when none is.
OpenBlock(k) ==
    LET marks == { j \in 1..k : e.out[j].ev \in {"start", "stop"} }
        last  == e.out[MaxOf(marks)]
    IN  IF marks = {} \/ last.ev = "stop" THEN -1 ELSE last.index

\* Anthropic content blocks are opened one at a time, numbered without a gap,
\* closed exactly once, and every delta falls into the open one.
BlocksAreNested ==
    format = "ANTHROPIC" /\ stream =>
        /\ \A k \in 1..Len(e.out) :
             LET open == OpenBlock(k - 1)
                 seen == { j \in 1..(k - 1) : e.out[j].ev = "start" }
             IN  CASE e.out[k].ev = "start" ->
                        open = -1 /\ e.out[k].index = (IF seen = {} THEN 0 ELSE e.out[MaxOf(seen)].index + 1)
                   [] e.out[k].ev \in {"delta", "stop"} -> open # -1 /\ e.out[k].index = open
                   [] e.out[k].ev = "final" -> open = -1
        /\ phase = "done" => Last(e.out).ev = "final"

\* No delta begins or ends inside a character.
DeltasAreWholeCharacters ==
    \A k \in 1..Len(e.out) :
        e.out[k].text # << >> => Head(e.out[k].text) # "K" /\ Last(e.out[k].text) # "L"

\* What the client is given, as reasoning, content and tool calls or up to a stop
\* sequence, depends on the text and not on how it was cut into tokens.
SplitIsRight == SplitIsIndependentOfTokens /\ StopIsExact

\* The stream of deltas is the text the emitter accounts for, cut between characters.
StreamInv == TypeOK /\ DeltasAddUp /\ DeltasAreWholeCharacters

=============================================================================
