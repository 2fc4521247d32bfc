------------------------------ MODULE MCSseEmitter ------------------------------
(* A small vocabulary for SseEmitter: tags cut at their unit boundary, a     *)
(* function call in two tokens, a character cut in two, stop sequences       *)
(* shorter and longer than the holdback.                                     *)
EXTENDS SseEmitter

Tok(kind, text) == [kind |-> kind, text |-> text]

MCVocab ==
    { Tok("text", t) : t \in { << "<" >>, << "think>" >>, << "/think>", "x" >>,
                               << "function=", "f", ">" >>, << "</function>" >>,
                               << "tool_call>", "<", "function=", "f", ">", "x" >>,
                               << "</function>", " ", "</tool_call>" >>,
                               << "x" >>, << "y", "L" >>, << " " >>,
                               << "L", "K", "L", "K" >>, << "{", "f", "}" >> } }
    \cup { Tok("channel_open", << >>), Tok("special", THINK_CLOSE) }

MCStops == { {}, { << "x", "x" >>, << "L", "K", "L", "K", "x" >> } }

=============================================================================
