---------------------------- MODULE MCToolMemory ----------------------------
(***************************************************************************)
(* Texts of 0 to 3 bytes: two of the smallest fit in MaxBytes = 5, the     *)
(* largest does not fit together with its copy.                            *)
(***************************************************************************)
EXTENDS ToolMemory

MCSize == ("empty" :> 0) @@ ("short" :> 1) @@ ("medium" :> 2) @@ ("long" :> 3)
MCTexts == DOMAIN MCSize
=============================================================================
