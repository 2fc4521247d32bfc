---------------------------- MODULE MCMegakernel ----------------------------
(* A model of two layers, small enough that every interleaving of the blocks is explored. *)
EXTENDS Megakernel

MCLayers == <<0, 1>>
=============================================================================
