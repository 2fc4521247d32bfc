---------------------------- MODULE KernelShapes ----------------------------
(***************************************************************************)
(* What the kernels of megakernel/ share: the dimensions of the model, the *)
(* division of work over blocks, and the form in which a kernel is         *)
(* described.                                                              *)
(*                                                                         *)
(* Arithmetic is abstracted: a kernel is what it loads from and stores to  *)
(* global memory.  A *step* of a block is a record [r, w] of accesses      *)
(* <<address, item>>: "the word at this address, taken to be this item".   *)
(* An address is a buffer and an index, as in the code; an item is what    *)
(* the program means by it (row 2 of the MLP of layer 1, the key of head 0 *)
(* at position 3).  Buffers are shared by items that are not alive at the  *)
(* same time, so nothing but the order of the steps keeps them apart.  A   *)
(* *phase* maps the blocks of a grid to the sequence of steps each runs    *)
(* before the next grid barrier or the end of the launch.  Weights and the *)
(* embedding table are never written and are left out.                     *)
(***************************************************************************)
EXTENDS Integers, Sequences, FiniteSetsExt

CONSTANTS
  HIDDEN_SIZE, INTERMEDIATE_SIZE, \* rows of the hidden state and of the MLP
  FA_NUM_Q_HEADS, FA_NUM_KV_HEADS, \* heads of a full attention layer
  DN_NUM_HEADS,                   \* heads of a DeltaNet layer
  LAYER_TYPE,                     \* sequence of 0 (DeltaNet) and 1 (full attention)
  NUM_WARPS,                      \* warps of a block that share an attention head
  max_seq_len,                    \* positions of the KV cache
  MAX_SEQ,                        \* positions per head the fused prefill kernels were compiled for
  CHUNK_TOKENS,                   \* rows of a chunk of the streamed prefill (4096)
  DN_CHUNK_C                      \* rows of a chunk of its DeltaNet recurrence

ASSUME ShapesAssumption ==
  /\ {HIDDEN_SIZE, INTERMEDIATE_SIZE, DN_NUM_HEADS, NUM_WARPS, max_seq_len} \subseteq Nat \ {0}
  /\ {MAX_SEQ, CHUNK_TOKENS, DN_CHUNK_C} \subseteq Nat \ {0}
  /\ FA_NUM_KV_HEADS \in Nat \ {0} /\ FA_NUM_Q_HEADS \in Nat \ {0}
  /\ FA_NUM_Q_HEADS % FA_NUM_KV_HEADS = 0
  /\ LAYER_TYPE \in Seq({0, 1})

FA_GQA_RATIO == FA_NUM_Q_HEADS \div FA_NUM_KV_HEADS
NUM_LAYERS == Len(LAYER_TYPE)

\* The number of layers of the same type before layer l: fa_layer_idx and
\* dn_layer_idx of the layer loops.
TypeIndex(l) == Cardinality({k \in 1 .. l - 1 : LAYER_TYPE[k] = LAYER_TYPE[l]})

\* Stages of the hidden state: before layer l, after its attention block, after it.
In(l) == 2 * l - 2
Mid(l) == 2 * l - 1
Out(l) == 2 * l

Step(r, w) == [r |-> r, w |-> w]

\* One access per index of a buffer: address <<buf, i>>, item <<name, l, i>>.
Acc(buf, name, l, idx) == {<<<<buf, i>>, <<name, l, i>>>> : i \in idx}
All(n) == 0 .. n - 1

\* A matrix of rows of stride words: address <<buf, s * stride + c>>, item <<name, l, s, c>>.
Cells(buf, stride, name, l, rows, cols) ==
  {<<<<buf, s * stride + c>>, <<name, l, s, c>>>> : s \in rows, c \in cols}

\* Mutant: the block size is rounded down, so the last rows have no owner.
RowsOf_RoundDown(b, nb, n) ==
  LET rpb == Max({1, n \div nb}) IN b * rpb .. Min({b * rpb + rpb, n}) - 1

\* Contiguous division of n rows: rows_per_block = ceil(n / num_blocks), row_start,
\* row_end = min(row_start + rows_per_block, n) (also hpb, hs, he of the heads).
RowsOf(b, nb, n) ==
  LET rpb == (n + nb - 1) \div nb IN b * rpb .. Min({b * rpb + rpb, n}) - 1

\* Cyclic division: for (s = blockIdx.x; s < n; s += gridDim.x).
CyclicOf(b, nb, n) == {i \in All(n) : i % nb = b}

\* Mutant: the cache is indexed by the number of the layer among all layers.
CacheAddr_ByLayer(buf, l, h, p, stride) ==
  <<buf, (l * FA_NUM_KV_HEADS + h) * stride + p>>

\* Word of the KV cache of full attention layer l, head h, position p when the
\* cache is laid out with stride positions per head.
CacheAddr(buf, l, h, p, stride) ==
  <<buf, (TypeIndex(l) * FA_NUM_KV_HEADS + h) * stride + p>>

\* Key and value of head h at position p, as two accesses.
CacheAcc(l, h, p, stride) ==
  {<<CacheAddr("fa_k_cache", l, h, p, stride), <<"k", l, h, p>>>>,
   <<CacheAddr("fa_v_cache", l, h, p, stride), <<"v", l, h, p>>>>}
=============================================================================
