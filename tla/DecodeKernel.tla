---------------------------- MODULE DecodeKernel ----------------------------
(***************************************************************************)
(* megakernel/kernel.cu: decode_kernel and lm_head_kernel, and the two     *)
(* kernels of megakernel/kernel_gb10_nvfp4.cu that run the same layers on  *)
(* packed weights.  Every operator gives the steps block b of a grid of nb *)
(* blocks runs in one phase (see KernelShapes).                            *)
(***************************************************************************)
EXTENDS KernelShapes

Hidden(l, idx) == Acc("hidden", "hidden", l, idx)
Residual(l, idx) == Acc("g_residual", "residual", l, idx)

\* The residual rows are written by block 0 alone.
ResidualOut(b, l) == IF b = 0 THEN Residual(l, All(HIDDEN_SIZE)) ELSE {}

\* rmsnorm_redundant: every block reads the whole layer input (the embedding
\* row, which is not in memory, for the first layer); block 0 copies it to
\* g_residual.
rmsnorm_redundant(b, l) ==
  Step(IF l = 1 THEN {} ELSE Hidden(In(l), All(HIDDEN_SIZE)), ResidualOut(b, In(l)))

\* rmsnorm_from_bf16: the same for the hidden state after the attention block.
rmsnorm_from_bf16(b, l) ==
  Step(Hidden(Mid(l), All(HIDDEN_SIZE)), ResidualOut(b, Mid(l)))

\* matvec_bf16: the rows of the output this block owns.
matvec_bf16(b, nb, buf, name, l, n) == Acc(buf, name, l, RowsOf(b, nb, n))

\* matvec_o_residual_bf16: reads the whole attention output and the residual of
\* its own rows, writes its own rows of the hidden state.
matvec_o_residual_bf16(b, nb, l, n) ==
  LET rows == RowsOf(b, nb, HIDDEN_SIZE)
  IN  Step(Acc("g_attn_out", "attn_out", l, All(n)) \cup Residual(In(l), rows),
           Hidden(Mid(l), rows))

\* rmsnorm_from_bf16 and matvec_gate_up_silu_bf16.
matvec_gate_up_silu_bf16(b, nb, l) ==
  LET norm == rmsnorm_from_bf16(b, l)
  IN  Step(norm.r, norm.w \cup matvec_bf16(b, nb, "g_mlp_inter", "mlp", l, INTERMEDIATE_SIZE))

\* matvec_down_residual_bf16.
matvec_down_residual_bf16(b, nb, l) ==
  LET rows == RowsOf(b, nb, HIDDEN_SIZE)
  IN  Step(Acc("g_mlp_inter", "mlp", l, All(INTERMEDIATE_SIZE)) \cup Residual(Mid(l), rows),
           Hidden(Out(l), rows))

\* The three phases every layer ends with: output projection over n heads, gate and up
\* projection, down projection.
LayerTail(nb, l, n) ==
  <<[b \in All(nb) |-> <<matvec_o_residual_bf16(b, nb, l, n)>>],
    [b \in All(nb) |-> <<matvec_gate_up_silu_bf16(b, nb, l)>>],
    [b \in All(nb) |-> <<matvec_down_residual_bf16(b, nb, l)>>]>>

---------------------------------------------------------------------------
\* Row 2h of the query projection is head h, row 2h + 1 its gate; of the kv
\* scratch, the first rows are keys and the rest values.
QRow(l, i) == Acc("g_qkv_scratch", "q", l, {i})
KvRow(l, i) == Acc("g_kv_scratch", "kv", l, {i})

\* full_attention_layer, phase 1: norm and the q, k and v projections.
fa_project(b, nb, l) ==
  LET norm == rmsnorm_redundant(b, l)
  IN  Step(norm.r, norm.w \cup matvec_bf16(b, nb, "g_qkv_scratch", "q", l, 2 * FA_NUM_Q_HEADS)
                          \cup Acc("g_kv_scratch", "kv", l,
                                   RowsOf(b, nb, FA_NUM_KV_HEADS)
                                   \cup {FA_NUM_KV_HEADS + i : i \in RowsOf(b, nb, FA_NUM_KV_HEADS)}))

\* full_attention_layer, phase 2: block 0 normalises the keys and stores keys
\* and values at this position; each block rotates its query heads in place.
fa_rope_cache(b, nb, l, pos) ==
  LET q == UNION {QRow(l, 2 * h) : h \in RowsOf(b, nb, FA_NUM_Q_HEADS)}
      kv == IF b = 0 THEN UNION {KvRow(l, i) : i \in All(2 * FA_NUM_KV_HEADS)} ELSE {}
      cache == IF b = 0
               THEN UNION {CacheAcc(l, h, pos, max_seq_len) : h \in All(FA_NUM_KV_HEADS)}
               ELSE {}
  IN  Step(q \cup kv, q \cup cache)

\* full_attention_layer, phase 3, one query head: the warps leave partial sums
\* in scratch, and after __syncthreads warp 0 adds them up and applies the gate.
fa_attend(l, h, pos, scratch) ==
  LET kvh == h \div FA_GQA_RATIO
      partial == {<<scratch \o <<w>>, <<"partial", l, h, w>>>> : w \in All(NUM_WARPS)}
  IN  <<Step(QRow(l, 2 * h) \cup UNION {CacheAcc(l, kvh, p, max_seq_len) : p \in 0 .. pos},
             partial),
        Step(partial \cup QRow(l, 2 * h + 1), Acc("g_attn_out", "attn_out", l, {h}))>>

\* The heads of a block one after the other.
fa_attention(b, nb, l, pos, scratch) ==
  LET heads == RowsOf(b, nb, FA_NUM_Q_HEADS)
      first == Min(heads)
  IN  IF heads = {} THEN <<>>
      ELSE [i \in 1 .. 2 * Cardinality(heads) |->
              fa_attend(l, first + (i - 1) \div 2, pos, scratch)[1 + ((i - 1) % 2)]]

\* kernel.cu full_attention_layer: the partial sums are in g_activations, at
\* warp_id * FA_HEAD_DIM, whatever the block.
full_attention_layer(nb, l, pos) ==
  <<[b \in All(nb) |-> <<fa_project(b, nb, l)>>],
    [b \in All(nb) |-> <<fa_rope_cache(b, nb, l, pos)>>],
    [b \in All(nb) |-> fa_attention(b, nb, l, pos, <<"g_activations", 0>>)]>>
  \o LayerTail(nb, l, FA_NUM_Q_HEADS)

\* kernel_gb10_nvfp4.cu full_attention_layer_nvfp4: the partial sums are in
\* s_attn_partials, the shared memory of the block.
full_attention_layer_nvfp4(nb, l, pos) ==
  <<[b \in All(nb) |-> <<fa_project(b, nb, l)>>],
    [b \in All(nb) |-> <<fa_rope_cache(b, nb, l, pos)>>],
    [b \in All(nb) |-> fa_attention(b, nb, l, pos, <<"s_attn_partials", b>>)]>>
  \o LayerTail(nb, l, FA_NUM_Q_HEADS)

---------------------------------------------------------------------------
\* Slices of the value columns of a head: the streamed prefills give them to different blocks.
DN_SPLITS == 2

\* The convolution channels: one of the queries and one of the keys per head, and the values.
DN_CONV_CHANNELS == (2 + DN_SPLITS) * DN_NUM_HEADS
ValueChannel(h, j) == 2 * DN_NUM_HEADS + h * DN_SPLITS + j
HeadChannels(h) == {h, DN_NUM_HEADS + h} \cup {ValueChannel(h, j) : j \in All(DN_SPLITS)}

\* deltanet_layer, phase 1: norm and the qkv, z, beta and alpha projections.
dn_project(b, nb, l) ==
  LET norm == rmsnorm_redundant(b, l)
  IN  Step(norm.r, norm.w \cup matvec_bf16(b, nb, "g_qkv_scratch", "qkv", l, DN_CONV_CHANNELS)
                          \cup matvec_bf16(b, nb, "g_z", "z", l, DN_NUM_HEADS)
                          \cup matvec_bf16(b, nb, "g_beta", "beta", l, DN_NUM_HEADS)
                          \cup matvec_bf16(b, nb, "g_alpha", "alpha", l, DN_NUM_HEADS))

\* Slices of the recurrent state of head h, and the convolution windows of some channels.
DnState(l, h, slices) ==
  {<<<<"dn_states", TypeIndex(l), h, j>>, <<"state", l, h, j>>>> : j \in slices}
ConvBuf(l, idx) == {<<<<"conv_bufs", TypeIndex(l), i>>, <<"conv", l, i>>>> : i \in idx}

\* deltanet_layer, phases 2 and 3: block h of the first DN_NUM_HEADS shifts the
\* convolution window, activates beta and alpha, runs the recurrence and the
\* gated norm; the other blocks are idle.
dn_recurrence(b, l) ==
  IF b >= DN_NUM_HEADS THEN <<>>
  ELSE LET inplace == ConvBuf(l, HeadChannels(b)) \cup DnState(l, b, All(DN_SPLITS))
                      \cup Acc("g_beta", "beta", l, {b}) \cup Acc("g_alpha", "alpha", l, {b})
       IN  <<Step(inplace \cup Acc("g_qkv_scratch", "qkv", l, HeadChannels(b))
                          \cup Acc("g_z", "z", l, {b}),
                  inplace \cup Acc("g_attn_out", "attn_out", l, {b}))>>

\* kernel.cu deltanet_layer.
deltanet_layer(nb, l) ==
  <<[b \in All(nb) |-> <<dn_project(b, nb, l)>>],
    [b \in All(nb) |-> dn_recurrence(b, l)]>> \o LayerTail(nb, l, DN_NUM_HEADS)

---------------------------------------------------------------------------
\* The layers of one token at a position, one after the other, of either kernel.
Layers(nb, pos, nvfp4) ==
  LET phases[l \in 0 .. NUM_LAYERS] ==
        IF l = 0 THEN <<>>
        ELSE phases[l - 1] \o (IF LAYER_TYPE[l] = 0 THEN deltanet_layer(nb, l)
                               ELSE IF nvfp4 THEN full_attention_layer_nvfp4(nb, l, pos)
                               ELSE full_attention_layer(nb, l, pos))
  IN  phases[NUM_LAYERS]

\* Block 0 alone normalises the last hidden state for the LM head.
final_norm(b) ==
  IF b # 0 THEN <<>>
  ELSE <<Step(Hidden(Out(NUM_LAYERS), All(HIDDEN_SIZE)),
              {<<<<"g_normalized", 0>>, <<"normalized", 0, 0>>>>})>>

\* decode_kernel, before the layers: block 0 marks the input token as seen.
mark_seen(b) ==
  IF b # 0 THEN <<>> ELSE <<Step({}, {<<<<"seen_token_mask", 0>>, <<"seen", 0, 0>>>>})>>

\* Steps of a phase put before those of the first phase.
Before(steps(_), phases) ==
  [phases EXCEPT ![1] = [b \in DOMAIN @ |-> steps(b) \o @[b]]]

\* kernel.cu decode_kernel.
decode_kernel(nb, pos) ==
  Append(Before(mark_seen, Layers(nb, pos, FALSE)),
         [b \in All(nb) |-> final_norm(b)])

\* kernel_gb10_nvfp4.cu decode_kernel_nvfp4: every block loads the input token.
decode_kernel_nvfp4(nb, pos) ==
  LET token(b) == <<Step({<<<<"token_buffer", 0>>, <<"token", 0, 0>>>>}, {})>>
  IN  Append(Before(token, Layers(nb, pos, TRUE)),
             [b \in All(nb) |-> final_norm(b)])

\* kernel_gb10_nvfp4.cu prefill_kernel_nvfp4: the layers of every position in turn.
prefill_kernel_nvfp4(nb, seq_len) ==
  LET phases[n \in 0 .. seq_len] ==
        IF n = 0 THEN <<>>
        ELSE phases[n - 1] \o Layers(nb, n - 1, TRUE)
  IN  Append(phases[seq_len], [b \in All(nb) |-> final_norm(b)])

---------------------------------------------------------------------------
BlockMax(b) == {<<<<"block_max", b>>, <<"max", 0, b>>>>}
OutToken == {<<<<"token_buffer", 0>>, <<"token", 0, 0>>>>}

\* The vocabulary slice of a block and its best token.
lm_slice(b) ==
  Step({<<<<"g_normalized", 0>>, <<"normalized", 0, 0>>>>}, BlockMax(b))

\* lm_head_kernel: slices with the repetition penalty, then block 0 reduces.
lm_head_kernel(nb) ==
  <<[b \in All(nb) |-> <<Step(lm_slice(b).r \cup {<<<<"seen_token_mask", 0>>, <<"seen", 0, 0>>>>},
                              lm_slice(b).w)>>],
    [b \in All(nb) |-> IF b = 0 THEN <<Step(UNION {BlockMax(i) : i \in All(nb)}, OutToken)>>
                       ELSE <<>>]>>

\* launch_lm_head_from_f32_normalized, as separate launches on the stream: the hidden
\* state is rounded and quantised, the slices read either form, one block reduces.
lm_head_nvfp4(nb) ==
  LET bf16 == {<<<<"lm_hidden_bf16", 0>>, <<"lm_hidden", 0, 0>>>>}
      packed == {<<<<"lm_hidden_packed", 0>>, <<"lm_packed", 0, 0>>>>}
      only0(step) == [b \in All(nb) |-> IF b = 0 THEN <<step>> ELSE <<>>]
  IN  <<only0(Step(lm_slice(0).r, bf16)),
        only0(Step(bf16, packed)),
        [b \in All(nb) |-> <<Step(lm_slice(b).r \cup packed, lm_slice(b).w)>>],
        only0(Step(UNION {BlockMax(i) : i \in All(nb)}, OutToken))>>
=============================================================================
