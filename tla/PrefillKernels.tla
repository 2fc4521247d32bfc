--------------------------- MODULE PrefillKernels ---------------------------
(***************************************************************************)
(* The three prompt kernels of megakernel/ in the form of KernelShapes:    *)
(* prefill.cu and prefill_bw.cu launch one kernel per operation on one     *)
(* stream, so a phase is a launch with a grid of its own (nb = 0 below);   *)
(* prefill_megakernel.cu does the same work inside one cooperative launch  *)
(* of nb blocks, and a phase is the code between two grid.sync().  The     *)
(* scratch matrices are [S, columns] with a stride that changes with what  *)
(* they hold.  The padding rows of the matrix tiles are left out: nothing  *)
(* reads what is computed from them.                                       *)
(***************************************************************************)
EXTENDS DecodeKernel

\* The steps of n work items: one block each on the stream, or dealt to nb blocks in turn.
Over(nb, n, step(_)) ==
  LET blocks == IF nb = 0 THEN n ELSE nb
  IN  [b \in All(blocks) |->
         [k \in 1 .. Cardinality(CyclicOf(b, blocks, n)) |-> step(b + (k - 1) * blocks)]]

\* Two lists of work one after the other in the same phase.
Both(p, q) == [b \in DOMAIN p |-> p[b] \o q[b]]

PfHidden(t, rows) == Cells("pf_hidden", HIDDEN_SIZE, "pf_hidden", t, rows, All(HIDDEN_SIZE))
PfResidual(t, rows) == Cells("pf_residual", HIDDEN_SIZE, "pf_residual", t, rows, All(HIDDEN_SIZE))
PfNorm(t, rows) == Cells("pf_normalized", HIDDEN_SIZE, "pf_norm", t, rows, All(HIDDEN_SIZE))
PfOut(buf, t, rows) == Cells(buf, HIDDEN_SIZE, "pf_out", t, rows, All(HIDDEN_SIZE))

\* pf_embed and phase_embed.
pf_embed(s) == Step({}, PfHidden(0, {s}))

\* pf_rmsnorm and phase_rmsnorm: the normalised row, and a copy of the row.
pf_rmsnorm(t, s) == Step(PfHidden(t, {s}), PfNorm(t, {s}) \cup PfResidual(t, {s}))

\* pf_add_residual_bf16 and phase_add_residual.
pf_add_residual(buf, t, s) ==
  Step(PfOut(buf, t + 1, {s}) \cup PfResidual(t, {s}), PfHidden(t + 1, {s}))

\* pf_add_residual_rmsnorm_bf16: both in one kernel, the residual in place.
pf_add_residual_rmsnorm(buf, t, s) ==
  Step(PfOut(buf, t + 1, {s}) \cup PfResidual(t, {s}),
       PfHidden(t + 1, {s}) \cup PfNorm(t + 1, {s}) \cup PfResidual(t + 1, {s}))

\* A matrix product (cuBLAS, cublasLt, or phase_matmul_bf16 and phase_matvec_small) is done in
\* tiles: tile i reads row i / 2 of the left side and writes every second column of that row.
TileCols(n, i) == {c \in All(n) : c % 2 = i % 2}

\* The projection of the normalised rows into columns from..from+n-1 of a matrix.
Project(nb, S, t, buf, stride, name, l, from, n) ==
  LET left(s) == PfNorm(t, {s})
      right(s, cols) == Cells(buf, stride, name, l, {s}, {from + c : c \in cols})
  IN  Over(nb, 2 * S, LAMBDA i : Step(left(i \div 2), right(i \div 2, TileCols(n, i))))

\* The output projection of n columns of buffer from into buffer to.
OutProject(nb, S, l, from, name, n, to) ==
  LET left(s) == Cells(from, n, name, l, {s}, All(n))
      right(s, cols) == Cells(to, HIDDEN_SIZE, "pf_out", Mid(l), {s}, cols)
  IN  Over(nb, 2 * S, LAMBDA i : Step(left(i \div 2), right(i \div 2, TileCols(HIDDEN_SIZE, i))))

---------------------------------------------------------------------------
\* Row of the fused q, k and v projection: queries and gates alternate, then keys, then values.
FA_QKV == 2 * FA_NUM_Q_HEADS + 2 * FA_NUM_KV_HEADS
Qkv(l, s, c) == Cells("proj_buf", FA_QKV, "pf_qkv", l, {s}, {c})
FusedQ(l, s, h) == Qkv(l, s, 2 * h)
FusedG(l, s, h) == Qkv(l, s, 2 * h + 1)
FusedK(l, s, h) == Qkv(l, s, 2 * FA_NUM_Q_HEADS + h)
FusedV(l, s, h) == Qkv(l, s, 2 * FA_NUM_Q_HEADS + FA_NUM_KV_HEADS + h)

\* The accesses of a head of a row: in the fused matrix, or in the three of prefill_megakernel.
FaQ(fused, l, s, h) == IF fused THEN FusedQ(l, s, h)
                       ELSE Cells("proj_buf", 2 * FA_NUM_Q_HEADS, "pf_q", l, {s}, {2 * h})
FaG(fused, l, s, h) == IF fused THEN FusedG(l, s, h)
                       ELSE Cells("proj_buf", 2 * FA_NUM_Q_HEADS, "pf_q", l, {s}, {2 * h + 1})
FaK(fused, l, s, h) == IF fused THEN FusedK(l, s, h)
                       ELSE Cells("proj_buf2", FA_NUM_KV_HEADS, "pf_k", l, {s}, {h})
FaV(fused, l, s, h) == IF fused THEN FusedV(l, s, h)
                       ELSE Cells("attn_buf", FA_NUM_KV_HEADS, "pf_v", l, {s}, {h})

\* One full attention work item of pf_qk_norm_rope: items 0 .. S*Q-1 normalise and rotate
\* a query head in place, the next S*KV a key head, which also goes to the cache with its value.
RopeItem(fused, l, S, stride, i) ==
  IF i < S * FA_NUM_Q_HEADS
  THEN LET q == FaQ(fused, l, i \div FA_NUM_Q_HEADS, i % FA_NUM_Q_HEADS) IN Step(q, q)
  ELSE LET k == i - S * FA_NUM_Q_HEADS
           s == k \div FA_NUM_KV_HEADS
           h == k % FA_NUM_KV_HEADS
           key == FaK(fused, l, s, h)
       IN  Step(key \cup FaV(fused, l, s, h), key \cup CacheAcc(l, h, s, stride))

\* A block runs NUM_WARPS of these items side by side.
pf_qk_norm_rope(nb, fused, l, S, stride) ==
  LET total == S * (FA_NUM_Q_HEADS + FA_NUM_KV_HEADS)
      items(b) == {RopeItem(fused, l, S, stride, i) : i \in {i \in All(total) : i \div NUM_WARPS = b}}
  IN  Over(nb, (total + NUM_WARPS - 1) \div NUM_WARPS,
           LAMBDA b : Step(UNION {x.r : x \in items(b)}, UNION {x.w : x \in items(b)}))

PfAttnOut(l, s, h) == Cells("dn_out_buf", FA_NUM_Q_HEADS, "pf_attn", l, {s}, {h})

\* pf_causal_attn (generic and posblock): a query head of a row against the rows up to it.
pf_causal_attn(nb, fused, l, S) ==
  Over(nb, S * FA_NUM_Q_HEADS,
       LAMBDA i : LET s == i \div FA_NUM_Q_HEADS
                      h == i % FA_NUM_Q_HEADS
                      kvh == h \div FA_GQA_RATIO
                  IN  Step(FaQ(fused, l, s, h) \cup FaG(fused, l, s, h)
                           \cup UNION {FaK(fused, l, p, kvh) \cup FaV(fused, l, p, kvh) : p \in 0 .. s},
                           PfAttnOut(l, s, h)))

\* pf_causal_attn_fused_tiled_cublas, one query head and one block of queries from q0:
\* scores, softmax, probabilities times values, gate.  The scores and the sums share dn_pre_qkv,
\* the sums from word S * max_seq_len on; the probabilities are in mlp_buf.
pf_attn_tile(l, S, h, q0) ==
  LET rows == Min({CHUNK_TOKENS, S - q0})
      keys == q0 + rows
      kvh == h \div FA_GQA_RATIO
      score(r, ks) == {<<<<"dn_pre_qkv", r * keys + k>>, <<"score", l, h, q0 + r, k>>>> : k \in ks}
      prob(r) == {<<<<"mlp_buf", r * keys + k>>, <<"prob", l, h, q0 + r, k>>>> : k \in All(keys)}
      sum(r) == {<<<<"dn_pre_qkv", S * max_seq_len + r>>, <<"attn_sum", l, h, q0 + r>>>>}
      left(r) == FusedQ(l, q0 + r, h) \cup UNION {FusedK(l, k, kvh) : k \in All(keys)}
  IN  <<Over(0, 2 * rows, LAMBDA i : Step(left(i \div 2), score(i \div 2, TileCols(keys, i)))),
        Over(0, rows, LAMBDA r : Step(score(r, All(keys)), prob(r))),
        Over(0, rows, LAMBDA r : Step(prob(r) \cup UNION {FusedV(l, k, kvh) : k \in All(keys)}, sum(r))),
        Over(0, rows, LAMBDA r : Step(sum(r) \cup FusedG(l, q0 + r, h), PfAttnOut(l, q0 + r, h)))>>

pf_causal_attn_fused_tiled_cublas(l, S) ==
  LET blocks == (S + CHUNK_TOKENS - 1) \div CHUNK_TOKENS
      tile(i) == pf_attn_tile(l, S, (i - 1) \div blocks, ((i - 1) % blocks) * CHUNK_TOKENS)
      upto[i \in 0 .. FA_NUM_Q_HEADS * blocks] == IF i = 0 THEN <<>> ELSE upto[i - 1] \o tile(i)
  IN  upto[FA_NUM_Q_HEADS * blocks]

---------------------------------------------------------------------------
\* DeltaNet.  Columns of the projections of head h in a row of a matrix.
PfDnOut(l, rows, h, slices) ==
  Cells("dn_out_buf", DN_NUM_HEADS * DN_SPLITS, "pf_dn", l, rows, {h * DN_SPLITS + j : j \in slices})
DnQkv(stride, l, rows, cols) == Cells("proj_buf", stride, "pf_dnqkv", l, rows, cols)
Beta(l, rows, h) == Cells("beta_buf", DN_NUM_HEADS, "pf_beta", l, rows, {h})
Alpha(l, rows, h) == Cells("alpha_buf", DN_NUM_HEADS, "pf_alpha", l, rows, {h})

\* phase_deltanet_recurrence: block h does the whole prompt of head h, gate z included.
pf_recurrence(b, l, S) ==
  IF b >= DN_NUM_HEADS THEN <<>>
  ELSE LET inplace == ConvBuf(l, HeadChannels(b)) \cup DnState(l, b, All(DN_SPLITS))
       IN  <<Step(inplace \cup DnQkv(DN_CONV_CHANNELS, l, All(S), HeadChannels(b))
                  \cup Cells("proj_buf2", DN_NUM_HEADS, "pf_z", l, All(S), {b})
                  \cup Beta(l, All(S), b) \cup Alpha(l, All(S), b),
                  inplace \cup PfDnOut(l, All(S), b, All(DN_SPLITS)))>>

\* pf_deltanet_preproject: row t, head h, from this and the three rows before it.
PreQkv(l, rows, cols) == Cells("dn_pre_qkv", DN_CONV_CHANNELS, "pre", l, rows, cols)
pf_deltanet_preproject(l, t, h) ==
  Step(DnQkv(DN_CONV_CHANNELS, l, Max({0, t - 3}) .. t, HeadChannels(h))
       \cup (IF t < 3 THEN ConvBuf(l, HeadChannels(h)) ELSE {}),
       PreQkv(l, {t}, HeadChannels(h)))

\* pf_dn_chunk_phase1: a chunk and a head; u, w and cs of its rows.
Uwc(l, rows, h) ==
  UNION {Cells(b, DN_NUM_HEADS, b, l, rows, {h}) : b \in {"dn_u", "dn_w", "dn_cs"}}
pf_dn_chunk_phase1(l, rows, h) ==
  Step(PreQkv(l, rows, HeadChannels(h) \ {h}) \cup Beta(l, rows, h) \cup Alpha(l, rows, h),
       Uwc(l, rows, h))

\* pf_dn_chunk_phase2 and its tensor core form: slice j of a head, chunk after chunk.
pf_dn_chunk_phase2(l, S, h, j) ==
  Step(Uwc(l, All(S), h) \cup PreQkv(l, All(S), {h, DN_NUM_HEADS + h}) \cup DnState(l, h, {j}),
       DnState(l, h, {j}) \cup PfDnOut(l, All(S), h, {j}))

\* pf_deltanet_update_conv_buf, one block of channels: the last four rows, or the old window.
pf_deltanet_update_conv_buf(l, S, g) ==
  LET chs == {g * DN_NUM_HEADS + i : i \in All(DN_NUM_HEADS)}
  IN  Step(DnQkv(DN_CONV_CHANNELS, l, Max({0, S - 4}) .. S - 1, chs) \cup (IF S < 4 THEN ConvBuf(l, chs) ELSE {}),
           ConvBuf(l, chs))

\* pf_deltanet_gated_rmsnorm: a row of a head in place, gated by z.
pf_deltanet_gated_rmsnorm(l, t, h, z) ==
  Step(PfDnOut(l, {t}, h, All(DN_SPLITS)) \cup z, PfDnOut(l, {t}, h, All(DN_SPLITS)))

\* pf_deltanet_prepare_qk: block h convolves and normalises the queries and keys of its head.
QkChannels(h) == {h, DN_NUM_HEADS + h}
QkOut(l, rows, h) == Cells("proj_buf2", 2 * DN_NUM_HEADS, "pf_qk", l, rows, {2 * h, 2 * h + 1})
pf_deltanet_prepare_qk(stride, l, S, h) ==
  Step(ConvBuf(l, QkChannels(h)) \cup DnQkv(stride, l, All(S), QkChannels(h)),
       ConvBuf(l, QkChannels(h)) \cup QkOut(l, All(S), h))

\* pf_deltanet_recurrence_tiled: slice j of head h; ctrl is where beta and alpha are.
pf_deltanet_recurrence_tiled(stride, l, S, h, j, ctrl) ==
  LET inplace == ConvBuf(l, {ValueChannel(h, j)}) \cup DnState(l, h, {j})
  IN  Step(inplace \cup QkOut(l, All(S), h) \cup ctrl
           \cup DnQkv(stride, l, All(S), {ValueChannel(h, j)}),
           inplace \cup PfDnOut(l, All(S), h, {j}))

---------------------------------------------------------------------------
\* The MLP of the n rows from off: gate and up projection, SiLU, down projection, residual.
\* The chunk starts its matrices at row 0 of the buffers.
pf_mlp_chunk(l, off, n, gate_up, down) ==
  LET G(r, cols) == {<<<<gate_up, r * 2 * INTERMEDIATE_SIZE + c>>, <<"pf_gate_up", l, off + r, c>>>> : c \in cols}
      M(r) == {<<<<"mlp_buf", r * INTERMEDIATE_SIZE + c>>, <<"pf_mlp", l, off + r, c>>>> : c \in All(INTERMEDIATE_SIZE)}
      D(r, cols) == {<<<<down, r * HIDDEN_SIZE + c>>, <<"pf_out", Out(l), off + r, c>>>> : c \in cols}
      norm(r) == PfNorm(Mid(l), {off + r})
  IN  <<Over(0, 2 * n, LAMBDA i : Step(norm(i \div 2), G(i \div 2, TileCols(2 * INTERMEDIATE_SIZE, i)))),
        Over(0, n, LAMBDA r : Step(G(r, All(2 * INTERMEDIATE_SIZE)), M(r))),
        Over(0, 2 * n, LAMBDA i : Step(M(i \div 2), D(i \div 2, TileCols(HIDDEN_SIZE, i)))),
        Over(0, n, LAMBDA r : Step(D(r, All(HIDDEN_SIZE)) \cup PfResidual(Mid(l), {off + r}),
                                   PfHidden(Out(l), {off + r})))>>

\* pf_mlp_chunked_fused.
pf_mlp_chunked_fused(l, S) ==
  LET n == (S + CHUNK_TOKENS - 1) \div CHUNK_TOKENS
      upto[i \in 0 .. n] ==
        IF i = 0 THEN <<>>
        ELSE upto[i - 1] \o LET off == (i - 1) * CHUNK_TOKENS
                              IN  pf_mlp_chunk(l, off, Min({CHUNK_TOKENS, S - off}), "proj_buf", "proj_buf")
  IN  upto[n]

\* pf_final_norm on the last row, pf_lm_head over the vocabulary, pf_lm_reduce.
PfLmMax(b) == {<<<<"lm_bmv", b>>, <<"pf_max", 0, b>>>>}
pf_lm(nb, S) ==
  LET grid == IF nb = 0 THEN 2 ELSE nb
      normed == {<<<<"final_normed", 0>>, <<"final_normed", 0, 0>>>>}
      only0(step) == [b \in All(grid) |-> IF b = 0 THEN <<step>> ELSE <<>>]
  IN  <<only0(Step(PfHidden(Out(NUM_LAYERS), {S - 1}), normed)),
        [b \in All(grid) |-> <<Step(normed, PfLmMax(b))>>],
        only0(Step(UNION {PfLmMax(b) : b \in All(grid)}, OutToken))>>

\* The layers in turn, given the phases of each as functions of the layer.
PfLayers(dn, fa) ==
  LET upto[l \in 0 .. NUM_LAYERS] ==
        IF l = 0 THEN <<>> ELSE upto[l - 1] \o (IF LAYER_TYPE[l] = 0 THEN dn[l] ELSE fa[l])
  IN  upto[NUM_LAYERS]

\* Grids of pairs: item i of a rows x heads or heads x slices grid.
Hi(i, n) == i \div n
Lo(i, n) == i % n

---------------------------------------------------------------------------
\* prefill.cu launch_prefill_bf16, what both kinds of layers start and end with.
PfNormRows(t, S) == <<Over(0, S, LAMBDA s : pf_rmsnorm(t, s))>>

PfTail(l, S) ==
  <<Over(0, S, LAMBDA s : pf_add_residual("proj_buf", In(l), s))>>
  \o PfNormRows(Mid(l), S) \o pf_mlp_chunked_fused(l, S)

\* ... its DeltaNet layers,
prefill_bf16_dn(l, S) ==
  LET H == DN_NUM_HEADS
      chunks == (S + DN_CHUNK_C - 1) \div DN_CHUNK_C
      rowsOf(c) == c * DN_CHUNK_C .. Min({S, (c + 1) * DN_CHUNK_C}) - 1
      z(t, h) == Cells("proj_buf2", H, "pf_z", l, {t}, {h})
  IN  PfNormRows(In(l), S) \o
      <<Project(0, S, In(l), "proj_buf", DN_CONV_CHANNELS, "pf_dnqkv", l, 0, DN_CONV_CHANNELS),
        Project(0, S, In(l), "proj_buf2", H, "pf_z", l, 0, H),
        Project(0, S, In(l), "beta_buf", H, "pf_beta", l, 0, H),
        Project(0, S, In(l), "alpha_buf", H, "pf_alpha", l, 0, H),
        Over(0, S * H, LAMBDA i : pf_deltanet_preproject(l, Hi(i, H), Lo(i, H))),
        Over(0, chunks * H, LAMBDA i : pf_dn_chunk_phase1(l, rowsOf(Hi(i, H)), Lo(i, H))),
        Over(0, H * DN_SPLITS, LAMBDA i : pf_dn_chunk_phase2(l, S, Hi(i, DN_SPLITS), Lo(i, DN_SPLITS))),
        Over(0, 2 + DN_SPLITS, LAMBDA g : pf_deltanet_update_conv_buf(l, S, g)),
        Over(0, S * H, LAMBDA i : pf_deltanet_gated_rmsnorm(l, Hi(i, H), Lo(i, H), z(Hi(i, H), Lo(i, H)))),
        OutProject(0, S, l, "dn_out_buf", "pf_dn", H * DN_SPLITS, "proj_buf")>> \o PfTail(l, S)

\* ... its full attention layers,
prefill_bf16_fa(l, S) ==
  PfNormRows(In(l), S) \o
  <<Project(0, S, In(l), "proj_buf", FA_QKV, "pf_qkv", l, 0, FA_QKV),
    pf_qk_norm_rope(0, TRUE, l, S, max_seq_len)>>
  \o pf_causal_attn_fused_tiled_cublas(l, S)
  \o <<OutProject(0, S, l, "dn_out_buf", "pf_attn", FA_NUM_Q_HEADS, "proj_buf")>> \o PfTail(l, S)

\* ... and the whole.
prefill_bf16(S) ==
  <<Over(0, S, pf_embed)>>
  \o PfLayers([l \in 1 .. NUM_LAYERS |-> prefill_bf16_dn(l, S)], [l \in 1 .. NUM_LAYERS |-> prefill_bf16_fa(l, S)]) \o pf_lm(0, S)

---------------------------------------------------------------------------
\* prefill_bw.cu launch_prefill_bf16_impl: projections fused into one matrix, by cuBLAS or, when tc,
\* by cublasLt from activations quantised first (then beta and alpha have products of their own).
BwAct(t, s) == Cells("proj_act_packed", 1, "pf_act", t, {s}, {0})

bw_quantize(t, S, tc) ==
  IF tc THEN <<Over(0, S, LAMBDA s : Step(PfNorm(t, {s}), BwAct(t, s)))>> ELSE <<>>

bw_product(t, w, name, l, n, S, tc) ==
  LET left(s) == IF tc THEN BwAct(t, s) ELSE PfNorm(t, {s})
      right(s, cols) == Cells("proj_buf", w, name, l, {s}, cols)
  IN  <<Over(0, 2 * S, LAMBDA i : Step(left(i \div 2), right(i \div 2, TileCols(n, i))))>>

\* The end of a layer: residual and norm in one kernel, the MLP over all rows.
bw_tail(l, S, tc) ==
  <<Over(0, S, LAMBDA s : pf_add_residual_rmsnorm("proj_buf2", In(l), s))>>
  \o bw_quantize(Mid(l), S, tc)
  \o bw_product(Mid(l), 2 * INTERMEDIATE_SIZE, "pf_gate_up", l, 2 * INTERMEDIATE_SIZE, S, tc)
  \o SubSeq(pf_mlp_chunk(l, 0, S, "proj_buf", "proj_buf2"), 2, 4)

bw_dn(l, S, tc) ==
  LET H == DN_NUM_HEADS
      stride == DN_CONV_CHANNELS + 3 * H + (IF tc THEN 1 ELSE 0)
      ctrl(h) == IF tc THEN Beta(l, All(S), h) \cup Alpha(l, All(S), h)
                 ELSE DnQkv(stride, l, All(S), {DN_CONV_CHANNELS + H + h, DN_CONV_CHANNELS + 2 * H + h})
      z(t, h) == DnQkv(stride, l, {t}, {DN_CONV_CHANNELS + h})
  IN  PfNormRows(In(l), S) \o bw_quantize(In(l), S, tc)
      \o bw_product(In(l), stride, "pf_dnqkv", l, DN_CONV_CHANNELS + 3 * H, S, tc)
      \o (IF tc THEN <<Project(0, S, In(l), "beta_buf", H, "pf_beta", l, 0, H),
                       Project(0, S, In(l), "alpha_buf", H, "pf_alpha", l, 0, H)>> ELSE <<>>)
      \o <<Over(0, H, LAMBDA h : pf_deltanet_prepare_qk(stride, l, S, h)),
           Over(0, H * DN_SPLITS, LAMBDA i : pf_deltanet_recurrence_tiled(stride, l, S,
                   Hi(i, DN_SPLITS), Lo(i, DN_SPLITS), ctrl(Hi(i, DN_SPLITS)))),
           Over(0, S * H, LAMBDA i : pf_deltanet_gated_rmsnorm(l, Hi(i, H), Lo(i, H), z(Hi(i, H), Lo(i, H)))),
           OutProject(0, S, l, "dn_out_buf", "pf_dn", H * DN_SPLITS, "proj_buf2")>> \o bw_tail(l, S, tc)

bw_fa(l, S, tc) ==
  PfNormRows(In(l), S) \o bw_quantize(In(l), S, tc)
  \o bw_product(In(l), FA_QKV, "pf_qkv", l, FA_QKV, S, tc)
  \o <<pf_qk_norm_rope(0, TRUE, l, S, MAX_SEQ), pf_causal_attn(0, TRUE, l, S),
       OutProject(0, S, l, "dn_out_buf", "pf_attn", FA_NUM_Q_HEADS, "proj_buf2")>> \o bw_tail(l, S, tc)

prefill_bf16_nvfp4_lm(S, tc) ==
  <<Over(0, S, pf_embed)>>
  \o PfLayers([l \in 1 .. NUM_LAYERS |-> bw_dn(l, S, tc)], [l \in 1 .. NUM_LAYERS |-> bw_fa(l, S, tc)]) \o pf_lm(0, S)

---------------------------------------------------------------------------
\* prefill_megakernel.cu prefill_megakernel, a cooperative launch of nb blocks.
prefill_megakernel(nb, S) ==
  LET H == DN_NUM_HEADS
      row(step(_)) == <<Over(nb, S, step)>>
      gate(l, s) == Cells("proj_buf", INTERMEDIATE_SIZE, "pf_gate", l, {s}, All(INTERMEDIATE_SIZE))
      up(l, s) == Cells("proj_buf2", INTERMEDIATE_SIZE, "pf_up", l, {s}, All(INTERMEDIATE_SIZE))
      mlp(l, s) == Cells("mlp_buf", INTERMEDIATE_SIZE, "pf_mlp", l, {s}, All(INTERMEDIATE_SIZE))
      down(l) == LET left(s) == mlp(l, s)
                     right(s, cols) == Cells("proj_buf", HIDDEN_SIZE, "pf_out", Out(l), {s}, cols)
                 IN  Over(nb, 2 * S, LAMBDA i : Step(left(i \div 2), right(i \div 2, TileCols(HIDDEN_SIZE, i))))
      tail(l) == row(LAMBDA s : pf_add_residual("proj_buf", In(l), s))
        \o row(LAMBDA s : pf_rmsnorm(Mid(l), s))
        \o <<Both(Project(nb, S, Mid(l), "proj_buf", INTERMEDIATE_SIZE, "pf_gate", l, 0, INTERMEDIATE_SIZE),
                  Project(nb, S, Mid(l), "proj_buf2", INTERMEDIATE_SIZE, "pf_up", l, 0, INTERMEDIATE_SIZE))>>
        \o row(LAMBDA s : Step(gate(l, s) \cup up(l, s), mlp(l, s)))
        \o <<down(l)>> \o row(LAMBDA s : pf_add_residual("proj_buf", Mid(l), s))
      dn(l) == row(LAMBDA s : pf_rmsnorm(In(l), s))
        \o <<Both(Both(Project(nb, S, In(l), "proj_buf", DN_CONV_CHANNELS, "pf_dnqkv", l, 0, DN_CONV_CHANNELS),
                       Project(nb, S, In(l), "proj_buf2", H, "pf_z", l, 0, H)),
                  Both(Project(nb, S, In(l), "beta_buf", H, "pf_beta", l, 0, H),
                       Project(nb, S, In(l), "alpha_buf", H, "pf_alpha", l, 0, H))),
             [b \in All(nb) |-> pf_recurrence(b, l, S)],
             OutProject(nb, S, l, "dn_out_buf", "pf_dn", H * DN_SPLITS, "proj_buf")>> \o tail(l)
      fa(l) == row(LAMBDA s : pf_rmsnorm(In(l), s))
        \o <<Both(Project(nb, S, In(l), "proj_buf", 2 * FA_NUM_Q_HEADS, "pf_q", l, 0, 2 * FA_NUM_Q_HEADS),
                  Both(Project(nb, S, In(l), "proj_buf2", FA_NUM_KV_HEADS, "pf_k", l, 0, FA_NUM_KV_HEADS),
                       Project(nb, S, In(l), "attn_buf", FA_NUM_KV_HEADS, "pf_v", l, 0, FA_NUM_KV_HEADS))),
             pf_qk_norm_rope(nb, FALSE, l, S, MAX_SEQ), pf_causal_attn(nb, FALSE, l, S),
             OutProject(nb, S, l, "dn_out_buf", "pf_attn", FA_NUM_Q_HEADS, "proj_buf")>> \o tail(l)
  IN  row(pf_embed) \o PfLayers([l \in 1 .. NUM_LAYERS |-> dn(l)], [l \in 1 .. NUM_LAYERS |-> fa(l)]) \o pf_lm(nb, S)
=============================================================================
