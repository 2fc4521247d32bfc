----------------------------- MODULE Megakernel -----------------------------
(***************************************************************************)
(* The decoder of megakernel/ end to end: the host calls of model.py and   *)
(* model_nvfp4.py, the launches they put on one stream, and the blocks of  *)
(* each launch running the programs of DecodeKernel and PrefillKernels     *)
(* side by side over one global memory.                                    *)
(*                                                                         *)
(* What a word holds is a tag: the phase of the current call that wrote    *)
(* the item, or the decoder position an item of the model state dates      *)
(* from.  A block loads everything a step reads, then stores everything it *)
(* writes; blocks interleave between the two.  Memory is sequentially      *)
(* consistent (the fences of the code are taken to give that).             *)
(***************************************************************************)
EXTENDS GridSync, PrefillKernels, TLC

CONSTANTS NUM_BLOCKS,     \* blocks launch_decode asks for by default
          LM_NUM_BLOCKS,  \* blocks of the bf16 LM head
          CoopBlocks,     \* grid sizes the cooperative launches may get
          Prompts,        \* prompt lengths
          Overrides       \* arguments of set_decode_blocks_override

ASSUME MegakernelAssumption ==
  /\ NUM_BLOCKS \in 1 .. MaxBlocks /\ LM_NUM_BLOCKS \in 1 .. MaxBlocks
  /\ CoopBlocks \subseteq DN_NUM_HEADS .. Slots
  /\ Prompts \subseteq 1 .. max_seq_len /\ Overrides \subseteq Nat
  /\ DN_NUM_HEADS <= Slots /\ NUM_BLOCKS >= DN_NUM_HEADS

VARIABLES
  position,  \* self._position
  override,  \* g_decode_blocks_override
  call,      \* the host call whose kernels are on the stream, or Idle
  kernels,   \* how many of its kernels have been launched
  hs,        \* [Blocks -> half steps done in the current phase]
  obs,       \* [Blocks -> what the current step loaded: pairs of item and tag]
  mem,       \* global memory: written addresses -> tag
  ref        \* what each item of the model state holds in the sequential program

hostVars == <<position, override>>
vars == <<syncVars, position, override, call, kernels, hs, obs, mem, ref>>

---------------------------------------------------------------------------
\* torch_bindings decode_nvfp4 copies the input token into the token buffer first.
copy_token == <<[b \in All(1) |-> <<Step({}, OutToken)>>]>>

\* The kernels of a call <<name, blocks or variant, position or length>>, each with the way its
\* phases are separated, its grid and its phases.
Launches(name, v, n) ==
  CASE name = "step" ->
         <<[kind |-> "atomic", nb |-> v, phases |-> decode_kernel(v, n)],
           [kind |-> "count", nb |-> LM_NUM_BLOCKS, phases |-> lm_head_kernel(LM_NUM_BLOCKS)]>>
    [] name = "prefill" -> <<[kind |-> "stream", nb |-> MaxBlocks, phases |-> prefill_bf16(n)]>>
    [] name = "nvprefill" ->
         <<[kind |-> "stream", nb |-> MaxBlocks, phases |-> prefill_bf16_nvfp4_lm(n, v = 1)]>>
    [] name = "mega" -> <<[kind |-> "coop", nb |-> v, phases |-> prefill_megakernel(v, n)]>>
    [] name \in {"nvstep", "nvnext", "nvraw"} ->
         (IF name = "nvstep" THEN <<[kind |-> "stream", nb |-> 1, phases |-> copy_token]>> ELSE <<>>)
         \o <<[kind |-> "coop", nb |-> v, phases |-> IF name = "nvraw" THEN prefill_kernel_nvfp4(v, n)
                                                     ELSE decode_kernel_nvfp4(v, n)],
              [kind |-> "stream", nb |-> LM_NUM_BLOCKS, phases |-> lm_head_nvfp4(LM_NUM_BLOCKS)]>>

Calls ==
  ({"step"} \X (1 .. MaxBlocks) \X All(max_seq_len))
  \cup ({"nvstep", "nvnext"} \X CoopBlocks \X All(max_seq_len))
  \cup ({"prefill"} \X {0} \X Prompts) \cup ({"nvprefill"} \X {0, 1} \X Prompts)
  \cup ({"mega", "nvraw"} \X CoopBlocks \X Prompts)

Idle == <<"idle", 0, 0>>

\* The kernels ks with what each block does in each phase.  (A function merged with the empty one,
\* f @@ <<>>, is evaluated for all its arguments; a value bound to a set of one, once.)
Evaluated(ks) ==
  [i \in DOMAIN ks |->
     [ks[i] EXCEPT !.phases =
        [p \in DOMAIN @ |->
           [b \in Blocks |-> IF b \in DOMAIN ks[i].phases[p] THEN ks[i].phases[p][b] ELSE <<>>] @@ <<>>]
        @@ <<>>]] @@ <<>>

Program ==
  [<<name, v, n>> \in Calls |->
     CHOOSE k \in {Evaluated(ks) : ks \in {Launches(name, v, n)}} : TRUE] @@ <<>>

\* The phases of the first n kernels of a call, one after the other.
PhasesUpTo[c \in Calls, n \in 0 .. 3] ==
  IF n = 0 THEN <<>> ELSE PhasesUpTo[c, n - 1] \o Program[c][n].phases

PhasesOf(c) == PhasesUpTo[c, Len(Program[c])]

\* The items a call means to write in each phase: those of the same call on a grid that has a
\* block for every head.
Reference(c) == IF c[1] = "step" THEN <<c[1], MaxBlocks, c[3]>> ELSE c

Writes(phase) == {a[2] : a \in UNION {step.w : step \in UNION {Range(phase[b]) : b \in Blocks}}}

WritesOf ==
  [c \in Calls |->
     CHOOSE w \in {[p \in DOMAIN ps |-> Writes(ps[p])] @@ <<>> : ps \in {PhasesOf(Reference(c))}} : TRUE]
  @@ <<>>

\* The last phase before p that writes each item, for the items written before p.
LastWriterBefore[c \in Calls, p \in Nat \ {0}] ==
  IF p = 1 THEN <<>> ELSE [item \in WritesOf[c][p - 1] |-> p - 1] @@ LastWriterBefore[c, p - 1]

LastWriter ==
  [c \in Calls |-> [p \in 1 .. Len(WritesOf[c]) + 1 |-> LastWriterBefore[c, p]] @@ <<>>] @@ <<>>

---------------------------------------------------------------------------
ModelState == {"k", "v", "state", "conv", "seen", "token"}
Zeroed == ModelState \ {"token"}
CacheBuffers == {"fa_k_cache", "fa_v_cache", "dn_states", "conv_bufs", "seen_token_mask"}

Now(p, item) == <<"now", p, item>>
Kept(n, item) == <<"kept", n, item>>
Zero == <<"zero", 0, <<>>>>
Unset == <<"unset", 0, <<>>>>

Word(a) == IF a \in DOMAIN mem THEN mem[a] ELSE Zero
RefOf(item) == IF item[1] \notin ModelState THEN Unset
               ELSE IF item \in DOMAIN ref THEN ref[item] ELSE Zero

Current == Program[call][kernels]
\* Phases of the call before its current kernel.
Base == Len(PhasesUpTo[call, kernels - 1])

StepsOf(b) == Current.phases[ph[b]][b]

StepsDone(b) == hs[b] = 2 * Len(StepsOf(b))

Init ==
  /\ SyncInit
  /\ position = 0 /\ override = 0
  /\ call = Idle /\ kernels = 0
  /\ hs = [b \in Blocks |-> 0] /\ obs = [b \in Blocks |-> {}]
  /\ mem = <<>> /\ ref = <<>>

Begin(c) ==
  /\ call = Idle
  /\ call' = c /\ kernels' = 0
  /\ UNCHANGED <<syncVars, hs, obs>>

\* Mutant: the override is not limited to the blocks that fit on the device.
decode_blocks_Unclamped == IF override > 0 THEN override ELSE Min({NUM_BLOCKS, Slots})

\* launch_decode: the default or the override, clamped to the blocks the device keeps resident.
decode_blocks == Min({IF override > 0 THEN override ELSE NUM_BLOCKS, Slots})

\* Decoder.step of model.py refuses a position past the cache.
StepBf16 ==
  /\ position < max_seq_len
  /\ Begin(<<"step", decode_blocks, position>>)
  /\ UNCHANGED <<hostVars, mem, ref>>

\* step of the nvfp4 backend, and one more step of a step_many, whose input is the token the
\* previous step left on the device.  Neither looks at the position: the caller keeps it within
\* the cache.
StepNvfp4 ==
  /\ position < max_seq_len
  /\ \E nb \in CoopBlocks :
       \/ Begin(<<"nvstep", nb, position>>)
       \/ position > 0 /\ Begin(<<"nvnext", nb, position>>)
  /\ UNCHANGED <<hostVars, mem, ref>>

\* Mutant: reset leaves the recurrent state as it is.
ZeroCaches_KeepsState ==
  /\ mem' = [a \in {a \in DOMAIN mem : a[1] \notin CacheBuffers \ {"dn_states"}} |-> mem[a]]
  /\ ref' = [i \in {i \in DOMAIN ref : i[1] \notin Zeroed} |-> ref[i]]

\* reset: the caches, the recurrent states, the windows and the seen tokens.
ZeroCaches ==
  /\ mem' = [a \in {a \in DOMAIN mem : a[1] \notin CacheBuffers} |-> mem[a]]
  /\ ref' = [i \in {i \in DOMAIN ref : i[1] \notin Zeroed} |-> ref[i]]

Reset ==
  /\ call = Idle
  /\ position' = 0 /\ ZeroCaches
  /\ UNCHANGED <<syncVars, override, call, kernels, hs, obs>>

\* A reset and a prompt through one of the prefill paths.
Prefill ==
  /\ \E S \in Prompts :
       \/ \E name \in {"prefill", "nvprefill"}, v \in {0, 1} :
            (name = "prefill" => v = 0) /\ Begin(<<name, v, S>>)
       \/ \E name \in {"mega", "nvraw"}, nb \in CoopBlocks : Begin(<<name, nb, S>>)
  /\ position' = 0 /\ ZeroCaches
  /\ UNCHANGED override

SetBlocks ==
  /\ call = Idle
  /\ override' \in Overrides \ {override}
  /\ UNCHANGED <<syncVars, position, call, kernels, hs, obs, mem, ref>>

---------------------------------------------------------------------------
\* The next kernel of the call.  The blocks of a cooperative launch, and those of the small
\* kernels of the streamed paths, are taken to be resident from the start.
KernelLaunch ==
  /\ call # Idle /\ kernels < Len(Program[call]) /\ LaunchOver
  /\ kernels' = kernels + 1
  /\ LET k == Program[call][kernels + 1]
     IN  /\ nblocks' = k.nb /\ nphases' = Len(k.phases)
         /\ counter' = 0 /\ generation' = 0
         /\ bpc' = [b \in Blocks |-> IF b >= k.nb THEN "exit"
                                     ELSE IF k.kind \in {"atomic", "count"} THEN "queued" ELSE "run"]
         /\ ph' = [b \in Blocks |-> 1]
         /\ local_gen' = [b \in Blocks |-> 0]
  /\ hs' = [b \in Blocks |-> 0]
  /\ UNCHANGED <<hostVars, call, obs, mem, ref>>

Running(b) == call # Idle /\ kernels > 0 /\ b \in Grid /\ bpc[b] = "run"

\* A block loads what its next step reads.
Load(b) ==
  /\ Running(b) /\ ~StepsDone(b) /\ hs[b] % 2 = 0
  /\ hs' = [hs EXCEPT ![b] = @ + 1]
  /\ obs' = [obs EXCEPT ![b] = {<<a[2], Word(a[1])>> : a \in StepsOf(b)[hs[b] \div 2 + 1].r}]
  /\ UNCHANGED <<syncVars, hostVars, call, kernels, mem, ref>>

\* ... and stores what it computed.
Store(b) ==
  /\ Running(b) /\ hs[b] % 2 = 1
  /\ hs' = [hs EXCEPT ![b] = @ + 1]
  /\ obs' = [obs EXCEPT ![b] = {}]
  /\ LET w == StepsOf(b)[hs[b] \div 2 + 1].w
         new == [a \in {x[1] : x \in w} |->
                   LET x == CHOOSE x \in w : x[1] = a IN Now(Base + ph[b], x[2])]
     IN  mem' = new @@ mem
  /\ UNCHANGED <<syncVars, hostVars, call, kernels, ref>>

RestVars == <<hostVars, call, kernels, obs, mem, ref>>

\* A block of the fused decode kernel, at a barrier or done.
AtomicStep(b) ==
  /\ call # Idle /\ kernels > 0
  /\ Current.kind = "atomic"
  /\ \/ BlockStart(b) /\ UNCHANGED hs
     \/ StepsDone(b) /\ (SyncArrive(b) \/ BlockExit(b)) /\ UNCHANGED hs
     \/ SyncReset(b) /\ UNCHANGED hs
     \/ (SyncRelease(b) \/ SyncSpin(b)) /\ hs' = [hs EXCEPT ![b] = 0]
  /\ UNCHANGED RestVars

\* lm_head_kernel: block 0 spins until every block has posted.
LmWait(b) == bpc[b] = "spin" /\ counter >= nblocks

\* A block of lm_head_kernel: it posts its slice and returns; block 0 stays to reduce.
CountStep(b) ==
  /\ call # Idle /\ kernels > 0
  /\ Current.kind = "count"
  /\ \/ BlockStart(b) /\ UNCHANGED hs
     \/ /\ Running(b) /\ ph[b] = 1 /\ StepsDone(b)
        /\ counter' = counter + 1
        /\ bpc' = [bpc EXCEPT ![b] = IF b = 0 THEN "spin" ELSE "exit"]
        /\ UNCHANGED <<nblocks, nphases, generation, ph, local_gen, hs>>
     \/ /\ b \in Grid /\ LmWait(b)
        /\ bpc' = [bpc EXCEPT ![b] = "run"] /\ ph' = [ph EXCEPT ![b] = 2]
        /\ hs' = [hs EXCEPT ![b] = 0]
        /\ UNCHANGED <<nblocks, nphases, counter, generation, local_gen>>
     \/ StepsDone(b) /\ BlockExit(b) /\ UNCHANGED hs
  /\ UNCHANGED RestVars

\* grid.sync() of a cooperative launch, or the end of a small kernel on the stream (external):
\* all blocks go on together once all are done.
PhaseEnd ==
  /\ call # Idle /\ kernels > 0
  /\ Current.kind \in {"coop", "stream"}
  /\ ~LaunchOver
  /\ \A b \in Grid : StepsDone(b)
  /\ IF ph[0] < nphases
     THEN /\ ph' = [b \in Blocks |-> IF b \in Grid THEN ph[b] + 1 ELSE ph[b]]
          /\ hs' = [b \in Blocks |-> 0]
          /\ UNCHANGED bpc
     ELSE /\ bpc' = [b \in Blocks |-> "exit"]
          /\ UNCHANGED <<ph, hs>>
  /\ UNCHANGED <<nblocks, nphases, counter, generation, local_gen, RestVars>>

\* The position after a call.
NextPosition(c) == IF c[1] \in {"step", "nvstep", "nvnext"} THEN c[3] + 1 ELSE c[3]

\* The call returns (the host reads the token).  Scratch is not carried over; the items of the
\* model state take the new position as their version, in the reference whenever the program
\* writes them, in memory when the last writer wrote last.
CallReturns ==
  /\ call # Idle /\ kernels = Len(Program[call]) /\ LaunchOver
  /\ \E writers \in {LastWriter[call]} :
     LET last == writers[Len(writers)]
         np == NextPosition(call)
         written == {i \in DOMAIN last : i[1] \in ModelState}
         settle(t) == IF t[1] # "now" THEN t
                      ELSE IF last[t[3]] = t[2] THEN Kept(np, t[3])
                      ELSE <<"torn", 0, t[3]>>
         lives(t) == IF t[1] = "now" THEN t[3][1] \in ModelState ELSE TRUE
     IN  /\ position' = np
         /\ ref' = [i \in written |-> Kept(np, i)] @@ ref
         /\ mem' = [a \in {a \in DOMAIN mem : lives(mem[a])} |-> settle(mem[a])]
  /\ call' = Idle /\ kernels' = 0
  /\ UNCHANGED <<syncVars, override, hs, obs>>

BlockNext(b) == Load(b) \/ Store(b) \/ AtomicStep(b) \/ CountStep(b)

Host == StepBf16 \/ StepNvfp4 \/ Reset \/ Prefill \/ SetBlocks

Device == KernelLaunch \/ PhaseEnd \/ CallReturns \/ \E b \in Grid : BlockNext(b)

Next == Host \/ Device

\* The device never stops working on a launch, and every resident block makes progress.
Fairness ==
  /\ WF_vars(KernelLaunch) /\ WF_vars(PhaseEnd) /\ WF_vars(CallReturns)
  /\ \A b \in Blocks : WF_vars(BlockNext(b))

Spec == Init /\ [][Next]_vars /\ Fairness

---------------------------------------------------------------------------
TypeOK ==
  /\ SyncTypeOK
  /\ position \in 0 .. max_seq_len /\ override \in Overrides \cup {0}
  /\ call \in Calls \cup {Idle} /\ kernels \in 0 .. 3
  /\ hs \in [Blocks -> Nat]

\* The barrier of the fused decode kernel keeps its phases apart.
BarrierSeparates ==
  call # Idle /\ kernels > 0 /\ Current.kind = "atomic" => PhasesSeparated

\* Block b read in an item what the sequential program has there: what an earlier step of this
\* block wrote in this phase, else what the last phase before wrote, else the model state.
SeesProgram(b, o) ==
  \E p \in {Base + ph[b]}, item \in {o[1]} :
  \E last \in {LastWriter[call][p]} :
     o[2] = IF item \in UNION {{a[2] : a \in StepsOf(b)[i].w} : i \in 1 .. hs[b] \div 2} THEN Now(p, item)
            ELSE IF item \in DOMAIN last THEN Now(last[item], item) ELSE RefOf(item)

\* Whatever the interleaving of the blocks, whatever the grid and the path the prompt took, a
\* block computes with the values the sequential program would have: no race within a phase, no
\* buffer reused before its last reader, no row, head or cache position that nobody or the wrong
\* block wrote.  The attention scratch of kernel.cu, which the blocks share, is the subject of
\* AttentionScratchPrivate.
LoadsSequential ==
  \A b \in Blocks : \A o \in obs[b] :
     (call[1] = "step" /\ o[1][1] = "partial") \/ SeesProgram(b, o)

\* The same for the partial attention sums of kernel.cu full_attention_layer.
AttentionScratchPrivate ==
  \A b \in Blocks : \A o \in obs[b] : SeesProgram(b, o)

\* When a call returns, the caches, states and windows hold what the sequential program leaves.
StateAgrees ==
  call = Idle =>
    /\ \A a \in DOMAIN mem : mem[a][1] = "kept" /\ mem[a] = RefOf(mem[a][3])
    /\ \A i \in DOMAIN ref : \E a \in DOMAIN mem : mem[a] = ref[i]

\* Words of the buffers model.py and model_nvfp4.py allocate for a prompt of S rows.
Within(a, S) ==
  CASE a[1] \in {"fa_k_cache", "fa_v_cache"} ->
         a[2] < Cardinality({l \in 1 .. NUM_LAYERS : LAYER_TYPE[l] = 1}) * FA_NUM_KV_HEADS * max_seq_len
    [] a[1] = "dn_pre_qkv" -> a[2] < S * DN_CONV_CHANNELS
    [] a[1] = "mlp_buf" -> a[2] < S * INTERMEDIATE_SIZE
    [] OTHER -> TRUE

\* No kernel stores outside its buffer.
StoresInBounds ==
  call # Idle => \A a \in DOMAIN mem : mem[a][1] = "now" => Within(a, call[3])

\* Every call returns: no grid waits for a block that cannot become resident.
CallsReturn == (call # Idle) ~> (call = Idle)

\* The barrier orders the accesses of different phases.
OrderInv == TypeOK /\ BarrierSeparates

\* Every load sees what the sequential program would, every store is within its buffer.
MemoryInv == LoadsSequential /\ StoresInBounds

=============================================================================
