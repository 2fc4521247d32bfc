------------------------------ MODULE GridSync ------------------------------
(***************************************************************************)
(* The grid barrier of the fused decode kernel (megakernel/kernel.cu,      *)
(* struct AtomicGridSync) and the way the GPU runs the blocks of a launch. *)
(*                                                                         *)
(* A launch has nblocks blocks; a block is one process, because a barrier  *)
(* is entered and left by all its threads together (__syncthreads around   *)
(* the code of thread 0).  A block runs nphases pieces of code with a call *)
(* of sync() between two of them.  Blocks become resident in any order and *)
(* at most Slots at a time, and a resident block keeps its slot until it   *)
(* exits: a launch of more blocks than slots can never pass its first      *)
(* barrier.                                                                *)
(***************************************************************************)
EXTENDS Integers, FiniteSets

CONSTANTS MaxBlocks,  \* the largest grid an instance launches
          Slots       \* blocks the device keeps resident (occupancy times multiprocessors)

ASSUME GridSyncAssumption == MaxBlocks \in Nat \ {0} /\ Slots \in Nat \ {0}

Blocks == 0 .. MaxBlocks - 1

VARIABLES
  nblocks,     \* gridDim.x of the launch
  nphases,     \* calls of sync() in the kernel, plus one
  counter,     \* *barrier_counter
  generation,  \* *barrier_generation
  bpc,         \* [Blocks -> where the block is]
  ph,          \* [Blocks -> the piece of code it runs, from 1]
  local_gen    \* [Blocks -> AtomicGridSync::local_gen]

syncVars == <<nblocks, nphases, counter, generation, bpc, ph, local_gen>>

Grid == 0 .. nblocks - 1

Resident == {b \in Grid : bpc[b] \notin {"queued", "exit"}}

SyncTypeOK ==
  /\ nblocks \in 0 .. MaxBlocks
  /\ nphases \in Nat
  /\ counter \in 0 .. MaxBlocks
  /\ generation \in Nat
  /\ bpc \in [Blocks -> {"queued", "run", "last", "bump", "spin", "exit"}]
  /\ ph \in [Blocks -> Nat]
  /\ local_gen \in [Blocks -> Nat]

SyncInit ==
  /\ nblocks = 0 /\ nphases = 0
  /\ counter = 0 /\ generation = 0
  /\ bpc = [b \in Blocks |-> "exit"]
  /\ ph = [b \in Blocks |-> 1]
  /\ local_gen = [b \in Blocks |-> 0]

\* The stream runs a kernel only when the previous one is over.
LaunchOver == \A b \in Grid : bpc[b] = "exit"

\* launch_decode's two cudaMemsetAsync and the kernel launch: the counters of
\* the barrier are cleared before every launch, and each block builds its
\* AtomicGridSync with local_gen = 0.
GridLaunch(nb, np) ==
  /\ LaunchOver
  /\ nblocks' = nb /\ nphases' = np
  /\ counter' = 0 /\ generation' = 0
  /\ bpc' = [b \in Blocks |-> IF b < nb THEN "queued" ELSE "exit"]
  /\ ph' = [b \in Blocks |-> 1]
  /\ local_gen' = [b \in Blocks |-> 0]

\* The device makes a queued block resident.
BlockStart(b) ==
  /\ b \in Grid /\ bpc[b] = "queued"
  /\ Cardinality(Resident) < Slots
  /\ bpc' = [bpc EXCEPT ![b] = "run"]
  /\ UNCHANGED <<nblocks, nphases, counter, generation, ph, local_gen>>

\* Mutant: the last arrival is taken to be the one that reads nblocks.
SyncArrive_OffByOne(b) ==
  /\ b \in Grid /\ bpc[b] = "run" /\ ph[b] < nphases
  /\ counter' = counter + 1
  /\ bpc' = [bpc EXCEPT ![b] = IF counter = nblocks - 2 THEN "last" ELSE "spin"]
  /\ UNCHANGED <<nblocks, nphases, generation, ph, local_gen>>

\* sync(), first half: atomicAdd(counter, 1) tells the last block to arrive.
SyncArrive(b) ==
  /\ b \in Grid /\ bpc[b] = "run" /\ ph[b] < nphases
  /\ counter' = counter + 1
  /\ bpc' = [bpc EXCEPT ![b] = IF counter = nblocks - 1 THEN "last" ELSE "spin"]
  /\ UNCHANGED <<nblocks, nphases, generation, ph, local_gen>>

\* Mutant: the last block opens the barrier without clearing the counter.
SyncReset_NoClear(b) ==
  /\ b \in Grid /\ bpc[b] = "last"
  /\ bpc' = [bpc EXCEPT ![b] = "bump"]
  /\ UNCHANGED <<nblocks, nphases, counter, generation, ph, local_gen>>

\* The last block: *counter = 0, ordered before the next line by a fence.
SyncReset(b) ==
  /\ b \in Grid /\ bpc[b] = "last"
  /\ counter' = 0
  /\ bpc' = [bpc EXCEPT ![b] = "bump"]
  /\ UNCHANGED <<nblocks, nphases, generation, ph, local_gen>>

\* The last block: atomicAdd(generation, 1), and local_gen = my_gen + 1.
SyncRelease(b) ==
  /\ b \in Grid /\ bpc[b] = "bump"
  /\ generation' = generation + 1
  /\ local_gen' = [local_gen EXCEPT ![b] = @ + 1]
  /\ ph' = [ph EXCEPT ![b] = @ + 1]
  /\ bpc' = [bpc EXCEPT ![b] = "run"]
  /\ UNCHANGED <<nblocks, nphases, counter>>

\* The others: while (*vgen <= my_gen) {}, then local_gen = my_gen + 1.
SyncSpin(b) ==
  /\ b \in Grid /\ bpc[b] = "spin"
  /\ generation > local_gen[b]
  /\ local_gen' = [local_gen EXCEPT ![b] = @ + 1]
  /\ ph' = [ph EXCEPT ![b] = @ + 1]
  /\ bpc' = [bpc EXCEPT ![b] = "run"]
  /\ UNCHANGED <<nblocks, nphases, counter, generation>>

\* A block returns from the kernel and frees its slot.
BlockExit(b) ==
  /\ b \in Grid /\ bpc[b] = "run" /\ ph[b] = nphases
  /\ bpc' = [bpc EXCEPT ![b] = "exit"]
  /\ UNCHANGED <<nblocks, nphases, counter, generation, ph, local_gen>>

BlockStep(b) ==
  \/ BlockStart(b) \/ SyncArrive(b) \/ SyncReset(b)
  \/ SyncRelease(b) \/ SyncSpin(b) \/ BlockExit(b)

SyncNext ==
  \/ \E nb \in 1 .. MaxBlocks, np \in Nat \ {0} : GridLaunch(nb, np)
  \/ \E b \in Blocks : BlockStep(b)

SyncSpec == SyncInit /\ [][SyncNext]_syncVars

---------------------------------------------------------------------------
(* A block that works on piece p of the kernel never overlaps with one     *)
(* that has not finished piece p - 1, nor with one that is already past p: *)
(* whatever a block stored before a sync() is there for every block after  *)
(* it.                                                                     *)
Working(b) == b \in Grid /\ bpc[b] = "run"

PhasesSeparated ==
  \A b1, b2 \in Blocks :
     Working(b1) /\ b2 \in Grid =>
       \/ ph[b2] = ph[b1]
       \/ ph[b2] = ph[b1] - 1 /\ bpc[b2] = "spin"
=============================================================================
