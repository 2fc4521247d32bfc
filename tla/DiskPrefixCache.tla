--------------------------- MODULE DiskPrefixCache ---------------------------
(***************************************************************************)
(* The disk prefix cache (dflash/src/server/disk_prefix_cache.cpp), as the *)
(* worker uses it around each generation, over restarts and crashes of the *)
(* process, on a qwen35 backend. The in-memory prefix cache in front of it *)
(* has one slot (cap_ = 1); module PrefixCache has the general one.        *)
(*                                                                         *)
(* A prompt is a sequence of turns, each of which counts as one token, and *)
(* a boundary is the end of a turn but the last. A hash is the sequence it *)
(* is taken of. A snapshot, and the file it is written to, is the sequence *)
(* its KV state was computed from; its size is its length. <<>> is a slot  *)
(* without a snapshot. An eviction score is left out: any entry that is    *)
(* not protected may be the lowest.                                        *)
(*                                                                         *)
(* Operators named Action_Fault are faulty variants of an action, kept to  *)
(* test that the properties notice the fault.                              *)
(***************************************************************************)
EXTENDS Integers, Sequences, FiniteSets, SequencesExt, FiniteSetsExt, Tally

CONSTANTS
  Turns,       \* the texts of a turn
  Garbage,     \* what a torn file holds
  Prompts,     \* the prompts clients may send
  Replies,     \* what the model may generate
  Layouts,     \* the layouts of the models the server may be started with
  Budget,      \* budget_bytes
  MinTokens,   \* min_tokens
  Interval,    \* continued_interval, 0 for no continued checkpoints
  ColdMax,     \* cold_max_tokens
  Failures,    \* whether prefill or the allocation of a snapshot may fail
  Crashes      \* bound: crashes, and files written badly

ASSUME TurnAssumption == Garbage \notin Turns
ASSUME PromptAssumption == Prompts \cup Replies \subseteq Seq(Turns) \ {<<>>}
ASSUME SizeAssumption == {Budget, MinTokens, Interval, ColdMax, Crashes} \subseteq Nat /\ Budget > 0

NoLayout == "none"

ASSUME LayoutAssumption == NoLayout \notin Layouts

VARIABLES
  files,    \* the .dkv files of all layouts
  model,    \* the layout of the running model
  cache,    \* the DiskPrefixCache object
  mem,      \* the in-memory entry's key, its slot, and slot_tokens_
  staging,  \* the snapshot in DISK_STAGING_SLOT
  pc,       \* where the worker is
  req,      \* the request: prompt, restored from, snap_cut, outcome, final KV
  loaded,   \* the file the restore in progress was read from (history)
  faults,   \* "unsaved", "stale" once they happened (history)
  crashes   \* crashes and bad writes so far

vars == <<files, model, cache, mem, staging, pc, req, loaded, faults, crashes>>

NoReq == [prompt |-> <<>>, src |-> "none", snap |-> 0, out |-> "none", kv |-> <<>>, gen |-> <<>>]
NoMem == [key |-> <<>>, slot |-> <<>>, tokens |-> <<>>]

\* hash_prefix(ids, n)
Key(p, n) == SubSeq(p, 1, n)

Boundaries(p) == 1..(Len(p) - 1)

\* The size of a file, as stat() tells it.
Bytes(f) == IF f.state = "ok" THEN Len(f.kv) ELSE IF f.state = "torn" THEN 1 ELSE 0

TotalOf(entries) == Tally([e \in entries |-> e.size], entries)

KeysOf(entries) == {e.key : e \in entries}

-----------------------------------------------------------------------------
(* The DiskPrefixCache object *)

\* scan_directory(): a file whose header cannot be read is passed over.
Scanned(c, l) ==
  LET es == {[key |-> f.key, size |-> Bytes(f), recent |-> FALSE] :
               f \in {g \in files : g.layout = l /\ g.state # "headless"}}
  IN [c EXCEPT !.entries = es, !.total = TotalOf(es)]

learn_layout_Trusting(c, kv) ==
  IF kv = <<>> \/ c.known THEN c
  ELSE Scanned([c EXCEPT !.known = TRUE, !.from_disk = FALSE, !.id = model], model)

\* learn_layout(slot): the layout learnt from disk is replaced by the model's own
\* the first time there is a snapshot to take it from.
learn_layout(c, kv) ==
  IF kv = <<>> \/ (c.known /\ ~c.from_disk) THEN c
  ELSE Scanned([c EXCEPT !.known = TRUE, !.from_disk = FALSE, !.id = model], model)

\* The layouts try_learn_from_disk() may find first, in whatever order the
\* directory is read.
OnDisk == {f.layout : f \in {g \in files : g.state # "headless"}}

Started(l) ==
  LET c == [known |-> FALSE, from_disk |-> FALSE, id |-> NoLayout, entries |-> {},
            total |-> 0, last |-> 0]
  IN IF l = NoLayout THEN c
     ELSE Scanned([c EXCEPT !.known = TRUE, !.from_disk = TRUE, !.id = l], l)

Evictions_Once(entries, total) ==
  LET old == {e \in entries : ~e.recent}
  IN IF total <= Budget \/ old = {} THEN {{}} ELSE {{e} : e \in old}

\* enforce_budget(): the sets of entries its loop may evict. It stops at the
\* budget, or when only entries younger than a minute are left.
Evictions(entries, total) ==
  LET old == {e \in entries : ~e.recent}
  IN {X \in SUBSET old :
        /\ total - TotalOf(X) <= Budget \/ X = old
        /\ X # {} => \E e \in X : total - TotalOf(X \ {e}) > Budget}

Refused(c) == [ok |-> FALSE, c |-> c, files |-> files, bad |-> 0]

\* write_file(): a write error that only shows when the file is closed goes
\* unnoticed, and the file is torn.
write_file(c, kv, key, st) ==
  [layout |-> c.id, key |-> key, by |-> model, state |-> st, dirty |-> TRUE,
   kv |-> IF st = "ok" THEN kv ELSE <<Garbage>>]

\* The index with an entry more, and without the evicted ones.
Entered(c, e, X) ==
  [c EXCEPT !.entries = (@ \cup {e}) \ X, !.total = (@ + e.size) - TotalOf(X)]

\* A file that was written takes the place of one of that name, enters the index,
\* and others are evicted for it.
Written(c, kv, key, st) ==
  LET f == write_file(c, kv, key, st)
      e == [key |-> key, size |-> Bytes(f), recent |-> TRUE]
  IN {[ok    |-> TRUE,
       c     |-> Entered(c, e, X),
       files |-> {g \in files : g.layout # c.id \/ g.key \notin {key} \cup KeysOf(X)} \cup {f},
       bad   |-> IF st = "ok" THEN 0 ELSE 1] :
         X \in Evictions(c.entries \cup {e}, c.total + e.size)}

\* The ways save(slot, key) may end, kv being what the slot holds.
Saves(c, kv, key) ==
  CASE kv = <<>> \/ Len(key) < MinTokens -> {Refused(c)}
    [] key \in KeysOf(c.entries) -> {[Refused(c) EXCEPT !.ok = TRUE]}
    [] Len(kv) > Budget -> {Refused(c)}
    [] OTHER -> {Refused(c)} \cup Written(c, kv, key, "ok") \cup
                (IF crashes < Crashes THEN Written(c, kv, key, "torn") ELSE {})

-----------------------------------------------------------------------------
(* The process *)

Init ==
  /\ files = {}
  /\ model \in Layouts
  /\ cache = Started(NoLayout)
  /\ mem = NoMem
  /\ staging = <<>>
  /\ pc = "idle"
  /\ req = NoReq
  /\ loaded = {}
  /\ faults = {}
  /\ crashes = 0

\* init() of a new process, perhaps with another model.
Restart(m) ==
  /\ pc = "down"
  /\ pc' = "idle"
  /\ model' = m
  /\ \E l \in IF OnDisk = {} THEN {NoLayout} ELSE OnDisk : cache' = Started(l)
  /\ mem' = NoMem /\ staging' = <<>> /\ req' = NoReq /\ loaded' = {}
  /\ UNCHANGED <<files, faults, crashes>>

\* Files written by the process that dies may be torn, or have lost even their
\* header: nothing is synced.
Crash ==
  /\ pc # "down" /\ crashes < Crashes
  /\ pc' = "down"
  /\ crashes' = crashes + 1
  /\ \E X \in SUBSET {f \in files : f.dirty}, st \in {"torn", "headless"} :
       files' = {[f EXCEPT !.dirty = FALSE] : f \in files \ X} \cup
                {[f EXCEPT !.dirty = FALSE, !.state = st, !.kv = <<Garbage>>] : f \in X}
  /\ UNCHANGED <<model, cache, mem, staging, req, loaded, faults>>

\* The shutdown, which saves the tracked slot.
Shutdown ==
  /\ pc = "idle"
  /\ pc' = "down"
  /\ IF mem.tokens # <<>> /\ mem.slot # <<>>
       THEN \E r \in Saves(learn_layout(cache, mem.slot), mem.slot, mem.tokens) :
              /\ cache' = r.c
              /\ files' = {[f EXCEPT !.dirty = FALSE] : f \in r.files}
              /\ crashes' = crashes + r.bad
              /\ faults' = IF mem.slot # mem.tokens THEN faults \cup {"stale"} ELSE faults
       ELSE /\ files' = {[f EXCEPT !.dirty = FALSE] : f \in files}
            /\ UNCHANGED <<cache, crashes, faults>>
  /\ UNCHANGED <<model, mem, staging, req, loaded>>

\* A minute has passed since an entry was saved.
Age ==
  /\ pc # "down"
  /\ \E e \in cache.entries :
       /\ e.recent
       /\ cache' = [cache EXCEPT !.entries = (@ \ {e}) \cup {[e EXCEPT !.recent = FALSE]}]
  /\ UNCHANGED <<files, model, mem, staging, pc, req, loaded, faults, crashes>>

-----------------------------------------------------------------------------
(* worker_loop: one request *)

\* The in-memory cache is asked first.
Begin(p) ==
  /\ pc = "idle"
  /\ pc' = "lookup"
  /\ req' = [NoReq EXCEPT !.prompt = p,
               !.src = IF mem.key \in {Key(p, b) : b \in Boundaries(p)} THEN "memory" ELSE "none"]
  /\ UNCHANGED <<files, model, cache, mem, staging, loaded, faults, crashes>>

\* lookup() serves nothing while the layout is only what a file on disk said.
Usable == cache.known /\ ~cache.from_disk

Readable_HeaderOnly(f) == f.state # "headless"

\* read_file(): every tensor is there.
Readable(f) == f.state = "ok"

Dropped_KeepBytes(c, key) == [c EXCEPT !.entries = {e \in @ : e.key # key}]

Dropped_KeepEntry(c, key) ==
  [c EXCEPT !.total = @ - TotalOf({e \in c.entries : e.key = key})]

\* The index without an entry whose file could not be read.
Dropped(c, key) ==
  [c EXCEPT !.entries = {e \in @ : e.key # key},
            !.total = @ - TotalOf({e \in c.entries : e.key = key})]

\* The file of the prompt.
Found == {f \in files : f.layout = cache.id /\ f.key = req.prompt}

\* lookup(), when memory missed: the file is read into the staging slot, or removed
\* if it cannot be read.
lookup ==
  /\ pc = "lookup"
  /\ \/ /\ req.src = "memory"
        /\ pc' = "generate"
        /\ UNCHANGED <<files, cache, staging, req, loaded>>
     \/ /\ req.src = "none"
        /\ ~Usable \/ req.prompt \notin KeysOf(cache.entries)
        /\ pc' = "cold"
        /\ UNCHANGED <<files, cache, staging, req, loaded>>
     \/ /\ req.src = "none" /\ Usable /\ req.prompt \in KeysOf(cache.entries)
        /\ \/ \E f \in Found :
                /\ Readable(f)
                /\ loaded' = {f}
                /\ staging' = f.kv
                /\ req' = [req EXCEPT !.src = "disk"]
                /\ pc' = "generate"
                /\ UNCHANGED <<files, cache>>
           \/ /\ \A f \in Found : ~Readable(f)
              /\ files' = files \ Found
              /\ cache' = Dropped(cache, req.prompt)
              /\ pc' = "cold"
              /\ UNCHANGED <<staging, req, loaded>>
  /\ UNCHANGED <<model, mem, faults, crashes>>

\* The last boundary within the limits, for a long prompt; 0 for none.
ColdBest ==
  LET bs == {b \in Boundaries(req.prompt) : b <= ColdMax /\ b >= MinTokens}
  IN IF Len(req.prompt) <= ColdMax \/ bs = {} THEN 0 ELSE Max(bs)

cold_prefix_boundary ==
  IF ~cache.known \/ Key(req.prompt, ColdBest) \in KeysOf(cache.entries) THEN 0 ELSE ColdBest

\* Prefill to the cold boundary, save it, and restore from it. If that fails the
\* whole prompt is prefilled.
Cold ==
  /\ pc = "cold"
  /\ pc' = "generate"
  /\ LET b  == cold_prefix_boundary
         kv == Key(req.prompt, b)
     IN \/ /\ b > 0
           /\ staging' = kv
           /\ req' = [req EXCEPT !.src = "disk"]
           /\ \E r \in Saves(learn_layout(cache, kv), kv, kv) :
                cache' = r.c /\ files' = r.files /\ crashes' = crashes + r.bad
        \/ /\ b = 0 \/ Failures
           /\ staging' = <<>>
           /\ UNCHANGED <<files, cache, req, crashes>>
  /\ UNCHANGED <<model, mem, loaded, faults>>

\* The second-to-last boundary, or the only one.
TargetCut(p) == IF Len(p) >= 3 THEN Len(p) - 2 ELSE Len(p) - 1

Restored == CASE req.src = "none" -> <<>> [] req.src = "memory" -> mem.slot [] OTHER -> staging

RestoreFails_AnyLength == req.src # "none" /\ Restored = <<>>

\* restore_and_generate() turns down an empty slot and a snapshot that is longer
\* than the prompt.
RestoreFails == req.src # "none" /\ (Restored = <<>> \/ Len(Restored) > Len(req.prompt))

SnapCut ==
  LET n == TargetCut(req.prompt)
  IN IF n > 0 /\ mem.key # Key(req.prompt, n) THEN n ELSE 0

\* The restored part is completed by position. The inline snapshot is saved when
\* prefill passes its position. A generation is served; or ends with an error after
\* some tokens ("broken"); or fails before its first token or loses its client.
Generate ==
  /\ pc = "generate"
  /\ pc' = "finish"
  /\ LET filled == Restored \o SubSeq(req.prompt, Len(Restored) + 1, Len(req.prompt))
         n      == SnapCut
         passes == n > 0 /\ n >= Len(Restored) /\ Len(Restored) < Len(req.prompt)
     IN \/ /\ RestoreFails \/ Failures
           /\ req' = [req EXCEPT !.snap = n, !.out = "failed"]
           /\ UNCHANGED mem
        \/ /\ ~RestoreFails
           /\ \E g \in Replies, out \in {"served", "broken", "failed"} :
                req' = [req EXCEPT !.snap = n, !.out = out, !.kv = filled \o g, !.gen = g]
           /\ \E kv \in {Key(filled, n)} \cup (IF Failures THEN {<<>>} ELSE {}) :
                mem' = IF passes THEN [mem EXCEPT !.slot = kv] ELSE mem
  /\ loaded' = {}
  /\ UNCHANGED <<files, model, cache, staging, faults, crashes>>

\* Confirm the inline snapshot, track it and save it under the whole prompt; or
\* abort it, which drops the entry that had the slot. slot_tokens_ stays.
Finish ==
  /\ pc = "finish"
  /\ pc' = "checkpoint"
  /\ LET key == Key(req.prompt, req.snap)
     IN \/ /\ req.snap > 0 /\ req.out # "failed"
           /\ mem' = [mem EXCEPT !.key = key, !.tokens = key]
           /\ faults' = IF mem.slot # key THEN faults \cup {"unsaved"} ELSE faults
           /\ \E r \in Saves(learn_layout(cache, mem.slot), mem.slot, req.prompt) :
                cache' = r.c /\ files' = r.files /\ crashes' = crashes + r.bad
        \/ /\ req.snap > 0 /\ req.out = "failed"
           /\ mem' = [mem EXCEPT !.key = <<>>]
           /\ UNCHANGED <<files, cache, faults, crashes>>
        \/ /\ req.snap = 0
           /\ UNCHANGED <<files, cache, mem, faults, crashes>>
  /\ UNCHANGED <<model, staging, req, loaded>>

\* maybe_store_continued(): the ways it may end. The key is the first target
\* tokens, the snapshot kv the state at the end of the generation.
Target == (Len(req.prompt \o req.gen) \div Interval) * Interval

maybe_store_continued(c, kv) ==
  IF Interval = 0 \/ Target <= c.last \/ Target < MinTokens
    THEN {Refused(c)}
    ELSE {IF r.ok THEN [r EXCEPT !.c = [r.c EXCEPT !.last = Target]] ELSE r :
            r \in Saves(c, kv, Key(req.prompt \o req.gen, Target))}

FreeStaging_Never == staging

\* snapshot_free(DISK_STAGING_SLOT), if it was used for the restore.
FreeStaging == IF req.src = "disk" THEN <<>> ELSE staging

\* The state at the end of a long enough generation is staged for a continued
\* checkpoint, and freed again.
Stages == req.out = "served" /\ Len(req.prompt \o req.gen) >= Interval

Checkpoint ==
  /\ pc = "checkpoint"
  /\ pc' = "idle"
  /\ req' = NoReq
  /\ \/ /\ Stages
        /\ \E r \in maybe_store_continued(learn_layout(cache, req.kv), req.kv) :
             cache' = r.c /\ files' = r.files /\ crashes' = crashes + r.bad
        /\ staging' = <<>>
     \/ /\ Stages /\ Failures
        /\ staging' = <<>>
        /\ UNCHANGED <<files, cache, crashes>>
     \/ /\ ~Stages
        /\ staging' = FreeStaging
        /\ UNCHANGED <<files, cache, crashes>>
  /\ UNCHANGED <<model, mem, loaded, faults>>

Next ==
  \/ \E m \in Layouts : Restart(m)
  \/ Crash
  \/ Shutdown
  \/ Age
  \/ \E p \in Prompts : Begin(p)
  \/ lookup
  \/ Cold
  \/ Generate
  \/ Finish
  \/ Checkpoint

Spec == Init /\ [][Next]_vars

-----------------------------------------------------------------------------
(* Properties *)

Tokens == Turns \cup {Garbage}

File == [layout: Layouts, by: Layouts, key: Seq(Turns), kv: Seq(Tokens),
         state: {"ok", "torn", "headless"}, dirty: BOOLEAN]

\* Every variable keeps its type; total_bytes_, which is unsigned in the code, never
\* drops below zero.
TypeOK ==
  /\ \A f \in files : f \in File
  /\ model \in Layouts
  /\ cache.known \in BOOLEAN /\ cache.from_disk \in BOOLEAN
  /\ cache.id \in Layouts \cup {NoLayout}
  /\ cache.total \in Nat /\ cache.last \in Nat
  /\ \A e \in cache.entries : e.key \in Seq(Turns) /\ e.size \in Nat /\ e.recent \in BOOLEAN
  /\ mem.key \in Seq(Turns) /\ mem.tokens \in Seq(Turns) /\ mem.slot \in Seq(Tokens)
  /\ staging \in Seq(Tokens)
  /\ pc \in {"down", "idle", "lookup", "cold", "generate", "finish", "checkpoint"}
  /\ req.prompt \in Prompts \cup {<<>>}
  /\ req.src \in {"none", "memory", "disk"} /\ req.snap \in Nat
  /\ req.out \in {"none", "served", "broken", "failed"}
  /\ req.kv \in Seq(Tokens) /\ req.gen \in Replies \cup {<<>>}
  /\ \A f \in loaded : f \in File
  /\ faults \subseteq {"unsaved", "stale"}
  /\ crashes \in 0..Crashes

\* The index is the directory: one entry for each file with a header of the current
\* layout, with its size, and total_bytes_ their sum. Saving over an old file,
\* eviction, dropping a bad file and learning another layout keep it so; a file that
\* is not in the index would never be counted or evicted.
IndexMatchesFiles ==
  pc # "down" =>
    /\ cache.total = TotalOf(cache.entries)
    /\ {<<e.key, e.size>> : e \in cache.entries} =
         {<<f.key, Bytes(f)>> : f \in {g \in files : g.layout = cache.id /\ g.state # "headless"}}
    /\ \A d, e \in cache.entries : d.key = e.key => d = e

\* A file lies under the layout of the model that wrote it, and a restore uses only a
\* whole file of the running model, over restarts with other models and crashes.
LayoutTrue ==
  /\ \A f \in files : f.by = f.layout
  /\ \A f \in loaded : f.by = model /\ f.state = "ok"

\* Unless an unsaved snapshot was confirmed or a slot saved under another prompt's
\* tokens, a reply is generated behind exactly the client's own prompt, whether it
\* was restored from memory, from disk, from a cold prefix or not at all.
RestoreSound ==
  pc = "finish" /\ req.kv # <<>> /\ faults = {} => req.kv = req.prompt \o req.gen

\* Between requests nothing is left in the staging slot: the next request that uses
\* it must not find, or save to disk, an earlier one's state.
StagingFree == pc \in {"idle", "lookup", "cold"} => staging = <<>>

\* Saving a file ends within the budget, or with every file younger than a minute.
BudgetAfterSave ==
  [][(\E f \in files' \ files : f.dirty) =>
       cache'.total <= Budget \/ \A e \in cache'.entries : e.recent]_vars

\* Whatever is saved, evicted, dropped, rescanned or lost in a crash, the index in memory
\* is the directory on disk.
IndexInv == TypeOK /\ IndexMatchesFiles

=============================================================================
