----------------------- MODULE DiskPrefixCacheProofs -----------------------
(***************************************************************************)
(* For every set of prompts and models, every budget and any number of     *)
(* crashes and restarts: no file is filed under, or restored by, a model   *)
(* other than the one that wrote it, no torn file is restored, the staging *)
(* slot is free between requests, a save ends within the budget, and a     *)
(* reply is generated behind the client's own prompt.                      *)
(***************************************************************************)
EXTENDS DiskPrefixCache, ListLemmas, SequenceTheorems, TLAPS

-----------------------------------------------------------------------------
(* The inductive invariant *)

\* The fields of the cache object and of a file.
IsCache(c) ==
  c \in [known: BOOLEAN, from_disk: BOOLEAN, id: {c.id}, entries: {c.entries},
         total: {c.total}, last: {c.last}]

IsFile(f) ==
  f \in [layout: {f.layout}, key: {f.key}, by: {f.by}, state: {f.state},
         dirty: {f.dirty}, kv: {f.kv}]

FilesOK(fs) == \A f \in fs : IsFile(f) /\ f.by = f.layout

\* A layout that is not the guess of a directory's name is the running model's.
Verified(c) == c.known /\ ~c.from_disk => c.id = model

CacheOK(c) == IsCache(c) /\ Verified(c)

IInv ==
  /\ FilesOK(files)
  /\ CacheOK(cache)
  /\ \A f \in loaded : f.by = model /\ f.state = "ok"

-----------------------------------------------------------------------------
(* The operations of the cache object *)

LEMMA ScannedOK ==
  ASSUME NEW c, NEW l, IsCache(c)
  PROVE  LET r == Scanned(c, l)
         IN IsCache(r) /\ r.known = c.known /\ r.from_disk = c.from_disk /\ r.id = c.id
BY DEF Scanned, IsCache

LEMMA LearnOK ==
  ASSUME NEW c, NEW kv, CacheOK(c)
  PROVE  LET r == learn_layout(c, kv)
         IN CacheOK(r) /\ (kv # <<>> => r.id = model)
<1> DEFINE d == [c EXCEPT !.known = TRUE, !.from_disk = FALSE, !.id = model]
<1>1. /\ IsCache(d) /\ d.known = TRUE /\ d.from_disk = FALSE /\ d.id = model
  BY DEF CacheOK, IsCache
<1>2. LET r == Scanned(d, model)
      IN IsCache(r) /\ r.known = d.known /\ r.from_disk = d.from_disk /\ r.id = d.id
  BY <1>1, ScannedOK
<1>3. CASE kv = <<>> \/ (c.known /\ ~c.from_disk)
  BY <1>3 DEF learn_layout, CacheOK, Verified
<1>4. CASE ~(kv = <<>> \/ (c.known /\ ~c.from_disk))
  BY <1>1, <1>2, <1>4 DEF learn_layout, CacheOK, Verified
<1> QED BY <1>3, <1>4

\* What save() may end with.
SaveOK(r) ==
  /\ r \in [ok: BOOLEAN, c: {r.c}, files: {r.files}, bad: {r.bad}]
  /\ CacheOK(r.c)
  /\ FilesOK(r.files)

LEMMA RefusedOK ==
  ASSUME NEW c, CacheOK(c), FilesOK(files)
  PROVE  SaveOK(Refused(c)) /\ SaveOK([Refused(c) EXCEPT !.ok = TRUE])
BY DEF SaveOK, Refused

LEMMA WrittenOK ==
  ASSUME NEW c, NEW kv, NEW key, NEW st, CacheOK(c), c.id = model, FilesOK(files),
         NEW r \in Written(c, kv, key, st)
  PROVE  SaveOK(r)
<1> DEFINE f == write_file(c, kv, key, st)
           e == [key |-> key, size |-> Bytes(f), recent |-> TRUE]
           left(X) == {g \in files : g.layout # c.id \/ g.key \notin {key} \cup KeysOf(X)} \cup {f}
           n == IF st = "ok" THEN 0 ELSE 1
<1>0. PICK X \in Evictions(c.entries \cup {e}, c.total + e.size) :
        r = [ok |-> TRUE, c |-> Entered(c, e, X), files |-> left(X), bad |-> n]
  BY Zenon DEF Written
<1>1. /\ r \in [ok: BOOLEAN, c: {r.c}, files: {r.files}, bad: {r.bad}]
      /\ r.c = Entered(c, e, X)
      /\ r.files = left(X)
  <2> HIDE DEF e, left, n
  <2> QED BY <1>0
<1>2. IsFile(f) /\ f.by = f.layout
  BY DEF write_file, IsFile
<1>3. FilesOK(r.files)
  <2> HIDE DEF f
  <2> QED BY <1>1, <1>2 DEF FilesOK
<1>4. CacheOK(r.c)
  <2> HIDE DEF e
  <2> QED BY <1>1 DEF Entered, CacheOK, IsCache, Verified
<1> QED BY <1>1, <1>3, <1>4 DEF SaveOK

\* Whatever save() does, it leaves files that are where they belong, if the layout
\* was learnt from the slot it saves.
LEMMA SavesOK ==
  ASSUME NEW c, NEW kv, NEW key, CacheOK(c), kv # <<>> => c.id = model, FilesOK(files),
         NEW r \in Saves(c, kv, key)
  PROVE  SaveOK(r)
<1>1. CASE r \in {Refused(c), [Refused(c) EXCEPT !.ok = TRUE]} BY <1>1, RefusedOK
<1>2. CASE \E st \in {"ok", "torn"} : kv # <<>> /\ r \in Written(c, kv, key, st)
  BY <1>2, WrittenOK
<1>3. \/ r \in {Refused(c), [Refused(c) EXCEPT !.ok = TRUE]}
      \/ \E st \in {"ok", "torn"} : kv # <<>> /\ r \in Written(c, kv, key, st)
  BY DEF Saves
<1> QED BY <1>1, <1>2, <1>3

LEMMA ContinuedOK ==
  ASSUME NEW c, NEW kv, CacheOK(c), kv # <<>> => c.id = model, FilesOK(files),
         NEW r \in maybe_store_continued(c, kv)
  PROVE  SaveOK(r)
<1>1. CASE r = Refused(c) BY <1>1, RefusedOK
<1>2. CASE r # Refused(c)
  <2>1. PICK q \in Saves(c, kv, Key(req.prompt \o req.gen, Target)) :
          r = IF q.ok THEN [q EXCEPT !.c = [q.c EXCEPT !.last = Target]] ELSE q
    BY <1>2 DEF maybe_store_continued
  <2>2. SaveOK(q) BY SavesOK
  <2>3. CASE r = q BY <2>2, <2>3
  <2>4. CASE r = [q EXCEPT !.c = [q.c EXCEPT !.last = Target]]
    <3> DEFINE d == [q.c EXCEPT !.last = Target]
    <3>1. CacheOK(d) BY <2>2 DEF SaveOK, CacheOK, IsCache, Verified
    <3> HIDE DEF d
    <3>2. r = [q EXCEPT !.c = d] BY <2>4 DEF d
    <3> QED BY <2>2, <3>1, <3>2 DEF SaveOK
  <2> QED BY <2>1, <2>3, <2>4
<1> QED BY <1>1, <1>2


\* init() starts with no layout, or with one that is still to be verified.
LEMMA StartedOK ==
  ASSUME NEW l
  PROVE  LET c == Started(l) IN IsCache(c) /\ ~(c.known /\ ~c.from_disk)
<1> DEFINE c == [known |-> FALSE, from_disk |-> FALSE, id |-> NoLayout, entries |-> {},
                 total |-> 0, last |-> 0]
           d == [c EXCEPT !.known = TRUE, !.from_disk = TRUE, !.id = l]
<1>1. IsCache(c) /\ c.known = FALSE BY DEF IsCache
<1>2. IsCache(d) /\ d.from_disk = TRUE BY <1>1 DEF IsCache
<1>3. IsCache(Scanned(d, l)) /\ Scanned(d, l).from_disk = TRUE BY <1>2, ScannedOK
<1>4. Started(l) = IF l = NoLayout THEN c ELSE Scanned(d, l) BY Zenon DEF Started
<1> HIDE DEF c, d
<1> QED BY <1>1, <1>3, <1>4

-----------------------------------------------------------------------------
(* Steps *)

LEMMA InitOK == Init => IInv
<1> SUFFICES ASSUME Init PROVE IInv OBVIOUS
<1>1. CacheOK(cache) BY StartedOK DEF Init, CacheOK, Verified
<1> QED BY <1>1 DEF Init, IInv, FilesOK

\* A step that keeps the model, and the files and the cache good.
LEMMA SameModelOK ==
  ASSUME IInv, model' = model, CacheOK(cache'), FilesOK(files'), loaded' \subseteq loaded
  PROVE  IInv'
BY DEF IInv, CacheOK, Verified, IsCache, FilesOK, IsFile

LEMMA NextOK == IInv /\ [Next]_vars => IInv'
<1> SUFFICES ASSUME IInv, [Next]_vars PROVE IInv' OBVIOUS
<1>0. CacheOK(cache) /\ FilesOK(files) BY DEF IInv
<1>1. ASSUME NEW m \in Layouts, Restart(m) PROVE IInv'
  <2>1. PICK l : cache' = Started(l) BY <1>1 DEF Restart
  <2>2. IsCache(cache') /\ ~(cache'.known /\ ~cache'.from_disk) BY <2>1, StartedOK
  <2>3. files' = files /\ loaded' = {} BY <1>1 DEF Restart
  <2> QED BY <1>0, <2>2, <2>3 DEF IInv, CacheOK, Verified, IsCache, FilesOK, IsFile
<1>2. CASE Crash
  <2>1. PICK X \in SUBSET {f \in files : f.dirty}, st \in {"torn", "headless"} :
          files' = {[f EXCEPT !.dirty = FALSE] : f \in files \ X} \cup
                   {[f EXCEPT !.dirty = FALSE, !.state = st, !.kv = <<Garbage>>] : f \in X}
    BY <1>2 DEF Crash
  <2>2. ASSUME NEW f \in files
        PROVE  LET g == [f EXCEPT !.dirty = FALSE]
                   h == [f EXCEPT !.dirty = FALSE, !.state = st, !.kv = <<Garbage>>]
               IN IsFile(g) /\ g.by = g.layout /\ IsFile(h) /\ h.by = h.layout
    BY <1>0 DEF FilesOK, IsFile
  <2>3. FilesOK(files') BY <2>1, <2>2 DEF FilesOK
  <2>4. model' = model /\ cache' = cache /\ loaded' = loaded BY <1>2 DEF Crash
  <2> QED BY <1>0, <2>3, <2>4, SameModelOK
<1>3. CASE Shutdown
  <2>1. ASSUME NEW fs, FilesOK(fs) PROVE FilesOK({[f EXCEPT !.dirty = FALSE] : f \in fs})
    BY <2>1 DEF FilesOK, IsFile
  <2>2. CASE mem.tokens # <<>> /\ mem.slot # <<>>
    <3>1. PICK r \in Saves(learn_layout(cache, mem.slot), mem.slot, mem.tokens) :
            cache' = r.c /\ files' = {[f EXCEPT !.dirty = FALSE] : f \in r.files}
      BY <1>3, <2>2 DEF Shutdown
    <3>2. SaveOK(r) BY <1>0, LearnOK, SavesOK
    <3>3. CacheOK(cache') /\ FilesOK(files') BY <2>1, <3>1, <3>2 DEF SaveOK
    <3> QED BY <1>3, <3>3, SameModelOK DEF Shutdown
  <2>3. CASE ~(mem.tokens # <<>> /\ mem.slot # <<>>)
    <3>1. cache' = cache /\ files' = {[f EXCEPT !.dirty = FALSE] : f \in files}
      BY <1>3, <2>3 DEF Shutdown
    <3>2. FilesOK(files') BY <1>0, <2>1, <3>1
    <3> QED BY <1>0, <1>3, <3>1, <3>2, SameModelOK DEF Shutdown
  <2> QED BY <2>2, <2>3
<1>4. CASE Age
  <2>1. CacheOK(cache') BY <1>0, <1>4 DEF Age, CacheOK, IsCache, Verified
  <2> QED BY <1>0, <1>4, <2>1, SameModelOK DEF Age
<1>5. ASSUME NEW p \in Prompts, Begin(p) PROVE IInv'
  BY <1>0, <1>5, SameModelOK DEF Begin
<1>6. CASE lookup
  <2>1. CASE files' = files /\ cache' = cache /\ loaded' = loaded
    BY <1>0, <1>6, <2>1, SameModelOK DEF lookup
  <2>2. ASSUME NEW f \in Found, Usable, Readable(f), loaded' = {f}, files' = files, cache' = cache
        PROVE  IInv'
    <3>1. f.by = model /\ f.state = "ok"
      BY <1>0, <2>2 DEF Found, Usable, Readable, CacheOK, Verified, FilesOK
    <3>2. model' = model BY <1>6 DEF lookup
    <3> QED BY <1>0, <2>2, <3>1, <3>2 DEF IInv, CacheOK, Verified, IsCache, FilesOK, IsFile
  <2>3. CASE files' = files \ Found /\ cache' = Dropped(cache, req.prompt) /\ loaded' = loaded
    <3>1. CacheOK(cache') BY <1>0, <2>3 DEF Dropped, CacheOK, IsCache, Verified
    <3>2. FilesOK(files') BY <1>0, <2>3 DEF FilesOK
    <3> QED BY <1>6, <2>3, <3>1, <3>2, SameModelOK DEF lookup
  <2> QED BY <1>6, <2>1, <2>2, <2>3 DEF lookup
<1>7. CASE Cold
  <2> DEFINE kv == Key(req.prompt, cold_prefix_boundary)
  <2>1. CASE files' = files /\ cache' = cache
    BY <1>0, <1>7, <2>1, SameModelOK DEF Cold
  <2>2. ASSUME NEW r \in Saves(learn_layout(cache, kv), kv, kv), cache' = r.c, files' = r.files
        PROVE  IInv'
    <3> HIDE DEF kv
    <3>1. SaveOK(r) BY SMTT(30), <1>0, <2>2, LearnOK, SavesOK
    <3> QED BY <1>7, <2>2, <3>1, SameModelOK DEF Cold, SaveOK
  <2> QED BY <1>7, <2>1, <2>2 DEF Cold
<1>8. CASE Generate BY <1>0, <1>8, SameModelOK DEF Generate
<1>9. CASE Finish
  <2>1. CASE files' = files /\ cache' = cache
    BY <1>0, <1>9, <2>1, SameModelOK DEF Finish
  <2>2. ASSUME NEW r \in Saves(learn_layout(cache, mem.slot), mem.slot, req.prompt),
               cache' = r.c, files' = r.files
        PROVE  IInv'
    <3>1. SaveOK(r) BY <1>0, <2>2, LearnOK, SavesOK
    <3> QED BY <1>9, <2>2, <3>1, SameModelOK DEF Finish, SaveOK
  <2> QED BY <1>9, <2>1, <2>2 DEF Finish
<1>10. CASE Checkpoint
  <2>1. CASE files' = files /\ cache' = cache
    BY <1>0, <1>10, <2>1, SameModelOK DEF Checkpoint
  <2>2. ASSUME NEW r \in maybe_store_continued(learn_layout(cache, req.kv), req.kv),
               cache' = r.c, files' = r.files
        PROVE  IInv'
    <3>1. SaveOK(r) BY <1>0, <2>2, LearnOK, ContinuedOK
    <3> QED BY <1>10, <2>2, <3>1, SameModelOK DEF Checkpoint, SaveOK
  <2> QED BY <1>10, <2>1, <2>2 DEF Checkpoint
<1>11. CASE UNCHANGED vars BY <1>0, <1>11, SameModelOK DEF vars
<1> QED
  BY <1>1, <1>2, <1>3, <1>4, <1>5, <1>6, <1>7, <1>8, <1>9, <1>10, <1>11 DEF Next

-----------------------------------------------------------------------------
(* What the snapshots and the files hold *)

\* kv was computed from a prefix of prompt p.
Prefix(kv, p) == \E n \in 0..Len(p) : kv = Key(p, n)

\* What restore_and_generate() takes for prompt p from a snapshot kv is a prefix of it.
Fits(kv, p) == Len(kv) > Len(p) \/ Prefix(kv, p)

Clean == faults = {}

Busy == pc \in {"generate", "finish", "checkpoint"}

RequestOK ==
  /\ req \in [prompt: Seq(Turns), src: {"none", "memory", "disk"}, snap: Nat,
              out: {req.out}, kv: {req.kv}, gen: Seq(Turns)]
  /\ pc \in {"lookup", "cold"} \/ Busy => req.prompt # <<>>
  /\ pc \in {"lookup", "cold", "generate"} => req.kv = <<>>
  /\ pc \in {"lookup", "cold", "generate"} /\ req.src = "memory" =>
       \E b \in Boundaries(req.prompt) : mem.key = Key(req.prompt, b)
  /\ pc = "finish" => req.snap < Len(req.prompt)

\* The staging slot is in use only for a request that was restored from it.
StagingOwned == pc # "down" /\ staging # <<>> => req.src = "disk" /\ Busy

\* A file holds the state of a prefix of its key, or of more than its key.
FilesSound == Clean => \A f \in files : f.state = "ok" => Fits(f.kv, f.key)

StagingSound ==
  Clean /\ pc = "generate" /\ req.src = "disk" => Fits(staging, req.prompt)

\* The in-memory entry has its own prefix in its slot, but for the time between a new
\* snapshot and its confirmation.
MemSound ==
  /\ mem \in [key: Seq(Turns), slot: {mem.slot}, tokens: Seq(Turns)]
  /\ Clean /\ pc # "down" /\ mem.key # <<>> /\ ~(pc = "finish" /\ req.snap > 0)
       => mem.slot = mem.key

ReplySound ==
  Clean /\ pc \in {"finish", "checkpoint"} /\ req.kv # <<>> => req.kv = req.prompt \o req.gen

SInv ==
  /\ RequestOK
  /\ StagingOwned
  /\ FilesSound
  /\ StagingSound
  /\ MemSound
  /\ ReplySound

LEMMA KeyFacts ==
  ASSUME NEW S, NEW p \in Seq(S), NEW n \in 0..Len(p)
  PROVE  /\ Key(p, n) \in Seq(S) /\ Len(Key(p, n)) = n
         /\ n > 0 => Key(p, n) # <<>>
         /\ Key(p, n) \o SubSeq(p, n + 1, Len(p)) = p
         /\ Key(p, Len(p)) = p
<1>1. Key(p, n) = SubSeq(p, 1, n) /\ Key(p, Len(p)) = SubSeq(p, 1, Len(p)) BY DEF Key
<1>2. /\ SubSeq(p, 1, n) \in Seq(S) /\ Len(SubSeq(p, 1, n)) = n
      /\ n > 0 => SubSeq(p, 1, n) # <<>>
  BY PrefixFacts
<1>3. SubSeq(p, 1, n) \o SubSeq(p, n + 1, Len(p)) = p /\ SubSeq(p, 1, Len(p)) = p
  BY PrefixFacts
<1> QED BY <1>1, <1>2, <1>3

\* The new files of a save hold what was saved, under its key.
NewFile(g, kv, key) == kv # <<>> /\ g.key = key /\ (g.state = "ok" => g.kv = kv)

LEMMA SaveFiles ==
  ASSUME NEW c, NEW kv, NEW key, NEW r \in Saves(c, kv, key), NEW g \in r.files
  PROVE  g \in files \/ NewFile(g, kv, key)
<1>1. CASE r \in {Refused(c), [Refused(c) EXCEPT !.ok = TRUE]} BY <1>1 DEF Refused
<1>2. ASSUME NEW st \in {"ok", "torn"}, kv # <<>>, r \in Written(c, kv, key, st)
      PROVE  g \in files \/ NewFile(g, kv, key)
  <2> DEFINE f == write_file(c, kv, key, st)
             e == [key |-> key, size |-> Bytes(f), recent |-> TRUE]
             left(X) == {h \in files : h.layout # c.id \/ h.key \notin {key} \cup KeysOf(X)} \cup {f}
             n == IF st = "ok" THEN 0 ELSE 1
  <2>1. PICK X \in Evictions(c.entries \cup {e}, c.total + e.size) :
          r = [ok |-> TRUE, c |-> Entered(c, e, X), files |-> left(X), bad |-> n]
    BY <1>2, Zenon DEF Written
  <2>2. r.files = left(X)
    <3> HIDE DEF e, left, n
    <3> QED BY <2>1
  <2>3. f.key = key /\ f.state = st /\ (st = "ok" => f.kv = kv) BY DEF write_file
  <2> HIDE DEF f
  <2> QED BY <1>2, <2>2, <2>3 DEF NewFile
<1>3. \/ r \in {Refused(c), [Refused(c) EXCEPT !.ok = TRUE]}
      \/ \E st \in {"ok", "torn"} : kv # <<>> /\ r \in Written(c, kv, key, st)
  BY DEF Saves
<1> QED BY <1>1, <1>2, <1>3

\* A save under a key that fits what is saved keeps the files sound.
LEMMA SaveSound ==
  ASSUME NEW c, NEW kv, NEW key, NEW r \in Saves(c, kv, key),
         \A f \in files : f.state = "ok" => Fits(f.kv, f.key),
         kv # <<>> => Fits(kv, key)
  PROVE  \A f \in r.files : f.state = "ok" => Fits(f.kv, f.key)
<1> SUFFICES ASSUME NEW f \in r.files, f.state = "ok" PROVE Fits(f.kv, f.key) OBVIOUS
<1> QED BY SaveFiles DEF NewFile

\* What closing the files and a crash leave of a file.
LEMMA Settled ==
  ASSUME NEW f, IsFile(f), NEW st
  PROVE  /\ LET g == [f EXCEPT !.dirty = FALSE]
            IN g.key = f.key /\ g.kv = f.kv /\ g.state = f.state
         /\ [f EXCEPT !.dirty = FALSE, !.state = st, !.kv = <<Garbage>>].state = st
BY DEF IsFile

\* The continued checkpoint's target is within the conversation.
LEMMA TargetBound ==
  ASSUME NEW n \in Nat, NEW i \in Nat \ {0} PROVE (n \div i) * i \in 0..n
<1>1. n = i * (n \div i) + (n % i) /\ n % i \in 0..(i - 1) /\ n \div i \in Nat OBVIOUS
<1> DEFINE q == n \div i
           m == n % i
<1>2. i * q \in Nat /\ i * q = q * i BY <1>1
<1> HIDE DEF q, m
<1>3. i * q + m = n /\ m \in Nat BY <1>1 DEF q, m
<1> DEFINE t == i * q
<1> HIDE DEF t
<1>4. t \in Nat /\ t + m = n BY <1>2, <1>3 DEF t
<1>5. t \in 0..n BY <1>3, <1>4
<1> QED BY <1>2, <1>5 DEF t, q

LEMMA InitSound == Init => SInv
<1> SUFFICES ASSUME Init PROVE SInv OBVIOUS
<1>1. RequestOK BY DEF Init, NoReq, RequestOK, Busy
<1>2. MemSound BY DEF Init, NoMem, MemSound
<1>3. StagingOwned /\ FilesSound /\ StagingSound /\ ReplySound
  BY DEF Init, StagingOwned, FilesSound, StagingSound, ReplySound
<1> QED BY <1>1, <1>2, <1>3 DEF SInv

\* The fields of the next request.
NextReq == req' \in [prompt: Seq(Turns), src: {"none", "memory", "disk"}, snap: Nat,
                     out: {req'.out}, kv: {req'.kv}, gen: Seq(Turns)]

LEMMA PromptType == \A p \in Prompts \cup Replies : p \in Seq(Turns) /\ p # <<>>
BY PromptAssumption

\* A process starts, or ends.
LEMMA RestartSound == ASSUME SInv, NEW m \in Layouts, Restart(m) PROVE SInv'
<1> USE DEF SInv
<1>1. /\ pc' = "idle" /\ mem' = NoMem /\ staging' = <<>> /\ req' = NoReq
      /\ files' = files /\ faults' = faults
  BY DEF Restart
<1>2. RequestOK' BY <1>1 DEF NoReq, RequestOK, Busy
<1>3. MemSound' BY <1>1 DEF NoMem, MemSound
<1>4. StagingOwned' /\ FilesSound' /\ StagingSound' /\ ReplySound'
  BY <1>1 DEF StagingOwned, FilesSound, StagingSound, ReplySound, Clean
<1> QED BY <1>2, <1>3, <1>4

LEMMA DownSound ==
  ASSUME IInv, SInv, pc' = "down", UNCHANGED <<mem, staging, req>>, Clean' => Clean, FilesSound'
  PROVE  SInv'
<1> USE DEF SInv
<1>1. RequestOK' BY DEF RequestOK, Busy
<1>2. MemSound' BY DEF MemSound
<1>3. StagingOwned' /\ StagingSound' /\ ReplySound'
  BY DEF StagingOwned, StagingSound, ReplySound, Clean
<1> QED BY <1>1, <1>2, <1>3

LEMMA CrashSound == ASSUME IInv, SInv, Crash PROVE SInv'
<1>1. PICK X \in SUBSET {f \in files : f.dirty}, st \in {"torn", "headless"} :
        files' = {[f EXCEPT !.dirty = FALSE] : f \in files \ X} \cup
                 {[f EXCEPT !.dirty = FALSE, !.state = st, !.kv = <<Garbage>>] : f \in X}
  BY DEF Crash
<1>2. FilesSound'
  <2> SUFFICES ASSUME Clean', NEW g \in files', g.state = "ok" PROVE Fits(g.kv, g.key)
    BY DEF FilesSound
  <2>1. Clean BY DEF Crash, Clean
  <2>2. \A f \in files : IsFile(f) BY DEF IInv, FilesOK
  <2>3. CASE \E f \in files \ X : g = [f EXCEPT !.dirty = FALSE]
    <3>1. PICK f \in files \ X : g = [f EXCEPT !.dirty = FALSE] BY <2>3
    <3>2. g.key = f.key /\ g.kv = f.kv /\ g.state = f.state BY <2>2, <3>1, Settled
    <3> QED BY <2>1, <3>2 DEF SInv, FilesSound
  <2>4. CASE \E f \in X : g = [f EXCEPT !.dirty = FALSE, !.state = st, !.kv = <<Garbage>>]
    <3>1. PICK f \in X : g = [f EXCEPT !.dirty = FALSE, !.state = st, !.kv = <<Garbage>>] BY <2>4
    <3>2. g.state = st BY <2>2, <3>1, Settled
    <3> QED BY <3>2
  <2> QED BY <1>1, <2>3, <2>4
<1> QED BY <1>2, DownSound DEF Crash, Clean

LEMMA ShutdownSound == ASSUME IInv, SInv, Shutdown PROVE SInv'
<1>0. \A f \in files : IsFile(f) BY DEF IInv, FilesOK
<1>1. ASSUME NEW fs, FilesOK(fs), \A f \in fs : f.state = "ok" => Fits(f.kv, f.key),
             files' = {[f EXCEPT !.dirty = FALSE] : f \in fs}
      PROVE  FilesSound'
  <2> SUFFICES ASSUME NEW g \in files', g.state = "ok" PROVE Fits(g.kv, g.key)
    BY DEF FilesSound
  <2>1. PICK f \in fs : g = [f EXCEPT !.dirty = FALSE] BY <1>1
  <2>2. g.key = f.key /\ g.kv = f.kv /\ g.state = f.state
    <3>1. IsFile(f) BY <1>1 DEF FilesOK
    <3> QED BY <2>1, <3>1, Settled
  <2> QED BY <1>1, <2>2
<1>2. CASE mem.tokens # <<>> /\ mem.slot # <<>>
  <2>1. PICK r \in Saves(learn_layout(cache, mem.slot), mem.slot, mem.tokens) :
          /\ files' = {[f EXCEPT !.dirty = FALSE] : f \in r.files}
          /\ faults' = IF mem.slot # mem.tokens THEN faults \cup {"stale"} ELSE faults
    BY <1>2 DEF Shutdown
  <2>2. SaveOK(r) BY LearnOK, SavesOK DEF IInv
  <2>3. ASSUME Clean' PROVE FilesSound'
    <3>1. Clean /\ mem.slot = mem.tokens BY <2>1, <2>3 DEF Clean
    <3>2. mem.tokens \in Seq(Turns) BY DEF SInv, MemSound
    <3>3. Fits(mem.slot, mem.tokens)
      <4>1. Key(mem.tokens, Len(mem.tokens)) = mem.tokens /\ Len(mem.tokens) \in 0..Len(mem.tokens)
        BY <3>2, KeyFacts
      <4> QED BY <3>1, <4>1 DEF Fits, Prefix
    <3>4. \A f \in r.files : f.state = "ok" => Fits(f.kv, f.key)
      BY <3>1, <3>3, SaveSound DEF SInv, FilesSound
    <3> QED BY <1>1, <2>1, <2>2, <3>4 DEF SaveOK
  <2>4. FilesSound' BY <2>3 DEF FilesSound
  <2> QED BY <2>1, <2>4, DownSound DEF Shutdown, Clean
<1>3. CASE ~(mem.tokens # <<>> /\ mem.slot # <<>>)
  <2>1. files' = {[f EXCEPT !.dirty = FALSE] : f \in files} /\ faults' = faults
    BY <1>3 DEF Shutdown
  <2>2. Clean' => FilesSound' BY <1>1, <2>1 DEF SInv, IInv, FilesSound, Clean
  <2>3. FilesSound' BY <2>2 DEF FilesSound
  <2> QED BY <2>1, <2>3, DownSound DEF Shutdown, Clean
<1> QED BY <1>2, <1>3

\* A step that leaves the snapshots, the files and the request alone.
LEMMA SameSound == ASSUME SInv, UNCHANGED <<files, mem, staging, pc, req, faults>> PROVE SInv'
<1> USE DEF SInv
<1>1. RequestOK' BY DEF RequestOK, Busy, Boundaries
<1>2. MemSound' BY DEF MemSound, Clean
<1>3. StagingOwned' /\ FilesSound' /\ StagingSound' /\ ReplySound'
  BY DEF StagingOwned, FilesSound, StagingSound, ReplySound, Clean, Busy
<1> QED BY <1>1, <1>2, <1>3

LEMMA BeginSound == ASSUME SInv, NEW p \in Prompts, Begin(p) PROVE SInv'
<1> USE DEF SInv
<1> DEFINE src == IF mem.key \in {Key(p, b) : b \in Boundaries(p)} THEN "memory" ELSE "none"
<1>1. /\ pc = "idle" /\ pc' = "lookup"
      /\ req' = [NoReq EXCEPT !.prompt = p, !.src = src]
      /\ UNCHANGED <<files, mem, staging, faults>>
  BY DEF Begin
<1>2. p \in Seq(Turns) /\ p # <<>> BY PromptType
<1>3. NextReq /\ req'.prompt = p /\ req'.src = src /\ req'.kv = <<>>
  <2> HIDE DEF src
  <2>1. src \in {"none", "memory"} BY DEF src
  <2>2. req' = [prompt |-> p, src |-> src, snap |-> 0, out |-> "none", kv |-> <<>>, gen |-> <<>>]
    BY <1>1 DEF NoReq
  <2> QED BY <1>2, <2>1, <2>2 DEF NextReq
<1>4. req'.src = "memory" => \E b \in Boundaries(p) : mem.key = Key(p, b) BY <1>3
<1>5. RequestOK' BY <1>1, <1>2, <1>3, <1>4 DEF RequestOK, NextReq, Busy
<1>6. staging = <<>> BY <1>1 DEF StagingOwned, Busy
<1>7. MemSound' BY <1>1 DEF MemSound, Clean
<1>8. StagingOwned' /\ FilesSound' /\ StagingSound' /\ ReplySound'
  BY <1>1, <1>6 DEF StagingOwned, FilesSound, StagingSound, ReplySound, Clean
<1> QED BY <1>5, <1>7, <1>8

LEMMA LookupSound == ASSUME SInv, lookup PROVE SInv'
<1> USE DEF SInv
<1>1. pc = "lookup" /\ UNCHANGED <<mem, faults>> BY DEF lookup
<1>2. staging = <<>> BY <1>1 DEF StagingOwned, Busy
<1>3. MemSound' BY <1>1 DEF MemSound, Clean, lookup
<1>4. CASE UNCHANGED <<staging, req>> /\ files' \subseteq files /\ pc' \in {"cold", "generate"}
           /\ (pc' = "generate" => req.src = "memory")
  <2>1. RequestOK' BY <1>1, <1>4 DEF RequestOK, Busy, Boundaries
  <2>2. StagingOwned' /\ FilesSound' /\ StagingSound' /\ ReplySound'
    BY <1>1, <1>2, <1>4 DEF StagingOwned, FilesSound, StagingSound, ReplySound, Clean
  <2> QED BY <1>3, <2>1, <2>2
<1>5. ASSUME NEW f \in Found, Readable(f), staging' = f.kv, req' = [req EXCEPT !.src = "disk"],
             pc' = "generate", files' = files
      PROVE  SInv'
  <2>1. f \in files /\ f.key = req.prompt /\ f.state = "ok" BY <1>5 DEF Found, Readable
  <2>2. NextReq /\ req'.prompt = req.prompt /\ req'.src = "disk" /\ req'.kv = req.kv
    BY <1>5 DEF RequestOK, NextReq
  <2>3. RequestOK' BY <1>1, <1>5, <2>2 DEF RequestOK, NextReq, Busy
  <2>4. StagingSound' BY <1>1, <1>5, <2>1, <2>2 DEF StagingSound, FilesSound, Clean
  <2>5. StagingOwned' /\ FilesSound' /\ ReplySound'
    BY <1>1, <1>5, <2>2 DEF StagingOwned, FilesSound, ReplySound, Clean, Busy
  <2> QED BY <1>3, <2>3, <2>4, <2>5
<1> QED BY <1>4, <1>5 DEF lookup

\* The cold boundary is a boundary, or there is none.
LEMMA ColdBound ==
  ASSUME RequestOK, req.prompt # <<>>
  PROVE  cold_prefix_boundary \in 0..Len(req.prompt)
<1> DEFINE bs == {b \in Boundaries(req.prompt) : b <= ColdMax /\ b >= MinTokens}
           n  == Len(req.prompt)
<1>1. n \in Nat \ {0} /\ bs \subseteq 1..(n - 1) BY DEF RequestOK, Boundaries
<1>2. bs # {} => Max(bs) \in bs
  <2> HIDE DEF bs, n
  <2> SUFFICES ASSUME bs # {} PROVE Max(bs) \in bs OBVIOUS
  <2>1. bs \in SUBSET (0..n) BY <1>1
  <2> QED BY <1>1, <2>1, GreatestNat
<1>3. ColdBest = 0 \/ (bs # {} /\ ColdBest = Max(bs)) BY DEF ColdBest
<1> HIDE DEF bs
<1>4. ColdBest = 0 \/ ColdBest \in 1..(n - 1) BY <1>1, <1>2, <1>3
<1>5. cold_prefix_boundary = 0 \/ cold_prefix_boundary = ColdBest BY DEF cold_prefix_boundary
<1> QED BY <1>1, <1>4, <1>5

LEMMA ColdSound == ASSUME IInv, SInv, Cold PROVE SInv'
<1> USE DEF SInv
<1> DEFINE kv == Key(req.prompt, cold_prefix_boundary)
<1>1. /\ pc = "cold" /\ pc' = "generate" /\ UNCHANGED <<mem, faults>> /\ req.prompt # <<>>
  BY DEF Cold, RequestOK
<1>2. req.prompt \in Seq(Turns) /\ cold_prefix_boundary \in 0..Len(req.prompt)
  BY <1>1, ColdBound DEF RequestOK
<1>3. MemSound' BY <1>1 DEF MemSound, Clean
<1>4. ASSUME staging' = kv, req' = [req EXCEPT !.src = "disk"],
             NEW r \in Saves(learn_layout(cache, kv), kv, kv), files' = r.files
      PROVE  SInv'
  <2>1. NextReq /\ req'.prompt = req.prompt /\ req'.src = "disk" /\ req'.kv = req.kv
    BY <1>4 DEF RequestOK, NextReq
  <2>2. Prefix(kv, req.prompt) /\ kv \in Seq(Turns) BY <1>2, KeyFacts DEF Prefix
  <2>3. Fits(kv, kv)
    <3>1. Key(kv, Len(kv)) = kv /\ Len(kv) \in 0..Len(kv)
      <4> HIDE DEF kv
      <4> QED BY <2>2, KeyFacts
    <3> QED BY <3>1 DEF Fits, Prefix
  <2> HIDE DEF kv
  <2>4. RequestOK' BY <1>1, <2>1 DEF RequestOK, NextReq, Busy
  <2>5. FilesSound' BY <1>1, <1>4, <2>3, SaveSound DEF FilesSound, Clean
  <2>6. StagingSound' BY <1>4, <2>1, <2>2 DEF StagingSound, Fits
  <2>7. StagingOwned' /\ ReplySound' BY <1>1, <2>1 DEF StagingOwned, ReplySound, Busy
  <2> QED BY <1>3, <2>4, <2>5, <2>6, <2>7
<1>5. CASE staging' = <<>> /\ UNCHANGED <<files, req>>
  <2>1. RequestOK' BY <1>1, <1>5 DEF RequestOK, Busy, Boundaries
  <2>2. Prefix(<<>>, req.prompt)
    <3>1. Key(req.prompt, 0) = <<>> /\ 0 \in 0..Len(req.prompt) BY <1>2 DEF Key
    <3> QED BY <3>1 DEF Prefix
  <2>3. StagingOwned' /\ FilesSound' /\ StagingSound' /\ ReplySound'
    BY <1>1, <1>5, <2>2 DEF StagingOwned, FilesSound, StagingSound, ReplySound, Clean, Fits
  <2> QED BY <1>3, <2>1, <2>3
<1> QED BY <1>4, <1>5 DEF Cold

\* What is restored, unless it is turned down, is a prefix of the prompt: filling the rest
\* by position gives the prompt.
LEMMA FilledIsPrompt ==
  ASSUME SInv, Clean, pc = "generate", ~RestoreFails
  PROVE  Restored \o SubSeq(req.prompt, Len(Restored) + 1, Len(req.prompt)) = req.prompt
<1> DEFINE p == req.prompt
<1>1. p \in Seq(Turns) BY DEF SInv, RequestOK
<1>2. Prefix(Restored, p)
  <2>1. CASE req.src = "none"
    <3>1. Key(p, 0) = <<>> /\ 0 \in 0..Len(p) BY <1>1 DEF Key
    <3> QED BY <2>1, <3>1 DEF Restored, Prefix
  <2>2. CASE req.src = "memory"
    <3>1. PICK b \in Boundaries(p) : mem.key = Key(p, b) BY <2>2 DEF SInv, RequestOK
    <3>2. b \in 0..Len(p) /\ b > 0 BY <1>1 DEF Boundaries
    <3>3. mem.key # <<>> BY <1>1, <3>1, <3>2, KeyFacts
    <3>4. mem.slot = mem.key BY <3>3 DEF SInv, MemSound
    <3> QED BY <2>2, <3>1, <3>2, <3>4 DEF Restored, Prefix
  <2>3. CASE req.src = "disk"
    <3>1. Fits(staging, p) BY <2>3 DEF SInv, StagingSound
    <3>2. ~(Len(staging) > Len(p)) BY <2>3 DEF RestoreFails, Restored
    <3> QED BY <2>3, <3>1, <3>2 DEF Fits, Restored
  <2> QED BY <2>1, <2>2, <2>3 DEF SInv, RequestOK
<1>3. PICK n \in 0..Len(p) : Restored = Key(p, n) BY <1>2 DEF Prefix
<1> HIDE DEF p
<1>4. Len(Key(p, n)) = n BY <1>1, KeyFacts
<1>5. Key(p, n) \o SubSeq(p, n + 1, Len(p)) = p BY <1>1, KeyFacts
<1>6. Restored \o SubSeq(p, Len(Restored) + 1, Len(p)) = p BY <1>3, <1>4, <1>5
<1> QED BY <1>6 DEF p

LEMMA GenerateSound == ASSUME SInv, Generate PROVE SInv'
<1> USE DEF SInv
<1> DEFINE filled == Restored \o SubSeq(req.prompt, Len(Restored) + 1, Len(req.prompt))
           n      == SnapCut
           passes == n > 0 /\ n >= Len(Restored) /\ Len(Restored) < Len(req.prompt)
<1>1. /\ pc = "generate" /\ pc' = "finish" /\ req.prompt # <<>>
      /\ UNCHANGED <<files, staging, faults>>
  BY DEF Generate, RequestOK, Busy
<1>2. req.prompt \in Seq(Turns) /\ Len(req.prompt) \in Nat \ {0} BY <1>1 DEF RequestOK
<1>3. n \in Nat /\ n < Len(req.prompt)
  <2> DEFINE l == Len(req.prompt)
  <2>1. n = 0 \/ n = IF l >= 3 THEN l - 2 ELSE l - 1 BY DEF SnapCut, TargetCut
  <2> HIDE DEF l, n
  <2>2. l \in Nat \ {0} BY <1>2 DEF l
  <2> QED BY <2>1, <2>2 DEF l
<1>4. StagingOwned' = (pc # "down" /\ staging # <<>> => req'.src = "disk")
  BY <1>1 DEF StagingOwned, Busy
<1>5. FilesSound' /\ StagingSound' BY <1>1 DEF FilesSound, StagingSound, Clean
<1>6. CASE req' = [req EXCEPT !.snap = n, !.out = "failed"] /\ UNCHANGED mem
  <2> HIDE DEF n
  <2>1. NextReq /\ req'.prompt = req.prompt /\ req'.src = req.src /\ req'.snap = n
    BY <1>3, <1>6 DEF RequestOK, NextReq
  <2>2. req'.kv = <<>> BY <1>1, <1>6 DEF RequestOK
  <2> QED
    <3>1. RequestOK' BY <1>1, <1>3, <2>1 DEF RequestOK, NextReq, Busy
    <3>2. MemSound' BY <1>1, <1>6 DEF MemSound, Clean
    <3>3. StagingOwned' BY <1>1, <1>4, <2>1 DEF StagingOwned
    <3>4. ReplySound' BY <1>1, <2>1, <2>2 DEF ReplySound, Clean
    <3> QED BY <1>5, <3>1, <3>2, <3>3, <3>4
<1>7. ASSUME ~RestoreFails, NEW g \in Replies, NEW out, NEW kv,
             req' = [req EXCEPT !.snap = n, !.out = out, !.kv = filled \o g, !.gen = g],
             mem' = IF passes THEN [mem EXCEPT !.slot = kv] ELSE mem
      PROVE  SInv'
  <2>1. g \in Seq(Turns) BY PromptType
  <2>2. Clean => filled = req.prompt BY <1>1, <1>7, FilledIsPrompt
  <2>3. passes => n > 0 OBVIOUS
  <2> HIDE DEF n, filled, passes
  <2>4. /\ NextReq /\ req'.prompt = req.prompt /\ req'.src = req.src /\ req'.snap = n
        /\ req'.kv = filled \o g /\ req'.gen = g
    BY <1>3, <1>7, <2>1 DEF RequestOK, NextReq
  <2>5. RequestOK' BY <1>1, <1>3, <2>4 DEF RequestOK, NextReq, Busy
  <2>6. MemSound'
    <3>1. CASE passes
      <4>1. mem' = [mem EXCEPT !.slot = kv] BY <1>7, <3>1
      <4>2. mem' \in [key: Seq(Turns), slot: {mem'.slot}, tokens: Seq(Turns)]
        BY <4>1 DEF MemSound
      <4> QED BY <1>1, <2>3, <2>4, <3>1, <4>2 DEF MemSound
    <3>2. CASE ~passes
      <4>1. mem' = mem BY <1>7, <3>2
      <4> QED BY <1>1, <4>1 DEF MemSound, Clean
    <3> QED BY <3>1, <3>2
  <2>7. StagingOwned' BY <1>1, <1>4, <2>4 DEF StagingOwned
  <2>8. ReplySound' BY <1>1, <2>2, <2>4 DEF ReplySound, Clean
  <2> QED BY <1>5, <2>5, <2>6, <2>7, <2>8
<1> QED BY ZenonT(40), <1>6, <1>7 DEF Generate

LEMMA FinishSound == ASSUME SInv, Finish PROVE SInv'
<1> USE DEF SInv
<1> DEFINE key == Key(req.prompt, req.snap)
<1>1. pc = "finish" /\ pc' = "checkpoint" /\ UNCHANGED <<staging, req>> BY DEF Finish
<1>2. req.prompt \in Seq(Turns) /\ req.snap \in 0..Len(req.prompt) BY <1>1 DEF RequestOK
<1>3. key \in Seq(Turns) /\ Prefix(key, req.prompt) BY <1>2, KeyFacts DEF Prefix
<1> HIDE DEF key
<1>4. RequestOK' BY <1>1 DEF RequestOK, Busy
<1>5. StagingOwned' /\ StagingSound' BY <1>1 DEF StagingOwned, StagingSound, Busy
<1>6. ASSUME NEW r \in Saves(learn_layout(cache, mem.slot), mem.slot, req.prompt),
             mem' = [mem EXCEPT !.key = key, !.tokens = key], files' = r.files,
             faults' = IF mem.slot # key THEN faults \cup {"unsaved"} ELSE faults
      PROVE  SInv'
  <2>1. Clean' => Clean /\ mem.slot = key BY <1>6 DEF Clean
  <2>2. ASSUME Clean' PROVE \A f \in files' : f.state = "ok" => Fits(f.kv, f.key)
    <3>1. Fits(mem.slot, req.prompt) BY <1>3, <2>1, <2>2 DEF Fits
    <3> QED BY <1>6, <2>1, <2>2, <3>1, SaveSound DEF FilesSound
  <2>3. FilesSound' BY <2>2 DEF FilesSound
  <2>4. /\ mem' \in [key: Seq(Turns), slot: {mem'.slot}, tokens: Seq(Turns)]
        /\ mem'.key = key /\ mem'.slot = mem.slot
    BY <1>3, <1>6 DEF MemSound
  <2>5. MemSound' BY <2>1, <2>4 DEF MemSound
  <2>6. ReplySound' BY <1>1, <2>1 DEF ReplySound
  <2> QED BY <1>4, <1>5, <2>3, <2>5, <2>6
<1>7. CASE UNCHANGED <<files, faults>> /\ mem' = [mem EXCEPT !.key = <<>>]
  <2>1. /\ mem' \in [key: Seq(Turns), slot: {mem'.slot}, tokens: Seq(Turns)]
        /\ mem'.key = <<>>
    <3>1. <<>> \in Seq(Turns) OBVIOUS
    <3> DEFINE none == <<>>
    <3> HIDE DEF none
    <3>2. none \in Seq(Turns) /\ mem' = [mem EXCEPT !.key = none] BY <1>7, <3>1 DEF none
    <3>3. mem' \in [key: Seq(Turns), slot: {mem'.slot}, tokens: Seq(Turns)] /\ mem'.key = none
      BY <3>2 DEF MemSound
    <3> QED BY <3>3 DEF none
  <2>2. MemSound' BY <2>1 DEF MemSound
  <2>3. FilesSound' /\ ReplySound' BY <1>1, <1>7 DEF FilesSound, ReplySound, Clean
  <2> QED BY <1>4, <1>5, <2>2, <2>3
<1>8. CASE UNCHANGED <<files, mem, faults>> /\ req.snap = 0
  <2>1. MemSound' BY <1>1, <1>8 DEF MemSound, Clean
  <2>2. FilesSound' /\ ReplySound' BY <1>1, <1>8 DEF FilesSound, ReplySound, Clean
  <2> QED BY <1>4, <1>5, <2>1, <2>2
<1>9. req.snap = 0 \/ req.snap > 0 BY <1>2
<1> QED BY <1>6, <1>7, <1>8 DEF Finish, key

\* A continued checkpoint holds its own key's state, or that of more than its key.
LEMMA CheckpointFits ==
  ASSUME SInv, Clean, pc = "checkpoint", req.kv # <<>>, Interval # 0
  PROVE  Fits(req.kv, Key(req.prompt \o req.gen, Target))
<1> DEFINE s == req.prompt \o req.gen
<1>1. s \in Seq(Turns) /\ req.kv = s BY DEF SInv, RequestOK, ReplySound
<1>2. Len(s) \in Nat /\ Interval \in Nat \ {0}
  <2> HIDE DEF s
  <2>1. Len(s) \in Nat BY <1>1
  <2>2. Interval \in Nat BY SizeAssumption
  <2> QED BY <2>1, <2>2
<1>3. Target \in 0..Len(s)
  <2> DEFINE n == Len(s)
  <2>1. Target = (n \div Interval) * Interval BY DEF Target
  <2> HIDE DEF n
  <2>2. n \in Nat BY <1>2 DEF n
  <2> QED BY <1>2, <2>1, <2>2, TargetBound DEF n
<1> HIDE DEF s
<1>4. Len(Key(s, Target)) = Target BY <1>1, <1>3, KeyFacts
<1>5. CASE Target = Len(s)
  <2>1. Key(s, Target) = s BY <1>1, <1>3, <1>5, KeyFacts
  <2>2. Prefix(s, s) BY <1>3, <1>5, <2>1 DEF Prefix
  <2> QED BY <1>1, <2>1, <2>2 DEF Fits, s
<1>6. CASE Target # Len(s)
  <2>1. Len(s) > Target BY <1>2, <1>3, <1>6
  <2> QED BY <1>1, <1>4, <2>1 DEF Fits, s
<1> QED BY <1>5, <1>6

LEMMA CheckpointSound == ASSUME IInv, SInv, Checkpoint PROVE SInv'
<1> USE DEF SInv
<1> DEFINE c == learn_layout(cache, req.kv)
<1>1. pc = "checkpoint" /\ pc' = "idle" /\ req' = NoReq /\ UNCHANGED <<mem, faults>>
  BY DEF Checkpoint
<1>2. RequestOK' BY <1>1 DEF NoReq, RequestOK, Busy
<1>3. MemSound' BY <1>1 DEF MemSound, Clean
<1>4. staging' = <<>>
  <2>1. FreeStaging = <<>> BY <1>1 DEF FreeStaging, StagingOwned
  <2> QED BY <2>1 DEF Checkpoint
<1>5. StagingOwned' /\ StagingSound' /\ ReplySound'
  BY <1>1, <1>4 DEF StagingOwned, StagingSound, ReplySound
<1>6. FilesSound'
  <2>1. CASE files' = files BY <1>1, <2>1 DEF FilesSound, Clean
  <2>2. ASSUME NEW r \in maybe_store_continued(c, req.kv), files' = r.files
        PROVE  FilesSound'
    <3> HIDE DEF c
    <3>1. CacheOK(c) /\ (req.kv # <<>> => c.id = model) BY LearnOK DEF c, IInv
    <3>2. CASE r = Refused(c) BY <1>1, <2>2, <3>2 DEF Refused, FilesSound, Clean
    <3>3. CASE r # Refused(c)
      <4>1. PICK q \in Saves(c, req.kv, Key(req.prompt \o req.gen, Target)) :
              r = IF q.ok THEN [q EXCEPT !.c = [q.c EXCEPT !.last = Target]] ELSE q
        BY <3>3 DEF maybe_store_continued
      <4>2. Interval # 0 BY <3>3 DEF maybe_store_continued
      <4>3. SaveOK(q) BY <3>1, SavesOK DEF IInv
      <4>4. r.files = q.files BY <4>1, <4>3 DEF SaveOK
      <4>5. ASSUME Clean PROVE \A f \in q.files : f.state = "ok" => Fits(f.kv, f.key)
        BY <1>1, <4>2, <4>5, CheckpointFits, SaveSound DEF FilesSound
      <4> QED BY <1>1, <2>2, <4>4, <4>5 DEF FilesSound, Clean
    <3> QED BY <3>2, <3>3
  <2> QED BY <2>1, <2>2 DEF Checkpoint
<1> QED BY <1>2, <1>3, <1>5, <1>6

LEMMA NextSound == IInv /\ SInv /\ [Next]_vars => SInv'
<1> SUFFICES ASSUME IInv, SInv, [Next]_vars PROVE SInv' OBVIOUS
<1>1. CASE Age BY <1>1, SameSound DEF Age
<1>2. CASE UNCHANGED vars BY <1>2, SameSound DEF vars
<1> QED
  BY <1>1, <1>2, RestartSound, CrashSound, ShutdownSound, BeginSound, LookupSound,
     ColdSound, GenerateSound, FinishSound, CheckpointSound DEF Next

-----------------------------------------------------------------------------
(* The budget *)

\* Within the budget, or nothing left that may be evicted.
Slim(c) == c.total <= Budget \/ \A e \in c.entries : e.recent

LEMMA EvictionEnds ==
  ASSUME NEW S, NEW t, NEW X \in Evictions(S, t)
  PROVE  t - TotalOf(X) <= Budget \/ \A e \in S \ X : e.recent
<1> DEFINE old == {e \in S : ~e.recent}
           Ends(Y) == t - TotalOf(Y) <= Budget \/ Y = old
           Late(Y) == Y # {} => \E e \in Y : t - TotalOf(Y \ {e}) > Budget
<1>1. Evictions(S, t) = {Y \in SUBSET old : Ends(Y) /\ Late(Y)} BY Zenon DEF Evictions
<1> HIDE DEF Ends, Late, old
<1>2. Ends(X) BY <1>1
<1> QED BY <1>2 DEF Ends, old

\* A save that wrote a file has made room for it.
LEMMA SaveBudget ==
  ASSUME NEW c, NEW kv, NEW key, IsCache(c), NEW r \in Saves(c, kv, key),
         NEW g \in r.files \ files
  PROVE  Slim(r.c)
<1>1. CASE r \in {Refused(c), [Refused(c) EXCEPT !.ok = TRUE]} BY <1>1 DEF Refused
<1>2. ASSUME NEW st \in {"ok", "torn"}, r \in Written(c, kv, key, st) PROVE Slim(r.c)
  <2> DEFINE f == write_file(c, kv, key, st)
             e == [key |-> key, size |-> Bytes(f), recent |-> TRUE]
             left(X) == {h \in files : h.layout # c.id \/ h.key \notin {key} \cup KeysOf(X)} \cup {f}
             n == IF st = "ok" THEN 0 ELSE 1
  <2>1. PICK X \in Evictions(c.entries \cup {e}, c.total + e.size) :
          r = [ok |-> TRUE, c |-> Entered(c, e, X), files |-> left(X), bad |-> n]
    BY <1>2, Zenon DEF Written
  <2>2. r.c = Entered(c, e, X)
    <3> HIDE DEF e, left, n
    <3> QED BY <2>1
  <2> HIDE DEF e
  <2> DEFINE S == c.entries \cup {e}
             t == c.total + e.size
  <2>3. r.c.entries = S \ X /\ r.c.total = t - TotalOf(X) BY <2>2 DEF Entered, IsCache
  <2>4. X \in Evictions(S, t) OBVIOUS
  <2> HIDE DEF S, t
  <2>5. t - TotalOf(X) <= Budget \/ \A d \in S \ X : d.recent BY <2>4, EvictionEnds
  <2> QED BY <2>3, <2>5 DEF Slim
<1>3. \/ r \in {Refused(c), [Refused(c) EXCEPT !.ok = TRUE]}
      \/ \E st \in {"ok", "torn"} : r \in Written(c, kv, key, st)
  BY DEF Saves
<1> QED BY <1>1, <1>2, <1>3

LEMMA ContinuedBudget ==
  ASSUME NEW c, NEW kv, CacheOK(c), kv # <<>> => c.id = model, FilesOK(files),
         NEW r \in maybe_store_continued(c, kv), NEW g \in r.files \ files
  PROVE  Slim(r.c)
<1>1. r # Refused(c) BY DEF Refused
<1>2. PICK q \in Saves(c, kv, Key(req.prompt \o req.gen, Target)) :
        r = IF q.ok THEN [q EXCEPT !.c = [q.c EXCEPT !.last = Target]] ELSE q
  BY <1>1 DEF maybe_store_continued
<1>3. SaveOK(q) BY SavesOK
<1>4. r.files = q.files /\ r.c.total = q.c.total /\ r.c.entries = q.c.entries
  <2> DEFINE d == [q.c EXCEPT !.last = Target]
  <2>1. d.total = q.c.total /\ d.entries = q.c.entries BY <1>3 DEF SaveOK, CacheOK, IsCache
  <2> HIDE DEF d
  <2>2. r = q \/ r = [q EXCEPT !.c = d] BY <1>2 DEF d
  <2> QED BY <1>3, <2>1, <2>2 DEF SaveOK
<1>5. Slim(q.c) BY SMTT(30), <1>4, SaveBudget DEF CacheOK
<1> QED BY <1>4, <1>5 DEF Slim

LEMMA StepBudget ==
  ASSUME IInv, Next, NEW g \in files' \ files, g.dirty
  PROVE  Slim(cache')
<1>0. CacheOK(cache) /\ FilesOK(files) BY DEF IInv
<1>1. CASE Crash
  <2>1. PICK X \in SUBSET {f \in files : f.dirty}, st \in {"torn", "headless"} :
          files' = {[f EXCEPT !.dirty = FALSE] : f \in files \ X} \cup
                   {[f EXCEPT !.dirty = FALSE, !.state = st, !.kv = <<Garbage>>] : f \in X}
    BY <1>1 DEF Crash
  <2>2. ASSUME NEW f \in files
        PROVE  /\ ~[f EXCEPT !.dirty = FALSE].dirty
               /\ ~[f EXCEPT !.dirty = FALSE, !.state = st, !.kv = <<Garbage>>].dirty
    BY <1>0 DEF FilesOK, IsFile
  <2> QED BY <2>1, <2>2
<1>2. CASE Shutdown
  <2>1. ASSUME NEW fs, FilesOK(fs), files' = {[f EXCEPT !.dirty = FALSE] : f \in fs} PROVE FALSE
    BY <2>1 DEF FilesOK, IsFile
  <2>2. CASE mem.tokens # <<>> /\ mem.slot # <<>>
    <3>1. PICK r \in Saves(learn_layout(cache, mem.slot), mem.slot, mem.tokens) :
            files' = {[f EXCEPT !.dirty = FALSE] : f \in r.files}
      BY <1>2, <2>2 DEF Shutdown
    <3>2. SaveOK(r) BY <1>0, LearnOK, SavesOK
    <3> QED BY <2>1, <3>1, <3>2 DEF SaveOK
  <2>3. CASE ~(mem.tokens # <<>> /\ mem.slot # <<>>)
    BY <1>0, <1>2, <2>1, <2>3 DEF Shutdown
  <2> QED BY <2>2, <2>3
<1>3. CASE Cold
  <2> DEFINE kv == Key(req.prompt, cold_prefix_boundary)
  <2>1. PICK r \in Saves(learn_layout(cache, kv), kv, kv) : cache' = r.c /\ files' = r.files
    BY <1>3 DEF Cold
  <2> HIDE DEF kv
  <2>2. CacheOK(learn_layout(cache, kv)) BY <1>0, LearnOK
  <2> QED BY <2>1, <2>2, SaveBudget DEF CacheOK
<1>4. CASE Finish
  <2>1. PICK r \in Saves(learn_layout(cache, mem.slot), mem.slot, req.prompt) :
          cache' = r.c /\ files' = r.files
    BY <1>4 DEF Finish
  <2>2. CacheOK(learn_layout(cache, mem.slot)) BY <1>0, LearnOK
  <2> QED BY <2>1, <2>2, SaveBudget DEF CacheOK
<1>5. CASE Checkpoint
  <2>1. PICK r \in maybe_store_continued(learn_layout(cache, req.kv), req.kv) :
          cache' = r.c /\ files' = r.files
    BY <1>5 DEF Checkpoint
  <2>2. /\ CacheOK(learn_layout(cache, req.kv))
        /\ req.kv # <<>> => learn_layout(cache, req.kv).id = model
    BY <1>0, LearnOK
  <2> QED BY <1>0, <2>1, <2>2, ContinuedBudget
<1> QED
  BY <1>1, <1>2, <1>3, <1>4, <1>5 DEF Next, Restart, Age, Begin, lookup, Generate

-----------------------------------------------------------------------------
(* The index and the directory *)

Entry == [key: Seq(Turns), size: Nat, recent: BOOLEAN]

\* The directory has a file of layout l with a header, of key k and size n.
Has(fs, l, k, n) ==
  \E f \in fs : f.layout = l /\ f.state # "headless" /\ f.key = k /\ Bytes(f) = n

\* The index of c is the directory fs.
IndexOK(c, fs) ==
  /\ c.entries \subseteq Entry /\ IsFiniteSet(c.entries)
  /\ c.total = TotalOf(c.entries)
  /\ \A e \in c.entries : Has(fs, c.id, e.key, e.size)
  /\ \A f \in fs : f.layout = c.id /\ f.state # "headless" =>
       \E e \in c.entries : e.key = f.key /\ e.size = Bytes(f)
  /\ \A d, e \in c.entries : d.key = e.key => d = e

\* A directory has one file of a name.
DirOK(fs) ==
  /\ fs \subseteq File /\ IsFiniteSet(fs)
  /\ \A f, g \in fs : f.layout = g.layout /\ f.key = g.key => f = g

CacheType(c) == IsCache(c) /\ c.id \in Layouts \cup {NoLayout} /\ c.last \in Nat

\* What total_bytes_ does when entries come and go.
LEMMA EntriesTotal ==
  ASSUME NEW E \in SUBSET Entry, IsFiniteSet(E)
  PROVE  /\ TotalOf(E) \in Nat
         /\ \A X \in SUBSET E : /\ IsFiniteSet(X) /\ IsFiniteSet(E \ X)
                                /\ TotalOf(X) \in Nat /\ TotalOf(E \ X) \in Nat
                                /\ TotalOf(E) = TotalOf(E \ X) + TotalOf(X)
         /\ \A y \in Entry : y \notin E => /\ IsFiniteSet(E \cup {y})
                                           /\ TotalOf(E \cup {y}) = TotalOf(E) + y.size
<1> DEFINE w == [e \in Entry |-> e.size]
<1>1. \A e \in Entry : w[e] = e.size /\ w[e] \in Nat BY DEF Entry
<1>2. ASSUME NEW S \in SUBSET Entry PROVE TotalOf(S) = Tally(w, S)
  <2> DEFINE v == [e \in S |-> e.size]
  <2>1. \A e \in S : w[e] = v[e] OBVIOUS
  <2> HIDE DEF v, w
  <2>2. Tally(w, S) = Tally(v, S) BY <2>1, TallySame
  <2> QED BY <2>2 DEF TotalOf, v
<1> HIDE DEF w
<1>3. \A e \in E : w[e] \in Nat BY <1>1
<1>4. TotalOf(E) \in Nat BY <1>2, <1>3, TallyType
<1>5. ASSUME NEW X \in SUBSET E
      PROVE  /\ IsFiniteSet(X) /\ IsFiniteSet(E \ X)
             /\ TotalOf(X) \in Nat /\ TotalOf(E \ X) \in Nat
             /\ TotalOf(E) = TotalOf(E \ X) + TotalOf(X)
  <2>1. IsFiniteSet(X) /\ IsFiniteSet(E \ X) BY FS_Subset
  <2>2. /\ Tally(w, E) = Tally(w, E \ X) + Tally(w, X)
        /\ Tally(w, E \ X) \in Nat /\ Tally(w, X) \in Nat
    BY <1>3, TallySplit
  <2>3. /\ TotalOf(X) = Tally(w, X) /\ TotalOf(E) = Tally(w, E)
        /\ TotalOf(E \ X) = Tally(w, E \ X)
    BY <1>2
  <2> QED BY <2>1, <2>2, <2>3
<1>6. ASSUME NEW y \in Entry, y \notin E
      PROVE  IsFiniteSet(E \cup {y}) /\ TotalOf(E \cup {y}) = TotalOf(E) + y.size
  <2>1. IsFiniteSet(E \cup {y}) BY FS_AddElement
  <2>2. Tally(w, E \cup {y}) = Tally(w, E) + w[y] BY <1>1, <1>3, <1>6, TallyAdd
  <2>3. E \cup {y} \in SUBSET Entry OBVIOUS
  <2>4. TotalOf(E \cup {y}) = Tally(w, E \cup {y}) /\ TotalOf(E) = Tally(w, E) BY <1>2, <2>3
  <2> QED BY <1>1, <2>1, <2>2, <2>4
<1> QED BY <1>4, <1>5, <1>6

LEMMA BytesType == ASSUME NEW f \in File PROVE Bytes(f) \in Nat
BY DEF File, Bytes

\* scan_directory() makes the index the directory.
LEMMA ScannedIndex ==
  ASSUME NEW c, IsCache(c), NEW fs, fs = files, DirOK(fs)
  PROVE  IndexOK(Scanned(c, c.id), fs)
<1> DEFINE l  == c.id
           r  == Scanned(c, l)
           G  == {g \in files : g.layout = l /\ g.state # "headless"}
           ent(f) == [key |-> f.key, size |-> Bytes(f), recent |-> FALSE]
           es == {ent(f) : f \in G}
<1>1. r.id = l /\ r.entries = es /\ r.total = TotalOf(es)
  <2>1. r = [c EXCEPT !.entries = es, !.total = TotalOf(es)] BY Zenon DEF Scanned
  <2> HIDE DEF es
  <2> QED BY <2>1 DEF IsCache
<1>2. files \subseteq File /\ IsFiniteSet(files) BY DEF DirOK
<1>3. IsFiniteSet(G) BY <1>2, FS_Subset
<1>4. IsFiniteSet(es)
  <2> DEFINE h == [f \in G |-> ent(f)]
  <2>1. h \in Surjection(G, es) BY DEF Surjection
  <2> HIDE DEF h, G, es
  <2> QED BY <1>3, <2>1, FS_Surjection
<1>5. \A f \in G : f \in File /\ ent(f) \in Entry
  <2> SUFFICES ASSUME NEW f \in G PROVE f \in File /\ ent(f) \in Entry OBVIOUS
  <2>1. f \in File BY <1>2
  <2>2. Bytes(f) \in Nat BY <2>1, BytesType
  <2>3. f.key \in Seq(Turns) BY <2>1 DEF File
  <2> QED BY <2>1, <2>2, <2>3 DEF Entry
<1>6. es \subseteq Entry BY <1>5
<1>7. ASSUME NEW e \in es PROVE Has(fs, l, e.key, e.size)
  <2>1. PICK f \in G : e = ent(f) OBVIOUS
  <2>2. e.key = f.key /\ e.size = Bytes(f) BY <2>1
  <2> QED BY <2>2 DEF Has
<1>8. ASSUME NEW f \in fs, f.layout = l, f.state # "headless"
      PROVE  \E e \in es : e.key = f.key /\ e.size = Bytes(f)
  <2>1. f \in G BY <1>8
  <2>2. ent(f) \in es /\ ent(f).key = f.key /\ ent(f).size = Bytes(f) BY <2>1
  <2> QED BY <2>2
<1>9. ASSUME NEW d \in es, NEW e \in es, d.key = e.key PROVE d = e
  <2>1. PICK f \in G : d = ent(f) OBVIOUS
  <2>2. PICK g \in G : e = ent(g) OBVIOUS
  <2>3. f.layout = g.layout /\ f.key = g.key BY <1>9, <2>1, <2>2
  <2>4. f = g BY <2>3 DEF DirOK
  <2> QED BY <2>1, <2>2, <2>4
<1> HIDE DEF es, r, l
<1>10. IndexOK(r, fs) BY <1>1, <1>4, <1>6, <1>7, <1>8, <1>9 DEF IndexOK
<1> QED BY <1>10 DEF r, l

\* learn_layout() leaves the index as it is, or scans the directory again.
LEMMA LearnIndex ==
  ASSUME NEW c, CacheType(c), IndexOK(c, files), DirOK(files), model \in Layouts, NEW kv
  PROVE  CacheType(learn_layout(c, kv)) /\ IndexOK(learn_layout(c, kv), files)
<1> DEFINE d == [c EXCEPT !.known = TRUE, !.from_disk = FALSE, !.id = model]
<1>1. IsCache(d) /\ d.id = model /\ d.last = c.last BY DEF CacheType, IsCache
<1>2. learn_layout(c, kv) = c \/ learn_layout(c, kv) = Scanned(d, model) BY DEF learn_layout
<1> HIDE DEF d
<1>3. IndexOK(Scanned(d, model), files) BY <1>1, ScannedIndex
<1>4. CacheType(Scanned(d, model))
  <2>1. Scanned(d, model).last = d.last BY <1>1 DEF Scanned, IsCache
  <2>2. IsCache(Scanned(d, model)) /\ Scanned(d, model).id = d.id BY <1>1, ScannedOK
  <2> QED BY <1>1, <2>1, <2>2 DEF CacheType
<1> QED BY <1>2, <1>3, <1>4

\* init(): no index yet, or that of the layout guessed from a file.
LEMMA StartedIndex ==
  ASSUME DirOK(files), NEW l \in Layouts \cup {NoLayout}
  PROVE  CacheType(Started(l)) /\ IndexOK(Started(l), files)
<1> DEFINE c == [known |-> FALSE, from_disk |-> FALSE, id |-> NoLayout, entries |-> {},
                 total |-> 0, last |-> 0]
           d == [c EXCEPT !.known = TRUE, !.from_disk = TRUE, !.id = l]
<1>1. CacheType(c) /\ c.id = NoLayout /\ c.entries = {} /\ c.total = 0 BY DEF CacheType, IsCache
<1>2. IsCache(d) /\ d.id = l /\ d.last = 0 BY DEF IsCache
<1>3. Started(l) = IF l = NoLayout THEN c ELSE Scanned(d, l) BY Zenon DEF Started
<1> HIDE DEF c, d
<1>4. IndexOK(c, files)
  <2>1. TotalOf({}) = 0 BY TallyEmpty DEF TotalOf
  <2>2. \A f \in files : f.layout # NoLayout BY LayoutAssumption DEF DirOK, File
  <2> QED BY <1>1, <2>1, <2>2, FS_EmptySet DEF IndexOK
<1>5. IndexOK(Scanned(d, l), files) BY <1>2, ScannedIndex
<1>6. CacheType(Scanned(d, l))
  <2>1. Scanned(d, l).last = d.last BY <1>2 DEF Scanned, IsCache
  <2>2. IsCache(Scanned(d, l)) /\ Scanned(d, l).id = d.id BY <1>2, ScannedOK
  <2> QED BY <1>2, <2>1, <2>2 DEF CacheType
<1> QED BY <1>1, <1>3, <1>4, <1>5, <1>6

\* What save() may end with.
SavedOK(r) ==
  /\ CacheType(r.c) /\ DirOK(r.files) /\ IndexOK(r.c, r.files)
  /\ r.bad \in {0, 1} /\ crashes + r.bad \in 0..Crashes

\* A file that was written, and the evictions for it, in the index and in the directory.
LEMMA WrittenIndex ==
  ASSUME NEW c, CacheType(c), IndexOK(c, files), DirOK(files), c.id = model, model \in Layouts,
         NEW kv \in Seq(Tokens), NEW key \in Seq(Turns), key \notin KeysOf(c.entries),
         NEW st \in {"ok", "torn"}, crashes \in 0..Crashes, st = "torn" => crashes < Crashes,
         NEW r \in Written(c, kv, key, st)
  PROVE  SavedOK(r)
<1> DEFINE f == write_file(c, kv, key, st)
           e == [key |-> key, size |-> Bytes(f), recent |-> TRUE]
           keep(X) == {g \in files : g.layout # c.id \/ g.key \notin {key} \cup KeysOf(X)}
           left(X) == keep(X) \cup {f}
           n == IF st = "ok" THEN 0 ELSE 1
           E == c.entries \cup {e}
<1>1. PICK X \in Evictions(E, c.total + e.size) :
        r = [ok |-> TRUE, c |-> Entered(c, e, X), files |-> left(X), bad |-> n]
  BY Zenon DEF Written
<1>2. r.c = Entered(c, e, X) /\ r.files = left(X) /\ r.bad = n
  <2> HIDE DEF e, left, n
  <2> QED BY <1>1
<1>3. f \in File /\ f.layout = c.id /\ f.key = key /\ f.state # "headless"
  <2>1. <<Garbage>> \in Seq(Tokens) BY DEF Tokens
  <2> QED BY <2>1 DEF write_file, File
<1>4. Bytes(f) \in Nat BY <1>3, BytesType
<1>5. e \in Entry /\ e.key = key /\ e.size = Bytes(f) /\ e.recent BY <1>4 DEF Entry
<1>6. n \in {0, 1} /\ crashes + n \in 0..Crashes
  <2>1. Crashes \in Nat BY SizeAssumption
  <2> QED BY <2>1
<1>7. X \subseteq {x \in E : ~x.recent} BY Zenon DEF Evictions
<1> HIDE DEF f, e, n
<1>8. X \subseteq c.entries BY <1>5, <1>7
<1>9. e \notin X /\ e \notin c.entries BY <1>5, <1>8 DEF KeysOf
<1>10. c.entries \in SUBSET Entry /\ IsFiniteSet(c.entries) BY DEF IndexOK
<1>11. r.c.entries = E \ X /\ r.c.total = (c.total + e.size) - TotalOf(X)
  <2> HIDE DEF E
  <2> QED BY <1>2 DEF Entered, CacheType, IsCache, E
<1>12. r.c.id = c.id /\ r.c.last = c.last /\ IsCache(r.c)
  BY <1>2 DEF Entered, CacheType, IsCache
<1>13. IsFiniteSet(E) /\ TotalOf(E) = TotalOf(c.entries) + e.size /\ E \in SUBSET Entry
  BY <1>5, <1>9, <1>10, EntriesTotal
<1>14. X \in SUBSET E BY <1>8
<1> HIDE DEF E
<1>15. /\ IsFiniteSet(E \ X) /\ TotalOf(X) \in Nat /\ TotalOf(E \ X) \in Nat
       /\ TotalOf(E) = TotalOf(E \ X) + TotalOf(X)
  BY <1>13, <1>14, EntriesTotal
<1>16. c.total = TotalOf(c.entries) /\ TotalOf(c.entries) \in Nat
  BY <1>10, EntriesTotal DEF IndexOK
<1>17. r.c.total = TotalOf(E \ X) BY <1>5, <1>4, <1>11, <1>13, <1>15, <1>16
<1>18. keep(X) \subseteq files /\ \A g \in files : g \in keep(X) <=>
         g.layout # c.id \/ (g.key # key /\ \A x \in X : g.key # x.key)
  BY DEF KeysOf
<1>19. r.files = keep(X) \cup {f} BY <1>2
<1> HIDE DEF keep, left
<1>20. DirOK(r.files)
  <2>1. r.files \subseteq File BY <1>3, <1>18, <1>19 DEF DirOK
  <2>2. IsFiniteSet(keep(X)) BY <1>18, FS_Subset DEF DirOK
  <2>3. IsFiniteSet(r.files) BY <1>19, <2>2, FS_AddElement
  <2>4. ASSUME NEW g \in r.files, NEW h \in r.files, g.layout = h.layout, g.key = h.key
        PROVE  g = h
    <3>1. \A x \in keep(X) : ~(x.layout = f.layout /\ x.key = f.key) BY <1>3, <1>18
    <3>2. CASE g \in keep(X) /\ h \in keep(X) BY <1>18, <2>4, <3>2 DEF DirOK
    <3> QED BY <1>19, <2>4, <3>1, <3>2
  <2> QED BY <2>1, <2>3, <2>4 DEF DirOK
<1>21. ASSUME NEW x \in E \ X PROVE Has(r.files, c.id, x.key, x.size)
  <2>1. CASE x = e BY <1>3, <1>5, <1>19, <2>1 DEF Has
  <2>2. CASE x # e
    <3>1. x \in c.entries /\ x \notin X BY <1>21, <2>2 DEF E
    <3>2. PICK g \in files : /\ g.layout = c.id /\ g.state # "headless"
                             /\ g.key = x.key /\ Bytes(g) = x.size
      BY <3>1 DEF IndexOK, Has
    <3>3. x.key # key BY <3>1 DEF KeysOf
    <3>4. \A y \in X : y.key # x.key BY <1>8, <3>1 DEF IndexOK
    <3>5. g \in keep(X) BY <1>18, <3>2, <3>3, <3>4
    <3> QED BY <1>19, <3>2, <3>5 DEF Has
  <2> QED BY <2>1, <2>2
<1>22. ASSUME NEW g \in r.files, g.layout = c.id, g.state # "headless"
       PROVE  \E x \in E \ X : x.key = g.key /\ x.size = Bytes(g)
  <2>1. CASE g = f BY <1>3, <1>5, <1>9, <2>1 DEF E
  <2>2. CASE g \in keep(X)
    <3>1. g \in files /\ g.key # key /\ \A x \in X : g.key # x.key BY <1>18, <1>22, <2>2
    <3>2. PICK x \in c.entries : x.key = g.key /\ x.size = Bytes(g)
      BY <1>22, <3>1 DEF IndexOK
    <3>3. x \in E \ X BY <3>1, <3>2 DEF E
    <3> QED BY <3>2, <3>3
  <2> QED BY <1>19, <2>1, <2>2
<1>23. ASSUME NEW x \in E \ X, NEW y \in E \ X, x.key = y.key PROVE x = y
  <2>1. \A z \in c.entries : z.key # key BY DEF KeysOf
  <2>2. (x = e \/ x \in c.entries) /\ (y = e \/ y \in c.entries) BY DEF E
  <2>3. x \in c.entries /\ y \in c.entries => x = y BY <1>23 DEF IndexOK
  <2> QED BY <1>5, <1>23, <2>1, <2>2, <2>3
<1>24. E \ X \subseteq Entry BY <1>13
<1>25. IndexOK(r.c, r.files)
  BY <1>11, <1>12, <1>15, <1>17, <1>21, <1>22, <1>23, <1>24 DEF IndexOK
<1>26. CacheType(r.c) BY <1>12 DEF CacheType
<1> QED BY <1>2, <1>6, <1>20, <1>25, <1>26 DEF SavedOK

LEMMA SavesIndex ==
  ASSUME NEW c, CacheType(c), IndexOK(c, files), DirOK(files), model \in Layouts,
         crashes \in 0..Crashes,
         NEW kv \in Seq(Tokens), NEW key \in Seq(Turns), kv # <<>> => c.id = model,
         NEW r \in Saves(c, kv, key)
  PROVE  SavedOK(r)
<1>1. CASE r \in {Refused(c), [Refused(c) EXCEPT !.ok = TRUE]}
  <2>1. r.c = c /\ r.files = files /\ r.bad = 0 BY <1>1 DEF Refused
  <2>2. crashes + 0 = crashes BY SizeAssumption
  <2> QED BY <2>1, <2>2 DEF SavedOK
<1>2. ASSUME r \notin {Refused(c), [Refused(c) EXCEPT !.ok = TRUE]}
      PROVE  /\ kv # <<>> /\ key \notin KeysOf(c.entries)
             /\ \/ r \in Written(c, kv, key, "ok")
                \/ crashes < Crashes /\ r \in Written(c, kv, key, "torn")
  BY <1>2 DEF Saves
<1>3. CASE r \notin {Refused(c), [Refused(c) EXCEPT !.ok = TRUE]}
  BY <1>2, <1>3, WrittenIndex
<1> QED BY <1>1, <1>3

\* A request's tokens, with those generated for it.
LEMMA ContinuedIndex ==
  ASSUME NEW c, CacheType(c), CacheOK(c), IndexOK(c, files), DirOK(files), FilesOK(files),
         model \in Layouts, crashes \in 0..Crashes,
         req.prompt \in Seq(Turns), req.gen \in Seq(Turns),
         NEW kv \in Seq(Tokens), kv # <<>> => c.id = model,
         NEW r \in maybe_store_continued(c, kv)
  PROVE  SavedOK(r)
<1> DEFINE s == req.prompt \o req.gen
<1>1. CASE r = Refused(c)
  <2>1. r.c = c /\ r.files = files /\ r.bad = 0 BY <1>1 DEF Refused
  <2>2. crashes + 0 = crashes BY SizeAssumption
  <2> QED BY <2>1, <2>2 DEF SavedOK
<1>2. CASE r # Refused(c)
  <2>1. PICK q \in Saves(c, kv, Key(s, Target)) :
          r = IF q.ok THEN [q EXCEPT !.c = [q.c EXCEPT !.last = Target]] ELSE q
    BY <1>2 DEF maybe_store_continued
  <2>2. Interval # 0 BY <1>2 DEF maybe_store_continued
  <2>3. s \in Seq(Turns) OBVIOUS
  <2>a. Len(s) \in Nat
    <3> HIDE DEF s
    <3> QED BY <2>3
  <2>4. Target \in 0..Len(s)
    <3> DEFINE n == Len(s)
    <3>1. Target = (n \div Interval) * Interval BY DEF Target
    <3> HIDE DEF n
    <3>2. n \in Nat /\ Interval \in Nat \ {0} BY <2>2, <2>a, SizeAssumption DEF n
    <3> QED BY <3>1, <3>2, TargetBound DEF n
  <2> HIDE DEF s
  <2>5. Key(s, Target) \in Seq(Turns) BY <2>3, <2>4, KeyFacts
  <2>6. SavedOK(q) BY <2>5, SavesIndex
  <2>7. SaveOK(q) BY <2>1, SavesOK
  <2>8. CASE r = q BY <2>6, <2>8
  <2>9. CASE r = [q EXCEPT !.c = [q.c EXCEPT !.last = Target]]
    <3> DEFINE d == [q.c EXCEPT !.last = Target]
    <3>1. Target \in Nat BY <2>a, <2>4
    <3>2. CacheType(d) BY <2>6, <3>1 DEF SavedOK, CacheType, IsCache
    <3>3. d.id = q.c.id /\ d.entries = q.c.entries /\ d.total = q.c.total
      BY <2>6 DEF SavedOK, CacheType, IsCache
    <3> HIDE DEF d
    <3>4. r = [q EXCEPT !.c = d] BY <2>9 DEF d
    <3>5. r.c = d /\ r.files = q.files /\ r.bad = q.bad BY <2>7, <3>4 DEF SaveOK
    <3>6. IndexOK(d, q.files) BY <2>6, <3>3 DEF SavedOK, IndexOK
    <3> QED BY <2>6, <3>2, <3>5, <3>6 DEF SavedOK
  <2> QED BY <2>1, <2>8, <2>9
<1> QED BY <1>1, <1>2

-----------------------------------------------------------------------------
(* The index over the steps of the worker *)

\* What is known of the directory and of the index, which is void while no process runs.
DirInv == DirOK(files) /\ (pc # "down" => IndexOK(cache, files))

\* The types of the cache object, and of everything that is not the disk cache's.
CacheTypes == CacheType(cache) /\ cache.total \in Nat /\ cache.entries \subseteq Entry

RequestTypes ==
  /\ req.prompt \in Prompts \cup {<<>>} /\ req.gen \in Replies \cup {<<>>}
  /\ req.src \in {"none", "memory", "disk"} /\ req.snap \in Nat
  /\ req.out \in {"none", "served", "broken", "failed"}
  /\ req.kv \in Seq(Tokens)

WorkerTypes ==
  /\ model \in Layouts
  /\ mem.slot \in Seq(Tokens) /\ staging \in Seq(Tokens)
  /\ pc \in {"down", "idle", "lookup", "cold", "generate", "finish", "checkpoint"}
  /\ loaded \subseteq File
  /\ faults \subseteq {"unsaved", "stale"}
  /\ crashes \in 0..Crashes

TInv == DirInv /\ CacheTypes /\ RequestTypes /\ WorkerTypes

LEMMA IndexTypes ==
  ASSUME NEW c, NEW fs, IndexOK(c, fs)
  PROVE  c.total \in Nat /\ c.entries \subseteq Entry
BY EntriesTotal DEF IndexOK

\* An index that is right for its directory has its types too.
LEMMA SavedStep ==
  ASSUME TInv, NEW r, SavedOK(r), cache' = r.c, files' = r.files, crashes' = crashes + r.bad
  PROVE  DirInv' /\ CacheTypes' /\ crashes' \in 0..Crashes
<1>1. IndexOK(cache', files') /\ DirOK(files') /\ CacheType(cache') BY DEF SavedOK
<1>2. cache'.total \in Nat /\ cache'.entries \subseteq Entry BY <1>1, IndexTypes
<1> QED BY <1>1, <1>2 DEF DirInv, CacheTypes, SavedOK

LEMMA SameStep ==
  ASSUME TInv, UNCHANGED <<files, cache, crashes>>, pc = "down" => pc' = "down"
  PROVE  DirInv' /\ CacheTypes' /\ crashes' \in 0..Crashes
BY DEF TInv, DirInv, CacheTypes, WorkerTypes, IndexOK, DirOK, CacheType, IsCache, Has

LEMMA TurnsAreTokens == ASSUME NEW s \in Seq(Turns) PROVE s \in Seq(Tokens)
BY DEF Tokens

LEMMA InitTypes == Init => TInv
<1> SUFFICES ASSUME Init PROVE TInv OBVIOUS
<1>1. DirOK(files) BY FS_EmptySet DEF Init, DirOK
<1>2. CacheType(cache) /\ IndexOK(cache, files) BY <1>1, StartedIndex DEF Init
<1>3. cache.total \in Nat /\ cache.entries \subseteq Entry BY <1>2, IndexTypes
<1>4. RequestTypes BY DEF Init, NoReq, RequestTypes
<1>5. WorkerTypes BY SizeAssumption DEF Init, NoMem, WorkerTypes
<1> QED BY <1>1, <1>2, <1>3, <1>4, <1>5 DEF TInv, DirInv, CacheTypes

\* Closing the files, and what a crash leaves of them.
AfterLoss(fs, X, st) ==
  {[f EXCEPT !.dirty = FALSE] : f \in fs \ X} \cup
  {[f EXCEPT !.dirty = FALSE, !.state = st, !.kv = <<Garbage>>] : f \in X}

LEMMA SettledDir ==
  ASSUME NEW fs, DirOK(fs), NEW X \in SUBSET fs, NEW st \in {"torn", "headless"}
  PROVE  DirOK(AfterLoss(fs, X, st))
<1> DEFINE a(f) == [f EXCEPT !.dirty = FALSE]
           b(f) == [f EXCEPT !.dirty = FALSE, !.state = st, !.kv = <<Garbage>>]
           A == {a(f) : f \in fs \ X}
           B == {b(f) : f \in X}
<1>1. fs \subseteq File /\ IsFiniteSet(fs) BY DEF DirOK
<1>2. \A f \in fs : /\ a(f) \in File /\ b(f) \in File
                    /\ a(f).key = f.key /\ a(f).layout = f.layout
                    /\ b(f).key = f.key /\ b(f).layout = f.layout
  <2> SUFFICES ASSUME NEW f \in File
               PROVE  /\ a(f) \in File /\ b(f) \in File
                      /\ a(f).key = f.key /\ a(f).layout = f.layout
                      /\ b(f).key = f.key /\ b(f).layout = f.layout
    BY <1>1
  <2>1. <<Garbage>> \in Seq(Tokens) BY DEF Tokens
  <2> DEFINE junk == <<Garbage>>
  <2> HIDE DEF junk
  <2>2. [f EXCEPT !.dirty = FALSE, !.state = st, !.kv = junk] \in File BY <2>1 DEF File, junk
  <2> QED BY <2>2 DEF File, junk
<1>3. IsFiniteSet(A) /\ IsFiniteSet(B)
  <2> DEFINE g == [f \in fs \ X |-> a(f)]
             h == [f \in X |-> b(f)]
  <2>1. g \in Surjection(fs \ X, A) /\ h \in Surjection(X, B) BY DEF Surjection
  <2>2. IsFiniteSet(fs \ X) /\ IsFiniteSet(X) BY <1>1, FS_Subset
  <2> HIDE DEF g, h, A, B
  <2> QED BY <2>1, <2>2, FS_Surjection
<1>4. \A x \in A \cup B : \E f \in fs : /\ x.key = f.key /\ x.layout = f.layout
                                       /\ x = IF f \in X THEN b(f) ELSE a(f)
  BY <1>2
<1>5. A \cup B \subseteq File BY <1>2
<1> HIDE DEF A, B
<1>6. IsFiniteSet(A \cup B) BY <1>3, FS_Union
<1>7. ASSUME NEW x \in A \cup B, NEW y \in A \cup B, x.layout = y.layout, x.key = y.key
      PROVE  x = y
  <2>1. PICK f \in fs : /\ x.key = f.key /\ x.layout = f.layout
                        /\ x = IF f \in X THEN b(f) ELSE a(f)
    BY <1>4
  <2>2. PICK g \in fs : /\ y.key = g.key /\ y.layout = g.layout
                        /\ y = IF g \in X THEN b(g) ELSE a(g)
    BY <1>4
  <2> HIDE DEF a, b
  <2>3. f = g BY <1>7, <2>1, <2>2 DEF DirOK
  <2> QED BY <2>1, <2>2, <2>3
<1>8. DirOK(A \cup B) BY <1>5, <1>6, <1>7 DEF DirOK
<1> QED BY <1>8 DEF A, B, AfterLoss

LEMMA ClosedDir ==
  ASSUME NEW fs, DirOK(fs)
  PROVE  DirOK({[f EXCEPT !.dirty = FALSE] : f \in fs})
<1>1. DirOK(AfterLoss(fs, {}, "torn")) BY SettledDir
<1>2. AfterLoss(fs, {}, "torn") = {[f EXCEPT !.dirty = FALSE] : f \in fs} BY DEF AfterLoss
<1> QED BY <1>1, <1>2

\* An entry that ages keeps its place and its size.
LEMMA AgedIndex ==
  ASSUME NEW c, CacheType(c), NEW fs, IndexOK(c, fs), NEW e \in c.entries, e.recent,
         NEW d, d = [c EXCEPT !.entries = (@ \ {e}) \cup {[e EXCEPT !.recent = FALSE]}]
  PROVE  CacheType(d) /\ IndexOK(d, fs)
<1> DEFINE o == [e EXCEPT !.recent = FALSE]
           E == c.entries
           R == E \ {e}
<1>1. /\ d.entries = R \cup {o} /\ d.total = c.total /\ d.id = c.id /\ d.last = c.last
      /\ IsCache(d)
  <2> HIDE DEF o
  <2> QED BY DEF o, CacheType, IsCache
<1>2. e \in Entry /\ E \in SUBSET Entry /\ IsFiniteSet(E) BY DEF IndexOK
<1>3. o \in Entry /\ o.key = e.key /\ o.size = e.size /\ ~o.recent BY <1>2 DEF Entry
<1> HIDE DEF o, R
<1>4. o \notin R
  <2>1. o \in E => o = e BY <1>3 DEF IndexOK
  <2> QED BY <1>3, <2>1 DEF R
<1>5. R \in SUBSET Entry /\ IsFiniteSet(R)
  <2>1. R \in SUBSET E BY DEF R
  <2> QED BY <1>2, <2>1, FS_Subset
<1>6. IsFiniteSet(R \cup {o}) /\ TotalOf(R \cup {o}) = TotalOf(R) + o.size
  BY <1>3, <1>4, <1>5, EntriesTotal
<1>7. TotalOf(E) = TotalOf(R) + e.size
  <2>1. E = R \cup {e} /\ e \notin R BY DEF R
  <2> QED BY <1>2, <1>5, <2>1, EntriesTotal
<1>8. c.total = TotalOf(E) BY DEF IndexOK
<1>9. d.total = TotalOf(d.entries) BY <1>1, <1>3, <1>6, <1>7, <1>8
<1>10. \A x \in d.entries : \E y \in E : x.key = y.key /\ x.size = y.size BY <1>1, <1>3 DEF R
<1>11. \A y \in E : \E x \in d.entries : x.key = y.key /\ x.size = y.size BY <1>1, <1>3 DEF R
<1>12. ASSUME NEW x \in d.entries, NEW y \in d.entries, x.key = y.key PROVE x = y
  <2>1. \A z \in R : z.key # o.key /\ z \in E BY <1>3 DEF IndexOK, R
  <2>2. x \in R /\ y \in R => x = y BY <1>12, <2>1 DEF IndexOK
  <2> QED BY <1>1, <1>12, <2>1, <2>2
<1>13. d.entries \subseteq Entry /\ IsFiniteSet(d.entries) BY <1>1, <1>3, <1>5, <1>6
<1> HIDE DEF E
<1>14. IndexOK(d, fs)
  <2>1. \A x \in d.entries : Has(fs, d.id, x.key, x.size) BY <1>1, <1>10 DEF IndexOK, E
  <2>2. \A f \in fs : f.layout = d.id /\ f.state # "headless" =>
          \E x \in d.entries : x.key = f.key /\ x.size = Bytes(f)
    BY <1>1, <1>11 DEF IndexOK, E
  <2> QED BY <1>9, <1>12, <1>13, <2>1, <2>2 DEF IndexOK
<1> QED BY <1>1, <1>14 DEF CacheType

\* A file that could not be read leaves the directory and the index.
LEMMA DroppedIndex ==
  ASSUME CacheType(cache), IndexOK(cache, files), DirOK(files)
  PROVE  LET d == Dropped(cache, req.prompt)
         IN CacheType(d) /\ IndexOK(d, files \ Found) /\ DirOK(files \ Found)
<1> DEFINE k == req.prompt
           E == cache.entries
           X == {e \in E : e.key = k}
           d == Dropped(cache, k)
           fs == files \ Found
<1>1. /\ d.entries = E \ X /\ d.total = cache.total - TotalOf(X) /\ d.id = cache.id
      /\ d.last = cache.last /\ IsCache(d)
  <2>1. {e \in E : e.key # k} = E \ X OBVIOUS
  <2>2. d = [cache EXCEPT !.entries = {e \in @ : e.key # k}, !.total = @ - TotalOf(X)]
    BY DEF Dropped
  <2>3. d = [cache EXCEPT !.entries = E \ X, !.total = @ - TotalOf(X)] BY <2>1, <2>2
  <2> HIDE DEF d, X
  <2> QED BY <2>3 DEF CacheType, IsCache
<1>2. E \in SUBSET Entry /\ IsFiniteSet(E) /\ X \in SUBSET E BY DEF IndexOK
<1>3. \A f \in files : f \in fs <=> ~(f.layout = cache.id /\ f.key = k) BY DEF Found
<1>4. \A e \in E : e \in X <=> e.key = k OBVIOUS
<1> HIDE DEF d, X, fs
<1>5. /\ IsFiniteSet(E \ X) /\ TotalOf(X) \in Nat /\ TotalOf(E \ X) \in Nat
      /\ TotalOf(E) = TotalOf(E \ X) + TotalOf(X)
  BY <1>2, EntriesTotal
<1>6. cache.total = TotalOf(E) BY DEF IndexOK
<1>7. d.total = TotalOf(d.entries) BY <1>1, <1>5, <1>6
<1>8. fs \subseteq files BY DEF fs
<1>9. DirOK(fs)
  <2>1. IsFiniteSet(fs) BY <1>8, FS_Subset DEF DirOK
  <2> QED BY <1>8, <2>1 DEF DirOK
<1>10. ASSUME NEW e \in d.entries PROVE Has(fs, d.id, e.key, e.size)
  <2>1. e \in E /\ e.key # k BY <1>1, <1>4
  <2>2. PICK f \in files : /\ f.layout = cache.id /\ f.state # "headless"
                           /\ f.key = e.key /\ Bytes(f) = e.size
    BY <2>1 DEF IndexOK, Has
  <2> QED BY <1>1, <1>3, <2>1, <2>2 DEF Has
<1>11. ASSUME NEW f \in fs, f.layout = d.id, f.state # "headless"
       PROVE  \E e \in d.entries : e.key = f.key /\ e.size = Bytes(f)
  <2>1. f \in files /\ f.key # k BY <1>1, <1>3, <1>8, <1>11
  <2>2. PICK e \in E : e.key = f.key /\ e.size = Bytes(f) BY <1>1, <1>11, <2>1 DEF IndexOK
  <2> QED BY <1>1, <1>4, <2>1, <2>2
<1>12. \A x, y \in d.entries : x.key = y.key => x = y BY <1>1 DEF IndexOK
<1>13. d.entries \subseteq Entry BY <1>1, <1>2
<1>14. IndexOK(d, fs) BY <1>1, <1>5, <1>7, <1>10, <1>11, <1>12, <1>13 DEF IndexOK
<1> QED BY <1>1, <1>9, <1>14 DEF CacheType, d, fs

\* One lemma for each action, from the two invariants above.
LEMMA RestartTypes == ASSUME TInv, NEW m \in Layouts, Restart(m) PROVE TInv'
<1>1. /\ model' = m /\ mem' = NoMem /\ staging' = <<>> /\ req' = NoReq /\ loaded' = {}
      /\ files' = files /\ faults' = faults /\ crashes' = crashes /\ pc' = "idle"
  BY DEF Restart
<1>2. PICK l : l \in (IF OnDisk = {} THEN {NoLayout} ELSE OnDisk) /\ cache' = Started(l)
  BY DEF Restart
<1>3. DirOK(files) BY DEF TInv, DirInv
<1>4. l \in Layouts \cup {NoLayout}
  <2>1. OnDisk \subseteq Layouts BY <1>3 DEF OnDisk, DirOK, File
  <2> QED BY <1>2, <2>1
<1>5. CacheType(cache') /\ IndexOK(cache', files') BY <1>1, <1>2, <1>3, <1>4, StartedIndex
<1>6. cache'.total \in Nat /\ cache'.entries \subseteq Entry BY <1>5, IndexTypes
<1>7. RequestTypes' BY <1>1 DEF NoReq, RequestTypes
<1>8. WorkerTypes' BY <1>1 DEF TInv, NoMem, WorkerTypes
<1> QED BY <1>1, <1>3, <1>5, <1>6, <1>7, <1>8 DEF TInv, DirInv, CacheTypes

LEMMA CrashTypes == ASSUME TInv, Crash PROVE TInv'
<1>1. PICK X \in SUBSET {f \in files : f.dirty}, st \in {"torn", "headless"} :
        files' = AfterLoss(files, X, st)
  BY DEF Crash, AfterLoss
<1>2. X \in SUBSET files /\ DirOK(files) BY DEF TInv, DirInv
<1>3. DirOK(files')
  <2>1. DirOK(AfterLoss(files, X, st)) BY <1>2, SettledDir
  <2> QED BY <1>1, <2>1
<1>4. /\ pc' = "down" /\ crashes < Crashes /\ crashes' = crashes + 1
      /\ UNCHANGED <<model, cache, mem, staging, req, loaded, faults>>
  BY DEF Crash
<1>5. crashes' \in 0..Crashes BY <1>4, SizeAssumption DEF TInv, WorkerTypes
<1>6. CacheTypes' BY <1>4 DEF TInv, CacheTypes, CacheType, IsCache
<1> QED BY <1>3, <1>4, <1>5, <1>6 DEF TInv, DirInv, RequestTypes, WorkerTypes

LEMMA ShutdownTypes == ASSUME IInv, SInv, TInv, Shutdown PROVE TInv'
<1>1. /\ pc = "idle" /\ pc' = "down" /\ UNCHANGED <<model, mem, staging, req, loaded>>
      /\ DirOK(files) /\ IndexOK(cache, files) /\ CacheType(cache) /\ model \in Layouts
      /\ crashes \in 0..Crashes /\ CacheOK(cache)
  BY DEF Shutdown, TInv, DirInv, CacheTypes, WorkerTypes, IInv
<1>2. CASE mem.tokens # <<>> /\ mem.slot # <<>>
  <2> DEFINE c == learn_layout(cache, mem.slot)
  <2>1. PICK r \in Saves(c, mem.slot, mem.tokens) :
          /\ cache' = r.c /\ files' = {[f EXCEPT !.dirty = FALSE] : f \in r.files}
          /\ crashes' = crashes + r.bad
          /\ faults' = IF mem.slot # mem.tokens THEN faults \cup {"stale"} ELSE faults
    BY <1>2 DEF Shutdown
  <2>2. CacheType(c) /\ IndexOK(c, files) /\ c.id = model BY <1>1, <1>2, LearnIndex, LearnOK
  <2> HIDE DEF c
  <2>3. mem.slot \in Seq(Tokens) /\ mem.tokens \in Seq(Turns)
    BY DEF TInv, WorkerTypes, SInv, MemSound
  <2>4. SavedOK(r) BY <1>1, <2>1, <2>2, <2>3, SavesIndex
  <2>5. DirOK(files') BY <2>1, <2>4, ClosedDir DEF SavedOK
  <2>6. cache'.total \in Nat /\ cache'.entries \subseteq Entry
    BY <2>1, <2>4, IndexTypes DEF SavedOK
  <2>7. CacheTypes' /\ crashes' \in 0..Crashes BY <2>1, <2>4, <2>6 DEF SavedOK, CacheTypes
  <2>8. WorkerTypes' BY <1>1, <2>1, <2>7 DEF TInv, WorkerTypes
  <2> QED BY <1>1, <2>5, <2>7, <2>8 DEF TInv, DirInv, RequestTypes
<1>3. CASE ~(mem.tokens # <<>> /\ mem.slot # <<>>)
  <2>1. /\ files' = {[f EXCEPT !.dirty = FALSE] : f \in files}
        /\ UNCHANGED <<cache, crashes, faults>>
    BY <1>3 DEF Shutdown
  <2>2. DirOK(files') BY <1>1, <2>1, ClosedDir
  <2> QED BY <1>1, <2>1, <2>2
          DEF TInv, DirInv, RequestTypes, WorkerTypes, CacheTypes, CacheType, IsCache
<1> QED BY <1>2, <1>3

LEMMA AgeTypes == ASSUME TInv, Age PROVE TInv'
<1>1. PICK e \in cache.entries :
        /\ e.recent
        /\ cache' = [cache EXCEPT !.entries = (@ \ {e}) \cup {[e EXCEPT !.recent = FALSE]}]
  BY DEF Age
<1>2. /\ pc # "down" /\ UNCHANGED <<files, model, mem, staging, pc, req, loaded, faults, crashes>>
      /\ IndexOK(cache, files) /\ DirOK(files) /\ CacheType(cache)
  BY DEF Age, TInv, DirInv, CacheTypes
<1>3. CacheType(cache') /\ IndexOK(cache', files) BY <1>1, <1>2, AgedIndex
<1>4. cache'.total \in Nat /\ cache'.entries \subseteq Entry BY <1>3, IndexTypes
<1>5. files' = files BY <1>2
<1> QED BY <1>2, <1>3, <1>4, <1>5 DEF TInv, DirInv, CacheTypes, RequestTypes, WorkerTypes

LEMMA BeginTypes == ASSUME TInv, NEW p \in Prompts, Begin(p) PROVE TInv'
<1>1. /\ req' = [NoReq EXCEPT !.prompt = p,
                   !.src = IF mem.key \in {Key(p, b) : b \in Boundaries(p)} THEN "memory" ELSE "none"]
      /\ pc = "idle" /\ pc' = "lookup"
      /\ UNCHANGED <<files, model, cache, mem, staging, loaded, faults, crashes>>
  BY DEF Begin
<1>2. RequestTypes' BY <1>1 DEF NoReq, RequestTypes
<1>3. DirInv' /\ CacheTypes' /\ crashes' \in 0..Crashes BY <1>1, SameStep
<1> QED BY <1>1, <1>2, <1>3 DEF TInv, WorkerTypes

LEMMA LookupTypes == ASSUME SInv, TInv, lookup PROVE TInv'
<1>1. /\ pc = "lookup" /\ UNCHANGED <<model, mem, faults, crashes>>
      /\ pc' \in {"generate", "cold"}
      /\ DirOK(files) /\ IndexOK(cache, files) /\ CacheType(cache)
  BY DEF lookup, TInv, DirInv, CacheTypes
<1>2. CASE UNCHANGED <<files, cache, staging, req, loaded>>
  <2>1. DirInv' /\ CacheTypes' /\ crashes' \in 0..Crashes BY <1>1, <1>2, SameStep
  <2> QED BY <1>1, <1>2, <2>1 DEF TInv, RequestTypes, WorkerTypes
<1>3. ASSUME NEW f \in Found, loaded' = {f}, staging' = f.kv, req' = [req EXCEPT !.src = "disk"],
             UNCHANGED <<files, cache>>
      PROVE  TInv'
  <2>1. f \in File BY <1>1 DEF Found, DirOK
  <2>2. DirInv' /\ CacheTypes' /\ crashes' \in 0..Crashes BY <1>1, <1>3, SameStep
  <2>3. RequestTypes' BY <1>3 DEF TInv, RequestTypes, SInv, RequestOK
  <2>4. staging' \in Seq(Tokens) /\ loaded' \subseteq File BY <1>3, <2>1 DEF File
  <2> QED BY <1>1, <2>2, <2>3, <2>4 DEF TInv, WorkerTypes
<1>4. CASE /\ files' = files \ Found /\ cache' = Dropped(cache, req.prompt)
           /\ UNCHANGED <<staging, req, loaded>>
  <2>1. CacheType(cache') /\ IndexOK(cache', files') /\ DirOK(files')
    BY <1>1, <1>4, DroppedIndex
  <2>2. cache'.total \in Nat /\ cache'.entries \subseteq Entry BY <2>1, IndexTypes
  <2> QED BY <1>1, <1>4, <2>1, <2>2 DEF TInv, DirInv, CacheTypes, RequestTypes, WorkerTypes
<1> QED BY <1>2, <1>3, <1>4 DEF lookup

LEMMA ColdTypes == ASSUME IInv, SInv, TInv, Cold PROVE TInv'
<1> DEFINE kv == Key(req.prompt, cold_prefix_boundary)
           c  == learn_layout(cache, kv)
<1>1. /\ pc = "cold" /\ pc' = "generate" /\ UNCHANGED <<model, mem, loaded, faults>>
      /\ DirOK(files) /\ IndexOK(cache, files) /\ CacheType(cache) /\ model \in Layouts
      /\ crashes \in 0..Crashes /\ CacheOK(cache)
  BY DEF Cold, TInv, DirInv, CacheTypes, WorkerTypes, IInv
<1>2. req.prompt \in Seq(Turns) /\ req.prompt # <<>> BY <1>1 DEF SInv, RequestOK
<1>3. cold_prefix_boundary \in 0..Len(req.prompt) BY <1>2, ColdBound DEF SInv
<1>4. kv \in Seq(Turns) BY <1>2, <1>3, KeyFacts
<1>5. ASSUME staging' = kv, req' = [req EXCEPT !.src = "disk"], NEW r \in Saves(c, kv, kv),
             cache' = r.c, files' = r.files, crashes' = crashes + r.bad
      PROVE  TInv'
  <2> HIDE DEF kv
  <2>1. kv \in Seq(Tokens) BY <1>4, TurnsAreTokens
  <2>2. CacheType(c) /\ IndexOK(c, files) /\ (kv # <<>> => c.id = model)
    BY <1>1, LearnIndex, LearnOK
  <2> HIDE DEF c
  <2>3. SavedOK(r) BY <1>1, <1>4, <1>5, <2>1, <2>2, SavesIndex
  <2>4. DirInv' /\ CacheTypes' /\ crashes' \in 0..Crashes BY <1>5, <2>3, SavedStep
  <2>5. RequestTypes' BY <1>5 DEF TInv, RequestTypes, SInv, RequestOK
  <2> QED BY <1>1, <1>5, <2>1, <2>4, <2>5 DEF TInv, WorkerTypes
<1>6. CASE staging' = <<>> /\ UNCHANGED <<files, cache, req, crashes>>
  <2>1. DirInv' /\ CacheTypes' /\ crashes' \in 0..Crashes BY SMTT(30), <1>1, <1>6, SameStep
  <2> QED BY <1>1, <1>6, <2>1 DEF TInv, RequestTypes, WorkerTypes
<1> QED BY <1>5, <1>6 DEF Cold

LEMMA GenerateTypes == ASSUME SInv, TInv, Generate PROVE TInv'
<1> DEFINE filled == Restored \o SubSeq(req.prompt, Len(Restored) + 1, Len(req.prompt))
           n      == SnapCut
           passes == n > 0 /\ n >= Len(Restored) /\ Len(Restored) < Len(req.prompt)
           l      == Len(req.prompt)
<1>1. /\ pc = "generate" /\ pc' = "finish" /\ loaded' = {}
      /\ UNCHANGED <<files, model, cache, staging, faults, crashes>>
  BY DEF Generate
<1>2. req.prompt \in Seq(Turns) /\ req.prompt # <<>> BY <1>1 DEF SInv, RequestOK, Busy
<1>3. l \in Nat \ {0} BY <1>2
<1>4. n \in Nat /\ n < l
  <2>1. n = 0 \/ n = IF l >= 3 THEN l - 2 ELSE l - 1 BY DEF SnapCut, TargetCut
  <2> HIDE DEF l, n
  <2> QED BY <1>3, <2>1
<1>5. DirInv' /\ CacheTypes' /\ crashes' \in 0..Crashes BY <1>1, SameStep
<1>6. CASE req' = [req EXCEPT !.snap = n, !.out = "failed"] /\ UNCHANGED mem
  <2> HIDE DEF n
  <2>1. RequestTypes' BY <1>4, <1>6 DEF TInv, RequestTypes, SInv, RequestOK
  <2> QED BY <1>1, <1>5, <1>6, <2>1 DEF TInv, WorkerTypes
<1>7. ASSUME ~RestoreFails, NEW g \in Replies, NEW out \in {"served", "broken", "failed"},
             NEW kv \in {Key(filled, n)} \cup {<<>>},
             req' = [req EXCEPT !.snap = n, !.out = out, !.kv = filled \o g, !.gen = g],
             mem' = IF passes THEN [mem EXCEPT !.slot = kv] ELSE mem
      PROVE  TInv'
  <2>1. g \in Seq(Turns) /\ g \in Seq(Tokens) BY PromptType, TurnsAreTokens
  <2>2. Restored \in Seq(Tokens) BY DEF Restored, TInv, WorkerTypes
  <2>3. Len(Restored) <= l
    <3>1. CASE req.src = "none" BY <1>3, <3>1 DEF Restored
    <3>2. CASE req.src # "none" BY <1>3, <1>7, <2>2, <3>2 DEF RestoreFails
    <3> QED BY <3>1, <3>2
  <2>4. filled \in Seq(Tokens) /\ Len(filled) = l
    <3> DEFINE s == Restored
               p == req.prompt
               q == SubSeq(p, Len(s) + 1, Len(p))
    <3>1. s \in Seq(Tokens) /\ p \in Seq(Tokens) /\ Len(s) <= Len(p)
      BY <1>2, <2>2, <2>3, TurnsAreTokens
    <3> HIDE DEF s, p
    <3>2. q \in Seq(Tokens) /\ Len(q) = Len(p) - Len(s) BY <3>1
    <3> HIDE DEF q
    <3>3. s \o q \in Seq(Tokens) /\ Len(s \o q) = Len(s) + Len(q) BY <3>1, <3>2, ConcatProperties
    <3>4. Len(s \o q) = Len(p) BY <3>1, <3>2, <3>3
    <3> QED BY <3>3, <3>4 DEF s, p, q
  <2> HIDE DEF n, filled, passes
  <2>5. kv \in Seq(Tokens)
    <3>1. n \in 0..Len(filled) BY <1>3, <1>4, <2>4
    <3>2. Key(filled, n) \in Seq(Tokens) BY <2>4, <3>1, KeyFacts
    <3>3. <<>> \in Seq(Tokens) OBVIOUS
    <3>4. kv = Key(filled, n) \/ kv = <<>> OBVIOUS
    <3> QED BY <3>2, <3>3, <3>4
  <2>6. filled \o g \in Seq(Tokens) BY <2>1, <2>4
  <2>7. /\ req'.prompt = req.prompt /\ req'.src = req.src /\ req'.snap = n
        /\ req'.kv = filled \o g /\ req'.gen = g /\ req'.out = out
    BY <1>7 DEF SInv, RequestOK
  <2>8. RequestTypes' BY <1>4, <1>7, <2>6, <2>7 DEF TInv, RequestTypes
  <2>9. mem'.slot \in Seq(Tokens)
    <3>1. CASE passes
      <4>1. mem' = [mem EXCEPT !.slot = kv] BY <1>7, <3>1
      <4>2. mem'.slot = kv BY <4>1 DEF SInv, MemSound
      <4> QED BY <2>5, <4>2
    <3>2. CASE ~passes BY <1>7, <3>2 DEF TInv, WorkerTypes
    <3> QED BY <3>1, <3>2
  <2> QED BY <1>1, <1>5, <2>8, <2>9 DEF TInv, WorkerTypes
<1> QED BY ZenonT(40), <1>6, <1>7 DEF Generate

LEMMA FinishTypes == ASSUME IInv, SInv, TInv, Finish PROVE TInv'
<1> DEFINE key == Key(req.prompt, req.snap)
           c   == learn_layout(cache, mem.slot)
<1>1. /\ pc = "finish" /\ pc' = "checkpoint" /\ UNCHANGED <<model, staging, req, loaded>>
      /\ DirOK(files) /\ IndexOK(cache, files) /\ CacheType(cache) /\ model \in Layouts
      /\ crashes \in 0..Crashes /\ CacheOK(cache)
  BY DEF Finish, TInv, DirInv, CacheTypes, WorkerTypes, IInv
<1>2. req.prompt \in Seq(Turns) BY DEF SInv, RequestOK
<1>3. mem.slot \in Seq(Tokens) BY DEF TInv, WorkerTypes
<1> HIDE DEF key
<1>4. ASSUME mem' = [mem EXCEPT !.key = key, !.tokens = key],
             faults' = IF mem.slot # key THEN faults \cup {"unsaved"} ELSE faults,
             NEW r \in Saves(c, mem.slot, req.prompt),
             cache' = r.c, files' = r.files, crashes' = crashes + r.bad
      PROVE  TInv'
  <2>1. CacheType(c) /\ IndexOK(c, files) /\ (mem.slot # <<>> => c.id = model)
    BY <1>1, LearnIndex, LearnOK
  <2> HIDE DEF c
  <2>2. SavedOK(r) BY <1>1, <1>2, <1>3, <1>4, <2>1, SavesIndex
  <2>3. DirInv' /\ CacheTypes' /\ crashes' \in 0..Crashes BY <1>4, <2>2, SavedStep
  <2>4. mem'.slot = mem.slot BY <1>4 DEF SInv, MemSound
  <2> QED BY <1>1, <1>3, <1>4, <2>3, <2>4 DEF TInv, RequestTypes, WorkerTypes
<1>5. CASE mem' = [mem EXCEPT !.key = <<>>] /\ UNCHANGED <<files, cache, faults, crashes>>
  <2>1. DirInv' /\ CacheTypes' /\ crashes' \in 0..Crashes BY <1>1, <1>5, SameStep
  <2>2. mem'.slot = mem.slot
    <3> DEFINE none == <<>>
    <3> HIDE DEF none
    <3>1. mem' = [mem EXCEPT !.key = none] BY <1>5 DEF none
    <3> QED BY <3>1 DEF SInv, MemSound
  <2> QED BY <1>1, <1>3, <1>5, <2>1, <2>2 DEF TInv, RequestTypes, WorkerTypes
<1>6. CASE UNCHANGED <<files, cache, mem, faults, crashes>>
  <2>1. DirInv' /\ CacheTypes' /\ crashes' \in 0..Crashes BY <1>1, <1>6, SameStep
  <2> QED BY <1>1, <1>6, <2>1 DEF TInv, RequestTypes, WorkerTypes
<1> QED BY <1>4, <1>5, <1>6 DEF Finish, key

LEMMA CheckpointTypes == ASSUME IInv, SInv, TInv, Checkpoint PROVE TInv'
<1> DEFINE c == learn_layout(cache, req.kv)
<1>1. /\ pc = "checkpoint" /\ pc' = "idle" /\ req' = NoReq
      /\ UNCHANGED <<model, mem, loaded, faults>>
      /\ DirOK(files) /\ IndexOK(cache, files) /\ CacheType(cache) /\ model \in Layouts
      /\ crashes \in 0..Crashes /\ CacheOK(cache) /\ FilesOK(files)
  BY DEF Checkpoint, TInv, DirInv, CacheTypes, WorkerTypes, IInv
<1>2. /\ req.prompt \in Seq(Turns) /\ req.gen \in Seq(Turns) /\ req.kv \in Seq(Tokens)
  BY DEF SInv, RequestOK, TInv, RequestTypes
<1>3. staging' \in Seq(Tokens)
  <2>1. staging' = <<>> \/ staging' = staging BY DEF Checkpoint, FreeStaging
  <2>2. <<>> \in Seq(Tokens) OBVIOUS
  <2> QED BY <2>1, <2>2 DEF TInv, WorkerTypes
<1>4. RequestTypes' BY <1>1 DEF NoReq, RequestTypes
<1>5. SUFFICES DirInv' /\ CacheTypes' /\ crashes' \in 0..Crashes
  BY <1>1, <1>3, <1>4, <1>5 DEF TInv, WorkerTypes
<1>6. ASSUME NEW r \in maybe_store_continued(c, req.kv),
             cache' = r.c, files' = r.files, crashes' = crashes + r.bad
      PROVE  DirInv' /\ CacheTypes' /\ crashes' \in 0..Crashes
  <2>1. CacheType(c) /\ IndexOK(c, files) /\ CacheOK(c) /\ (req.kv # <<>> => c.id = model)
    BY <1>1, LearnIndex, LearnOK
  <2> HIDE DEF c
  <2>2. SavedOK(r) BY <1>1, <1>2, <1>6, <2>1, ContinuedIndex
  <2> QED BY <1>6, <2>2, SavedStep
<1>7. CASE UNCHANGED <<files, cache, crashes>> BY <1>1, <1>7, SameStep
<1> QED BY <1>6, <1>7 DEF Checkpoint

LEMMA NextTypes == IInv /\ SInv /\ TInv /\ [Next]_vars => TInv'
<1> SUFFICES ASSUME IInv, SInv, TInv, [Next]_vars PROVE TInv' OBVIOUS
<1>1. CASE UNCHANGED vars
  <2>1. /\ UNCHANGED <<files, cache, crashes>>
        /\ UNCHANGED <<model, mem, staging, pc, req, loaded, faults>>
    BY <1>1 DEF vars
  <2>2. DirInv' /\ CacheTypes' /\ crashes' \in 0..Crashes BY <2>1, SameStep
  <2> QED BY <2>1, <2>2 DEF TInv, RequestTypes, WorkerTypes
<1> QED
  BY <1>1, RestartTypes, CrashTypes, ShutdownTypes, AgeTypes, BeginTypes, LookupTypes,
     ColdTypes, GenerateTypes, FinishTypes, CheckpointTypes DEF Next

-----------------------------------------------------------------------------
(* The theorems *)

\* Over any number of restarts with other models and of crashes, a file lies under
\* the layout of the model that wrote it, and lookup restores only a whole file that
\* the running model wrote.
THEOREM LayoutsAreTrue == Spec => []LayoutTrue
<1>1. IInv => LayoutTrue BY DEF IInv, FilesOK, LayoutTrue
<1> QED BY <1>1, InitOK, NextOK, PTL DEF Spec

\* Whatever is saved, at whatever size, the files are within the budget afterwards, or
\* all younger than a minute.
THEOREM SavesMakeRoom == Spec => BudgetAfterSave
<1> DEFINE A == (\E f \in files' \ files : f.dirty) =>
                  cache'.total <= Budget \/ \A e \in cache'.entries : e.recent
<1>1. IInv /\ [Next]_vars => [A]_vars
  <2> SUFFICES ASSUME IInv, Next PROVE A OBVIOUS
  <2> QED BY StepBudget DEF Slim
<1> HIDE DEF A
<1>2. Spec => [][A]_vars BY <1>1, InitOK, NextOK, PTL DEF Spec
<1> QED BY <1>2 DEF BudgetAfterSave, A

\* Both invariants hold in every reachable state.
THEOREM Invariance == Spec => [](IInv /\ SInv)
BY InitOK, NextOK, InitSound, NextSound, PTL DEF Spec

\* Whatever fails, the staging slot holds nothing while the worker waits for a request
\* or looks its prompt up: what it holds later was put there for that request.
THEOREM StagingIsFree == Spec => []StagingFree
<1>1. SInv => StagingFree BY DEF SInv, StagingOwned, StagingFree, Busy
<1> QED BY <1>1, Invariance, PTL

\* As long as no unsaved snapshot was confirmed and no slot saved under another prompt's
\* tokens, a reply is generated behind exactly the client's own prompt.
THEOREM RestoresAreSound == Spec => []RestoreSound
<1>1. SInv => RestoreSound BY DEF SInv, ReplySound, RestoreSound, Clean
<1> QED BY <1>1, Invariance, PTL

\* For every budget, every set of prompts and models, and whatever is saved, evicted,
\* dropped, scanned again or lost in a crash: the index is the directory, total_bytes_ is
\* the sum of the files' sizes, and no variable leaves its type.
THEOREM IndexIsTheDirectory == Spec => []IndexInv
<1>1. IInv /\ SInv /\ TInv => TypeOK
  <2> SUFFICES ASSUME IInv, SInv, TInv PROVE TypeOK OBVIOUS
  <2>1. /\ \A f \in files : f \in File
        /\ \A f \in loaded : f \in File
    BY DEF TInv, DirInv, DirOK, WorkerTypes
  <2>2. /\ cache.known \in BOOLEAN /\ cache.from_disk \in BOOLEAN
        /\ cache.id \in Layouts \cup {NoLayout}
        /\ cache.total \in Nat /\ cache.last \in Nat
    BY DEF TInv, CacheTypes, CacheType, IsCache
  <2>3. \A e \in cache.entries : e.key \in Seq(Turns) /\ e.size \in Nat /\ e.recent \in BOOLEAN
    BY DEF TInv, CacheTypes, Entry
  <2>4. mem.key \in Seq(Turns) /\ mem.tokens \in Seq(Turns) BY DEF SInv, MemSound
  <2> QED BY <2>1, <2>2, <2>3, <2>4 DEF TInv, RequestTypes, WorkerTypes, TypeOK
<1>2. TInv => IndexMatchesFiles
  <2> SUFFICES ASSUME TInv, pc # "down"
               PROVE  LET h == {g \in files : g.layout = cache.id /\ g.state # "headless"}
                      IN /\ cache.total = TotalOf(cache.entries)
                         /\ {<<e.key, e.size>> : e \in cache.entries} =
                              {<<f.key, Bytes(f)>> : f \in h}
                         /\ \A d, e \in cache.entries : d.key = e.key => d = e
    BY DEF IndexMatchesFiles
  <2> DEFINE H == {g \in files : g.layout = cache.id /\ g.state # "headless"}
             P == {<<e.key, e.size>> : e \in cache.entries}
             Q == {<<f.key, Bytes(f)>> : f \in H}
  <2>1. IndexOK(cache, files) BY DEF TInv, DirInv
  <2>2. ASSUME NEW e \in cache.entries PROVE <<e.key, e.size>> \in Q
    <3>1. PICK f \in files : /\ f.layout = cache.id /\ f.state # "headless"
                             /\ f.key = e.key /\ Bytes(f) = e.size
      BY <2>1 DEF IndexOK, Has
    <3>2. f \in H BY <3>1
    <3> HIDE DEF H
    <3> QED BY <3>1, <3>2
  <2>3. ASSUME NEW f \in H PROVE <<f.key, Bytes(f)>> \in P
    <3>1. PICK e \in cache.entries : e.key = f.key /\ e.size = Bytes(f) BY <2>1 DEF IndexOK
    <3> QED BY <3>1
  <2>4. P = Q BY <2>2, <2>3
  <2> QED BY <2>1, <2>4 DEF IndexOK
<1> QED BY <1>1, <1>2, InitTypes, NextTypes, Invariance, PTL DEF Spec, IndexInv

=============================================================================
