----------------------------- MODULE PrefixCache -----------------------------
(***************************************************************************)
(* The in-memory prefix cache (dflash/src/server/prefix_cache.cpp) as the  *)
(* worker thread uses it for one request after another: look the prompt    *)
(* up, reserve a snapshot slot, let the backend restore, prefill, save and *)
(* decode, then confirm or abort the reservation.                          *)
(*                                                                         *)
(* A prompt is a sequence of turns. Its boundaries are the ends of all its *)
(* turns but the last (the text after the last role marker). A prefix hash *)
(* is the prefix itself: hash collisions are left out. The KV cache and a  *)
(* snapshot slot hold the sequence of turns they were computed from; <<>>  *)
(* is a slot without a snapshot. The disk cache is disabled.               *)
(*                                                                         *)
(* Operators named Action_Fault are faulty variants of an action, kept to  *)
(* test that the properties notice the fault.                              *)
(***************************************************************************)
EXTENDS Integers, Sequences, SequencesExt

CONSTANTS
  Turns,     \* the texts a turn can hold
  Prompts,   \* the prompts clients may send
  Cap,       \* cap_, the number of inline slots
  Backend    \* the model backend, which decides when a snapshot is saved

ASSUME PromptAssumption == Prompts \subseteq Seq(Turns) \ {<<>>}
ASSUME CapAssumption == Cap \in Nat \ {0}
ASSUME BackendAssumption == Backend \in {"qwen35", "gemma4", "laguna"}

VARIABLES
  entries,      \* entries_, least recently used first
  next_slot,    \* next_slot_
  pending,      \* pending_evict_key_, or <<>> when has_pending_evict_ is false
  slots,        \* the backend's snapshot slots
  kv,           \* what the request's KV cache was computed from
  slot_tokens,  \* HttpServer::slot_tokens_, or <<>> for a slot not tracked
  pc,           \* where the worker is in the current request
  prompt,       \* effective_prompt
  cut,          \* the boundary lookup() examines next
  hit,          \* [slot, len]: cache_slot and prefix_len
  snap,         \* [slot, cut]: snap_slot and snap_cut
  saved,        \* the backend saved this request's snapshot (history)
  faults        \* "abort", "alias", "unsaved" once they happened (history)

cacheVars   == <<entries, next_slot, pending>>
requestVars == <<prompt, cut, hit, snap>>
vars == <<cacheVars, slots, kv, slot_tokens, pc, requestVars, saved, faults>>

Slots  == 0..(Cap - 1)
NoSlot == -1
NoHit  == [slot |-> NoSlot, len |-> 0]
NoSnap == [slot |-> NoSlot, cut |-> 0]

\* hash_prefix(ids, n)
Key(p, n) == SubSeq(p, 1, n)

\* find_entry(key) >= 0
Cached(k) == \E i \in 1..Len(entries) : entries[i].key = k

\* find_entry: the position of key's entry.
Position(k) == CHOOSE i \in 1..Len(entries) : entries[i].key = k

\* move_to_end(idx): make that entry the most recently used one.
MoveToEnd(s, i) == Append(RemoveAt(s, i), s[i])

Init ==
  /\ entries = <<>> /\ next_slot = 0 /\ pending = <<>>
  /\ slots = [s \in Slots |-> <<>>]
  /\ kv = <<>>
  /\ slot_tokens = [s \in Slots |-> <<>>]
  /\ pc = "idle"
  /\ prompt = <<>> /\ cut = 0 /\ hit = NoHit /\ snap = NoSnap
  /\ saved = FALSE
  /\ faults = {}

-----------------------------------------------------------------------------
(* worker_loop takes the next request *)
Begin(p) ==
  /\ pc = "idle"
  /\ pc' = "lookup"
  /\ prompt' = p /\ cut' = 1
  /\ UNCHANGED <<cacheVars, slots, kv, slot_tokens, hit, snap, saved, faults>>

Lookup_NoTouch ==
  /\ pc = "lookup" /\ cut < Len(prompt)
  /\ IF Cached(Key(prompt, cut))
       THEN hit' = [slot |-> entries[Position(Key(prompt, cut))].slot, len |-> cut]
       ELSE UNCHANGED hit
  /\ cut' = cut + 1
  /\ UNCHANGED <<entries, next_slot, pending, slots, kv, slot_tokens, pc, prompt, snap,
                 saved, faults>>

\* One round of the loop of lookup(): boundaries come in increasing order, so
\* that a later hit is always the longer one. Every hit becomes the most
\* recently used entry.
Lookup ==
  /\ pc = "lookup" /\ cut < Len(prompt)
  /\ LET key == Key(prompt, cut)
         i   == Position(key)
     IN IF Cached(key)
          THEN /\ hit' = [slot |-> entries[i].slot, len |-> cut]
               /\ entries' = MoveToEnd(entries, i)
          ELSE UNCHANGED <<hit, entries>>
  /\ cut' = cut + 1
  /\ UNCHANGED <<next_slot, pending, slots, kv, slot_tokens, pc, prompt, snap, saved, faults>>

\* The second-to-last boundary, or the only one.
TargetCut == IF Len(prompt) >= 3 THEN Len(prompt) - 2 ELSE Len(prompt) - 1

\* The slot of some entry: handing it out below capacity aliases that entry.
InUse(s) == \E i \in 1..Len(entries) : entries[i].slot = s

PrepareInlineSnap_NoWrap ==
  /\ pc = "lookup" /\ cut >= Len(prompt)
  /\ pc' = "restore"
  /\ IF TargetCut = 0 \/ Cached(Key(prompt, TargetCut))
       THEN UNCHANGED <<next_slot, pending, snap, faults>>
       ELSE IF Len(entries) >= Cap
         THEN /\ pending' = entries[1].key
              /\ snap' = [slot |-> entries[1].slot, cut |-> TargetCut]
              /\ UNCHANGED <<next_slot, faults>>
         ELSE /\ snap' = [slot |-> next_slot, cut |-> TargetCut]
              /\ next_slot' = next_slot + 1
              /\ pending' = <<>>
              /\ faults' = IF InUse(next_slot) THEN faults \cup {"alias"} ELSE faults
  /\ UNCHANGED <<entries, slots, kv, slot_tokens, prompt, cut, hit, saved>>

PrepareInlineSnap_OffByOne ==
  /\ pc = "lookup" /\ cut >= Len(prompt)
  /\ pc' = "restore"
  /\ IF TargetCut = 0 \/ Cached(Key(prompt, TargetCut))
       THEN UNCHANGED <<next_slot, pending, snap, faults>>
       ELSE IF Len(entries) > Cap
         THEN /\ pending' = entries[1].key
              /\ snap' = [slot |-> entries[1].slot, cut |-> TargetCut]
              /\ UNCHANGED <<next_slot, faults>>
         ELSE /\ snap' = [slot |-> next_slot, cut |-> TargetCut]
              /\ next_slot' = (next_slot + 1) % Cap
              /\ pending' = <<>>
              /\ faults' = IF InUse(next_slot) THEN faults \cup {"alias"} ELSE faults
  /\ UNCHANGED <<entries, slots, kv, slot_tokens, prompt, cut, hit, saved>>

\* prepare_inline_snap(): nothing to do when the target prefix is cached; at
\* capacity the slot of the oldest entry is reserved but not evicted yet;
\* below it the next slot in rotation is taken.
PrepareInlineSnap ==
  /\ pc = "lookup" /\ cut >= Len(prompt)
  /\ pc' = "restore"
  /\ IF TargetCut = 0 \/ Cached(Key(prompt, TargetCut))
       THEN UNCHANGED <<next_slot, pending, snap, faults>>
       ELSE IF Len(entries) >= Cap
         THEN /\ pending' = entries[1].key
              /\ snap' = [slot |-> entries[1].slot, cut |-> TargetCut]
              /\ UNCHANGED <<next_slot, faults>>
         ELSE /\ snap' = [slot |-> next_slot, cut |-> TargetCut]
              /\ next_slot' = (next_slot + 1) % Cap
              /\ pending' = <<>>
              /\ faults' = IF InUse(next_slot) THEN faults \cup {"alias"} ELSE faults
  /\ UNCHANGED <<entries, slots, kv, slot_tokens, prompt, cut, hit, saved>>

-----------------------------------------------------------------------------
(* The backend: generate() and restore_and_generate() *)

\* Load the snapshot, or start from an empty cache when there was no hit. A slot
\* without a snapshot, or with one that is longer than the prompt, is an error
\* reported without a token.
Restore ==
  /\ pc = "restore"
  /\ IF hit.slot = NoSlot
       THEN kv' = <<>> /\ pc' = "prefill"
       ELSE IF slots[hit.slot] = <<>>
         THEN UNCHANGED kv /\ pc' = "failed"
         ELSE /\ kv' = slots[hit.slot]
              /\ pc' = IF Len(kv') > Len(prompt) THEN "failed" ELSE "prefill"
  /\ UNCHANGED <<cacheVars, slots, slot_tokens, requestVars, saved, faults>>

\* The prompt goes into the KV cache behind what was restored, by position.
Filled == kv \o SubSeq(prompt, Len(kv) + 1, Len(prompt))

\* Whether prefill comes by snap_pos: qwen35 saves when it passes the position,
\* gemma4 once the prompt is in, laguna only when it did not restore.
ReachesSnap ==
  /\ snap.slot # NoSlot
  /\ CASE Backend = "qwen35" -> snap.cut >= Len(kv) /\ Len(kv) < Len(prompt)
       [] Backend = "gemma4" -> TRUE
       [] Backend = "laguna" -> hit.slot = NoSlot

SaveSnap == slots' = [slots EXCEPT ![snap.slot] = Key(Filled, snap.cut)] /\ saved' = TRUE

\* snapshot_save() frees the old snapshot first when it has to reallocate.
FailSnap ==
  /\ Len(slots[snap.slot]) # (IF Backend = "laguna" THEN Len(prompt) ELSE snap.cut)
  /\ slots' = [slots EXCEPT ![snap.slot] = <<>>]
  /\ UNCHANGED saved

\* Prefill the rest of the prompt and take the inline snapshot on the way.
Prefill ==
  /\ pc = "prefill"
  /\ kv' = Filled
  /\ pc' = "decode"
  /\ IF ReachesSnap THEN SaveSnap \/ FailSnap ELSE UNCHANGED <<slots, saved>>
  /\ UNCHANGED <<cacheVars, slot_tokens, requestVars, faults>>

\* A step of the prefill fails: for qwen35 possibly after the snapshot. How much
\* of the prompt went into the KV cache does not matter any more.
PrefillFails ==
  /\ pc = "prefill"
  /\ pc' = "failed"
  /\ \/ UNCHANGED <<slots, saved>>
     \/ Backend = "qwen35" /\ ReachesSnap /\ (SaveSnap \/ FailSnap)
  /\ UNCHANGED <<cacheVars, kv, slot_tokens, requestVars, faults>>

\* Decoding either produced a token for a client that is still connected, or it
\* did not. What it appends to the KV cache is overwritten by the next request.
Decode ==
  /\ pc = "decode"
  /\ pc' \in {"served", "failed"}
  /\ UNCHANGED <<cacheVars, slots, kv, slot_tokens, requestVars, saved, faults>>

-----------------------------------------------------------------------------
(* worker_loop: confirm or abort the inline snapshot *)

\* The locals of the loop's body go out of scope, and what is left in the KV
\* cache is never read again: generate() and restore_and_generate() start over.
EndRequest ==
  /\ pc' = "idle" /\ kv' = <<>>
  /\ prompt' = <<>> /\ cut' = 0 /\ hit' = NoHit /\ snap' = NoSnap /\ saved' = FALSE

\* entries_ without the entry reserved for eviction.
WithoutPending ==
  IF pending # <<>> /\ Cached(pending) THEN RemoveAt(entries, Position(pending)) ELSE entries

ConfirmInlineSnap_NoEvict ==
  /\ pc = "served" /\ snap.slot # NoSlot
  /\ entries' = Append(entries, [key |-> Key(prompt, snap.cut), slot |-> snap.slot])
  /\ pending' = <<>>
  /\ slot_tokens' = [slot_tokens EXCEPT ![snap.slot] = Key(prompt, snap.cut)]
  /\ EndRequest
  /\ faults' = IF saved THEN faults ELSE faults \cup {"unsaved"}
  /\ UNCHANGED <<next_slot, slots>>

\* Mutant: the first snapshot's tokens stay with the slot.
ConfirmInlineSnap_TrackOnce ==
  /\ pc = "served" /\ snap.slot # NoSlot
  /\ entries' = Append(WithoutPending, [key |-> Key(prompt, snap.cut), slot |-> snap.slot])
  /\ pending' = <<>>
  /\ slot_tokens' = IF slot_tokens[snap.slot] # <<>> THEN slot_tokens
                    ELSE [slot_tokens EXCEPT ![snap.slot] = Key(prompt, snap.cut)]
  /\ EndRequest
  /\ faults' = IF saved THEN faults ELSE faults \cup {"unsaved"}
  /\ UNCHANGED <<next_slot, slots>>

\* confirm_inline_snap() and the tracking for the save at shutdown.
ConfirmInlineSnap ==
  /\ pc = "served" /\ snap.slot # NoSlot
  /\ entries' = Append(WithoutPending, [key |-> Key(prompt, snap.cut), slot |-> snap.slot])
  /\ pending' = <<>>
  /\ slot_tokens' = [slot_tokens EXCEPT ![snap.slot] = Key(prompt, snap.cut)]
  /\ EndRequest
  /\ faults' = IF saved THEN faults ELSE faults \cup {"unsaved"}
  /\ UNCHANGED <<next_slot, slots>>

AbortInlineSnap_KeepPending ==
  /\ pc = "failed" /\ snap.slot # NoSlot
  /\ entries' = WithoutPending
  /\ EndRequest
  /\ faults' = faults \cup {"abort"}
  /\ UNCHANGED <<next_slot, pending, slots, slot_tokens>>

AbortInlineSnap_KeepEntry ==
  /\ pc = "failed" /\ snap.slot # NoSlot
  /\ pending' = <<>>
  /\ EndRequest
  /\ faults' = faults \cup {"abort"}
  /\ UNCHANGED <<entries, next_slot, slots, slot_tokens>>

\* abort_inline_snap(): the reserved entry is dropped, its slot may have been
\* overwritten already. next_slot_ is not moved back.
AbortInlineSnap ==
  /\ pc = "failed" /\ snap.slot # NoSlot
  /\ entries' = WithoutPending
  /\ pending' = <<>>
  /\ EndRequest
  /\ faults' = faults \cup {"abort"}
  /\ UNCHANGED <<next_slot, slots, slot_tokens>>

\* There was no reservation.
NothingPrepared ==
  /\ pc \in {"served", "failed"} /\ snap.slot = NoSlot
  /\ EndRequest
  /\ UNCHANGED <<cacheVars, slots, slot_tokens, faults>>

Next ==
  \/ \E p \in Prompts : Begin(p)
  \/ Lookup
  \/ PrepareInlineSnap
  \/ Restore
  \/ Prefill
  \/ PrefillFails
  \/ Decode
  \/ ConfirmInlineSnap
  \/ AbortInlineSnap
  \/ NothingPrepared

Spec == Init /\ [][Next]_vars

-----------------------------------------------------------------------------
(* Properties *)

Keys == Seq(Turns) \ {<<>>}

TypeOK ==
  /\ entries \in Seq([key : Keys, slot : Slots])
  /\ next_slot \in Slots
  /\ pending \in Seq(Turns)
  /\ slots \in [Slots -> Seq(Turns)]
  /\ kv \in Seq(Turns)
  /\ slot_tokens \in [Slots -> Seq(Turns)]
  /\ pc \in {"idle", "lookup", "restore", "prefill", "decode", "served", "failed"}
  /\ prompt \in Seq(Turns)
  /\ cut \in Nat
  /\ hit \in [slot : Slots \cup {NoSlot}, len : Nat]
  /\ snap \in [slot : Slots \cup {NoSlot}, cut : Nat]
  /\ saved \in BOOLEAN
  /\ faults \subseteq {"abort", "alias", "unsaved"}

\* The LRU table stays a table: at most cap_ entries, one per prefix, over any
\* sequence of hits, evictions, confirmed and aborted snapshots.
TableBounded ==
  /\ Len(entries) <= Cap
  /\ \A i, j \in 1..Len(entries) : entries[i].key = entries[j].key => i = j

\* While a slot is reserved at capacity the entry that will be evicted for it is
\* still in the table, is the oldest one and owns that slot; between two
\* requests nothing is reserved.
ReservationHeld ==
  pending # <<>> =>
    /\ pc \in {"restore", "prefill", "decode", "served", "failed"}
    /\ Len(entries) = Cap
    /\ entries[1].key = pending /\ entries[1].slot = snap.slot

\* "never returning a wrong-KV restore": decoding starts from the KV state of
\* the client's own prompt, as long as no slot in use was handed out and no
\* unsaved snapshot was confirmed. Aborted requests, failed saves and failed
\* prefills do not break it.
RestoreSound ==
  pc = "decode" /\ "alias" \notin faults /\ "unsaved" \notin faults => kv = prompt

\* A slot that is in use is only ever handed out after some abort has left the
\* table short of entries while next_slot_ had moved on.
AliasNeedsAbort == "alias" \in faults => "abort" \in faults

\* The entry a request was restored from outlives that request: what the request
\* evicts to make room is another entry, as there is more than one.
HitOutlivesRequest ==
  [][Cap >= 2 /\ pc # "idle" /\ pc' = "idle" /\ hit.slot # NoSlot
       => \E i \in 1..Len(entries') : entries'[i].key = Key(prompt, hit.len)]_vars

\* "never returning a wrong-KV restore"
NeverWrongRestore == pc = "decode" => kv = prompt

\* "Track prompt tokens for each snapshot slot (for shutdown save)": between two
\* requests, when the worker may be told to stop, the save writes the snapshot of
\* every entry of the table under that entry's own tokens. The slots of dropped
\* entries are not spoken of: an aborted request may have overwritten them.
EntriesTracked ==
  pc = "idle" /\ faults \cap {"alias", "unsaved"} = {} =>
    \A i \in 1..Len(entries) :
      /\ slot_tokens[entries[i].slot] = entries[i].key
      /\ slots[entries[i].slot] = entries[i].key

\* The table and its one reservation, over any sequence of hits, evictions, confirmed and
\* aborted snapshots.
TableInv == TypeOK /\ TableBounded /\ ReservationHeld

\* Wrong state is restored only after one of two named faults, and the first of them, a
\* slot in use that is handed out, needs an abort before it.
SoundUnlessAborted == RestoreSound /\ AliasNeedsAbort

=============================================================================
