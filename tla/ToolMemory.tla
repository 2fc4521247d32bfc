----------------------------- MODULE ToolMemory -----------------------------
(***************************************************************************)
(* The tool memory (dflash/src/server/tool_memory.cpp) and its two users:  *)
(* the emitter, which remembers the raw text of a finished turn under the  *)
(* ids of its tool calls, and normalize_chat_messages, which replays that  *)
(* text when a client sends the ids back.                                  *)
(*                                                                         *)
(* The loops over call ids, and the loop of prune(), take one step for     *)
(* each round. Calls follow one another: the code takes no lock here, so   *)
(* the model says nothing about two threads inside the tool memory.        *)
(*                                                                         *)
(* A raw text is a value with a size; a text of size 0 is the empty one.   *)
(* Operators named Action_Fault are faulty variants of an action, kept to  *)
(* test that the properties notice the fault.                              *)
(***************************************************************************)
EXTENDS Integers, Sequences, FiniteSets, SequencesExt, Tally

CONSTANTS
  CallIds,     \* tool-call ids other than the empty string
  NoId,        \* the empty id
  Texts,       \* raw assistant texts
  NoText,      \* the empty answer of lookup
  Size,        \* the number of bytes of a text
  MaxEntries,  \* max_entries_
  MaxBytes,    \* max_bytes_
  MaxCalls     \* bound: tool calls in one turn

ASSUME IdAssumption == NoId \notin CallIds /\ IsFiniteSet(CallIds)
ASSUME TextAssumption == NoText \notin Texts /\ Size \in [Texts -> Nat]
ASSUME LimitAssumption == MaxEntries \in Nat /\ MaxBytes \in Nat /\ MaxCalls \in Nat

VARIABLES
  mem,        \* the tool memory: blocks_, their refs, by_id_, lru_, total_bytes_
  op,         \* the call in progress: its name, the ids left, those done, the text
  chat_msgs,  \* the messages the latest replay produced: ids asked for, text
  said        \* the text an id was last remembered with (history)

vars == <<mem, op, chat_msgs, said>>

Idle == [call |-> "idle", todo |-> <<>>, done |-> {}, text |-> NoText]

\* The id lists callers pass in.
IdLists == UNION {[1..n -> CallIds \cup {NoId}] : n \in 1..MaxCalls}

Known(m) == {id \in CallIds : m.by_id[id] # NoText}

Monus(a, b) == IF b > a THEN 0 ELSE a - b

Listed(s, id) == \E i \in 1..Len(s) : s[i] = id

\* lru_.erase(lru_map_[id])
Unlist(s, id) ==
  IF Listed(s, id) THEN RemoveAt(s, CHOOSE i \in 1..Len(s) : s[i] = id) ELSE s

touch(m, id) == [m EXCEPT !.lru = Append(Unlist(m.lru, id), id)]

\* The block of a text goes with the last of its references.
LastRef(m, t) == t \in m.blocks /\ Monus(m.refs[t], 1) = 0

drop_entry_KeepListed(m, id) ==
  LET t == m.by_id[id]
      b == IF LastRef(m, t) THEN Monus(m.total, Size[t]) ELSE m.total
  IN IF t = NoText THEN m ELSE
       [m EXCEPT !.blocks = IF LastRef(m, t) THEN @ \ {t} ELSE @,
                 !.refs[t] = Monus(@, 1),
                 !.by_id[id] = NoText,
                 !.total = Monus(b, Size[t])]

drop_entry_KeepBlock(m, id) ==
  LET t == m.by_id[id]
  IN IF t = NoText THEN m ELSE
       [m EXCEPT !.refs[t] = Monus(@, 1),
                 !.by_id[id] = NoText,
                 !.lru = Unlist(@, id),
                 !.total = Monus(@, Size[t])]

drop_entry_OneCopy(m, id) ==
  LET t == m.by_id[id]
      b == IF LastRef(m, t) THEN Monus(m.total, Size[t]) ELSE m.total
  IN IF t = NoText THEN m ELSE
       [m EXCEPT !.blocks = IF LastRef(m, t) THEN @ \ {t} ELSE @,
                 !.refs[t] = Monus(@, 1),
                 !.by_id[id] = NoText,
                 !.lru = Unlist(@, id),
                 !.total = b]

drop_entry_BothAlways(m, id) ==
  LET t == m.by_id[id]
  IN IF t = NoText THEN m ELSE
       [m EXCEPT !.blocks = IF LastRef(m, t) THEN @ \ {t} ELSE @,
                 !.refs[t] = Monus(@, 1),
                 !.by_id[id] = NoText,
                 !.lru = Unlist(@, id),
                 !.total = @ - 2 * Size[t]]

\* drop_entry: the block goes with its last reference, and the bytes of the
\* block and of the copy in by_id_ are given back.
drop_entry(m, id) ==
  LET t == m.by_id[id]
      b == IF LastRef(m, t) THEN Monus(m.total, Size[t]) ELSE m.total
  IN IF t = NoText THEN m ELSE
       [m EXCEPT !.blocks = IF LastRef(m, t) THEN @ \ {t} ELSE @,
                 !.refs[t] = Monus(@, 1),
                 !.by_id[id] = NoText,
                 !.lru = Unlist(@, id),
                 !.total = Monus(b, Size[t])]

Init ==
  /\ mem = [blocks |-> {}, refs |-> [t \in Texts |-> 0],
            by_id |-> [id \in CallIds |-> NoText], lru |-> <<>>, total |-> 0]
  /\ op = Idle
  /\ chat_msgs = <<>>
  /\ said = [id \in CallIds |-> NoText]

-----------------------------------------------------------------------------
(* remember(call_ids, raw_text), called when a turn with tool calls ends *)

disabled == MaxEntries = 0 \/ MaxBytes = 0

\* Up to the loop over the ids: find or create the text's block.
Remember(ids, text) ==
  /\ op.call = "idle"
  /\ ~disabled /\ Size[text] # 0
  /\ \E i \in 1..Len(ids) : ids[i] # NoId
  /\ mem' = [mem EXCEPT !.blocks = @ \cup {text},
                        !.total = IF text \in mem.blocks THEN @ ELSE @ + Size[text]]
  /\ op' = [call |-> "remember", todo |-> ids, done |-> {}, text |-> text]
  /\ chat_msgs' = <<>>
  /\ UNCHANGED said

\* by_id_[id] = text for an id that is not known (any more)
Enter(m, id, text) ==
  touch([m EXCEPT !.by_id[id] = text, !.total = @ + Size[text], !.refs[text] = @ + 1], id)

Associate_KeepOld ==
  LET id == Head(op.todo)
  IN /\ op.call = "remember" /\ op.todo # <<>>
     /\ op' = [op EXCEPT !.todo = Tail(@), !.done = IF id = NoId THEN @ ELSE @ \cup {id}]
     /\ IF id = NoId \/ id \in op.done
          THEN UNCHANGED <<mem, said>>
          ELSE /\ said' = [said EXCEPT ![id] = op.text]
               /\ mem' = IF mem.by_id[id] # NoText
                           THEN touch(mem, id)
                           ELSE Enter(mem, id, op.text)
     /\ UNCHANGED chat_msgs

Associate_NoTouch ==
  LET id == Head(op.todo)
  IN /\ op.call = "remember" /\ op.todo # <<>>
     /\ op' = [op EXCEPT !.todo = Tail(@), !.done = IF id = NoId THEN @ ELSE @ \cup {id}]
     /\ IF id = NoId \/ id \in op.done
          THEN UNCHANGED <<mem, said>>
          ELSE /\ said' = [said EXCEPT ![id] = op.text]
               /\ mem' = CASE mem.by_id[id] = op.text -> mem
                           [] mem.by_id[id] = NoText  -> Enter(mem, id, op.text)
                           [] OTHER -> Enter(drop_entry(mem, id), id, op.text)
     /\ UNCHANGED chat_msgs

\* One round of the loop: an id met before in this list, or an empty one, is
\* skipped; an id of another text is dropped from it first.
Associate ==
  LET id == Head(op.todo)
  IN /\ op.call = "remember" /\ op.todo # <<>>
     /\ op' = [op EXCEPT !.todo = Tail(@), !.done = IF id = NoId THEN @ ELSE @ \cup {id}]
     /\ IF id = NoId \/ id \in op.done
          THEN UNCHANGED <<mem, said>>
          ELSE /\ said' = [said EXCEPT ![id] = op.text]
               /\ mem' = CASE mem.by_id[id] = op.text -> touch(mem, id)
                           [] mem.by_id[id] = NoText  -> Enter(mem, id, op.text)
                           [] OTHER -> Enter(drop_entry(mem, id), id, op.text)
     /\ UNCHANGED chat_msgs

OverLimit_EntriesOnly ==
  /\ Known(mem) # {}
  /\ Cardinality(Known(mem)) > MaxEntries

\* The condition of prune()'s loop, its break included.
OverLimit ==
  /\ Known(mem) # {} /\ mem.lru # <<>>
  /\ \/ MaxEntries > 0 /\ Cardinality(Known(mem)) > MaxEntries
     \/ MaxBytes > 0 /\ mem.total > MaxBytes

\* One round of prune(): the least recently used id goes.
Prune ==
  /\ op.call = "remember" /\ op.todo = <<>>
  /\ OverLimit
  /\ mem' = drop_entry(mem, Head(mem.lru))
  /\ UNCHANGED <<op, chat_msgs, said>>

\* prune() and remember() return.
Pruned ==
  /\ op.call = "remember" /\ op.todo = <<>>
  /\ ~OverLimit
  /\ op' = Idle
  /\ UNCHANGED <<mem, chat_msgs, said>>

-----------------------------------------------------------------------------
(* normalize_chat_messages meets a turn with tool calls *)

\* A turn in the chat format, or the function_call items of one turn in the
\* responses format.
Replay(format, ids) ==
  /\ op.call = "idle"
  /\ op' = [call |-> format, todo |-> ids, done |-> {}, text |-> NoText]
  /\ chat_msgs' = <<>>
  /\ UNCHANGED <<mem, said>>

\* One round of lookup(call_ids), which is called with the ids that are not
\* empty: an unknown id, or one of another text, ends it without an answer,
\* but the ids before it have been touched.
ReplayChat ==
  /\ op.call = "chat" /\ op.todo # <<>>
  /\ LET id == Head(op.todo)
     IN CASE id = NoId ->
               op' = [op EXCEPT !.todo = Tail(@)] /\ UNCHANGED <<mem, chat_msgs>>
          [] id \in Known(mem) /\ (op.done = {} \/ mem.by_id[id] = op.text) ->
               /\ mem' = touch(mem, id)
               /\ op' = [op EXCEPT !.todo = Tail(@), !.done = @ \cup {id},
                                   !.text = mem.by_id[id]]
               /\ UNCHANGED chat_msgs
          [] OTHER ->
               /\ op' = Idle
               /\ chat_msgs' = <<[ids |-> op.done \cup {id}, text |-> NoText]>>
               /\ UNCHANGED mem
  /\ UNCHANGED said

\* lookup() has met every id.
ReplayChatEnd ==
  /\ op.call = "chat" /\ op.todo = <<>>
  /\ op' = Idle
  /\ chat_msgs' = <<[ids |-> op.done, text |-> op.text]>>
  /\ UNCHANGED <<mem, said>>

\* One function_call item: lookup({call_id}), and an assistant message of its own.
ReplayItem ==
  /\ op.call = "responses" /\ op.todo # <<>>
  /\ LET id   == Head(op.todo)
         text == IF id = NoId THEN NoText ELSE mem.by_id[id]
     IN /\ mem' = IF text = NoText THEN mem ELSE touch(mem, id)
        /\ chat_msgs' = Append(chat_msgs, [ids |-> {id}, text |-> text])
        /\ op' = IF Tail(op.todo) = <<>> THEN Idle ELSE [op EXCEPT !.todo = Tail(@)]
  /\ UNCHANGED said

-----------------------------------------------------------------------------
CallStep == Associate \/ Prune \/ Pruned \/ ReplayChat \/ ReplayChatEnd \/ ReplayItem

Next ==
  \/ \E ids \in IdLists, text \in Texts : Remember(ids, text)
  \/ \E format \in {"chat", "responses"}, ids \in IdLists : Replay(format, ids)
  \/ Associate
  \/ Prune
  \/ Pruned
  \/ ReplayChat
  \/ ReplayChatEnd
  \/ ReplayItem

\* A call that has begun runs on: nothing in it waits.
Spec == Init /\ [][Next]_vars /\ WF_vars(CallStep)

-----------------------------------------------------------------------------
TypeOK ==
  /\ mem \in [blocks: SUBSET Texts, refs: [Texts -> Nat],
              by_id: [CallIds -> Texts \cup {NoText}], lru: Seq(CallIds), total: Nat]
  /\ op \in [call: {"idle", "remember", "chat", "responses"},
             todo: Seq(CallIds \cup {NoId}),
             done: SUBSET CallIds, text: Texts \cup {NoText}]
  /\ chat_msgs \in Seq([ids: SUBSET (CallIds \cup {NoId}), text: Texts \cup {NoText}])
  /\ said \in [CallIds -> Texts \cup {NoText}]

\* lru_, lru_map_ and by_id_ agree: every known id is listed, once, and no other
\* is. Prune relies on it: an id listed but not known would be dropped again and
\* again without ever leaving the list.
ListMatchesIds ==
  /\ \A id \in CallIds : Listed(mem.lru, id) <=> mem.by_id[id] # NoText
  /\ \A i, j \in 1..Len(mem.lru) : mem.lru[i] = mem.lru[j] => i = j

\* A block's reference count is the number of ids that stand for its text, and
\* a block with none is gone, except for the one remember() is filling.
RefsExact ==
  \A t \in Texts :
    /\ mem.refs[t] = Cardinality({id \in CallIds : mem.by_id[id] = t})
    /\ mem.refs[t] > 0 => t \in mem.blocks
    /\ t \in mem.blocks => mem.refs[t] > 0 \/ (op.call = "remember" /\ op.text = t)

\* total_bytes_ is what the blocks and the copies in by_id_ occupy: the
\* subtractions of drop_entry never have to stop at 0.
BytesExact ==
  mem.total = Tally(Size, mem.blocks)
              + Tally([id \in Known(mem) |-> Size[mem.by_id[id]]], Known(mem))

\* When a call has returned, the memory is within both limits: pruning by ids
\* is enough, even where one text exceeds the limit on its own.
WithinLimits ==
  op.call = "idle" => Cardinality(Known(mem)) <= MaxEntries /\ mem.total <= MaxBytes

\* A replayed text is the one that every id the client sent was last remembered
\* with, whatever was dropped, replaced and remembered again in between.
ReplayExact ==
  \A i \in 1..Len(chat_msgs) :
    chat_msgs[i].text # NoText => \A id \in chat_msgs[i].ids : said[id] = chat_msgs[i].text

\* prune() takes an id of the turn being remembered only when no other is left.
NewTurnPrunedLast ==
  [][op.call = "remember" /\ op.todo = <<>> =>
       \A id \in op.done : mem.by_id[id] # NoText /\ mem'.by_id[id] = NoText
                             => Known(mem) \subseteq op.done]_vars

\* remember(), lookup() and with them prune() return.
CallsReturn == op.call # "idle" ~> op.call = "idle"

\* The containers describe one memory: the list, the map and the reference counts.
ListInv == TypeOK /\ ListMatchesIds /\ RefsExact

\* The byte counter never drifts, so that the limits it is compared with do hold.
LimitsHold == BytesExact /\ WithinLimits

=============================================================================
