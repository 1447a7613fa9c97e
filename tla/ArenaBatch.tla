----------------------------- MODULE ArenaBatch -----------------------------
(***************************************************************************)
(* A StableArena and an owner that takes back batches, the use the comment *)
(* on truncate_issued describes: the owner notes issued_len(), pushes ids  *)
(* that never escape, and truncates to the mark.  Until then it removes    *)
(* and overwrites only ids of the batch.                                   *)
(***************************************************************************)
EXTENDS StableArena

VARIABLE batch

NoBatch == [open |-> FALSE, before |-> EmptyArena]

Mark == IssuedLen(batch.before)

\* Outside a batch every id may be touched, inside it those from the mark on.
Mine(id) == batch.open => id >= Mark

Open == /\ ~batch.open
        /\ Idle
        /\ batch' = [open |-> TRUE, before |-> arena]
        /\ UNCHANGED arena

OwnerPush(v) == Push(v) /\ UNCHANGED batch

OwnerRemove(id) == Mine(id) /\ Remove(id) /\ UNCHANGED batch

OwnerWrite(id, v) == Mine(id) /\ Write(id, v) /\ UNCHANGED batch

OwnerClear == ~batch.open /\ Clear /\ UNCHANGED batch

TakeBack == batch.open /\ TruncateBegin(Mark) /\ UNCHANGED batch

\* A take-back that unwinds leaves the batch open: the owner may try again.
TakingBack == (TruncateStep \/ TruncateUnwind) /\ UNCHANGED batch

TakenBack == TruncateEnd /\ batch' = NoBatch

BInit == Init /\ batch = NoBatch

BNext == \/ Open
         \/ \E v \in Values : OwnerPush(v)
         \/ \E id \in Ids : OwnerRemove(id)
         \/ \E id \in Ids, v \in Values : OwnerWrite(id, v)
         \/ OwnerClear
         \/ TakeBack
         \/ TakingBack
         \/ TakenBack

BSpec == BInit /\ [][BNext]_<<vars, batch>>

-----------------------------------------------------------------------------
\* While a batch is open the dense order of the older entries stands: the
\* batch lives behind them, whatever it pushed and removed.
OlderFirst ==
    batch.open =>
        LET old == Len(batch.before.slot_ids)
        IN /\ Len(arena.slot_ids) >= old
           /\ SubSeq(arena.slot_ids, 1, old) = batch.before.slot_ids
           /\ \A s \in old .. Len(arena.slot_ids) - 1 : At(arena.slot_ids, s) >= Mark

\* Taking the batch back restores the arena exactly: ids, holes, payloads,
\* dense order, and the id the next push issues.
TakeBackRestores == [][TakenBack => arena' = batch.before]_<<vars, batch>>

=============================================================================
