----------------------------- MODULE WorkQueue -----------------------------
(***************************************************************************)
(* The retry queue of the v1 agent, type ResourceCacheWorkqueue of         *)
(* internal/services/resourceupdate/workqueue.go, as pure operators.       *)
(*                                                                         *)
(* A queue is a sequence of entries                                        *)
(*     [update |-> an update with a field uid, retryCount |-> a number]    *)
(* (ResourceCacheWorkqueueObject; SubmittedTime is never read and is left  *)
(* out).  Positions are those of the code and start from 0: position k of  *)
(* the slice is element k + 1 of the sequence.                             *)
(***************************************************************************)
EXTENDS Integers, Sequences, SequencesExt

\* The empty string in the place of a uid.
NoUid == "NoUid"

EntryOf(Updates) == [update : Updates, retryCount : Nat]

NeedToRun(wq) == Len(wq) > 0

HoldsUid(wq, uid) == \E i \in DOMAIN wq : wq[i].update.uid = uid

\* The position of the first entry for uid -- and 0 when there is none: a
\* caller cannot tell the first entry from a missing one.
GetByUid(wq, uid) ==
  IF HoldsUid(wq, uid)
  THEN (CHOOSE i \in DOMAIN wq :
          /\ wq[i].update.uid = uid
          /\ \A j \in 1 .. (i - 1) : wq[j].update.uid # uid) - 1
  ELSE 0

\* Mutant: the retries left are counted, not those made.
NewEntryCountDown(wq, update) ==
  LET id == GetByUid(wq, update.uid)
  IN  [update     |-> update,
       retryCount |-> IF id > 0 THEN wq[id + 1].retryCount - 1 ELSE 0]

\* What Add puts in the queue for `update`, the slice being wq: the retry
\* count goes on from the entry it replaces.
NewEntry(wq, update) ==
  LET id == GetByUid(wq, update.uid)
  IN  [update     |-> update,
       retryCount |-> IF id > 0 THEN wq[id + 1].retryCount + 1 ELSE 0]

\* Mutant: only a uid that has an entry gets one.
AddKnownOnly(wq, update) ==
  LET id == GetByUid(wq, update.uid)
  IN  IF id > 0 THEN ReplaceAt(wq, id + 1, NewEntry(wq, update)) ELSE wq

\* An entry that is not the first is replaced in place; everything else,
\* the update of a uid whose entry is at position 0 included, is appended.
Add(wq, update) ==
  LET id == GetByUid(wq, update.uid)
  IN  IF id > 0
      THEN ReplaceAt(wq, id + 1, NewEntry(wq, update))
      ELSE Append(wq, NewEntry(wq, update))

\* What a slice shows once entry is written at position i of its array.
Written(wq, i, entry) == IF i \in DOMAIN wq THEN ReplaceAt(wq, i, entry) ELSE wq

\* Removes the entry at the position GetByUid returns: for a uid that has no
\* entry this is the first entry of the queue.
DeleteByUid(wq, uid) ==
  IF uid = NoUid \/ wq = << >> THEN wq ELSE RemoveAt(wq, GetByUid(wq, uid) + 1)
=============================================================================
