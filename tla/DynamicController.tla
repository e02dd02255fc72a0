-------------------------- MODULE DynamicController --------------------------
(***************************************************************************)
(* The paged LIST and WATCH loop of one resource kind, runNoCacheWatcher,  *)
(* noCacheInitialList and noCacheWatch of common/pkg/controllers/          *)
(* dynamiccontroller/dynamicController.go, against the API server.         *)
(*                                                                         *)
(* The API server is external: a sequence of revisions, each with the uid  *)
(* it changed (NoUid: an object of another kind) and the state of all      *)
(* objects after it; old revisions get compacted.  A list is served from   *)
(* the newest revision and its later pages from that same revision, unless *)
(* it is compacted meanwhile.  A watch from a compacted revision opens and *)
(* at once carries an ERROR event.                                         *)
(*                                                                         *)
(* Variables of the loop:                                                  *)
(*   pc        "list" a list from the start, "items" the items of a page,  *)
(*             "open" a call of Watch, "watch" the select of noCacheWatch  *)
(*   resourceVersion  of runNoCacheWatcher, NoVersion for ""               *)
(*   page      the items of the page its handler has yet to be called for  *)
(*   rest      the uids on the pages behind the continue token; before the *)
(*             first list: every object                                    *)
(*   position  the revision of the list, or of the last event seen         *)
(*   backoff   in seconds                                                  *)
(*                                                                         *)
(* History variables, read by no action:                                   *)
(*   shown     the revision that the handler was last shown of a uid       *)
(*   missed    uids a list leaves out that the handler believes to exist   *)
(***************************************************************************)
EXTENDS Integers, Sequences, FiniteSets

CONSTANTS
  Uids, Hashes, NoHash, Unborn, Gone,
  PageSize,       \* items on a page: 500 in the code
  MaxRevisions,   \* bound: revisions of the API server
  MaxBreaks       \* bound: calls that fail, watches that close or fail

NoUid == "NoUid"
NoVersion == 0

ASSUME ConstantsAssumption ==
  /\ NoUid \notin Uids
  /\ Unborn \notin Hashes /\ Gone \notin Hashes /\ Unborn # Gone
  /\ PageSize \in Nat \ {0} /\ MaxRevisions \in Nat \ {0} /\ MaxBreaks \in Nat

VARIABLES
  revisions, compacted,
  pc, resourceVersion, page, rest, position, backoff,
  breaks, shown, missed

server == <<revisions, compacted>>
loop   == <<pc, resourceVersion, page, rest, position>>
vars   == <<server, loop, backoff, breaks, shown, missed>>

State == [Uids -> Hashes \cup {Unborn, Gone}]
Newest == Len(revisions)
live  == revisions[Newest].state

\* The uids a list of revision r contains.
Existing(r) == {u \in Uids : revisions[r].state[u] \in Hashes}

\* What the handler knows of u.
Known(u) == IF shown[u] = 0 THEN Unborn ELSE revisions[shown[u]].state[u]

Init ==
  /\ revisions \in [1 .. 1 -> [uid : {NoUid}, state : [Uids -> Hashes \cup {Unborn}]]]
  /\ compacted = 0
  /\ pc = "list" /\ resourceVersion = NoVersion
  /\ page = {} /\ rest = Existing(1) /\ position = 1
  /\ backoff = 1
  /\ breaks = 0
  /\ shown = [u \in Uids |-> 0] /\ missed = {}
-----------------------------------------------------------------------------
(* The API server *)

Commit(uid, state) ==
  /\ Newest < MaxRevisions
  /\ revisions' = Append(revisions, [uid |-> uid, state |-> state])
  /\ UNCHANGED <<compacted, loop, backoff, breaks, shown, missed>>

Change(u, h) == live[u] # Gone /\ Commit(u, [live EXCEPT ![u] = h])
Delete(u)    == live[u] \in Hashes /\ Commit(u, [live EXCEPT ![u] = Gone])
OtherKind    == Commit(NoUid, live)

Compact(r) ==
  /\ compacted < r /\ r <= Newest
  /\ compacted' = r
  /\ UNCHANGED <<revisions, loop, backoff, breaks, shown, missed>>
-----------------------------------------------------------------------------
(* noCacheInitialList *)

\* What a page may hold of the uids still to come.
Page(uids) == {S \in SUBSET uids : Cardinality(S) <= PageSize /\ (S = {} => uids = {})}

\* The first page of a list.
List ==
  /\ pc = "list"
  /\ position' = Newest
  /\ page' \in Page(Existing(Newest))
  /\ rest' = Existing(Newest) \ page'
  /\ pc' = "items"
  /\ backoff' = 1
  /\ missed' = missed \cup {u \in Uids : Known(u) \in Hashes /\ live[u] = Gone}
  /\ UNCHANGED <<server, resourceVersion, breaks, shown>>

\* AddFunc is called for an item of the page.
Item(u) ==
  /\ pc = "items"
  /\ u \in page
  /\ page' = page \ {u}
  /\ shown' = [shown EXCEPT ![u] = position]
  /\ UNCHANGED <<server, pc, resourceVersion, rest, position, backoff, breaks, missed>>

\* The continue token can be used as long as its revision is there.
NextPage ==
  /\ pc = "items"
  /\ page = {} /\ rest # {}
  /\ position >= compacted
  /\ page' \in Page(rest)
  /\ rest' = rest \ page'
  /\ backoff' = 1
  /\ UNCHANGED <<server, pc, resourceVersion, position, breaks, shown, missed>>

ListEnd ==
  /\ pc = "items"
  /\ page = {} /\ rest = {}
  /\ resourceVersion' = position
  /\ pc' = "open"
  /\ UNCHANGED <<server, page, rest, position, backoff, breaks, shown, missed>>

\* Mutant: there is no limit to the backoff.
IncreaseBackoffForever(b) == 2 * b

IncreaseBackoff(b) == IF b < 30 THEN 2 * b ELSE b

\* Mutant: when a page fails the loop makes do with the pages it has.
ListFailsKeepsPages ==
  /\ pc = "items" /\ page = {} /\ rest # {}
  /\ \/ breaks < MaxBreaks /\ breaks' = breaks + 1
     \/ position < compacted /\ UNCHANGED breaks
  /\ resourceVersion' = position
  /\ pc' = "open"
  /\ UNCHANGED <<server, page, rest, position, backoff, shown, missed>>

\* List fails -- its token has expired, or for any other reason -- and after
\* the backoff the list starts anew.
ListFails ==
  /\ \/ pc = "list"
     \/ pc = "items" /\ page = {} /\ rest # {}
  /\ \/ /\ breaks < MaxBreaks
        /\ breaks' = breaks + 1
     \/ /\ pc = "items" /\ position < compacted
        /\ UNCHANGED breaks
  /\ backoff' = IncreaseBackoff(backoff)
  /\ pc' = "list"
  /\ UNCHANGED <<server, resourceVersion, page, rest, position, shown, missed>>
-----------------------------------------------------------------------------
(* noCacheWatch *)

\* Watch fails; the loop tries again from the same version.
WatchFails ==
  /\ pc = "open"
  /\ breaks < MaxBreaks
  /\ breaks' = breaks + 1
  /\ backoff' = IncreaseBackoff(backoff)
  /\ UNCHANGED <<server, loop, shown, missed>>

\* Mutant: after an ERROR event the loop watches from now on.
ForceWatchFromNow ==
  /\ resourceVersion' = Newest
  /\ position' = Newest
  /\ pc' = "open"
  /\ backoff' = 1
  /\ UNCHANGED <<server, page, rest, shown, missed>>

\* An ERROR event: noCacheWatch returns "", true and the loop lists again.
ForceRelist ==
  /\ resourceVersion' = NoVersion
  /\ pc' = "list"
  /\ backoff' = 1
  /\ UNCHANGED <<server, page, rest, position, shown, missed>>

\* Mutant: an expired version is tried again.
WatchRetries ==
  /\ pc = "open"
  /\ IF resourceVersion >= compacted
     THEN pc' = "watch" /\ backoff' = 1
     ELSE UNCHANGED <<pc, backoff>>
  /\ UNCHANGED <<server, resourceVersion, page, rest, position, breaks, shown, missed>>

Watch ==
  /\ pc = "open"
  /\ \/ /\ resourceVersion >= compacted
        /\ pc' = "watch"
        /\ backoff' = 1
        /\ UNCHANGED <<server, resourceVersion, page, rest, position, breaks, shown,
                       missed>>
     \/ /\ resourceVersion < compacted
        /\ ForceRelist
        /\ UNCHANGED breaks

\* Mutant: the watch is opened without the resource version.
NextEventFromOldest ==
  {r \in (compacted + 1) .. Newest :
     /\ revisions[r].uid # NoUid
     /\ \A q \in (compacted + 1) .. (r - 1) : revisions[q].uid = NoUid}

\* The revision of the next event of the stream, if there is one.
NextEvent ==
  {r \in (resourceVersion + 1) .. Newest :
     /\ revisions[r].uid # NoUid
     /\ \A q \in (resourceVersion + 1) .. (r - 1) : revisions[q].uid = NoUid}

\* ADDED, MODIFIED or DELETED: the version is noted, the handler called.
Event ==
  /\ pc = "watch"
  /\ \E r \in NextEvent :
       /\ resourceVersion' = r
       /\ position' = r
       /\ shown' = [shown EXCEPT ![revisions[r].uid] = r]
  /\ UNCHANGED <<server, pc, page, rest, backoff, breaks, missed>>

\* A bookmark tells of a revision that everything is sent up to.
Bookmark ==
  /\ pc = "watch"
  /\ \E r \in (resourceVersion + 1) .. Newest :
       /\ \A q \in (resourceVersion + 1) .. r : revisions[q].uid = NoUid
       /\ resourceVersion' = r
       /\ position' = r
  /\ UNCHANGED <<server, pc, page, rest, backoff, breaks, shown, missed>>

\* The server ends the watch, by closing the stream or with an ERROR event.
WatchEnds ==
  /\ pc = "watch"
  /\ breaks < MaxBreaks
  /\ breaks' = breaks + 1
  /\ \/ /\ pc' = "open"
        /\ UNCHANGED <<server, resourceVersion, page, rest, position, backoff, shown,
                       missed>>
     \/ ForceRelist
-----------------------------------------------------------------------------
Server ==
  \/ \E u \in Uids : Delete(u) \/ \E h \in Hashes : Change(u, h)
  \/ OtherKind
  \/ \E r \in 1 .. MaxRevisions : Compact(r)

Progress ==
  \/ List \/ NextPage \/ ListEnd
  \/ \E u \in Uids : Item(u)
  \/ Watch \/ Event

Loop == Progress \/ ListFails \/ WatchFails \/ Bookmark \/ WatchEnds

Next == Server \/ Loop

Spec == Init /\ [][Next]_vars

\* The goroutine runs, and the API server answers and sends its events.
FairSpec == Spec /\ WF_vars(Progress \/ ListFails)
-----------------------------------------------------------------------------
(* Properties *)

TypeOK ==
  /\ revisions \in Seq([uid : Uids \cup {NoUid}, state : State]) /\ revisions # << >>
  /\ compacted \in 0 .. Newest
  /\ pc \in {"list", "items", "open", "watch"}
  /\ resourceVersion \in 0 .. Newest
  /\ page \subseteq Uids /\ rest \subseteq Uids
  /\ position \in 1 .. Newest
  /\ backoff \in {1, 2, 4, 8, 16, 32}
  /\ breaks \in 0 .. MaxBreaks
  /\ shown \in [Uids -> 0 .. Newest]
  /\ missed \subseteq Uids

\* For a handler an object that is gone and one never seen are the same.
Exists(s) == IF s \in Hashes THEN s ELSE Gone

\* Between lists the handler knows every object as it is at resourceVersion:
\* no event is lost over reconnects, bookmarks, failed pages and relists.  All
\* that a list can step over is a deletion, and then the handler believes in an
\* object that is gone.
\* (runNoCacheWatcher, noCacheInitialList, noCacheWatch)
KnowsVersion ==
  pc \in {"open", "watch"} =>
    \A u \in Uids :
      LET state == revisions[resourceVersion].state[u]
      IN  IF u \in missed THEN Known(u) \in Hashes /\ state = Gone
                          ELSE Exists(Known(u)) = Exists(state)

\* The handler is never shown an older state of an object than it has seen,
\* also not by a list that starts again.  (noCacheInitialList, noCacheWatch)
NeverOlder == [][\A u \in Uids : shown'[u] >= shown[u]]_vars

\* Once the cluster and the API server come to rest the handler knows what
\* there is, but for the deletions that were missed.  (runNoCacheWatcher)
Converges == \A u \in Uids : <>[](u \in missed \/ Exists(Known(u)) = Exists(live[u]))

\* The events of u after a revision.
EventAt(r) ==
  LET u      == revisions[r].uid
      before == revisions[r - 1].state[u]
      after  == revisions[r].state[u]
  IN  [uid    |-> u,
       action |-> IF after = Gone THEN "Delete"
                  ELSE IF before = Unborn THEN "Add" ELSE "Update",
       hash   |-> IF after = Gone THEN before ELSE after]

ChangesAfter(u, p) == {r \in (p + 1) .. Newest : revisions[r].uid = u}

\* The elements of a set of numbers in their order.
InOrder(S) ==
  CHOOSE s \in [1 .. Cardinality(S) -> S] :
    \A i, j \in DOMAIN s : i < j => s[i] < s[j]

EventsAfter(u, p) ==
  LET changes == InOrder(ChangesAfter(u, p))
  IN  [i \in DOMAIN changes |-> EventAt(changes[i])]

Listed(u) ==
  IF u \in page \cup rest
  THEN << [uid |-> u, action |-> "Add", hash |-> revisions[position].state[u]] >>
  ELSE << >>

\* What the handler of each object has yet to be called for.
ToCome == [u \in Uids |-> Listed(u) \o EventsAfter(u, position)]

\* Nothing but deletions is lost on the way: whatever the server and the loop
\* are doing, what the handler knows of an object is how it is, unless it is yet
\* to be called for it; and an object whose deletion it missed is gone.
\* (runNoCacheWatcher, noCacheInitialList, noCacheWatch)
NothingLost ==
  \A u \in Uids :
    IF u \in missed THEN live[u] = Gone
                    ELSE ToCome[u] = << >> => Exists(Known(u)) = Exists(live[u])

\* The loop keeps the promise of Feed: it delivers each object's events in
\* order, and loses them only where a list starts.
F == INSTANCE Feed WITH feed <- ToCome
ImplementsFeed == F!Spec
=============================================================================
