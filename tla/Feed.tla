-------------------------------- MODULE Feed --------------------------------
(***************************************************************************)
(* What a watcher of the dynamic controller promises the handler of its    *)
(* kind, as an abstract specification.                                     *)
(*                                                                         *)
(* Each object has the events its handler has yet to be called for, in the *)
(* order they happened.  The handler is called for one of them at a time.  *)
(* The only other thing that may happen to them is a new listing of some   *)
(* objects, which replaces the events of each by one ADD if it exists and  *)
(* by nothing if it does not: a deletion that was yet to come is lost.     *)
(***************************************************************************)
EXTENDS Sequences

CONSTANTS Uids, Hashes, NoHash, Unborn, Gone

VARIABLES
  live,   \* the state of each object in Kubernetes
  feed    \* the events of each object its handler has yet to be called for

vars == <<live, feed>>

Listing(u) ==
  IF live[u] \in Hashes
  THEN << [uid |-> u, action |-> "Add", hash |-> live[u]] >>
  ELSE << >>

Init ==
  /\ live \in [Uids -> Hashes \cup {Unborn, Gone}]
  /\ feed = [u \in Uids |-> Listing(u)]

Append1(u, action, h) ==
  feed' = [feed EXCEPT ![u] = Append(@, [uid |-> u, action |-> action, hash |-> h])]

Change(u, h) ==
  /\ live[u] # Gone
  /\ live' = [live EXCEPT ![u] = h]
  /\ Append1(u, IF live[u] = Unborn THEN "Add" ELSE "Update", h)

Delete(u) ==
  /\ live[u] \in Hashes
  /\ live' = [live EXCEPT ![u] = Gone]
  /\ Append1(u, "Delete", live[u])

Handle(u) ==
  /\ feed[u] # << >>
  /\ feed' = [feed EXCEPT ![u] = Tail(@)]
  /\ UNCHANGED live

Relist(listed) ==
  /\ feed' = [u \in Uids |-> IF u \in listed THEN Listing(u) ELSE feed[u]]
  /\ UNCHANGED live

Next ==
  \/ \E listed \in SUBSET Uids : Relist(listed)
  \/ \E u \in Uids : Delete(u) \/ Handle(u) \/ \E h \in Hashes : Change(u, h)

Spec == Init /\ [][Next]_vars
-----------------------------------------------------------------------------
\* The event says how the object is now.
Tells(u, event) ==
  /\ event.uid = u
  /\ IF live[u] = Gone THEN event.action = "Delete"
                       ELSE event.action # "Delete" /\ event.hash = live[u]

\* Of what a handler is yet to be called for, a deletion is the last, and the
\* last says how the object is now; of an object to be there is nothing.
\* (noCacheInitialList, noCacheWatch)
EventsTell ==
  \A u \in Uids :
    /\ \A i \in DOMAIN feed[u] : i = Len(feed[u]) \/ feed[u][i].action # "Delete"
    /\ feed[u] # << >> => Tells(u, feed[u][Len(feed[u])])
    /\ live[u] = Unborn => feed[u] = << >>
=============================================================================
