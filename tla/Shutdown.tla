------------------------------ MODULE Shutdown ------------------------------
(***************************************************************************)
(* How a signal reaches the goroutines of the agent: sigs and stopChan of  *)
(* rorAgentClient (common/pkg/clients/clusteragentclient), the forwarder   *)
(* and the watcher that dynamicclient.MustStart starts for each kind, the  *)
(* receives of runNoCacheWatcher, noCacheInitialList and noCacheWatch, and *)
(* main of cmd/agent/main.go (v2/cmd/agent/main.go is the same here).      *)
(*                                                                         *)
(* sigs holds one signal.  stopChan has no buffer: a send goes to the      *)
(* goroutine that has been receiving for longest; if there is none the     *)
(* sender blocks, and the next one to receive, blocking or not, gets it.   *)
(* That order is the Go runtime's and is modelled as external.             *)
(*                                                                         *)
(*   fwd      a forwarder: "wait" for a signal, "put" and "blocked" in its *)
(*            one send, "done"                                             *)
(*   watcher  "top", "list" and "after": at a shouldStop of the outer      *)
(*            loop, of the list loop, and behind noCacheWatch; "watch"     *)
(*            before, "select" in the select; "returned"                   *)
(*   recvq    the goroutines that are receiving from stopChan              *)
(*   taken    history: sends that a select took while main was waiting     *)
(***************************************************************************)
EXTENDS Integers, Sequences, SequencesExt

CONSTANTS
  Gvrs,        \* the watched kinds
  Main,        \* the main goroutine, in recvq
  MaxSignals   \* bound: signals sent to the process

ASSUME ConstantsAssumption == Main \notin Gvrs /\ MaxSignals \in Nat

VARIABLES signals, sigs, fwd, watcher, main, recvq, taken

vars == <<signals, sigs, fwd, watcher, main, recvq, taken>>

Init ==
  /\ signals = 0 /\ sigs = 0
  /\ fwd = [g \in Gvrs |-> "wait"]
  /\ watcher = [g \in Gvrs |-> "top"]
  /\ main = "starting"
  /\ recvq = << >>
  /\ taken = [g \in Gvrs |-> 0]

Alive == main # "exited"

\* Mutant: the channel for signals has no bound.
NotifiedAll(n) == n + 1

\* signal.Notify does not wait for room in the channel.
Notified(n) == 1

Signal ==
  /\ Alive
  /\ signals < MaxSignals
  /\ signals' = signals + 1
  /\ sigs' = Notified(sigs)
  /\ UNCHANGED <<fwd, watcher, main, recvq, taken>>
-----------------------------------------------------------------------------
(* The forwarder of g *)

Forward(g) ==
  /\ Alive
  /\ fwd[g] = "wait"
  /\ sigs > 0
  /\ sigs' = sigs - 1
  /\ fwd' = [fwd EXCEPT ![g] = "put"]
  /\ UNCHANGED <<signals, watcher, main, recvq, taken>>

\* Mutant: a select that gets the stop ends its watcher.
StopInSelectReturns(g) == [watcher EXCEPT ![g] = "returned"]

\* case <-stop in noCacheWatch: it returns, and shouldStop is asked next.
StopInSelect(g) == [watcher EXCEPT ![g] = "after"]

Put(g) ==
  /\ Alive
  /\ fwd[g] = "put"
  /\ IF recvq = << >>
     THEN /\ fwd' = [fwd EXCEPT ![g] = "blocked"]
          /\ UNCHANGED <<watcher, main, recvq, taken>>
     ELSE /\ fwd' = [fwd EXCEPT ![g] = "done"]
          /\ recvq' = Tail(recvq)
          /\ IF Head(recvq) = Main
             THEN /\ main' = "exited"
                  /\ UNCHANGED <<watcher, taken>>
             ELSE /\ watcher' = StopInSelect(Head(recvq))
                  /\ taken' = [taken EXCEPT ![Head(recvq)] =
                                 IF main = "waiting" THEN @ + 1 ELSE @]
                  /\ UNCHANGED main
  /\ UNCHANGED <<signals, sigs>>
-----------------------------------------------------------------------------
(* Receives *)

Senders == {s \in Gvrs : fwd[s] = "blocked"}

ReceiveFrom(s) == s \in Senders /\ fwd' = [fwd EXCEPT ![s] = "done"]

\* Mutant: main polls the channel in the place of waiting.
MainPolls ==
  /\ Senders = {}
  /\ main' = "waiting"
  /\ recvq' = Append(SelectSeq(recvq, LAMBDA r : r # Main), Main)
  /\ UNCHANGED <<signals, sigs, fwd, watcher, taken>>

\* main has started everything and waits.
MainReceives ==
  /\ main = "starting"
  /\ \/ /\ Senders = {}
        /\ main' = "waiting"
        /\ recvq' = Append(recvq, Main)
        /\ UNCHANGED fwd
     \/ /\ \E s \in Senders : ReceiveFrom(s)
        /\ main' = "exited"
        /\ UNCHANGED recvq
  /\ UNCHANGED <<signals, sigs, watcher, taken>>

\* shouldStop, in its three places.  In the list loop a stop ends the list,
\* not the watcher.
ShouldStop(g) ==
  /\ Alive
  /\ watcher[g] \in {"top", "list", "after"}
  /\ \/ /\ Senders = {}
        /\ \E to \in CASE watcher[g] = "top"   -> {"list", "watch"}
                       [] watcher[g] = "list"  -> {"list", "watch", "top"}
                       [] watcher[g] = "after" -> {"top"} :
             watcher' = [watcher EXCEPT ![g] = to]
        /\ UNCHANGED fwd
     \/ /\ \E s \in Senders : ReceiveFrom(s)
        /\ watcher' = [watcher EXCEPT ![g] = IF @ = "list" THEN "top" ELSE "returned"]
  /\ UNCHANGED <<signals, sigs, main, recvq, taken>>

\* noCacheWatch enters the select, or Watch has failed.
EnterSelect(g) ==
  /\ Alive
  /\ watcher[g] = "watch"
  /\ \/ /\ Senders = {}
        /\ watcher' = [watcher EXCEPT ![g] = "select"]
        /\ recvq' = Append(recvq, g)
        /\ UNCHANGED fwd
     \/ /\ \E s \in Senders : ReceiveFrom(s)
        /\ watcher' = StopInSelect(g)
        /\ UNCHANGED recvq
     \/ /\ watcher' = [watcher EXCEPT ![g] = "after"]
        /\ UNCHANGED <<fwd, recvq>>
  /\ UNCHANGED <<signals, sigs, main, taken>>

\* The watch has an event, after which the select is entered anew, or ends.
WatchEvent(g) ==
  /\ Alive
  /\ watcher[g] = "select"
  /\ \E i \in DOMAIN recvq : recvq[i] = g /\ recvq' = RemoveAt(recvq, i)
  /\ \E to \in {"watch", "after"} : watcher' = [watcher EXCEPT ![g] = to]
  /\ UNCHANGED <<signals, sigs, fwd, main, taken>>
-----------------------------------------------------------------------------
Forwarder(g) == Forward(g) \/ Put(g)
Watcher(g)   == ShouldStop(g) \/ EnterSelect(g)

Next ==
  \/ Signal
  \/ MainReceives
  \/ \E g \in Gvrs : Forwarder(g) \/ Watcher(g) \/ WatchEvent(g)

Spec == Init /\ [][Next]_vars

\* Goroutines that can run do run; watches need not have events.
FairSpec ==
  /\ Spec
  /\ WF_vars(MainReceives)
  /\ \A g \in Gvrs : WF_vars(Forwarder(g)) /\ WF_vars(Watcher(g))
-----------------------------------------------------------------------------
(* Properties *)

TypeOK ==
  /\ signals \in 0 .. MaxSignals
  /\ sigs \in 0 .. 1
  /\ fwd \in [Gvrs -> {"wait", "put", "blocked", "done"}]
  /\ watcher \in [Gvrs -> {"top", "list", "after", "watch", "select", "returned"}]
  /\ main \in {"starting", "waiting", "exited"}
  /\ recvq \in Seq(Gvrs \cup {Main})
  /\ taken \in [Gvrs -> Nat]

\* A watcher returns only while main is still starting: once main waits, no
\* send blocks any more, and shouldStop finds nothing.  (runNoCacheWatcher,
\* noCacheWatch, main)
ReturnsOnlyEarly ==
  [][\A g \in Gvrs : watcher[g] # "returned" /\ watcher'[g] = "returned"
       => main = "starting"]_vars

\* While main waits, a watcher takes at most one stop from it: to take a
\* second it would have to receive for longer than main.  (noCacheWatch, main)
TakesAtMostOne == \A g \in Gvrs : taken[g] <= 1

\* clusteragentclient.go:116, "Create channel to receive stop signal", and
\* main.go:39, which waits for it to log "Shutting down...": a signal stops
\* the agent.
SignalStopsAgent == signals > 0 ~> main = "exited"
=============================================================================
