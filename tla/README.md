# ROR agent: a verification project

The ROR agents run inside a Kubernetes cluster and keep the ROR API informed of
what is in it.  There are two of them in this repository: the v1 agent
(`cmd/agent`, `internal/`) and the v2 agent (`v2/`), which share `common/pkg`.
This directory holds TLA+ models of the parts of them that decide something,
TLC runs on small instances, and proofs for all values of the constants.

## 1. Inventory

| Component | State | Operations | Hard behaviour | What makes it correct |
|---|---|---|---|---|
| **Dynamic controller** `common/pkg/controllers/dynamiccontroller` | `resourceVersion`, backoff, one open watch | `runNoCacheWatcher`, `noCacheInitialList` (pages), `noCacheWatch` (ADDED, MODIFIED, DELETED, BOOKMARK, ERROR, closed), `increaseBackoff`, `shouldStop` | lists that fail half way, closed and expired watches, compaction, stop racing the select | the handler is told of every change, never shown an older one, and catches up after failures |
| **Handlers, SendResource** `internal/handlers/dynamichandler`, `internal/services/resourceupdate/resourceupdate.go` | none of their own | `addResource`, `updateResource`, `deleteResource`, `SendResource` | one goroutine per kind on shared state, answers that are lost | ROR holds what the cluster holds |
| **Resource cache** `resourcecache.go` | hash list, clean-up flag, retry queue | `MustInit`, `MarkActive`, `startCleanup`, `finnishCleanup`, `RunWorkQue`, the scheduler's job | the clean-up deletes while watchers write; a job bound to a copy | nothing alive is deleted from ROR, nothing dead stays |
| **Retry queue** `workqueue.go` | a slice of entries | `Add`, `GetByUid`, `DeleteByUid`, `NeedToRun` | position 0, adds and deletes without a lock, deletes under a `range`, runs that overlap | what failed is sent again, once |
| **Start and stop** `dynamicclient.MustStart`, `cmd/agent/main.go` | `sigs`, `stopChan` | a forwarder and a watcher per kind; main | one value, many receivers | a signal stops the agent |
| **Agent client** `clusteragentclient` | identifier, API key, CLUSTER_UID, the Kubernetes secret | `NewRorAgentClient`, registration, `kubernetesUpdateOrCreateApiKeySecret`, `GetEgressIP` | two agents on one secret, a crash between registration and persisting | one cluster, one identity |
| **Cluster handler (v2)** `clusterhandler.go` | the owner reference, CLUSTER_UID, the KubernetesCluster resource and its status | `Start`, a tick every minute: full or partial status, `getNodes` | what arrives at the API before its owner is known; pods of two versions that write the same status; labels of nodes | children have an owner that exists, a status is of one version, a node is in one place |
| **Dynamic client handler (v2)** | the ROR library's resource cache | one `AddResource` per event | the library's | the library's |
| **Heartbeat** `internal/services/heartbeat.go`, `nodeservice` | a report per tick | node pools, control plane, sums | worker names cut out of machine names | every node is counted once |
| **Ingress details** `internal/utils/ingress.go` | none | `GetIngressDetails`, `GetIngressService`, `GetIngressHealth` | partial failures | health follows the parts |
| **Node exporter (v2)** `v2/internal/scheduler/nodeexporter.go` | a report per tick | `collectNodeExporterMetrics`, `queryPrometheus` | queries that fail, or miss hosts, one after the other | every host that answered, with its own values |
| **Resource models** `internal/models/rorResources` | none | `NewFromUnstructured`, the hash | objects that do not convert; what the hash leaves out | equal hashes mean equal to ROR |
| Configuration, auth, health, pprof, NHN tooling, generator, v1 `metrics.go` | none | one-shot, or not called | none | not modelled |

How they interact: a watch event goes through `dynamicController.noCacheWatch`,
a callback of `functions.go`, `SendResource`, the hash list and a call of the
ROR API; the cache's clean-up timer and gocron's job run beside it on the same
cache; a signal goes through `sigs`, the forwarders and `stopChan` to whoever
receives.  The agent client hands its identity to all of them.  The reports
(heartbeat, status, node exporter) run on timers of their own and share nothing
but that identity.

## 2. Modules

`WorkQueue` has no state of its own; every other module below is a
specification with an `Init`, one action per step of the code and a `Next`.
A step of a model is a stretch of code between two points at which another
goroutine, another process or the outside can matter: a call of Kubernetes or
of ROR, a read of shared memory, a send or a receive.

| Module | Models | Uses |
|---|---|---|
| `WorkQueue` | `workqueue.go`: `Add`, `GetByUid`, `DeleteByUid`, `NeedToRun` as operators on sequences, with the positions of the code (from 0) | |
| `Feed` | abstract: what a watcher promises the handler of its kind | |
| `DynamicController` | `runNoCacheWatcher`, `noCacheInitialList`, `noCacheWatch` of one kind against an API server that compacts | implements `Feed` |
| `ResourceUpdate` | `SendResource`, the resource cache, its clean-up and its scheduler job, one watcher per kind, crashes | `WorkQueue`; consumes `Feed` |
| `RetryQueue` | `RunWorkQue`, the loop over the queue, in runs that may overlap, with watchers that add to it; `Add` and `DeleteByUid` as a read and a later write | `WorkQueue` |
| `Shutdown` | forwarders, watchers and main on `sigs` and `stopChan` | |
| `Registration` | `NewRorAgentClient`: the secret, the API key, the cluster's id, several pods | |
| `ClusterHandler` | `Start` and `updateClusterResource` of the v2 agent, the owner of what it sends | extends `Registration` |
| `Ingress` | `getIngresses`, `GetIngressDetails`, `GetIngressService`, `GetIngressHealth` | |
| `Heartbeat` | `GetNodes`, `GetHeartbeatReport`, the node pools and the sums | extends `Ingress` |
| `ClusterStatus` | full and partial updates of the status in `updateClusterResource`, `getEnvironment`, `GetEgressIP`, pods of several versions | |
| `ClusterNodes` | `getNodes`, `getNodeMetricsMap`: control plane and node pools of the status | |
| `NodeExporter` | `NodeExporterReporting`, `collectNodeExporterMetrics`, `queryPrometheus` | |
| `Reports` | the four periodic jobs above, one of which a behaviour follows | extends `Heartbeat`, `ClusterStatus`, `ClusterNodes`, `NodeExporter` |

The `MC...` modules add symmetry sets and the values of function constants for
TLC.  The `..._proofs` modules hold theorems.

**DynamicController.**  The API server is a sequence of `revisions`; `compacted`
is the newest one it has forgotten.  `pc` is the place in the loop, `page` and
`rest` the items the list has yet to hand over (`rest` is what the continue
token stands for), `resourceVersion` and `backoff` are the code's.  `List`,
`NextPage`, `Item`, `ListEnd` and `ListFails` are `noCacheInitialList`; `Watch`,
`Event`, `Bookmark`, `WatchEnds`, `WatchFails` and `ForceRelist` are
`noCacheWatch`.  A list is served from the newest revision and its pages from
the same one, which is what the API server does for a list without a resource
version.  A watch from a compacted revision opens and carries the ERROR event
in its stream, as current API servers answer it; the loop then lists again at
once, without a backoff.

**ResourceUpdate.**  `feed[u]` are the events of an object that its watcher has
yet to handle; `Relist` replaces them, as a list does.  A watcher goes through
`SendResource` with a `pc` of its own: the test of the clean-up period
(`SendResource`) and, in a later step, the mark (`MarkActive`), since nothing
keeps `finnishCleanup` from ending the period and collecting in between; the
comparison with the hash list (`Check`); the call (`Send`, which may be refused,
or be done with its answer lost); the hash (`UpdateHash`), or the retry queue.
`Workqueue.Add` has no lock: `AddBegin` reads the slice, `AddEnd` stores.  An
append publishes the slice that was read with one entry more.  A replacement
writes into the slice of now, at the position found before; if that is beyond its
end the index panics and the process starts anew.  Go may keep two of these slices in
one array, so what is written may show in the slices that other watchers hold;
which ones is left open (`same`).
`Convertible` are the hashes of objects that fit the model of their kind; any
other event is dropped before the mark (`SendResourceFails`), a deletion too.
`FinnishCleanup`, `GetInactiveUid` and `DeleteInactive` are the clean-up.
`RunWorkqueScheduler` tests `runnerQueue`, the queue of the copy of the cache to
which the value receiver bound gocron's job; it is empty for ever, so
`RunWorkQue` is not entered in the agent as it is built.  `RetryQueue` is
therefore about the method by itself.  `Restart` ends the process between any
two steps; a request is done before it or not at all.  The hash list is a type
of the ROR library, modelled from its use.  `MustInit`, including its call of
`GetHashList`, is one step with the list of the watchers that follow it.

**RetryQueue.**  A run of the loop ranges over the slice that it finds.  That
slice and the queue share an array until the first `DeleteByUid` builds a new
one, so a replacing `Add` shows in both before and in the queue only after
(`shared`).  `Add` and `DeleteByUid` read the slice into `header` and store later,
in watchers and runs alike (`AddBegin` and `AddEnd`; `Resend` and `Requeue` or
`Delete`), and whatever stores in between is overwritten: an entry can be lost
and one that was sent can come back.  Each call reads the slice twice, first for
the position and then for the entries; the model takes the two reads as one.  A
run starts while another goes on, as gocron does every ten seconds without its
singleton mode.  `disturbed` is history and says that any of this has happened:
two runs, or a store while another goroutine was between its read and its store.
Not modelled is a slice that is read while its pointer and its length are being
stored.

**Shutdown.**  `recvq` is the order in which goroutines began to receive from
the unbuffered channel, which decides who gets a send.  A watcher receives in
`shouldStop` (non-blocking, in three places) and in the `select`.

**Registration.** A key is the number of its registration and the API knows which
cluster it is for.  Several agents share one secret: the v1 and the v2 agent, and
the old and the new pod of a rolling update.  `Setup` is the part of
`initRorAgentClientSetup` that reads the secret and picks an id; `RegisterAgent` and
`Login` call ROR; `ReadSecret`, `WriteSecret` and `WriteRefused` are
`kubernetesUpdateOrCreateApiKeySecret`, whose write Kubernetes refuses when the
secret has changed since it was read.  `Restart` is a crash, or any of the errors
that `MustInitNewRorAgentClient` makes fatal.  Assumed of the outside: the API may
answer a registration with another id than the one asked for, but one that is not in
use; keys are not revoked; nobody deletes or empties the secret.

**ClusterHandler.**  Each process asks the API for the KubernetesCluster resource
of its cluster; if there is none it makes a uid, becomes owned by it and calls
`Update` synchronously (`AnswerNew`, `RegisterCluster`); otherwise it takes the
first answer and queues an update (`SendQueued`).  Such an update can re-create
a resource that was removed in between.  The API answers in the order in which
resources were stored.

**Ingress, Heartbeat.** The objects are inputs, picked when the code reads them, so
two reads of one service can differ.  A node's name is its number in the list, which
no other node has; everything else two nodes may have in common.  `cache` is
`serviceCache`.  A missing service, one that could not be read, and a backend
without a service (a nil dereference: `"panic"`) are separate.  `AppendNode` is one
turn of the loop over the nodes; a machine name without a `-` indexes past the end
of its parts (`"panic"` as well).  Of a node's numbers only the cpu is kept; the
others take the same path.

**ClusterStatus.**  A tick gets the resource, fills in a copy and leaves it to a
queue (`GetStatus`, `FillStatus`, `SendStatus`), or registers it synchronously
if it is the first (`RegisterStatus`).  Kubernetes starts pods of any version at
any time (`StartPod`), so several copies of one status can be under way; a later
copy of a pod takes the place of one that is still in its queue.  Of the status
there are its version and `static`, what only a full update fills in: by which
version, the egress address, and where the environment came from.  `stale` is
history: ROR's status was replaced since the copy was made.

**ClusterNodes.**  `PlaceNode` is one turn of the loop over the nodes, any label
being there, empty or missing.  A node is known by its place in the list, and
its usage is its number, so that a value of another node would show.

**NodeExporter.**  `QueryPrometheus` is one query, in the order in which Go
ranges over the map, that is any; a query that fails is one that is never
answered, and an answer may miss hosts.  Two queries of which a percentage is
made and one that is passed on stand for the twelve.  `said` is history.

**Reports.**  The jobs share no variable, so an interleaving of them is the four
behaviours side by side; `job` says which one is followed, and the theorem
`JobsAreAlone` that each behaves in the composition as it does by itself.

## 3. Runs

| Run | Bounds | Shows |
|---|---|---|
| `resource_update` | 2 kinds with an object and a watcher each, 3 hashes of which one does not convert, 1 change, 1 restart | at rest ROR agrees with the cluster or one of five causes is known (`QuiescentAgreement`); what was seen in time is not swept, unless it was collected between a watcher's test and its mark (`MarkedNotSwept`); what failed is queued, unless another add was under way when its own ended (`FailedIsQueued`); the watchers consume a `Feed` |
| `resource_update_one_kind` | 1 object, 3 changes, 1 restart, fairness | the agreement with more events, so that a relist can lose a deletion; a deleted object stays deleted in ROR (`NoResurrection`), the agent comes to rest |
| `retry_queue` | 2 uids, 2 runs of which 1 overlaps, 3 adds, 1 failure, fairness | as long as neither runs nor stores overlap, `RunWorkQue` finds its uids at the head and in its order (`QueueFollowsLoop`) and loses an update only where it was overwritten under it (`DropsOnlyOverwrites`); whatever overlaps, the queue drains |
| `dynamic_controller` | 2 objects, pages of 1, 4 revisions, 1 failure | the handler knows the objects as of `resourceVersion` (`KnowsVersion`), or is yet to be called for what it does not know, at any point of a list too (`NothingLost`), is never shown an older one (`NeverOlder`), and gets a `Feed` |
| `dynamic_controller_one_uid` | 1 object, 4 revisions, 6 failures, fairness | the backoff stops at 32; the handler ends up knowing what there is (`Converges`) |
| `shutdown` | 3 kinds, 4 signals | a watcher returns only before main waits (`ReturnsOnlyEarly`), and takes at most one stop from a waiting main (`TakesAtMostOne`) |
| `cluster_handler` | 2 pods, 2 ids, 1 failure or removal, 3 uids, fairness | an agent that is up has left its key in the secret; pods share one identity (`OneIdentity`), which no later step replaces (`IdentityIsKept`); what is sent has a known owner (`OwnerIsKnown`), and the uid of an agent is one of its cluster (`UidIsTheirs`); pods come to agree on it (`OwnersAgree`) |
| `reports` | heartbeat: 3 nodes, 2 pool names and none, 1 ingress of 2 rules and 2 paths; status: 2 pods, 2 versions, 2 restarts; nodes: 3, 2 label values, an empty one and none; exporter: a host of one memory size and one of two | pools partition the workers, none lost and none there twice (`PoolsPartition`), sums are right, a healthy ingress was read completely, one answer per service; a status is of one version (`StatusIsWhole`, `StaticIsKept`); each node is in one place (`NodesArePlaced`); a node report has every host that answered, with what was said of it (`EveryNodeIsPosted`, `PostedWasSaid`, `PercentIsBounded`) |

Four more runs end in a violation, each of what the repository says of itself:

| Run | Says | Does |
|---|---|---|
| `queue_is_run` | "RunWorkQue Will run from the scheduler if the resource-que is non zero length." | the job tests the queue of a copy and never runs it |
| `one_entry_per_uid` | "Test Add existing uid": an existing uid is replaced | the one at position 0 is not: 0 also means that there is none |
| `signal_stops_agent` | "Create channel to receive stop signal" | a watcher takes the one stop of a signal; main waits for ever |
| `user_key_is_used` | "API_KEY migt be provided by the user if a secret ... is not present" | without a secret the key is forgotten and another registered |

Three properties name what the missing locks allow, and say that there is no
more.  `MarkedNotSwept`: the clean-up deletes a uid of which an event was handled
in its period only if it collected it between that event's test and its mark
(`slipped`).  `FailedIsQueued`: an update that failed is missing from the queue
only if another watcher's add was under way when its own ended (`overtaken`),
since that add publishes the slice it read before.  `DropsOnlyOverwrites`: the
loop drops an update it has not sent where an `Add` replaced it under the loop, or
once runs or stores have overlapped (`disturbed`).  The lost add is the reason
why the queue is not among the five causes of `QuiescentAgreement`: a failed send
counts as failed whether it is queued or not.

*Bounds.* They are constants that guard the actions.  One cluster change after the
start is enough for two kinds since `Init` starts from every combination of cluster
and ROR, as an earlier run may have left it; the run with one kind has three changes
(create, modify, delete) around a restart.  Two watchers make every overlap of two
adds, and of a mark and the clean-up.  Two uids and three adds let the queue hold an
entry that is first, one that is not, and a duplicate; with two watchers and two
runs, up to four goroutines are between a read and a store, and one failing send
puts an entry back.  Four revisions hold a change during a list, one between pages,
one in the watch and a compaction; six failures pass the last step of the backoff.
Two pods are what a rolling update has, or the two agents of one cluster.  Three
nodes make two pools with one of two nodes, in any order; two nodes of one pool
differ in nothing but their names; one cpu value suffices because the sums are
linear: a node that is lost or counted twice changes them, and one whose metrics
cannot be read adds 0; it is 2, so that a sum of cpus is not a count of nodes.  Two
paths over one or two rules hold a cached, a fresh and a failed read of one service.
Three hashes, one of an object that does not convert, hold a change to and from such
an object. Two pods of two versions and two replacements let each version come back
while the other's updates are still queued.  Three nodes with any labels are two in
one place and one in another; two hosts are one with one exporter and one with two
that disagree. `CHECK_DEADLOCK FALSE` stands only where the program may stop or
wait: an agent that has exited, and a list-watch loop whose API server has come to
rest.

*Fairness.* Weak fairness of goroutines (`Watcher`, `Runner`, `AgentStep`,
`Progress`): the Go scheduler runs what can run, and calls return, with an answer or
an error.  Weak fairness of the clean-up, the scheduler's job and the tick of the
cluster handler: timers fire.  `SendQueued` and `RegisterCluster` are fair because
ROR is assumed to answer in the end.  Nothing is fair about the cluster, crashes,
failures or removals: they may happen, up to their bound, and the liveness
properties are about what follows.

## 4. Theorems

TLAPS proves the following for all values of the constants that the named
assumptions allow: any number of kinds, objects, agents, nodes, failures.

| Theorem | Module | Invariant behind it |
|---|---|---|
| `TypeCorrect`, `Agreement`, `SweepsOnlyUnmarked`, `FailuresAreQueued`, `Burial`, `PipelineImplementsFeed`, `PendingEventsTell` | `ResourceUpdate_proofs` | `IInv`, `QueueInv` |
| `TypeCorrect`, `LoopOwnsHead`, `DropsOnlyTheOverwritten` | `RetryQueue_proofs` | `Base`, `Calm`, `QueueFollowsLoop`, `SentInv` |
| `AddKeepsUids`, `DeleteByUidTakesOne`, `DeleteByUidOfFirst` | `WorkQueue_proofs` | none: facts about operators |
| `TypeCorrect`, `HandlerKnowsVersion`, `NeverShownOlder`, `NothingIsLost`, `LoopImplementsFeed`, `PendingEventsTell` | `DynamicController_proofs` | `IInv`, `FeedInv` |
| `TypeCorrect`, `NoReturnOnceMainWaits`, `OneStopEach` | `Shutdown_proofs` | `TypeOK`, `WaitInv`, `OrderInv` |
| `ClusterTypeCorrect`, `KeyPersisted`, `OwnerKnown`, `IdentityShared`, `IdentityKept`, `UidTheirs` | `ClusterHandler_proofs` | `TypeInv`, `IdentityInv`, `UidInv` |
| `PoolsArePartitioned`, `EveryNodeIsCounted`, `HealthyWasRead`, `ServiceHasOneAnswer` | `Heartbeat_proofs` | `IngressInv`, `ReportedInv`, `PoolsInv`, `SumsInv` |
| `StatusWhole`, `StaticKept` | `Reports_proofs` | `StatusInv` |
| `NodesPlaced` | `Reports_proofs` | `NodesInv` |
| `NodesPosted`, `ReportedWasSaid`, `PercentBounded` | `Reports_proofs` | `ExporterInv` |
| `JobsAreAlone`, `ReportsAreRight` | `Reports_proofs` | those of the jobs |

*ResourceUpdate.*  `QuiescentAgreement` speaks of rest only, so the invariant has
to say what is true on the way there.  `FeedInv`: the last event of an object
tells its state of now, and a deletion is the last.  `CurrentInv`: the same of
the update in hand when no event follows it.  `UnbornInv`: nobody knows of what
was never created.  `SweepInv`: what the clean-up deletes was not marked, or its
event was between the test and the mark when it was collected, and it is gone or
counted as `late`.  `HashInv`: an entry of the hash list is what ROR
has, unless a send failed, the clean-up struck or the hash is about to be
stored; without it `Check` could skip an update that is needed.  `LiveInv` and
`GoneInv` are the two halves of the agreement for objects at rest, the second
with the clean-up that has yet to come.  `QueueInv` gives `FailedIsQueued`: an
update that failed and was not overtaken is about to be added, or has its place
in the queue and, for the same uid, in every slice that a watcher is about to
publish (`Kept`).  An add that begins later reads it there; one that replaces writes
at the place of its own uid; and one that was under way already makes the update
an overtaken one.  The refinement maps the variables `live` and `feed` to
themselves; each step of a watcher, the clean-up or the process is a step of
`Feed` or a stutter.  `PendingEventsTell` is `FeedInv` in the words of `Feed`
(`EventsTell`).

*RetryQueue.*  `Base` is what overlapping leaves intact: types, and a run that goes
on is inside its slice.  `Calm` says what not being disturbed means for the data:
one run, and whoever has read the slice has read the queue of now, so that `Add`
and `DeleteByUid` do what they would do with a lock.  `QueueFollowsLoop` keeps
`DeleteByUid` at the head, but an `Add` that shows in the slice of the loop would
break it if the loop were past its first entry; `Calm` says that it is not: the
first `DeleteByUid` parts the two.  `DropsOnlyOverwrites` speaks of one step, so
`SentInv` has to say of every entry that the loop has yet to come to that it is the
one the loop will send, or one that has overwritten it.

*DynamicController.*  `KnowsVersion` speaks of the loop between lists, so the
invariant says what holds at every point: `KnownInv`, that the handler knows an
object as it is at the position, unless it is on a page, behind a continue token
or stepped over; `MissedInv`, that a deletion stepped over is behind the loop
and stays there; `PositionInv`, how both relate to `resourceVersion`.  They rest
on `RevisionsInv` (a revision changes its uid only), `UnbornInv` and `GoneInv`
(what is gone has no more revisions).  `KnowsVersion` is the case in which the
pages are empty; `NothingLost` is the case in which no event of the object
follows the position, and then it is now as it was there.  That an object is the same in
two revisions between which it has no event (`SameBetween`) would be an
induction; it is proved by the least counterexample.  The refinement of `Feed`
maps `feed` to `ToCome`: an ADD for each item that the list has yet to hand over,
then the events after `position`.  The events of an object are those of its
revisions in ascending order (`InOrder`), and the proof rests on there being one
such order of a set of numbers (`OrderUnique`), which a later revision appends to
(`OrderOfMore`) and the next event takes the head of (`OrderOfLess`).  A commit of
the server is then `Change` or `Delete`, a first page `Relist`, an `Item` or an
`Event` `Handle`, and all else a stutter; `FeedInv` says that no object is on two
pages and none is left on one while the loop watches.  What `Feed` guarantees, the
loop inherits through the refinement: `PendingEventsTell` is `EventsTell` of
`Feed`, with `ToCome` for `feed`.

*Shutdown.*  `WaitInv`: once main waits, no sender is blocked and main is in
`recvq`, so every later send finds a receiver.  `OrderInv`: a watcher that has taken
a stop from the waiting main queues behind it, so main is served before the
watcher could take another.

*Registration and ClusterHandler.*  `KeysInv`, `PhaseInv`, `HandlerInv` and
`StoreInv` say what an agent knows where it is.  `OwnerIsKnown` is inductive on
top of them: uids leave the store only by a removal.  `OneIdentity` has one
exception that the code does not rule out, and the theorem names it: `raced`, an
agent found the secret incomplete while another was completing it.  Otherwise
`Consistent` says that the secret's id is the right one for its key (`RightId`:
the API's, or the provider's if the key is the first, which may be an
operator's for another cluster), that whoever is busy with the identity is the
one to complete the secret (`Completes`), and that whoever has logged in shares
it (`Shares`).  From there `IdentityIsKept` is a fact about single steps: the
one agent that writes the secret has what is in it, and an agent registers only
where it found no key.  `UidIsTheirs` needs the same identity: a uid that is read
from the secret was put there by somebody whose cluster had it, and a cluster
keeps its uids.  `UidInv` follows the uid from the login or the tick through the
secret to the next start, by the cluster that the key is for, and so covers an
operator's key too.

*Heartbeat.* `Read` says of a path that its service is what the cache has, or was
not read; an ingress with a failed read has a path without a service, which makes it
unhealthy.  `PoolsInv` is the partition for the nodes counted so far: an entry of a
pool is the node of its name (`Worker`), and the next node has a name that none of
them has, so it cannot be there already. `TotalsAddUp` compares sums over pools with
sums over nodes, and `SumsInv` says of the running ones that they are those of the
nodes counted so far.  The sums are folds, of which the proofs need three facts
only: a sum is determined by the numbers, one more number adds itself, and a number
that grows makes its sum grow by as much.  Each follows from the equation of the
fold by the least length at which it would fail.

*Reports.*  `StatusInv` says what makes `StaticIsKept` one step deep: an update
that nobody overtook still has the static half of ROR's, if it is of the same
version, because only a full update changes it and a full update of a version is
made where ROR had another.  `NodesInv` is the placement with the ranges of the
numbers in it.  `ExporterInv` says that `said` is what `results` hold and that a
posted report is a function of them; the bound of a percentage is then one
of the two values, of which the smaller was said of the same memory.

Every invariant and action property that a passing run checks is stated by a
theorem.  Only model-checked: liveness (`EventuallySettled`, `Drains`,
`Converges`, `OwnersAgree`), which rests on fairness and ENABLED, and the
violations, which are behaviours of an instance.

## 5. Not modelled

- The informer mode of the dynamic controller: client-go's code, off by default.
- The v2 agent's resource cache and its queue, and with them the dynamic client
  handler, which calls them once per event: the ROR library's code.
- Contents of reports and resources beyond what is named above: which fields a
  hash covers, endpoints, certificates, access groups.  They are copied from
  what is read.
- The urls of the cluster's status: each tick reads two objects and takes the
  first name in them, whatever earlier ticks found.
- The uid that a v1 heartbeat makes up while CLUSTER_UID is unknown: a new one
  each time, and no doc says otherwise.
- `metrics.go` of the v1 agent, which nothing calls ("Metrics reporting is
  handled by agent v2").
- The egress address and the NHN tooling of the v1 agent: values read once that
  are reported and decide nothing.
- Configuration, HTTP servers, the generator, the deprecated operator
  initialisation.

## 6. Plan

Done, in this order: `WorkQueue`, `ResourceUpdate`, `RetryQueue`, `Feed`,
`DynamicController`, `Shutdown`, `Registration`, `ClusterHandler`, `Ingress`,
`Heartbeat`, objects that do not convert in `ResourceUpdate`, `ClusterStatus`,
`ClusterNodes`, `NodeExporter`, `Reports`, with their proofs.

What could still be added:

1. The start of the agents as a whole: registration, cluster handler, watchers
   and `stopChan` in one model, on abstractions of the present ones.
2. A model of the API server that answers an expired `Watch` with an error of
   the call, for which the loop retries the same version.
3. That the status comes to be of a version that runs, once pods stop being
   replaced: with two versions side by side it does not settle.
