# yurt-device-controller in TLA+

TLA+ models of [yurt-device-controller](../src/README.md), with the TLC
configurations that check them and TLAPS proofs of their main invariants.
Paths and line numbers are those of `src/`.

## The system

yurt-device-controller runs in a node pool at the edge. It keeps the CRs
`Device`, `DeviceService` and `DeviceProfile` of a Kubernetes cluster and the
objects of one EdgeX instance in step, in both directions. For each kind there
are a *reconciler* (cluster to edge, a controller-runtime controller with one
worker) and a *syncer* (edge to cluster, a loop that runs once per period). All
six share one process, one informer cache and one API client; they talk to
EdgeX over HTTP.

| component | source | state it keeps | operations |
|---|---|---|---|
| Device controller | `pkg/controllers/device_controller.go` | local variables of `Reconcile` | finalizer, deletion, creation, update, properties, deferred status |
| Device syncer | `pkg/controllers/device_syncer.go` | the lists of one round | list, diff, import, delete, refresh status |
| DeviceService controller, syncer | `deviceservice_*.go` | as above | as above, no properties |
| DeviceProfile controller, syncer | `deviceprofile_*.go` | as above | creation and deletion only |
| EdgeX clients | `pkg/clients/edgex-foundry` | none | HTTP requests, conversions |
| Event filter | `pkg/controllers/predicate.go` | none | drops the update that turns `synced` on |
| Manager | `cmd/yurt-device-controller/app/core.go` | options, lease; cache, workqueues (controller-runtime) | checks in order, election, start, restart |
| Options, field indexer, tools | `options/options.go`, `pkg/controllers/util` | the options, the pool filled in once | validation, index of CRs by pool, pool of the node |
| API server, EdgeX, users, operators | outside | CRs; devices | requests; changes by others |

How they interact: the reconciler reads a CR **from the cache**, writes to
EdgeX, patches the finalizer **by name** (no resourceVersion) and updates the
status **with** the resourceVersion of its copy, twice (in the handler and in a
deferred function). The syncer lists EdgeX, then the cache, and writes what it
computed from the two lists: creations and deletions by name, status updates
with the resourceVersion of the cached copy. Users, operators and devices
change both sides between any two requests.

What is hard here: every request is a point where the rest of the world moves
(stale cache, stale lists, three status writers); a reply can be lost; the
process can crash or panic between two requests; a request without
resourceVersion hits whatever has the name; errors are partly swallowed, and
the resync is the only retry of some. `PROJECT.json` lists these as hazards,
each at its line.

What makes each component correct:

* Device controller: it makes a device only for a CR that is guarded by the
  finalizer, gives the guard up only when no device is left, touches the device
  only for a CR that is there, leaves other pools alone, finishes creations and
  deletions, reaches desired values, never panics.
* Device syncer: it imports what is on the edge, deletes only what is gone from
  it, never writes an older status over a newer one.
* DeviceService, DeviceProfile: cluster and edge get into step, `synced` is not
  lost, the admin state of a managed service follows its spec.
  A definition (base address, resources, commands) survives the way from a CR to
  EdgeX and back.
* Event filter: dropping an event loses no work.
* Manager: a process for which everything is in place in the end serves in the
  end; with leader election at most one is active, however they die and restart.

## Modules

| module | what it models |
|---|---|
| `Cluster` | the state shared by all parts: CRs, cache, workqueue, EdgeX, and the effect of each kind of API request, whatever the kind of the CRs |
| `DeviceCluster` | the Device CR and the EdgeX device over it |
| `DeviceController` | `DeviceReconciler`, one action per request of `Reconcile` |
| `DeviceSyncer` | `DeviceSyncer`, one action per request of a round |
| `DeviceSystem` | the process at work on devices: the two above with users, operators, the watch, failures and restarts; all properties of devices |
| `Ownership` | the abstract finalizer protocol that `DeviceSystem` implements |
| `Lifecycle` | the abstract life of a CR (created, guarded, synced, marked, gone) that `DeviceSystem`, `Replicas` and `EdgeObjectSystem` implement |
| `EdgeObjects` | the CRs of DeviceService and DeviceProfile and the steps their reconcilers and syncers share |
| `DeviceServices` | `DeviceServiceReconciler`, `DeviceServiceSyncer`: what a service has beyond that (managed admin state, conditions, deferred status) |
| `DeviceProfiles` | `DeviceProfileReconciler`, `DeviceProfileSyncer` |
| `EdgeObjectSystem` | the process at work on either kind, and the properties of both |
| `Conversions` | `util.go`: what the conversions of services and profiles keep of a definition |
| `Startup` | the processes from the command line to `mgr.Start`: options, checks, lease, deaths and restarts, while nodes, namespaces and CRDs change |
| `Election` | the abstract leader election that `Startup` implements |
| `Replicas` | two processes in one pool: `DeviceSystem` and a second instance of it over the same API server and EdgeX |
| `MCLifecycle`, `MCManagement`, `MCEdgeObjects`, `MCReplicas`, `MCStartup` | instances for TLC |
| `DeviceTypeProofs`, `DeviceSafetyProofs`, `DeviceOwnershipProofs`, `DeviceStatusProofs` | theorems about `DeviceSystem` |
| `ReplicasProofs` | theorems about `Replicas` |
| `EdgeObjectProofs`, `EdgeSafetyProofs` | theorems about `EdgeObjectSystem` |
| `StartupProofs` | theorems about `Startup` |

### State and code

* `kube[n]` is the stored CR of name `n`. A CR has the spec fields that the
  code branches on, the deletion timestamp, the finalizer and the status; the
  two conditions are reduced to the reasons the code sets. `spec.edgeName` is
  what `GetEdgeDeviceName` answers: the label, or the CR's own name.
* `edge[e]` is the EdgeX device of name `e`. Its field `owner` is history: the
  CR it was made for. Nothing in the model's actions reads it.
* `cache` is the informer cache. Versions are not numbered: `current[n]` is the
  set of holders (the cache, the worker, the syncer) whose copy of `n` has the
  stored resourceVersion. A status update succeeds exactly for a current copy.
* `pending` are the names with undelivered watch events of which one passes
  the event filter; `Deliver` brings the cache up to date and queues the key.
  A `Relist` after a broken watch compares the cached and the listed CR, so the
  filter sees another pair than the watch would have shown it.
* `rec` is the worker: the next request (`pc`), the key, the local CR `d`,
  `newDeviceStatus` and the variables of the property loop. `syn` is the round
  of the syncer. A step of either covers one request and the code up to the
  next one. What a round no longer uses is dropped, and a finished worker and
  round are reset, to keep the state space small.
* HTTP outcomes are the disjuncts of an action. Failures come in kinds
  (`FaultKinds`): EdgeX is `unreachable`; a reply is `lost` after the request
  took effect; a 5xx with a JSON body (`server`), which some methods of the
  client take for an answer; a 207 with a failed `item`; an `api` request that
  fails; a `crash`; a `relist`. `MaxFaults` bounds their number.
* The reconciler's `PATCH` names the device by the name of the CR and the id in
  the status (`toEdgeXUpdateDevice`), not by the label: `Addressed`.
* A patch of the finalizer names no version, and its answer is decoded into the
  worker's copy (`Decoded`, `DecodedObject`): a field that the answer omits keeps
  its old value. When the patch meets a new CR of the name, the copy so stays
  marked as deleted and `Reconcile` returns (`device_controller.go:85`).
* When `Reconcile` panics, its deferred function still sends the status
  (`Panic`, then `Return`) before the process is down.
* Whether `IsNotFoundErr` knows what EdgeX answers to the deletion of an unknown
  device is not to be read off the code: `DeleteNotFoundRecognised` is the set of
  possible answers, each time both but in `stuckdeletion`.
* `Unfiltered` are the names of CRs whose controller has no event filter: those
  of DeviceServices (`deviceservice_controller.go:114`).
* A behaviour of `EdgeObjectSystem` is about one `kind`, chosen at the start:
  the two kinds share no CR, no object and no worker. Of a service the model
  keeps the admin state and, in the status, whether the id is known; EdgeX finds
  the service of a `PATCH` by its name and leaves the state alone when the state
  sent is blank. Whether `IsNotFoundErr` knows EdgeX's answer to the deletion of
  an unknown object is open in every such answer (`DeletesObject`). A change by
  an operator counts as a failure, so `MaxFaults` bounds the sum of both.

* A `definition` is the set of those parts of a service or a profile that are
  still what their author wrote. A conversion intersects it with the fields it
  copies; a part that a conversion omits or rewrites is lost for good. `IsHidden`
  of a resource is such a part (`util.go:77`), and so are attributes that are not
  texts. `KnownLosses` names these.
* In `Replicas` the variables of `DeviceSystem` are those of the first process
  and `Second` is the same specification over `cache2`, `rec2`, ... A step of one
  process or of the environment makes the copies that the other process holds of
  a changed CR outdated and gives it a watch event (`FirstSees`, `SecondSees`).
  `leader` is the holder of the lease, or `"all"` without election.
* In `Startup` a process has a `stage` for each check of `Run` (`core.go:77`)
  in its order, and its options; `GetNodePool` fills in the pool once per start,
  from the flag or the label of the node, and takes an empty label for a pool. Addresses
  count by their form only. A process that dies leaves the lease with `Former`
  until it expires. A leader that cannot renew its lease loses it, works on
  (`overdue`), and only then exits (`core.go:184`). `LeaseExpires` waits for that
  exit: a lease lasts longer than its holder goes on trying to renew it, the one
  thing assumed of time. Failures and changes of the environment are counted
  together (`MaxChanges`).

`UserUpdate` leaves the label and the pool of a CR as they are. A property name
is the key and the `Name` of its entry. `PromptReuse` is the set of names that
may be used for a new CR at once; any other name, a `Steady` one, only when the
process holds no copy of the CR that had it. What is said of the guard and of
pools is said of `Steady` names, whatever happens under the others meanwhile;
types, the honesty of a status, `SyncedIsStable` and `MadeForGuarded` are said of
all names. For a name in `PromptReuse` the guard is not what it is for the others:
TLC refutes `SyncedIsGuarded` in the `lifecycle` instance when it is stated for
all names and `PromptReuse = {"a", "pool-a"}`. The worker starts from a cached CR
that is being deleted, while that CR has gone and a new one of its name was made.
The worker deletes the device, and its patch, which names the CR and no version
(`device_controller.go:149`), is answered with the new CR. Since the mark of the
deletion stays in the worker's copy, it makes no device for the new CR; but the
answer makes the version of that copy current, so the deferred update
(`device_controller.go:74`) writes the old status, `synced` included, to the new
CR, which has no finalizer. No device is made without the guard, though:
`MadeForGuarded` says so of every name, in `convergence`. In `Lifecycle` these
names are `Reused`: a new CR may be synced without a finalizer (`Sync`), and a
patch may take one off (`Strip`). TLC finds the latter with no
single process: it takes another one that guards the new CR in the meantime.

Definitions marked *faulty form* are mistakes of the kind the properties are
for; no action uses them.

## Checks

The instances have one edge device `a`, the CR `a` that a user makes for it and
the CR `pool-a` that the syncer makes: two CRs for one device, which is enough
for every conflict between the two directions. Three user operations reach
creation, deletion and creation anew; one change on the edge and one failure at
any point reach every recovery path. The rounds of the syncer are bounded where
nothing is said of what comes after them; `convergence` and `edgeobjects` have no
such bound, so that a round works on what the previous one left. `convergence`
has one name, which the user, once, and the syncer use and reuse without
waiting for anybody's copy. `management` has no change on the edge, and `values`
only the failure that the code takes for a success, so that both stay small.
States are counted with these bounds.

| run | shows | size |
|---|---|---|
| `lifecycle` | the inductive invariant `IInv`, `OwnedDeviceIsGuarded`, `SyncedIsGuarded`, `SyncedIsStable`, and that the system implements `Ownership`, with all kinds of failure | 284,000 states |
| `management` | `TypeOK`, the inductive invariant `LifeInv`, `ReadyIsHonest`, `UpdatesServeTheCR` with the property loop, a property that can only be written, and users who change desires, end the management or delete the CR | 739,000 states |
| `convergence` | `DeletionReachesDevice`, `CreationCompletes`, `DevicesAreImported`, `MadeForGuarded`, with unbounded rounds, all kinds of failure and a name reused at once | 155,000 states |
| `values` | `DesiredValueReached` | 190,000 states |
| `edgeobjects` | for a service and for a profile `ObjectTypeOK`, the inductive invariant `GuardInv`, `ReadyServiceIsSynced`, `SyncedStays`, `DefinitionsKept`, `ActsForTheCR`, `OtherPoolsLeftAlone`, `GetsInStep`, `AdminStateFollows`, and that the CRs live as `Lifecycle` says, with all kinds of failure and unbounded rounds | 57,000 states |
| `replicas` | `ReplicasTypeOK`, the inductive invariant `ReplicasInv`, `ReadyIsHonest`, `OtherPoolsUntouched`, and that the CRs live as `Lifecycle` says, with two processes in one pool, with and without leader election | 382,000 states |
| `startup` | `StartupTypeOK`, `LeaseIsHonest`, `Serves`, `SomeoneServes`, and that the processes implement `Election` | 93,000 states |

Every property of these runs has a mutant in `PROJECT.json`: a faulty form of
one definition under which TLC refutes the property.

`DesiredValueReached` is stated for a CR that has the name of its device. For
another one TLC refutes it: the reconciler's `PATCH` goes to the
name of the CR (`util.go:159`), so a device that an operator locked stays locked,
and the properties of a locked device are not written.

Five runs refute what a comment, test or document says:

| run | refuted | what happens |
|---|---|---|
| `redundant` | "delete redundant device on OpenYurt" (`device_syncer.go:92`) | EdgeX is listed before the reconciler makes a device and the CRs after: the new CR is deleted, and its device with it |
| `orphan` | users delete DeviceServices to affect those of the edge (`README.md:43`) | the finalizer goes before the deletion on the edge (`deviceservice_controller.go:147`, `:153`): after one failed request the service stays without a CR |
| `flipflop` | "reconciling the AdminState and OperatingState" (`device_controller.go:196`) | a state that needs no change is blanked and sent as `UNLOCKED` or `UNKNOWN` |
| `stuckdeletion` | a device that is not found does not keep its CR from being deleted (`device_controller.go:139`) | a deletion whose reply was lost is repeated; EdgeX answers "fail to query device by name" (`device_client_test.go:40`), which `IsNotFoundErr` does not know (`errors.go:29`), so the repetition fails for ever and the CR stays. `DeletionReachesDevice` is what holds nevertheless |
| `panic` | a property without read command is tolerated (`device_controller.go:261`, `:274`) | its nil state is dereferenced |

`edgeobjects` has one service, whose CR `pool-s` either a user or the syncer makes,
and one profile with the CR `p` of a user and the one of the syncer, `pool-p`; one
user operation and one failure or operator's change: the user creates the CR and
a failure or an operator's removal follows, or the operator adds the object and
the user takes over or deletes the imported CR. The user's profile may be of
another pool. The name `pool-p` is in `PromptReuse`, so that the run has what a
stale copy can do to a new CR and, for the other names, what it cannot.
`GetsInStep` is `[]<>`: `<>[]` is false of the code, because a round that lists
EdgeX before the reconciler makes an object and the cache after a deletion may
be that unlucky for ever.

`replicas` has two changes on the edge, one user operation, one round in all and
one crash or broken watch: an operator adds a device and removes it, either
process imports it and reconciles the CR, and a user deletes the CR, has the
device managed through it, or makes a managed CR or one of another pool under its
name, each at any time. That is enough for either process to work on a copy that
the other made old, and for a takeover by a standby whose cache lags. While a
managed CR is stored, the search is bounded by `FewWithManaged`: with leader
election two changes of the edge, rounds and failures together, without it none,
but two reconcilers at work on the same managed CR. A Ready CR is reached in both
cases, also after a takeover.

`startup` has two processes with leader election (`byLabel`, `byFlag`, the
second with the pool as a flag), one without and with an address left empty
(`alone`), one with an invalid address (`invalid`), and three failures or
changes, so that a process can fail at any check, lose the lease, go on without it, exit
and come back, and another take it meanwhile. Deadlock is not checked: a standby waits for the
lease, and a process with invalid options never runs.

### What the checks say of the code beyond the refuted runs

* A deleted device can come back. A round that listed EdgeX before the deletion
  imports what it listed (`device_syncer.go:178`), and the reconciler makes the
  device for the new CR. `GetsInStep` covers this step for services and profiles:
  both sides agree all the same, on an object that a user deleted.
* Two active processes break the guard. Without leader election, which is off by
  default (`options.go:63`), or while the pods of a rolling update overlap, the
  second process may make the device from an old copy after the first deleted
  the device and let the CR go. TLC refutes `OwnedDeviceIsGuarded` of `Replicas`
  for this reason, and also with election, at a takeover by a standby whose cache
  lags. What `replicas` checks holds nevertheless: the status is honest, since
  status updates carry a version, and a CR is synced only while it is guarded, so
  what breaks is a device of the own pool, never what the CRs say of themselves. Liveness is
  not claimed for two processes.
* There is one lease for all pools (`LeaderElectionID`, `core.go:85`): with leader
  election only one pool of a namespace is served. `SomeoneServes` therefore says
  one process, not one of each pool.
* The pool is read once (`core.go:109`): a process keeps the pool of a node that
  was relabelled until it starts again. The sync period is not checked against
  the minimum that its help text states (`options.go:69`).
* A hidden resource of a profile becomes visible on the way to EdgeX
  (`util.go:77`), and attributes that are not texts change or go on the way back.

### Fairness

`FairSpec` is used by the liveness runs. The worker, the syncer's loop and the
watch are goroutines that never stop (weak fairness); a key in the workqueue is
taken in first-in-first-out order, so a key that is queued again and again is
taken (strong fairness of `TakeKey`); controller-runtime's informer resyncs every ten
hours (weak fairness), which is what brings back a creation that found EdgeX
unreachable; a process that panicked is restarted. Nothing is assumed of users,
operators and failures but their bounds. `FairObjectSpecification` says the same
of the process at work on services or profiles. `FairStartupSpec` has weak
fairness of each process's next step, since the kubelet starts a container again
and a process that runs goes on, and of the expiry of a lease nobody renews.

## Proofs

The theorems hold for every value of the constants (any names, pools, specs,
processes, bounds and kinds of failure), under the `ASSUME`s of the modules,
which only say that the constants have sensible types, and under the one
assumption named below (`UsersWriteWhole`). No theorem assumes anything of
`PromptReuse`: what would be false of a reused name is stated of the `Steady`
ones, and it holds of them however badly a CR of a reused name fares.

Of `DeviceSystem`:

* `DeviceTypeProofs` proves `TypeInvariance == Spec => []TypeInv` and from it
  `TypeCorrect == Spec => []TypeOK`. `TypeOK` alone is not inductive: an action
  of the worker reads its local CR and one of the round its copies, so
  `TypeInv` adds that the worker has a CR whenever it works (`WorkerHasItsCR`)
  and the round a copy of all it will write (`RoundHasItsCopies`).
* `DeviceSafetyProofs` proves `Invariance == Spec => []IInv` and from it
  `NothingLeftBehind` (`OwnedDeviceIsGuarded`), `SyncedGuarded`
  (`SyncedIsGuarded`) and `UpdatesServe` (`UpdatesServeTheCR`).
* `DeviceOwnershipProofs` proves
  `ProtocolImplemented == Spec => ImplementsOwnership`. From `IInv` each step is
  one of the protocol: adding the finalizer is `Guard`, removing it `Release`, a
  creation `Make`, a deletion by the reconciler or an operator `Remove` or a
  stutter, every other step a stutter. Its second part proves
  `PoolsApart == Spec => OtherPoolsUntouched`, from `PoolInv`: a name that the
  worker or the round has in hand belongs to a CR of its pool, if to any. This
  part needs only types, not `IInv`, so that it also serves two processes.
* `DeviceStatusProofs` proves `SyncedStable == Spec => SyncedIsStable` and `ReadyHonest == Spec => []ReadyIsHonest`
  (a Ready CR of a `Steady` name is guarded, for which `IInv` is needed). The invariant
  `StatusInv` says of every copy from which somebody can still write a status (the
  CRs, the cache, the worker's two, the round's) that it is honest, and that it is
  not behind the synced mark as long as its version is the stored one.
  From `StatusInv` and `GuardInv` it proves
  `LifeInvariance == Spec => []LifeInv` and
  `LifecycleImplemented == Spec => ImplementsLifecycle`.

Of `Replicas`:

* `ReplicasProofs` proves `ReplicasInvariance == ReplicasSpec => []ReplicasInv`
  and from it `ReplicasTypeCorrect`, `ReplicasReadyHonest`,
  `ReplicasSyncedGuarded`, `ReplicasSyncedStable`, `ReplicasImplementLifecycle`
  and, with `PoolInv` of both, `ReplicasPoolsApart`. There is no assumption on leader election, on who
  holds the lease, or on crashes.

Of `EdgeObjectSystem`:

* `EdgeObjectProofs` proves `ObjectTypeCorrect` (`ObjectTypeOK`),
  `ReadyServiceHonest` (`ReadyServiceIsSynced`) and `SyncedNeverTakenBack`
  (`SyncedStays`) from one invariant, again called `IInv`: types, what the worker
  and the round hold at each step, exactness of current copies, and honesty of
  every stored and every held status.
* `EdgeSafetyProofs` proves first `DefinitionsSurvive`, that is `DefinitionsKept`,
  if users write whole definitions (`UsersWriteWhole`). Every copy of a definition
  (CR, cache, worker, edge, list of the round) has lost known losses only
  (`DefInv`), because the conversions lose nothing twice. Then it proves
  `GuardInvariance == ObjectSpecification => [](IInv /\ GuardInv)` and from it
  `ObjectsImplementLifecycle` (`ImplementsLifecycle`), `WorkerActsForTheCR`
  (`ActsForTheCR`) and `OtherPoolsSafe` (`OtherPoolsLeftAlone`).

Of `Startup`:

* `StartupProofs` proves `StartupTypeCorrect`, `LeaseHonest` and, from both as
  the inductive invariant, `StartupImplementsElection`.

The argument for the guard: `OwnedDeviceIsGuarded` needs that the worker, when it
makes a device, acts for a CR that is still guarded (`WorkerIsOfTheCR`). It knows
that from a cache that may be old, so `CacheIsOfTheCR` says what an old cache
entry is still good for: the CR with a finalizer that is not being deleted in the
cache is guarded in the API server, because only this worker takes finalizers
away and only after it saw the deletion. (With a second worker this fails, as TLC
shows for `Replicas`.) `SyncedIsGuarded` is needed because a synced CR skips
the finalizer check's branch into creation, and it needs `SyncerCopyIsGuarded`,
since the syncer writes the status of its copy. The proof states once what a
write to a CR may do (`Follows`) and what may happen to copies and owners
(`CopiesFollow`, `OwnersKept`), shows that such a step keeps each part of `IInv`,
and then that each action is such a step; the actions that are not (watch
delivery, restart, the creation of a device, the syncer's second list) are proved
directly.

The argument for services and profiles. Their reconcilers take the finalizer off
before they delete the object, so that a CR is not guarded as long as its object
exists (`orphan`), but what they *make* they still make for a guarded CR.
`ActsForTheCR` needs that a worker past the finalizer has a CR that is there
(`WorkerKnows`). It knows so from the cache: an entry with the finalizer and
without the mark is of a CR that is stored (`CacheKnows`), because a guarded CR
goes only when this worker takes the finalizer off, which it does only for a CR
that it saw marked. The CR it then meets is the same one, with the same label
and pool, because a name that is not in `PromptReuse` stays away while anybody
holds a copy. `SyncedIsGuarded` is needed because a worker with a synced CR
skips the creation, and `RoundKnows` because the syncer deletes by name and
writes the status of its copy: what it deletes is of its pool, and a status that
says synced is of a guarded CR as long as its version is the stored one. The
proof states the five ways in which a step may change a CR (`Moves`: it is born,
dies, or lives on guarded, synced, marked, or, under a reused name, stripped);
what was seen of a CR survives all of them (`StaysSeen`, `StaysThere`,
`StaysAway`), so that each part of `GuardInv` survives (`CacheGuarded`,
`OtherWorkerGuarded`, `RoundGuarded`); and each action makes at most one such
move (`StepGuarded`). The moves are also the actions of `Lifecycle`
(`LifeStep`). Besides `{"pool-p"}`, TLC was given `GuardInv` and the three
properties with `PromptReuse` empty and with all names: they hold of 56,000 and
of 106,000 states.

The argument for two processes. `IInv` is no invariant of them: a CR on which
one process works may lose its finalizer by the other. `LifeInv` is what is left.
It says that a copy is never ahead of the stored CR: if the copy has the finalizer,
or the deletion mark, so has the CR of its name, *if there is one*
(`CacheIsGuarded`, `WorkerIsGuarded`); and that all held statuses are honest
(`StatusInv`). The conclusion about a CR that still exists is sound because a CR
gives its finalizer up only when it is being deleted, and then it is gone; a name
is not reused while somebody holds a copy, which in `Replicas` must be asked of both
processes (`FreeInFirst`, `FreeInSecond`). The proof has three parts. That a process
keeps `LifeInv` in its own steps is proved once, over `DeviceSystem`
(`StepLives`), and holds of the second process as an instance of that module
(`P2`; the lemmas `SecondNext`, `SecondInit` and `SecondLifeInv` say that `P2`
and `Second` mean the same). That a process survives the steps of the other needs
only what these do to the CRs (`KubeMoves`: one CR at most goes one step on in its
life; `WritesTruthful`: no status written lies or takes synced back) and what the
watch does (a changed CR outdates all copies of it): `SeenLives`, which
`FirstLooksOn` and `SecondLooksOn` apply. `KubeMoves` is also what the refinement
needs of a step (`LifeStep`). Pools are shown in the same way (`StepPools` of the
process that acts, `SeenKeepsPools` of the one that looks on): a CR keeps its pool
(`PoolsStay`), so a process that holds an old key or list holds one of its own
pool, unless the name is used again, which a `Steady` one is not.

Only model-checked: the liveness properties (`DeletionReachesDevice`,
`CreationCompletes`, `DevicesAreImported`, `DesiredValueReached`, `GetsInStep`,
`AdminStateFollows`, `Serves`, `SomeoneServes`), which are out of the prover's
reach, and `MadeForGuarded`.

## Not modelled

* More than two processes at work on devices, and two processes at work on
  services or profiles.
* The content of an id: the id of a device that was replaced on the edge still
  counts as matching (`Addressed`). A `PutURL` given in a spec, which spares the
  look-up of the command. The definition of a service or profile in a copy that a
  patch was decoded into is the one of the answer.
* The syncer's own creation under a `Steady` name while the process holds a copy
  of the CR before (`CanCreate`): the code creates without asking
  (`device_syncer.go:178`, `deviceservice_syncer.go:176`). For names in
  `PromptReuse` it is modelled.
* Whether a status is complete: the first property of a device may be missing from
  it until the next run (`device_controller.go:267`). What such a status says is
  modelled and checked to be of its type.
* Changing the label or the pool of a CR; two edge names that `toKubeName` maps
  to one CR name; GET URLs that became wrong.
* The description, protocols, labels, location and timestamps of a device:
  written, never read by the code (a location that is no text panics,
  `util.go:205`). Metrics, probes, logging, the value of the sync period.
* `pkg/clients/interface.go` declares the methods of the clients and nothing
  else; `pkg/controllers/util/string.go` is used by nothing that is modelled; the
  deep copies and the scheme are generated.

## Plan

1. (done) `DeviceCluster`, `DeviceController`, `DeviceSyncer`, `DeviceSystem`,
   `Ownership`; all their safety properties and the refinement proved.
2. (done) `EdgeObjects`, `DeviceServices`, `DeviceProfiles`, `Conversions`,
   `EdgeObjectSystem`; one run for both kinds; all their safety proved.
3. (done) `Startup`, `Election`, `Replicas`; `Startup` proved.
4. More of the device: relabelling and labelled CRs in one instance, whether an
   update reaches the device (`util.go:159`), the 5xx answers that `Get` and
   `List` take for data (`device_client.go:147`, `:164`).
5. More of services and profiles: EdgeX names that `toKubeName` maps to one CR
   name (`util.go:452`), the Synced condition that is never corrected
   (`deviceservice_controller.go:187`).
6. (done) `Lifecycle`, the proofs of `Replicas`, and the proofs of what services
   and profiles have in common with devices: guard, life and pools.
7. A proof of `MadeForGuarded`: what an old cache entry tells of a CR that has its
   name anew.
