# A verification project for license-proxyserver

`license-proxyserver` hands out AppsCode product licenses inside Kubernetes
clusters. This directory holds TLA+ models of its own logic, TLC configurations
that check them on small instances, and TLAPS proofs for all instances. Every
definition is a translation of code under `src/`; `PROJECT.json` maps each one to
its lines.

## The system

A *license* is an X.509 certificate signed by AppsCode: serial number, features,
plan, tier, validity dates. Two programs live in one binary.

**The proxy server** (`run`), one replica per cluster, is an aggregated API server:

| part | state | operations |
|---|---|---|
| `LicenseRegistry` (`pkg/storage/store.go`) | per-feature heaps, serial number -> record map, cache files, ttl, one mutex | `Add`, `LicenseForFeature`, `Get`, `List` |
| `RecordBook` (`pkg/storage/recordbook.go`) | serial number -> last user, its own lock | `Record`, `UsedBy`, `Delete` |
| loader (`pkg/storage/loader.go`) | none | `LoadDir` of license and cache directory at start |
| LicenseRequest storage (`pkg/registry/proxyserver/licenserequest`) | none; one goroutine per request | `Create`: look up, else acquire from the license server, or on a spoke extend the `ClusterClaim` |
| LicenseStatus storage (`.../licensestatus`) | none | `List`, `Get`: registry joined with the book |
| `LicenseSyncer` (`pkg/controllers/secret`) | work queue, informer on the hub's secret | managed spoke only: adds the licenses of the hub's secret, copies the secret |
| start-up (`pkg/apiserver`, `pkg/cmds/server`) | flags | builds the above, decides stand-alone / spoke |

**The manager** (`manager`), on an Open Cluster Management hub:

| part | state | operations |
|---|---|---|
| `LicenseAcquirer` (`pkg/manager/license_acquirer.go`) | one `LicenseRegistry` per managed cluster | reconcile: a license for each claimed feature, into the cluster's license secret; requeue |
| agent certificates (`pkg/secretfs`, `certstore`, `manager.go`) | CA and server pair as keys of one secret | create or load at start, read for every agent |
| addon permissions (`pkg/manager/rbac`) | Role and RoleBinding per cluster | `SetupPermission` |
| agent values (`pkg/manager/config.go`) | none | Helm values (certificates and licenses are read here), health probe |

Interaction on a spoke: request -> `ClusterClaim` -> (OCM) -> `ManagedCluster`
status -> `LicenseAcquirer` -> hub secret -> `LicenseSyncer` -> registry -> the next
request. The hub's secret takes a second way to the spoke: `GetConfigValues` renders
its entries into the addon's chart, whose secret is the very one the syncer copies
to, and whose pod template carries a checksum of them, so that a change of licenses
also replaces the pod.

What is hard: requests interleave between lock sections and network calls; the
registry evicts lazily and from one queue at a time; reads go to informers that
lag behind the API server; cache files are written in place and their errors
dropped; requeue times are computed from expiry dates; processes restart with
partial state; the spoke's secret has two writers; certificates are written file by
file by a process that may die in between; permissions are set up from two copies of
the addon that need not agree. `PROJECT.json` lists these hazards by line.

## Modules

| module | models |
|---|---|
| `Licenses` | a license's attributes, `License.Less`, `rankTier`, liveness and validity at a time |
| `LicenseStore` | abstract: what a registry promises |
| `RegistryMethods` | state and methods of `LicenseRegistry` and `RecordBook`, one step each |
| `LicenseRegistry` | a registry with arbitrary callers; implements `LicenseStore` |
| `HeapRegistry` | the heaps as slices, exchange by exchange, under the loops of `Add` and `LicenseForFeature`; implements `LicenseStore` |
| `ProxyServer` | `RegistryMethods` + concurrent requests, license server, cluster claim, crash and restart |
| `LicenseAcquirer` | `RegistryMethods` + the hub's reconcile of one cluster, its work queue, secret, restarts |
| `LicenseSyncer` | `ProxyServer`'s process + the syncer's reconcile, the two writers of the spoke's secret, rollouts |
| `Federation` | `ProxyServer` + an instance of `LicenseAcquirer`, joined by klusterlet and syncer |
| `LicenseStatus` | `LicenseRegistry` + a reader of the status API and its table |
| `AgentCerts` | the hub's CA and serving pair in a secret: `SecretFS`, `CertStore`, the runnable, `GetConfigValues` |
| `AddonPermission` | `SetupPermission` in the framework's registration sync, for one cluster |
| `RegistryMethodsProofs` | lemmas on the registry's methods for all that call them |
| `LicenseRegistryProofs` (with `LicenseStatus`), `HeapRegistryProofs`, `ProxyServerProofs`, `LicenseAcquirerProofs`, `LicenseSyncerProofs`, `AgentCertsProofs`, `AddonPermissionProofs` | theorems about these modules |
| `MC...` | values of the constants for TLC |

Operators named `Mut...` are deliberately wrong versions of the definition that
follows them; each shows that some property notices the mistake.

### State and actions against the code

*Registry.* `reg[f][l]` counts the copies of `l` in the queue of feature `f`: a bag,
because callers cannot see more of a heap than its root. `store` is the domain of
the record map (the contract kept beside a license is display data and left out),
`rb` the book, `cache` the files, which are absent, good or torn. A feature with no
queue and one with an empty queue behave alike. All registry methods hold the
mutex, so each is a step. `LicenseForFeature(f, l)` is the call that returns `l`:
the loop pops dead licenses until the root is live, so what it pops is `Popped(f)`
and what it returns is in `Found(f)`. That this is what the loop over a
`container/heap` does, with the clock read anew in each turn, is `LoopDrains` of
`HeapRegistry`. `removeFromStore` includes the book's `Delete` and the file; on the
hub the registry has no book, and `rb` simply stays empty. Copies of one license
are popped together, so counts stop at `MaxCopies`.

*Heaps.* `queue[f]` is the slice, root at 1. `Add(l)` and `Lock(f)` take the mutex:
`adding` is the license whose `Add` has it and `todo` the features its loop has still
to come to (in any order), `lock` the feature whose lookup has it. `heap.Push` is
`AddTo(f)`, which appends, and turns of `Up`; `heap.Pop` is `PopRoot`, which exchanges
root and last item, and turns of `Down` over the others, of which the last cuts the old
root off and includes `removeFromStore`. `sift` says which queue is at which index of
which pass. The clock may tick between any two turns; `LicenseForFeature` reads it only
where it looks at a root. An `Add` of a stored license returns at once and is no step;
`Add` makes a one-item queue where there is none, which is an append to an empty one
and a pass that ends at once. `entry` remembers the queue a lookup found, for
`LoopDrains`. What `removeFromStore` does to the book, under the book's own lock, and to
the cache file is in `RegistryMethods` only: neither waits for the registry's mutex.

*Time.* `now` is a natural number; `ttl` and the dates are in the same unit.
`Live` is `!(time.Until(NotAfter) < ttl)`. `Valid` stands for the date checks of
`ParseLicense`; signature, cluster name and key usage do not change over time, so
a license that fails them is one that does not occur.

*Requests.* `call[c].pc` is where the handler of client `c` is: `lookup` (once per
feature, each under the lock), `acquire` (call in flight, nothing locked), `add`,
`record`, or on a spoke `claim` (read), `update`, `create`; it ends `served`,
`blank` or `failed`. The claim's value is the set of its comma separated parts;
`Split` and `Join` keep the rule that an empty string splits into one empty part.
`view` is the informer's copy that `Get` reads; `Update` is refused unless the
version read is the latest, `Create` unless nothing exists. `Start` is
`apiserver.New`: an error there ends the process, which is started again. `Crash`
loses memory and requests, may tear the file being written, may take the cache
directory (an `emptyDir`) along; `CrashInStart` dies while `LoadDir` rewrites the
files it loads; `Flags` are the command line options given, without which `Run`
refuses to start. `SyncerAdd` is `LicenseSyncer.addLicense` for one entry.

*Hub.* `round` is the reconcile in progress or the last one, `queued` and `timer`
the work queue of controller-runtime: an error queues again and ignores
`RequeueAfter`, a positive `RequeueAfter` sets the timer, anything else schedules
nothing. Back-off delays are not modelled: picking up a queued item may take any
time. The features of a round come in the order of the claim, which the spoke sorts
(`Place`), so of two licenses of one plan name the later feature's stays in the
round's data. Nothing is assumed about the features of a plan: `ParseLicense` takes
plan name and features from different fields of a certificate. `Refused` is what the
API server does not take: an outdated write, and data under the empty key
(`Nameless`), the plan name of an old certificate for features `ParseLicense` knows no
plan of. `Restart` starts with an empty registry, as `getLicenseRegistry` never reads
the cache directory; cache files are therefore left out (`UseCache = FALSE`).

*Syncer.* `sync` is the reconcile in progress: `SyncBegin` takes the secret from the
informer's copy `seen`, `SyncEntry(p)` is a turn of the loop over its entries (any
order: it is a Go map), `SyncRead` and `SyncPatch` are the two halves of
`CreateOrPatch`, which here reads from the API server and sends only the keys that
differ from what it read. An entry that has expired does not parse, and `SyncError`
ends the round and queues it again. `RenderWork`, `ApplyWork` and `RollOut` are the
second way: chart values, work agent, new pod (with an empty cache directory). Keys
of the spoke's secret are pairs because the chart prefixes the plan names and the
syncer does not. Requests appear as `SpokeLookup` only, which is all they do to the
registry of a managed spoke; that a hub writes what is valid at that moment is
`HubWrites`. No one else writes these secrets.

*Federation.* Every action of `ProxyServer` and of `Hub!...` is there, with the
other side unchanged; the time, the fault budget and the licenses are shared.
`ReportClaim` (klusterlet, external) and `Deliver` (one entry through the syncer)
join them. `HubTTL` is larger than the spoke's `MinRemainingLife`, as in the code.

*Status.* `Take` is the read under the registry's lock (`List` or `Get`), `Join(l)` the
later read of the book for one license, `PrintRow` the table row, whose `Rotates`
cell is the undirected distance `Distance` between expiry and the time of printing.
Between any two of them every caller of the registry and the clock may step.

*Certificates.* A private key is a number, a CA certificate the number of its key, a
serving certificate those of its key and of its signer. `secret` is what the API
server has, `view` what `SecretFS` reads; `WriteFile` is a `CreateOrPatch` that decides
by `view`. `init` is the runnable at one of its writes, `reader` is `GetConfigValues`
at one of its four reads. `InitCA` makes a new CA on any error of `LoadCA`; with reads
from the informer's copy of what `WriteFile` wrote, the one error that occurs is a
missing file. `Expire` makes the serving certificate short-lived; the CA
outlives it ten times and is not renewed here.

*Permissions.* `listed` is the framework's copy of the addon, `cached` the one
`SetupPermission` reads; `sync.base` is what the sync started from and the owner of
what it creates. Role and binding are found by name and left alone if they exist;
garbage collection takes those of an addon that is gone. Each installation has an
agent of its own, with a driver (`agentDriver`) that it declares at some time, before or
after the registrations are filled in; a copy of an earlier installation may thus show
another driver than that of the agent there is. `SetOwner` is the addon manager's owner
reference, before which `Begin` does nothing. The patch of supported configurations
that comes first in a sync never changes this addon's status, as it has none.

## What TLC checks

| run | bounds | shows |
|---|---|---|
| `registry` | 3 licenses, 2 features, clock 0..4, failing disk | invariants below and refinement of `LicenseStore` |
| `heap` | 5 licenses of 3 ranks, two tied; queues up to 5 (three levels, both kinds of pass take two turns); clock 0..3 | heap order, progress of every loop, loop = one-step model, refinement, mutex released |
| `proxy_online` | 2 clients, 3 licenses (one mounted, two issued), clock 0..3, 2 crashes | requests against each other and restarts |
| `proxy_spoke` | 2 clients with overlapping features, 1 delivered license, 2 faults | claim updates against each other; liveness |
| `acquirer` | 5 licenses: a successor of the same plan, one of that plan name with another feature, one of a plan of its own, one without plan name; a feature without license; clock 0..3, 2 faults | delivery, scheduling, liveness on the hub |
| `syncer` | 2 licenses of 2 plans, one expiring, clock 0..2, 2 writes of the hub, 2 faults | the syncer beside the work agent, rollouts and crashes; liveness |
| `federation` | 1 client, a license 0..1 and its successor 2..4, clock 0..2, 4 writes of the secret, 1 fault | the whole loop: a client without licenses comes to be served |
| `status` | 2 licenses, ttl 2, clock 0..4, 2 requests | a non-atomic reader beside all callers of the registry |
| `certs` | 12 keys, 2 expiries, 3 deaths | chain of trust across deaths and renewals; liveness |
| `certs_torn` | 9 keys, 1 expiry, 2 deaths | **violation**: a renewal cut in two leaves a pair that does not match |
| `permission` | 2 installations with any two drivers, 2 faults | role, binding and subject across re-installation and stale copies; liveness |
| `permission_csr` | 1 installation, no fault | **violation**: an agent with a client certificate is never permitted |

The licenses are chosen so that the order of a queue and the order of expiry
differ, a license covers two features (so that copies go stale), one passes each
of "live", "exactly ttl left", "dead" and "expired" inside the clock's range, and
on the hub a successor is issued while its predecessor is valid. In `acquirer` licenses
of one plan name displace each other and a nameless one stops all writes while it is
on offer; both happen, and end before the clock does, so that `EventuallyCovered` has
something to say in the end. Two concurrent
actors are enough for every race here: each shared object (store, book, claim,
secret) is raced for pairwise. In `syncer` the hub's two writes make one entry that
lasts and one that fails every round that comes to it. In `certs` three deaths can
fall between all writes of one first start (CA certificate, CA key, certificate) or
between those of two renewals, and `MaxKeys` is above the number of keys a behaviour
with that many deaths and expiries can make, so it cuts nothing off. In `permission`
two installations give a sync every mix of old and new copies, drivers, role and binding.

Registry: `StoredIsQueued` (store and queues agree), `ForgottenIsDead` (whatever
outlives a license's place in the store - copies in other queues, late book
entries, files, pointers of callers - is of a license too short to be served),
`LiveQueuedOnce`, `ListedIsServable`, `StoreSpec`. Heaps: `HeapOrdered`, `LoopDrains`,
`TurnsAdvance`, `StoreSpec`, `LockIsReleased`. Proxy: `NoNeedlessAcquire`,
`ServedLiveIsKnown`, `CacheMirrorsStore`, `ClaimKeepsFeatures`, `BlankMeansClaimed`,
`AskIsAnswered`. Hub: `WakesInTime`, `FoundIsDelivered`,
`PlansAreKept` (no write takes a plan's license away), `EventuallyCovered`. Syncer:
`CopiedIsKnown` (what a round copied is in the registry as long as it is live),
`RegistryFollowsHub`, `MountFollowsHub`. Federation: `EndToEnd`. Status:
`UsedRowNamesUser`, `RotatesIsLifeLeft`. Certificates: `ChainOfTrust`,
`EventuallyHandedOut`. Permissions: `UserHasReason`, `BoundEventually`. Each is stated
in words above its definition.

### Two disagreements

- `certs_torn`, `HandedKeyFitsCert`. `GetServerCertPair` writes `tls.crt`, then `tls.key`.
  A first pair that is cut in two is made anew, because a missing file is noticed. A
  renewal cut in two leaves the new certificate beside the old key; the next start
  finds both files and a fresh certificate, compares nothing, and `GetConfigValues`
  hands the pair out for good, while the chart calls the value "Private key for the
  serving certificate". It takes a manager that starts within ten minutes of the
  certificate's expiry or after it.
- `permission_csr`, `AgentIsPermitted`. The registration controller calls
  `SetupPermission` before it fills in `status.registrations`, so the first call chooses
  the service account, creates the binding, and later calls leave an existing binding
  alone. An agent whose driver is `csr` is thus not a subject of the binding, although
  `rbac.go:99-108` means to bind its user. In the first installation the user is never
  bound (`UserHasReason`); in a later one it can be, from a stale copy.

### Observations made while modelling

- `WakesInTime` needs its second disjunct. A license that reaches its ttl between
  its lookup and the end of the round makes `RequeueAfter` zero or negative; nothing
  is scheduled then, for the cluster's other licenses either, until the hourly
  resync (`resyncPeriod`), while the license has about five minutes left.
- `errors.As(err, &ce)` with `*x509.CertificateInvalidError` never matches, since
  `Verify` returns that error by value: the exemption at
  `license_acquirer.go:162-165` has no effect.
- The hub's secret has one entry per plan name. Licenses of one plan name with
  different features replace each other: within a round the later feature's stays,
  and the cluster is left without the other (`Displaced`), although the round ends
  without an error. `FoundIsDelivered` says that this is the only way a license found
  is not delivered.
- One license without plan name on offer stops every write of the cluster's secret:
  the API server refuses an empty key, and with it the other plans' licenses. The
  round is repeated until that license is too short to be found.
- The subject of a binding may come from an earlier installation. When the addon is
  removed and installed again while the manager's copy is the old one, with a `csr`
  agent's registrations in it, the new binding names the user, for good, whatever the
  new agent's driver is: an agent with a token is then not permitted.
- An empty claim gains an empty feature with its next update, for which the hub
  asks the license server in every round and fails.
- An expired entry of the hub's secret fails every round of the syncer, so as long as
  the hub does not replace it, the secret is never copied again. The registry is
  still filled, because Go's random map order lets the other entries come first now
  and then (`RegistryFollowsHub`), and the license directory is filled by the chart
  (`MountFollowsHub`).
- Syncer and work agent write the same secret under different keys. The agent
  replaces the secret's data whole, the syncer's patch removes the agent's keys:
  each undoes the other, and neither is told.
- On a fresh hub the first manager process is likely to exit: right after its first
  `WriteFile` made the secret the informer may not have it yet, the second wants to
  create it again and is refused. The next process goes on from the CA certificate
  alone and makes a new CA.
- `GetConfigValues` may read the certificate of one pair and the key of the next when
  it runs during a renewal; the next call corrects that.
- `Get` of a license that has expired but was not evicted prints its `Rotates` column as
  a positive distance; `List` leaves such licenses out.
- Dead licenses can be in a queue any number of times (re-acquired, re-added), and
  files of licenses that died while the process was down stay in the cache.

## Fairness

Safety runs assume none. `proxy_spoke` assumes that handlers run on, the process is
restarted, the informer catches up, and clients that got no license ask again
(products do so periodically); crashes and API errors are finite (`MaxFaults`).
`acquirer` assumes that the worker runs, timers fire, informers catch up and
resync; faults are finite. Answers of the license server are part of the
handler's step: its client sets no timeout, so without an answer neither program
promises anything. The clock may stop at any time. `heap` assumes that the holder
of the mutex runs on.

`syncer` assumes that the process is restarted, the informer delivers, the worker
retries without end, the addon manager resyncs, the work agent applies and the
deployment rolls out (all weak), and strong fairness for each entry: an entry that is
passed over in round after round because another failed first comes up at some time,
since the order of each round is random. `federation` takes the fairness of both sides
together with a klusterlet that keeps reporting; weak fairness of `Deliver` is what
`RegistryFollowsHub` shows of the syncer. `certs` assumes that the process is restarted
and its runnable runs on, the informer catches up and the addon manager renders
again; `permission` that controller, resync, informers, garbage collection, the addon
manager's owner references and the agent run on. Deaths, failing calls, expiries and installations are finite. The two
violation runs are under the same fairness as their passing siblings, so the
counterexamples are behaviours in which everything that should happen did.

## What is proved

`LicenseRegistryProofs`, for any licenses, features, callers and bounds, from
`LicenseAssumption` and `RegistryAssumption` (types; at least two copies told
apart; nothing about finiteness):

- `Invariance`: `IInv` = types, `StoredIsQueued`, `ForgottenIsDead`, `LiveQueuedOnce`.
  None of the last three is inductive alone. `Add` pushes what is not stored, so
  `LiveQueuedOnce` needs to know that a live license outside the store is in no
  queue (`ForgottenIsDead`); that in turn holds after `LicenseForFeature` because the
  license returned is stored (`QueuedLiveFromStore`, from `RegInv` below, which `IInv`
  implies), so a caller only ever gets a pointer to a stored license; and it survives the clock because a
  dead license stays dead.
- `TypeCorrect`, `QueuesMatchStore`, `ForgottenStaysDead`, `NoLiveDuplicates`,
  `ListAgreesWithLookup` follow.
- `Refinement`: `Spec => StoreSpec`. The queue's live licenses are the store's for the
  feature, so the foremost of one are the foremost of the other.

The same module, for any number of reads, adds the reader of `LicenseStatus`:
`StatusInvariance` shows `IInv` and `SInv` together. `SInv` = types; `TakenLong` (a
license in the hands of a list had more than ttl left when its records were taken);
`RowsPrinted` (a row is what `Distance` made of it at its time); `UseIsKept` (a license
taken while in use and live yet is still in use in the book, and its item, if
joined, names a user); `UsedRowNamesUser`. `UseIsKept` is the point: the book loses an
entry only when `LicenseForFeature` drops a license, and that drops dead ones only, which stay dead.
`StatusTypeCorrect`, `RowsNameUsers` and `RotatesIsRight` follow; the last because `now`
at printing is at most ttl after the time of the list.

`HeapRegistryProofs`, for any licenses and features and queues of any length, from
`LicenseAssumption` and `HeapAssumption` (bounds are numbers, `Free` is no feature).
`Invariance` shows `IInv` = types, `HeapOrdered` and:

- `Mutex`: one call has the mutex, and an `Add` in progress has stored its license.
- `Pass`: the queue of the pass under way is a heap but for the item it moves. On the
  way up (`HeapAbove`) that item may be before its parent, on the way down (`HeapBelow`)
  its children may be before it; in both its children are not before its parent,
  without which an exchange would break the order one level further.
- `QueuedIsKnown`, `KnownIsQueued`: queues and store agree as `StoredIsQueued` says, up to
  the features an `Add` has still to come to, and live queued licenses are stored.
- `Drained`: what a lookup has taken from the queue it found, and the item it is about to
  cut off, is dead, and nothing left in the queue is before it.

It rests on `LessIsStrictWeakOrder` (what a heap needs of `License.Less`; and licenses
that tie expire together, so a live and a dead one never tie), on lemmas that say what
`Swap`, `Pop` and `Append` do to the items of a slice and to their counts (`CountSwap`: an
exchange is a bijection of the places of each license), and on one lemma for each turn
(`AppendHeap`, `UpTurn`, `UpEnds`, `SwapHeap`, `DownTurn`, `DownEnds`). `RootIsForemost`, that
nothing in a heap is before its root, would be an induction along the path to the
root; it is proved from the least index of a counterexample instead, which the
library's theorem on well-founded relations provides. There follow:

- `TypeCorrect`, `QueuesAreHeaps`.
- `LookupIsOneStep`: `Spec => LoopDrains`. What the loop took is `Popped` and what it returns
  is in `Found`: the step of `RegistryMethods` on which all the other models and proofs
  rest is what the loop does, whatever the clock did meanwhile.
- `LoopsEnd`: `Spec => TurnsAdvance`, the part of `LockIsReleased` that is not fairness.
- `Refinement`: `Spec => StoreSpec`.

`AgentCertsProofs`, for any bounds, from `CertsAssumption`: `Invariance` of `IInv` = types,
`Chain`, `Knows`; then `TypeCorrect` and `ChainIsKept`. `ChainOfTrust` is not inductive:
what a process writes depends on what it read at its start, so `Knows` says that when
the CA is loaded the informer's copy is the secret (`Start` lists it, and no one else
writes), that the CA in its memory is the one on record, and that a CA certificate is
only ever replaced while there is no CA key and no serving certificate.

`AddonPermissionProofs`, for any bounds and any drivers of the installations' agents,
from `PermissionAssumption`: `Invariance` of `IInv`; then `TypeCorrect` and
`UserBoundWithReason`. `UserHasReason` is not inductive: a subject is decided from one
copy of the addon a step before it is bound under the uid of another. `IInv` adds that
a sync in progress started from an addon (`BaseKnown`), that the addon there is was the
last one installed (`OwnerIsLast`), that every copy of the addon, however old, is of an
installation so far and has that installation's driver or none, and a subject `User`
was decided from such a copy with `csr` (`CopiesInv`), and that during the first
installation registrations are only filled in once there is a binding, so that a sync
which could decide for the user finds one (`FirstBinding`).

`RegistryMethodsProofs` holds what the callers' proofs share: `RegInv` (types,
`StoredIsQueued`, and that a live license in a queue is in the store) is kept by the
clock, `Add`, `LicenseForFeature` and `Record`, and so is what a caller relies on
between two of them (`Remembers`): the clock does not go back, a stored license that is
still live is stored after the step, and its entry in the book is too.

`ProxyServerProofs`, for any clients, licenses, flags and faults, from
`LicenseAssumption`, `RegistryAssumption`, `ProxyAssumption` and `ClaimAssumption` (types;
a missing claim is no claim; the registry's ttl is `MinRemainingLife`, as
`apiserver.go:203` passes it). `Invariance` shows `IInv`, which adds to `RegInv`:

- `DownIsIdle`: a dead process has no requests, so a restart starts from none.
- `CallInv(c)`, per request: it holds a license where it needs one (`HoldsLicense`),
  `ServedLiveIsKnown` (`HeldIsKnown`), and `LookedUp`: of the licenses it found the
  registry with, the live ones are still stored, and none of them covers a feature
  looked up in vain. The first half makes the second inductive: a lookup that
  returns nothing says that no *stored* license is live, and only with the first half
  is that a fact about those of the start. `LooksUpAll` says a request leaves the
  lookups after the last one; together they give `NoNeedlessAcquire`. Steps of others
  keep all this by `Remembers` alone, so requests need no facts about each other.
- `CacheInv`: a good file is of a license whose life has begun, hence loaded again
  while it is live (here the ttl must not be below the life `LoadDir` asks for), and
  `CacheMirrorsStore`, where there is a cache directory and the disk does not fail.
- `ClaimInv`: each copy of the claim, the informer's or one a request has read, is of an
  earlier version with no features the claim lacks, and of the latest version only if
  equal. That is why an update that is not refused overwrites nothing
  (`UpdateGrows`), and why features seen in a copy are in the claim (`BlankMeansClaimed`).

`TypeCorrect`, `QueuesMatchStore`, `AcquiresOnlyWhenNeeded`, `ServedStaysKnown`,
`CacheFollowsStore`, `BlankIsClaimed` and the action property `ClaimNeverShrinks` follow.

`LicenseAcquirerProofs`, for any licenses, plans, claims and faults, from
`LicenseAssumption`, `RegistryAssumption`, `AcquirerAssumption` and `AbsentAssumption`.
None of them says anything about the features of a plan's licenses. `Invariance` shows
`IInv` = types, `RegInv`, `WakesInTime`, `FoundIsDelivered` and four more: `PlanInv` (in the
secret, its copy and the round's data each license is under its own plan), `FoundInv`
(during a round the data has under every plan it found a license of one it found, and
each feature met is covered by one of these licenses), `BaseInv` (the informer's copy
and the one the round read are of a version of the secret so far, equal to the secret
if of the latest, and the round's data lacks no plan of the copy it read) and `HasFirst`
(one license of the round expires first, which makes the minimum of `TimerAfter` one).
`FoundIsDelivered` follows from `FoundInv` at the write: if the license found for a
feature is not there, the one in its place is of the same round and plan. `BaseInv` is
for `PlansAreKept`: a write that is not refused starts from the latest version.
`TypeCorrect`, `RequeuedInTime`, `FoundAreDelivered` and the action property `PlansStay`
follow.

`LicenseSyncerProofs`, for any licenses, plans, writes of the hub and faults, from the
assumptions of `ProxyServer` and `SyncerAssumption`, `SecretAssumption`. `SyncInvariance`
shows `SyncIInv` = types, `RegInv`, `CacheInv`, `CopiedIsKnown` and: `DownHasNoRound`;
`SeenExists` (what is queued or in a round has been seen, and what was seen exists: the
hub's secret is never deleted); `ReadExists` (the spoke's secret, once read, exists, so
a patch has something to apply to); `EntriesKnown` (the entries a round is through with
are stored as far as they are live). The last is where `addLicense`'s check and the
registry's ttl must be the same life. Starts, crashes and rollouts reuse the lemmas of
`ProxyServerProofs`. `SyncTypeCorrect`, `CopiedStaysKnown` and `SpokeStoreConsistent`
(queues and cache directory, with the syncer and new pods) follow.

Every inductive invariant was checked by TLC on the instances of the runs before it
was proved.

Only model-checked is liveness (`AskIsAnswered`, `EventuallyCovered`,
`RegistryFollowsHub`, `MountFollowsHub`, `EndToEnd`, `LockIsReleased`, `EventuallyHandedOut`, `BoundEventually`): fairness is out of the
prover's reach. Every invariant, action property and refinement of a passing run is
proved as well. The two disagreements are counterexamples, and need no proof.

## Not modelled

- Generated types, deep copies and OpenAPI: they are the bulk of the Go code outside
  `vendor/` (`openapi_generated.go` alone is more than four fifths of it) and hold no
  logic of this program. The map therefore covers a small share of all lines, though
  nearly all of the hand-written code that changes state.
- Flags that only change names and addresses, TLS and API machinery set-up, the
  table's cells that copy a field, chart values that copy a flag (no state). The
  health probe is a pure function of the replicas a cluster reports.
- The contents of certificates beyond key and signer; renewal of the CA (a hundred
  years).
- More than one proxy replica or manager (the deployments have one), the overlap of
  two pods during a rollout, the kubelet's delay in updating a mounted secret, writes
  of a dead process that arrive late, people deleting secrets by hand.
- `DeleteFile` and `SignedURL` of `SecretFS` (no caller). `Get` and `UsedBy` are reads of
  `store` and `rb`.

## What could follow

1. `Federation` is checked for `EndToEnd` only. Its spoke keeps the invariant of
   `ProxyServerProofs` and its hub that of `LicenseAcquirerProofs` as far as each side's
   steps leave the other's state alone; the shared clock and fault budget are what a
   proof of the composition would have to add.
2. A refinement from `ProxyServer` to a `LicenseStore` that may lose its contents in a
   crash; within one process it is `Refinement` of the registry and `Remembers`.
