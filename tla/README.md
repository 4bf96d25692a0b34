# DynaStub: TLA+ models and proofs

DynaStub is a Kubernetes operator that replaces commands inside pods. A
`BehaviorStub` object selects pods and lists behaviors (a target command and a
script). A webhook injects a sidecar into selected pods, the sidecar copies the
scripts into a directory that comes first in the PATH of the business
containers, and a controller reports how many pods are injected. This directory
holds models of those parts, TLC configurations that check them on small
instances, and TLAPS proofs for instances of any size.

## The system

| Part | State | Operations | What makes it correct |
|---|---|---|---|
| Sidecar, `cmd/sidecar/main.go` | shared emptyDir, `.tmp` files, `behaviors`, watch, ready marker | first sync, fallback copy, atomic copy, watch loop, polling, cleanup | commands change atomically, to executable copies that are never older, and whole unless the script is rewritten in place; no stub change is lost; edits arrive; litter is bounded |
| Controller, `internal/controller` | work queue, caches, status of the stubs | `Reconcile`, status update with retry, requeue after 5 s | no stub is forgotten; the status becomes right; every stub keeps being written to; deleted stubs drain |
| Webhook, `internal/webhook` | cache of stubs, admissions in flight | `Handle`, `findMatchingBehaviorStub`, `injectSidecar` | injection is whole, deserved, and not missed; what counts as injected is served |
| Certificates, `internal/certgen`, `runCertGenMode`, `cmd/main.go` | Secret, CA bundle, mounted and served certificate | generate, write Secret, write webhook configuration, reload | the API server trusts what the manager serves |
| API types, `api/v1` | objects in the manager's memory | deep copies, `updateStatus` | nobody sees another's edits; no condition is lost |
| `internal/sidecar` (FileWatcher, ScriptCopier; called by no program at present) | recorded modification times, output directory | `sync` at every tick, `CopyAll` | no edit is overlooked; all is copied or an error returned |
| `build/kube-webhook-certgen` | | | copy of a third-party tool |
| charts, config, build scripts, tests | | | declarative or pure I/O |

How they interact: the webhook reads stubs from an informer cache and shapes
the pod; the pod's sidecar reads and watches its stub at the API server. The
controller writes the stub's status every five seconds, and since a status write
is a Modified event for every watch, **the sidecars' hot reload runs on the
controller's heartbeat**: in watch mode nothing else makes a sidecar look at its
scripts. The webhook is reachable only while Secret, mounted certificate and CA
bundle agree.

What is hard: the sidecar races with users who edit scripts and stub (in place,
too), with the end of its watch, and with its own crashes in the middle of a
copy; the controller works from stale caches with optimistic concurrency; the
webhook is called for creations and updates and skipped when it is down;
certificates are rotated by two writes without a transaction; during a rolling
update two managers run at once, since leader election is off by default; the
polling copy decides by modification times it has read earlier. `PROJECT.json`
lists these hazards at their lines.

## Modules

| Module | Content |
|---|---|
| `StubPaths` | the path arithmetic of the sidecar: base name, stripped extension |
| `StubDir` | abstract: the shared directory as business containers may rely on it |
| `Sidecar` | the sidecar with user, API server, controller heartbeat and kubelet around it; refines `StubDir` |
| `Reconciler` | the controller with API server, caches, work queue and restarts |
| `PodWebhook` | the webhook with API server admission and validation, cache and users |
| `CertGen` | runs of certgen, and the manager that serves the result |
| `FileWatcher` | the polling copy of `internal/sidecar`; refines `StubDir` |
| `StubObjects` | BehaviorStubs in the memory that cache, reconciler and webhook share |
| `MCSidecar`, `MCReconciler`, `MCPodWebhook`, `MCFileWatcher`, `MCStubObjects` | instances for TLC |
| `SidecarProofs`, `ReconcilerProofs`, `PodWebhookProofs`, `CertGenProofs`, `FileWatcherProofs`, `StubObjectsProofs` | theorems |

Operators whose comment begins with "Mutant" are plausible bugs; each one is
paired in `PROJECT.json` with the property that detects it when it replaces the
original.

### Sidecar

One action per system call that others can observe. `GetBehaviorStub` or
`GetFails` starts a sync and fixes its `plan` (one job per behavior, or one per
file for the fallback); every job goes through `OpenAndCreate`, `CopyContent`,
`Chmod`, `Rename`, or ends in `OpenFails` or `CopyFails`. `result` is what the
sync reports: `ok`, `partial` (some jobs failed; the code only logs it),
`fallback`, `error`, `cleaned`. File contents are version numbers; a file
`has` "whole" unless a rewrite in place tore the read, and "exec" after chmod. A
leftover temporary file keeps its mode, as `os.Create` does. The scripts in
`InPlace` are edited where they are: `WriteScript` begins such a rewrite and
`EndRewrite` ends it, each with a new version, and whatever is read of the script
in between, or across either, may be torn; an edit of another script replaces the
file, and an open file keeps its version. `CopyFails` removes the temporary file
or fails to: the code ignores the result of `os.Remove`, and the fault that made
the copy fail may make the removal fail as well. `unremoved` counts those.
`ReceiveFromClosed` is the loop on a closed channel. `os.RemoveAll` on the mount
point removes the entries and cannot remove the directory; that error is only
logged and is not told apart from success. Scripts of a stub are addressed below
the script volume; file names are sequences of their dot-separated parts, so
that `filepath.Ext` is modelled and not assumed away.

### Reconciler

The cache is behind exactly for the stubs in `stale`; reading for the update
yields a `current` or an `outdated` copy, and an update with an outdated copy is
a conflict. Of the Ready condition the model keeps the generation it names
(`observed`: the selector of that generation), of the timestamp whether it is the
present second (`fresh`): a write that changes neither is no new resource version
and no event. Pod events change the cache and enqueue nothing (`Owns` finds no
owner). `OtherManager` is the write of a second manager, from pods and a selector
it has seen at some time; `scripts/entrypoint.sh` starts the manager with
`--leader-elect=false`. `Restart` loses queue, timers and the update in progress,
and comes back with filled caches and every existing stub in the queue.

### PodWebhook

A pod object keeps what injection touches: counts of the `dynastub-shared`
volume and of mounts, the stubs behind `dynastub-scripts` and
`dynastub-sidecar`, and the PATH entries of every container as sequences of
directories. Of several PATH variables a container gets the last one, and
`Whole` judges that one; `injectSidecar` extends the first (see the divergences
below). `Handle` picks any cached stub that matches, because the cache
lists in no fixed order. The API server validates what comes back (unique names,
one source per variable, immutable spec). An error answer denies the request; a
failed call under `Ignore` lets it pass. `asked` (the manifest of a stored pod)
and `granted` (which stub has selected which labels) are history variables for
the properties. `IsPodInjected` is the controller's test; `CountedIsServed` joins
the two components: it says when a pod counted for a stub is served by it. Its
conditions are necessary: with a second stub for the same labels, or a manifest
with a container of the sidecar's name, the count and the service differ.

### CertGen

Run `r` writes certificates called `r`: always new ones, so the holder of the
Secret is also its version, and an update conflicts iff the holder is not the one
read. `overlapped` is a history variable: runs that were not alone. Two runs
overlap when a Job is replaced while its pod still runs.

### FileWatcher

The loop of `sync` visits `todo` in the order of `Rank`; `Stat`, `Open`,
`CopyContent` (with close and chmod, between which nothing can be observed) and
`Rename` are separate steps, so that edits fall between them. `Rename` includes
the recording of the time read by `Stat`. `CopyAll` runs the same steps without
`Stat` (`stat = Absent`) and ends at the first error. A link to a directory passes
`IsDir` and `Stat` and fails in `io.Copy`. A version stands for contents and
modification time: a rewrite in place takes two versions, one at its beginning
and one at its end, and a copy made meanwhile may be torn. `CopyFails` may leave
the temporary file, as in `Sidecar`. `NamesAssumption` says that no entry is called
like another with `.tmp` behind it: with `ls` and `ls.tmp` in the source directory
the temporary file of the one would be the copy of the other
(`copier.go:38`).

### StubObjects

`heap` holds, per reference field, the values at four addresses; an object is a
record of addresses and scalars. `DeepCopy` gives every non-nil field a new
address. `SetCondition` writes to the slice it has where a Ready condition
exists, and otherwise makes a new one, as `append` does with a slice of full
capacity. Other writers of the status replace or append a condition of their own
type in the same way. Memory nobody refers to is cleared, as by the garbage collector, so
that equal situations are equal states.

## Runs

Passing runs (bounds in the `.cfg` files):

| Run | Shows |
|---|---|
| `sidecar_safety` | `TypeOK`; `ImplementsStubDir`; `SyncedServed`; `NoMissedUpdate`; `TmpLeakBounded`. Two scripts, one in a subdirectory; three stubs, one naming `ls` twice, as `ls` and `ls.sh`; two edits (a whole rewrite in place is two), one fault, one crash; edits replace the one script and rewrite the other in place, so that `StubDir` demands whole copies of the first and allows torn ones of the second |
| `sidecar_live` | `HotReload` and `EventuallyReady`, with heartbeats |
| `reconciler` | `TypeOK`, `NeverForgotten`, `StatusConverges`, `DeletedDrains`, `HeartbeatGoesOn`: two stubs, two pods (none at first, or one with and one without a sidecar), two selectors and a bad one, two changes, two of faults, restarts and writes of another manager |
| `webhook` | `TypeOK`, `InjectedWhole`, `OthersUntouched`, `InjectedIfReachable`, `CountedIsServed`: two pods (symmetric), two stubs, five kinds of manifest, among them one with a container that sets PATH twice and its dump after an injection, two changes of stubs, three requests, one fault |
| `certgen` | `TypeOK`, `SuccessAgrees`, `RotationSettles`: four runs, two at a time, two faults |
| `filewatcher` | `TypeOK`, `RecordedIsServed`, `CopyAllComplete`, `ImplementsStubDir`, `EventuallyServed`: two files, one of which may be rewritten in place, and a link to a directory listed between them, two edits, one fault, one crash |
| `stubobjects` | `TypeOK`, `OneOfEachType`, `OnlyOwnersWrite`, `OthersConditionsKept`: three owners, two specs and two times (symmetric), three writes to the object |

Runs that end in a violation, each a disagreement between a document or comment
and the code (`findings` in `PROJECT.json` quotes both):

| Run | The text says | The code |
|---|---|---|
| `sidecar_start_order` | scripts are there when the business container starts | no startup probe: it may start before the first copy |
| `sidecar_watch_loss` | a failing watch falls back to polling | only a watch that cannot be opened does |
| `sidecar_delete` | deletion of the stub cleans up | not if it falls between the first sync and the watch |
| `webhook_update` | the webhook handles creations | updates are injected too, for the first time or again, and rejected |
| `status_generation` | `observedGeneration` is the generation the condition was set upon | pods counted for one generation are reported under the next |

Further divergences have no run:

* `docs/architecture.md:289`: the sidecar checks modification times every 5 s. In
  watch mode it looks at no file and reacts to events only; hot reload works
  because the controller rewrites the status every 5 s.
* `docs/architecture.md:357`: exactly the configured behaviors are copied.
  `SyncAllScripts` only adds and replaces; a removed behavior stays hijacked.
* `README.md:428`: `/dynastub/bin` is put in front of PATH. A container without a
  PATH in its pod spec gets a fixed list (`pod_webhook.go:218`) and loses the
  other directories of its image's PATH.
* `README.md:411` and `README.md:428`: PATH gets `/dynastub/bin` in front, so the
  container finds the scripts first. In a container that sets PATH twice the
  first entry is extended (`pod_webhook.go:220-231` stops at it) and the last one
  is in effect: the pod has sidecar, volumes and mounts, and the hijack does
  nothing there. `Whole` exempts these containers from what it says about PATH,
  and from nothing else.
* The phase `Partial` (`behavior_stub_controller.go:82`) is not among the phases
  that `behavior_stub_types.go:73` documents.
* The webhook's marker says `failurePolicy=fail` (`pod_webhook.go:28`); certgen
  registers it with `Ignore` (`certgen.go:191`).
* A command such as `python3.9` is published as `python3`, since the extension is
  stripped (`main.go:384`); `docs/architecture.md:228` speaks of the last part of
  `targetPath`.

### Bounds and assumptions

`MaxEdits`, `MaxChanges`, `MaxRequests`, `MaxRuns`: how often the environment
acts. Two edits suffice for delete-and-recreate, edit-during-copy,
edit-then-remove and a complete rewrite in place. In `reconciler` the pods may
exist at first (`StartPods`), so two changes are a stub and an edit of it, its deletion, a second stub, or a pod
that comes or goes. `MaxFaults`
and `MaxCrashes` count failing calls and process exits; one of each, at any point,
shows every error path, and the leftover of a crash being reused. `MaxEvents` bounds
undelivered watch events; in `sidecar_safety` it is never reached by users (a
watch starts with one event and two edits follow), in `sidecar_live` it is 1, so
there a further event waits for the first to be received. `MaxAttempts` is the
3 of the code. `MaxWrites` bounds the resource version in `stubobjects`: three
writes are a first status, one that meets it, and another writer.

`ManifestsAssumption` says which pods users write: such that know nothing of the
injection (a container of the sidecar's name is allowed, a volume, mount or PATH
directory of the operator's is not), or the dump of a pod that was injected. A
manifest that brings half of the injection is outside of it; `injectSidecar`
would complete it twice. `PathsAssumption`: the fixed PATH of
`pod_webhook.go:218` does not contain `/dynastub/bin`.

`FileWatcher` assumes that every write of a file changes its modification time;
with a coarse clock or tools that preserve times, changes can be overlooked
(`getFileHash` compares times only). All runs set `CHECK_DEADLOCK FALSE`: when
nobody acts, all parts rightly rest.

### Fairness

`Sidecar`: weak fairness of `SidecarStep` (the kubelet restarts the container,
the single goroutine goes on while it has work) and of `StatusHeartbeat` (the
controller requeues every stub after 5 s; that it keeps writing is checked of
`Reconciler`, as `HeartbeatGoesOn`). `HotReload` assumes that the watch does not stay
closed, which the code does not repair (`sidecar_watch_loss`). `Reconciler`:
worker, informers, timers, and seconds that pass. `FileWatcher`: the ticker and
the goroutine. A rewrite in place that never ends is excluded from `HotReload` and
`EventuallyServed`.
`CertGen`: a started run goes on, the kubelet and the certificate watcher come
round, the manager is restarted. Users, faults, crashes and the start of certgen
runs have no fairness.

## Proofs

All theorems hold for every value of the constants that satisfies the named
assumptions: distinct names and sentinels, natural bounds, the shape of the
inputs (`NamesAssumption` of `Sidecar`: no command is called `*.tmp` and none is
empty; `NamesAssumption` of `FileWatcher`, above; `ManifestsAssumption` and `PathsAssumption` of `PodWebhook`, above;
`TypesAssumption` of `StubObjects`: the controller's condition type is its own).
TLC evaluates each of them on the instances it checks. Every safety property of a
passing run, invariant, action property or refinement, has its theorem.

* `SidecarProofs!TypeCorrect`. Stronger than types: a copy in progress is
  `plan[next]` and its temporary file exists; every later proof starts from it.
* `SidecarProofs!SidecarImplementsStubDir`. Needs `VersionsExist` (copies are of
  versions the script had) and `CopyInProgress` (the temporary file of the
  running job is complete as far as the program counter says, and as far as its
  script is not rewritten in place, from the right script, and not older than the
  copy it will replace). With them `Rename` is a
  `Publish`, an unlink of cleanup is a `Withdraw`, user edits map to user
  edits, and everything else stutters.
* `SidecarProofs!UpdatesNotMissed`. By `DeletionsSuperseded` (a stub that exists
  has a sync event after every queued deletion), `StubFollowed` (without a queued
  sync event, a Get is next or the last one saw the present stub) and
  `WatchInLoop`.
* `SidecarProofs!SyncedIsServed`. By `JobsDone`, an invariant of the loop: while
  no job has failed, each finished job that no later one overwrote is served.
* `SidecarProofs!TmpLeakIsBounded`. Counting: only a process exit and a failing
  `os.Remove` turn the temporary file in progress into a stale one, and each step
  adds one to the bound; a copy to the name of a leftover takes it over.
* `ReconcilerProofs!TypeCorrect`, `ReconcilerProofs!StubsNeverForgotten`. The
  latter needs `CacheRight`: where the cache is not behind, it has the API
  server's stub, so "not found" never drops an existing one.
* `PodWebhookProofs!TypeCorrect`. What is stored is a well-formed pod; a request in
  flight is the creation of a pod that does not exist or the update of one that
  does.
* `PodWebhookProofs!InjectionIsWhole`, `OthersAreUntouched`, `CountedAreServed`. None
  of the three is inductive: each says what a pod looks like and not how it came
  about. `OriginInv` does: a stored pod is the manifest it was created from, or
  that manifest injected once by a stub that has been granted its labels, up to
  later changes of labels (`CameFrom`); a request just received is still what its
  user sent. The key lemma is that `InjectSidecar` of a manifest without a
  sidecar is `Whole` (the entry it extends is the one in effect, when there is only
  one), and of one with a sidecar is not valid, so that the API
  server rejects what the webhook injects a second time.
* `PodWebhookProofs!SelectedAreInjected`. By `ReachInv`: before the first change of
  a stub the cache is up to date, and before the first fault what has been
  reviewed has its sidecar.
* `FileWatcherProofs!TypeCorrect`. The entry of the loop exists because a non-empty
  set of ranks has a least element.
* `FileWatcherProofs!ChangeDetectionSound`, `CopyAllIsComplete`. By `CopyInv`:
  nothing recorded is newer than the file (`NothingNewer`); the copy in progress
  is of a version between the one `Stat` saw and the present one
  (`CopyInProgress`), and the whole present file if the time has not changed since
  (`CopyFinished`). This is why the time must be read before the copy and
  recorded after it: with the time of the rename the proof fails where it should.
* `FileWatcherProofs!WatcherImplementsStubDir`. From the same invariant: `Rename`
  is a `Publish`, edits of users are edits of users, the rest stutters.
* `StubObjectsProofs!TypeCorrect`, `NobodySharesMemory`. By `Separate`, that no two
  objects refer to the same address: a deep copy allocates, new memory is free
  (three owners, four addresses), and hence a write in place or to new memory is
  seen by its owner only. `TimeSet` (the time is set before the condition that
  carries it) completes the types.
* `StubObjectsProofs!ConditionsAreDistinct`. Of the server's list and of every
  object's, since one becomes the other (`AllDistinct`).
* `StubObjectsProofs!NoConditionIsLost`. By `UpToDate`: an object of the server's
  version has every condition of others the server has, also after the
  reconciler's edit; any write leaves all objects behind the new version, so what
  could lose a condition is a conflict.
* `CertGenProofs!TypeCorrect`, `CertGenProofs!SuccessfulRunsAgree`. By
  `AloneWhileActive` and `SecretTakenOver`.

Each inductive invariant was checked by TLC on the run's instance before it was
proved.

Only model-checked are the liveness properties, which need fairness and are out
of the prover's reach: `HotReload`, `EventuallyReady`, `StatusConverges`,
`DeletedDrains`, `HeartbeatGoesOn`, `RotationSettles`, `EventuallyServed`.

## Not modelled

Logging, flags, metrics, health checks and how leaders are elected; cryptography;
functions without callers outside `internal/sidecar` (`GetBehaviorStubByPod`,
`CertExistsAndValid`, `ReadCaCertFromSecret`, `DeleteWebhookConfiguration`,
`SetupWebhookWithManager`, copies of lists); the third-party
`kube-webhook-certgen`; charts, scripts and tests.

## Plan

1. Done: the modules and runs above, and a theorem for every safety property they
   check.
2. Next: theorems that join components, such as the correctness of
   `InjectSidecar` as the controller counts it for several stubs, and safety
   lemmas that the liveness properties rest on (what is enabled while a stub is
   waiting).
