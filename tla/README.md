# roommate-csi: TLA+ specifications

roommate-csi is a CSI node plugin. It mounts one Kubernetes Secret or ConfigMap
as a small writable filesystem: each key is a file, `close(2)` and `fsync(2)`
write the file back with a JSON merge patch, a watch keeps a cache current, and
`flock(2)` is a cluster-wide lock kept in a `coordination.k8s.io` Lease. This
directory specifies that system, checks it with TLC on small instances, and
proves its safety properties with TLAPS for all instances.

Paths below are relative to the repository root, where the code is under `src/`.

## 1. The system

| Component | State | Operations |
|---|---|---|
| LeaseManager, `pkg/objectfs/lease.go` | `held`, `healthy`, what it last observed of the Lease and when, the renewal goroutine | `TryAcquire`, `Acquire`, `startRenewal`, `renewOnce`, `Release`, `Healthy` |
| Volume, `pkg/objectfs/volume.go` | counter of handles, `acquireMu` shared by its lease managers | `NewLease`, `Mount`, `ParseConfig` |
| handle, `pkg/objectfs/handle.go` | pinned buffer, `dirty`, `lease` | `Read`, `Write`, `Flush`, `Fsync`, `Release`, `Setlk(w)` |
| Cache, `pkg/objectfs/cache.go` | current Snapshot, when it was installed | `Set`, `setFromWatch`, `Fresh`, `MaybeFresh`, `Run`, `watchOnce` |
| Committer, `pkg/objectfs/commit.go` | none | `Commit`: fence, size check, patch, derived Snapshot |
| Root and File, `pkg/objectfs/fs.go` | none | `Lookup`, `Getattr`, `Open`, `Create`, `Unlink`, `Rename`, `Setattr` |
| SecretStore, ConfigMapStore, `pkg/objectfs/store_*.go` | the object at the API server | `Get`, `Patch`, `Watch`, `Decode` |
| NodeServer, `pkg/driver/node.go` | table of target locks | `NodePublishVolume`, `swapToken`, `NodeUnpublishVolume` |
| Pod tokens, `pkg/podtoken/token.go` | the token a mount's API calls carry | `Extract`, `PodIdentity`, the round tripper |
| Target lock, `pkg/driver/targetlock.go` | reference count, one-token channel | `lockTarget`, `unlockTarget` |
| Registry, `pkg/mounts/registry.go` | `live`, `records`, the state file | `Put`, `Get`, `WasPublished`, `Delete`, `Shutdown`, `persist` |
| DetachStale, `pkg/mounts/detach.go` | the kernel's mount table | `DetachStale` |
| main, `cmd/node/main.go` | none | start, SIGTERM |

How they interact. The kubelet calls publish about every 100 ms for every
target. The first call makes a Volume, which owns one Cache and its watch loop,
one Committer and one object store, and serves FUSE requests on them. `open`
makes a handle and pins a Snapshot of the cache in it. `flock` makes a fresh
LeaseManager, acquires, does a quorum read and pins that. `close` commits
through the Committer, which asks the handle's lease whether it is healthy
before it patches. A restart of the plugin loses everything except the state
file, the mounts (now dead), the object and the Lease.

What is hard to get right:

- *Time.* The Lease has no server-side expiry. Each waiter measures the
  duration on its own clock from when it saw the Lease change, and the holder
  renews every third of the duration, through an API that may be slow.
- *Interleavings.* API calls are made without locks held, and every answer is
  used some time after the server gave it: in the handle, the cache (three
  writers) and the lease manager (renewal against release).
- *Partial failure.* Unlock is commit, then release; publish is mount, then
  maps, then state file; unpublish is maps, then unmount, then state file. Any
  step may fail or be the last of the process.
- *Encodings.* A ConfigMap key is text or binary by its content, and must not be
  in both halves of the object; nil, empty and absent differ in one store and
  not in the other. The cache derives its own account of every write.
- *Limits.* Names, durations and sizes pass through several widths and are
  checked in one place and used in another.

`PROJECT.json` lists the hazards line by line with the properties that cover
each.

## 2. Modules

| Module | What it is |
|---|---|
| `Lease` | Lease protocol: the API server's Lease, the managers of several volumes |
| `ExpiringLock` | What the Lease promises, abstractly |
| `LeaseInv`, `LeaseProofs` | Inductive invariants of `Lease`; the theorems |
| `LeaseWait`, `WaitProofs` | `Lease` with a history variable for waiting times; the theorem that bounds them |
| `DataPath` | One key: object, caches, watch loops, handles, commits, flock |
| `PathInv`, `PathProofs` | Inductive invariants of `DataPath`, the conditions they need; the theorems |
| `ObjectStore` | Several mounts of one object: Snapshots, size check, merge patches and decoding of both kinds |
| `StoreProofs` | Theorems about `ObjectStore` |
| `Request` | What a publish request carries and how it is read: attributes, identity, token |
| `NodePlugin` | Publish, unpublish, tokens, target lock, registry, restarts |
| `PluginInv`, `PluginProofs` | Inductive invariants of `NodePlugin`, the conditions they need; the theorems |
| `MC*` | Instances for TLC |

Each `*Proofs` module extends its `*Inv` module, which extends the component's;
`WaitProofs` extends `LeaseWait` and `LeaseProofs`. The MC modules extend the
`*Inv` modules too, so that TLC can check an inductive invariant before it is
proved. `Lease` instantiates `ExpiringLock` as `Lock`. `DataPath` composes handle, cache, committer and
filesystem nodes, and takes from `Lease` only what is proved there: a healthy
manager is the owner. It takes from `ObjectStore` that the cache derives what
the server stores. `NodePlugin` extends `Request` and is independent of the
others: it decides which process serves a target, and with which token.

### Lease

A manager `m` is a volume and the handle's sequence number; `Identity(m)` is the
holder string `NewLease` builds. `pc[m]` follows the caller (Acquire, then
Release), `rpc[m]` the renewal goroutine; every API call is three steps
(request, applied or not at the server, answer) with anything in between.

| Code | Actions |
|---|---|
| `TryAcquire`/`Acquire` | `TryAcquire` (with `local.TryLock`), `AcquireGet`, `Claim` / `NotClaimable` (`claimable`), `ClaimApplied`, `ClaimConflict`, `AcquireFails`, `Interrupt` |
| `startRenewal`, `renewOnce` | `StartRenewal`, `RenewStart`, `RenewGet`, `RenewStamp`, `RenewApplied`, `RenewAck`, `RenewFails` |
| `Release` | `Release`, `ReleaseGet`, `ReleaseSend`, `ReleaseApplied`, `ReleaseNothing`, `ReleaseFails` |
| process death, publish after it, time | `Crash`, `Restart`, `Tick` |

`now` is true time and a node's wall clock is `now + Skew`, any integer. `Tick`
may not pass a timer that is due or a call older than `MaxLatency`: that is how
an upper bound on latency enters, and a theorem that does not need it does not
assume it. `wroteAt` is a ghost: when the server last applied a write.

A crashed volume may be published again (`Restart`). `NewVolume` starts its
counter at zero, so the new managers have the identities of the dead ones and
take a Lease that names them at once. Two assumptions are in the action: the
calls the dead process had sent have ended, and the restart takes at least one
tick, so that a new `renewTime` differs from the dead process's (the code writes
microseconds; starting a process takes longer).

### DataPath

File content is a number, a new one for each write, or none for no key. `log` is the
history of the key's value; its length is the object's resource version. Each
volume's loop is `LoopGet`, `LoopSet`, `WatchEvent`, `WatchStore`, `WatchEnds`;
`WatchEvent` and `WatchStore` are separate because `setFromWatch` compares and
then stores. Threads run system calls. Those on the path begin with `MaybeFresh`
(`OpenCached`, or `OpenStale`, `OpenGet` and `OpenFresh` or `OpenServesStale`)
and do with its answer what `Resolve` says: `Stat` (Lookup, Getattr, Readdir),
`Open`, `Create`, or `Modify`, a truncate without a handle or a rename, which
commits at once. `Unlink`, which looks at nothing, is also a rename onto this
key. On a handle there are `Write`, `SetlkBegin` to `SetlkPin` (setlk), `Flush`,
`Close` and `Unlock`, then `FencePasses` to `CommitClean` (Committer.Commit and
handle.commit) and `DropLease`, `ReleaseLease`, `Return` (unlock, RELEASE). Two
threads may share a handle, as after a fork or a dup; then both have a
descriptor of it from the open on, and the last to close sends RELEASE. `Edit` is
what else may write the object: `kubectl`, a controller, a mount outside the
model, or a patch that a client gave up as failed and the server applies later.

`Uses` says which calls applications make besides open, write and close, and
whether the object has other writers.
`Disciplined` says that they follow the README's recipe: they write, and commit
a file they created, only while holding the flock. `unsaved`, `flushed` and
`base` are ghosts: what was written and not yet patched, what the last close
answered, and the key's value when the handle's user last saw or set it.

### ObjectStore

`object` is the Secret or ConfigMap at the server, `cached[m]` the Snapshot of
mount `m`, which falls behind when another mount commits and catches up with
`Refresh`. A commit sets some keys and deletes others. `SecretPatch`,
`TextPatch` and `BinaryPatch` are the patches the stores build, `Merge` is the
server's RFC 7386 merge (external), `DecodeSecret` and `DecodeConfigMap` what a
read returns, `With` what the cache derives, and `CheckSize` the projection that
`checkSize` measures against `MaxObjectBytes`. A value is text, binary, empty
text, or Go's nil slice, because the four are encoded differently.

### Request

An object name is a length and whether its characters are legal; a numeric
attribute is a number, unset, or not a number. `Wrap` is Go's fixed-width
arithmetic. The largest `int64` and `int32` are constants, so that TLC can go
through every value of small types and the theorem covers the real ones.
`Lockable` is what has to be true of attributes for their Lease to work: a name
and a duration the API server accepts, the same duration for the holder and for
those who wait, and the one the pod asked for. `WithinLimits` are the two
conditions for that which `ParseConfig` does not check.

### NodePlugin

A handler `c` is at `pc[c]`; `mounts[t]` is the kernel's stack of mounts at a
target, each `served` or `dead`. `Publish` is the arrival of a request and its
first lookup; `Republish` is the rest of the fast path, with `SwapToken`;
`LockRef`, `LockTake`, `Recheck`, `Authorize`/`Refuse` (the checks of `Request`
and the first quorum read), `Detach`, `Mount`/`MountFails`, `Put`,
`Persist`/`PersistFails`, `Unlock`, `Unref` are the first publish; `Delete`,
`DeleteUnmount`, `DeleteSave` the unpublish; `ShutdownBegin`, `ShutdownUnmount`
and `Restart` the end of a process. The kubelet is external: `phase[t]` is what
it wants, `published[t]` whether it was once told OK, `minted[t]` the newest
token of the pod (`Mint`), and `Overlap` which calls it may send while another
still runs.

## 3. What the runs check

Runs that pass:

| Run | Configuration | Properties and what they show |
|---|---|---|
| `lease_safety` | `MCLease` | `FenceHolds`: a manager that passes the fence is the holder at the server. `MutualExclusion`: no two pass it. `ImplementsExpiringLock`: the holder changes only from none, to none, or after a whole duration without a write. |
| `lease_waiting` | `MCLeaseWait` | `ReclaimBound`: how long a waiter can stay asleep on a Lease nobody renews (the "up to ~2x leaseDurationSeconds" of `lease.go`). |
| `merge_patches` | `MCObjectStore` | `ConfigMapAccepted`: no sequence of operations puts a key in both halves. `OwnWritesAgree`: the Snapshot a commit derives is right about every key it wrote, renamed or deleted, and about those it was right about before, however stale it is otherwise; the one exception is a truncate to zero of a key the cache does not have, on a Secret. `OthersKept`: a commit changes no key it was not asked to. `SizeAgrees`: whatever keys a commit sets and deletes, the size check refuses what the server would refuse, and nothing else. |
| `locked_access` | `MCLocking` | `FreshUnderLock`: a lock holder's buffer is the object's current value for as long as it holds the lock. `CommitUnderLock`: every patch reaches the server under the lock it was buffered under. `NoLostUpdate`: what it replaces is a value its writer has seen. |
| `one_mount` | `MCLossless` | `NoSilentLoss`: a `close` that returned 0 left nothing unwritten, whatever patch or lease failed on the way. `NoLeakedLease`: no manager renews a Lease no handle will release. `CacheConverges`: whatever was installed out of order, the cache ends on the object's value. |
| `target_lock` | `MCNodePlugin` | `OnePublisher`: the reference-counted lock admits one handler per target. |
| `restarts` | `MCRestart` | `LiveIsMounted`, `NothingStranded`, `RepublishNeverFails`; `LockableExactly`: the lock of what is mounted works, except for the attributes beyond the two limits `ParseConfig` does not check, where it never does; and the liveness properties `Remounted`, a wanted target ends up served by exactly one mount, whatever earlier processes left, and `TokenConverges`, its calls end up using the newest token, whatever order republishes finish in. |

Runs that find a violation, each a disagreement between code and a comment or
the documentation:

- `shared_identity`: a pod that mounts the same object through two volumes has
  two handle counters, so two handles share the identity `<uid>:1` and both hold
  the lock. `volume.go` says the identity "must be unique per holder".
- `write_during_commit`: a write between a flush's copy of the buffer and its
  `dirty = false` is never patched, and `close` returns 0.
- `create_replaces`: a handle from `Create` is dirty, and `flock` does not pin its
  quorum read into a dirty handle. Two mounts that create the same key and take
  the lock before they commit overwrite each other unread, where the README
  promises that the read after `flock` is fresh.
- `failed_unmount`: after a failed unmount the registry has already forgotten
  the target (as a test asks of it); the retried unpublish succeeds and the
  mount stays.
- `unlockable_mount` (`MCLongName`): a valid object name that leaves no room for
  the prefix of the default `leaseName`, which `volume.go` calls "guaranteed
  valid", is mounted, and its Lease has a name the API server refuses.

Further configurations reproduce where a property ends, and are to be read with
the hazard they belong to. They are not among the runs of `PROJECT.json`: each
is started by hand (`tlc -config MCRename.cfg MCDataPath`), and TLC reports a
violation for each:

| Configuration | Property | Situation |
|---|---|---|
| `MCLeaseSlow` | `FenceHolds` | a renewal round slower than the duration: the API calls have no deadline |
| `MCLeaseRelease` | `ReleaseFrees` | a renewal already sent makes Release's update conflict; the Lease expires instead |
| `MCSecretStoreVanish` | `OwnWritesExact` | truncate to zero of a key deleted meanwhile |
| `MCUnlockFails` | `CommitUnderLock` | unlock gives up the Lease although its commit failed; the retry is unfenced |
| `MCFenceRace` | `CommitUnderLock` | the Lease is lost between fence and patch |
| `MCRename` | `NoLostUpdate` | a rename or truncate under the lock starts from the cache, not from a quorum read |
| `MCLockRead` | `LockReadKept` | the watch loop's older quorum read is installed over the lock's; the next open is served it, the lock's own handle is not affected |
| `MCOwnWrites` | `OwnWritesVisible` | an older quorum read replaces the derived Snapshot for a while |
| `MCLeak` | `NoLeakedLease` | two `flock` calls on one handle, the first Lease lost in between |
| `MCPersistFails` | `LiveIsMounted` | the state file cannot be written: live entry, no mount |
| `MCUnpublishRace` | `NothingStranded` | unpublish overlaps a publish; it takes no target lock |
| `MCUnpublishCrash` | `NothingStranded` | with two targets: record dropped and saved, then a crash before the unmount |
| `MCEarlyAnswer` | `RepublishNeverFails` | fast path answers between the maps and the state file, then a crash |
| `MCLongLease` | `MountedIsLockable` | a `leaseDurationSeconds` beyond int32: it parses, and wraps |

### Bounds

- `MCLease`: two volumes with one handle each are the least that can exclude
  each other; duration 4, interval 1, latency 1 is the tightest instance the
  timing assumption admits, and time 6 lets one Lease be taken, expire and be
  taken over. The clocks are 6 apart, more than the duration. One volume tries
  the lock without blocking and may come back after a crash; the other, whose
  clock is ahead, blocks and waits. The theorems cover the rest.
- `MCLeaseWait`: two handles of one volume, because `acquireMu` is shared; time
  9 covers acquire, death, and the whole waiting bound of a duration of 3.
- `MCObjectStore`: two mounts, so that a cache falls behind; two keys, as a
  rename needs; each value class once, with lengths 0, 1 and 2 and a limit of 3,
  so that a write may just fit and just not; every initial object.
- `MCLocking`: two mounts, two writes, three versions: the second holder must see
  the first one's write and may replace it, and the first may come back. The two
  mounts are interchangeable (`Exchange`).
- `MCLossless`: one mount, one application and other writers, two writes and
  three versions. A failed, a retried and a lost-answer commit can happen to one
  handle. With three versions each installer of a Snapshot can be late: a quorum
  read of the loop, of an open or of a lock, and the watch event that was compared
  before, can be stored when the object has moved on, and so can the Snapshot a
  commit derives when another writer has come after its patch.
- `MCNodePlugin`: three handlers are needed for a lock to be removed, re-created
  and waited for at once. `MCRestart`: three restarts, so that a
  restart meets what a restart left; two tokens and two overlapping republishes,
  so that one may be installed over the other; 25 sets of attributes, each limit
  from both sides, those that are not checked included, and 5 token payloads. The largest integers are 127
  (`MaxInt64`) and 15 (`MaxInt32`) and a second is 4 nanoseconds, so that the same
  overflows happen at small numbers. `MCLongName` has every length of a name.

State spaces that stop at a bound (`MaxTime` in `Lease`, and nothing to do after
the last release) are why the lease runs do not check for deadlock. All other
runs do.

### Fairness

`DataPath`'s `Fairness` says that calls under way go on, watches deliver, time
passes, and, strongly, that consumers look the file up again while it is stale
and such a refresh does not fail every time. The last is needed: after a
quorum read was installed late, only the staleness bound (`MaybeFresh`) repairs
the cache. The code gives the first three by its goroutines and client-go's
watch; the last two are the environment's part.

`NodePlugin`'s `Fairness` says that handlers run on, the kubelet republishes a
wanted target with a usable token (`requiresRepublish` and `tokenRequests` in
the CSIDriver object), a shutdown that has
begun ends the process, a handler gets the lock's token if it is free again and
again (Go channels are first in, first out), and neither the API server nor the
mount call fails every time.

`Lease` has no fairness: `ReclaimBound` states progress as a bound on the clock.

## 4. What is proved

Every safety invariant and action property that a passing run checks is also a
theorem. Assumptions on the constants, evaluated by TLC on every run:
`LeaseAssumption` (durations of at least three ticks, so that the interval is
positive), `IdentityAssumption` (an identity is not the empty holder),
`StoreAssumption` (the value classes are disjoint), `PathAssumption` (each handle
belongs to a volume and has a thread that uses it), `RequestAssumption` (the
largest `int32` of seconds fits a `time.Duration`, and so does the default
duration) and `PluginAssumption` (finitely many calls at a time). The rest of
them says what type a constant has and that `None` is none of the values.

Other conditions are hypotheses of the theorems that need them, because the code
does not guarantee them. For each there is a configuration that shows the
property fail without it:

| Hypothesis | Says | Without it |
|---|---|---|
| `PodsDistinct` | each pod mounts the object through one volume | `MCLeaseShared` |
| `Timely` | `Interval + 3 * MaxLatency <= Duration`: a renewal round with its sleep and its calls fits in the duration | `MCLeaseSlow` |
| `OneUser` | no two threads share an open file description | `MCSharedWrites`, `MCLeak` |
| `Cooperative` | `OneUser`, writers hold the flock, the server neither refuses a patch nor lets a renewed Lease expire, no call but `create` writes behind the handle's back, and the object has no other writers | `MCUnlockFails`, `MCFenceRace`, `MCRename` |
| `Existing` | `Cooperative`, and nobody creates the file | `MCCreate` |
| `Serial` | the state file can be written, and an unpublish does not overlap another call on its target | `MCPersistFails` |
| `Sequential` | the state file can be written, and only republishes overlap | `MCEarlyAnswer` |
| `Contained` | `Sequential`, umount does not fail, and the process is not restarted or has one target | `MCUnmountFails`, `MCUnpublishRace`, `MCUnpublishCrash` |

| Theorem | Hypotheses |
|---|---|
| `TypeCorrect`, `StoreTypeCorrect`, `PathTypeCorrect`, `TypeCorrect`: `TypeOK` of `Lease`, `ObjectStore`, `DataPath`, `NodePlugin` | none |
| `SafeCorrect`: `SafeInv` | `PodsDistinct` |
| `RefinesLock`: `ImplementsExpiringLock` | `PodsDistinct` |
| `FenceCorrect`: `FenceHolds` | `PodsDistinct`, `Timely` |
| `ExclusionCorrect`: `MutualExclusion` | `PodsDistinct`, `Timely` |
| `WaitIsBounded`: `ReclaimBound` | `PodsDistinct` |
| `ConfigMapAlwaysAccepted`: `ConfigMapAccepted` | none |
| `OwnWritesAlwaysAgree`, `OthersAlwaysKept`, `SizeAlwaysAgrees`: the properties of those names | none |
| `OwnWritesExactIfKept`: `OwnWritesExact` | no key vanishes under a truncate |
| `LeaseNeverLeaks`: `NoLeakedLease` | `OneUser` |
| `CloseNeverLoses`: `NoSilentLoss` | `OneUser` |
| `LockedReadIsFresh`: `FreshUnderLock` | `Cooperative` |
| `CommitBeforeRelease`: `CommitUnderLock` | `Cooperative` |
| `UpdatesNeverLost`: `NoLostUpdate` | `Existing` |
| `Exclusion`: `OnePublisher` | none |
| `Served`: `LiveIsMounted` | `Serial` |
| `RepublishSilent`: `RepublishNeverFails` | `Sequential` |
| `Stranded`: `NothingStranded` | `Contained` |
| `MountedLockable`: `LockableExactly` | none |

They hold for any number of volumes, handles, mounts, threads, calls and targets,
any skew, any crashes and restarts, any keys and values, and any bounds.

The argument for the lock. `FenceHolds` is not inductive; it needs to know why
nobody else could have taken the Lease. `SafeInv` collects that, without any
timing assumption:

- `Phases`: which goroutine of a manager can be where;
- `Clocks`: no timer or call is overdue beyond what `Tick` allows;
- `Copies`: a copy read earlier with the current version *is* the Lease, and a
  claim under way on a current version is one the lock allows (free, own, or
  a whole duration without a write);
- `Stamps`: the pair (holder, renewTime) a manager is about to write has never
  been seen by anyone. Without it a waiter could take a fresh renewal for the
  old one and measure expiry from too early; it is where the skewed
  `renewTime` is harmless, because it is only compared for equality. It is also
  where a restart matters: a new manager with a dead one's identity may not
  write a pair the dead one has written, which the tick in `Restart` ensures;
- `Observations`: an observation of the pair now on the Lease is no older than
  the write that put it there.

From `SafeInv` every write at the server is a step of `ExpiringLock`
(`RefinesLock`). `FenceInv` adds timing: a healthy manager's last write is
recent, at most an interval and two or three latencies ago, depending on where its
renewal stands. With `Timely` that is within the duration, so by `Copies` no
claim of another can be applied. `Clocks` bounds each phase of the round, and
`MutualExclusion` follows from uniqueness of identities.

The argument for the store. `StoreInv` says that types hold and that the halves
of the ConfigMap are disjoint; a stale cache satisfies nothing more. One lemma
(`PatchedDecodes`) shows, key by key and kind by kind, that merging a patch and
then decoding is `With` after decoding, except where a Secret's nil becomes an
absent key. `OwnWritesAgree` and `OthersKept` follow from it for the keys in and
outside the commit, and `SizeAgrees` because the two maps have the same lengths
at every key, whatever is set and deleted, so that no fact about sums is needed.

The argument for the waiting bound. `ReclaimBound` speaks of a waiter asleep, but
whether it has seen the Lease as it stands was decided rounds ago. `WaitInv` says
of every waiter that it is `Due`: either its next look comes within a round of
its first attempt or of the last write, or it has seen the present holder in time
and looks again an interval after the duration it measures is over. A waiter that
has a copy in hand is due only if the copy is current; if not, a write overtook
it during this attempt, and the bound starts again from that write.

The argument for the data path. Its invariants speak of one thread and the handle
it uses (`OneUser` makes that one handle each), and most steps leave that handle
alone: for each invariant a lemma (`...Still`) says that it survives such a
step, and only the thread's own step remains to be looked at. `LeakInv` says
where a call stands and who owns the manager meanwhile: the call up to the pin,
then the handle, until `DropLease`. `LossInv` adds that what is unsaved is the
dirty buffer and that the commit under way is writing it, so that a `close` may
answer 0. `LockedInv` adds the lock: a manager that runs is healthy and on the
Lease, a commit runs under the handle's own lease and writes the buffer as it
stands, and a clean locked handle has the latest value; two handles cannot both
be in that position because the Lease has one owner. That the cache appears
nowhere in it is the point: whatever order its three writers run in, the lock's
read does not pass through it. `SeenInv` adds that a locked handle's user has
seen the latest value, which a created file breaks.

The argument for the target lock. A lock leaves the table when its count reaches
zero, so exclusion rests on the count: `LockInv` says that it is the cardinality
of the set of handlers that refer to the lock (`Counted`), that the table maps a
target to the lock its handlers refer to (`Table`), and that whoever is past
`lockTarget` has its token (`Token`).

The argument for the registry. `MountInv` adds to it that a target being
published is not live and not drained by a shutdown, that one being unpublished
is in nobody else's hands, and that the mount stack has at most one entry, the
one the handler counts on. `RecordInv` says that the state file lags the records
only under a `Put` that is not done, and that OK is answered, and promised to a
republish, only for what a restart will find recorded. `StrandedInv` joins the
two: a mount the kubelet knows of is recorded or being removed at this moment.
`Accepted` says that what is mounted passed `Acceptable`. Lemmas about `Wrap`
show the rest of `LockableExactly`: within the limits no product or conversion
wraps, and beyond them the field, which no wrap takes above the largest `int32`,
cannot hold what was asked.

Only model-checked are the liveness properties `CacheConverges`, `Remounted` and
`TokenConverges`. Liveness under fairness and `ENABLED` are outside what the
proof system's installed backends can do; so is induction over data, and no
module with a theorem uses a `RECURSIVE` operator.

## 5. Not modelled

- `ValidKey`, `hashKey`, modes, inode numbers, attributes: no state.
- `ClientFor`, `clearCredentials`, mount options: fields set once. That the
  kernel may decline `ATOMIC_O_TRUNC` is covered by `Modify`.
- Two keys at once with their interleavings: `ObjectStore` has several keys with
  atomic commits, `DataPath` one key with every step apart.
- A Create or Update of the Lease that a client gave up and the server applies
  later. The version it carries is current only if nothing was written since, so
  it changes nothing that the lock would not have allowed then; the manager does
  not take itself for the holder, and the Lease expires. (An abandoned patch of
  the object, which carries no version, is `Edit`.)
- Deletion of the object or the Lease by somebody else, and watch events of a
  deletion: the cache ignores them and its loop reconnects.
- Times of the token's expiry: `TokenConverges` says which token is used, not
  when the API server stops accepting one.
- Backoff between reconnects, logging, error texts, the identity service, the
  gRPC server, manifests and scripts.

## 6. Plan

Done, in this order, the most important behaviour first: the lock and its proof,
with crashes and restarts; the encodings, sizes and stale caches of several
mounts, and their proof; the data path with every call on the path and on the
handle; publish, attributes, tokens and restarts; then proofs of the safety
properties of the waiting bound, the data path and the node plugin.

Next:

1. `DataPath` takes a lock that a healthy manager owns from what `Lease` proves;
   state that lock as a specification of its own, show that both use the same
   one, and prove the step from `Lease` to it.
2. Weaker conditions for the data path: `CommitUnderLock` when patches may fail
   but an application stops at the first error, `NoSilentLoss` for shared
   descriptions whose threads do not write during a flush.
3. The safety half of `CacheConverges`: a cache that is not the object's value is
   stale, behind an event, or about to be set.
4. Deletion of the Lease object under a holder and under a waiter.
