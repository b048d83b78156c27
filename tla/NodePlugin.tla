----------------------------- MODULE NodePlugin -----------------------------
(***************************************************************************)
(* One node's CSI plugin: NodePublishVolume and NodeUnpublishVolume        *)
(* (driver/node.go) with the per-target lock (driver/targetlock.go), the   *)
(* Registry of published targets and its state file (mounts/registry.go),  *)
(* DetachStale (mounts/detach.go), and restarts of the plugin, graceful    *)
(* (main.go) and not.                                                      *)
(*                                                                         *)
(* The kubelet is external: it publishes a target for as long as a pod     *)
(* wants it, retrying calls that still run, and unpublishes it afterwards  *)
(* until that succeeds.  A target's mounts are a stack, top first; one is  *)
(* "served" while the process that made it runs and "dead" afterwards.     *)
(* A pod's volume attributes stay as they are for its lifetime; its tokens *)
(* are numbered in the order the kubelet mints them.                       *)
(***************************************************************************)
EXTENDS Request, Sequences

CONSTANTS
    Target,          \* target paths
    Call,            \* handlers that may run at the same time
    Overlap,         \* the calls that may meet another still running
    Attributes,      \* volume attributes that pods may have
    Payloads,        \* token payloads that requests may carry
    PersistMayFail,  \* TRUE: writing the state file may fail
    UnmountMayFail,  \* TRUE: umount(2) may fail, on a busy mount say
    MaxRestarts,     \* bound: restarts of the plugin
    MaxTokens        \* bound: tokens minted for a pod

ASSUME PluginAssumption ==
    /\ Overlap \subseteq {"republish", "publish", "unpublish"}
    /\ PersistMayFail \in BOOLEAN
    /\ UnmountMayFail \in BOOLEAN
    /\ MaxRestarts \in Nat /\ MaxTokens \in Nat \ {0}
    /\ IsFiniteSet(Call)
    /\ None \notin Call \cup Target \cup {"ok", "error"}
    /\ \A T \in SUBSET Target : None # T

VARIABLES
    live,        \* targets with an entry in Registry.live
    token,       \* token[t]: that entry's Token, read by every API call
    records,     \* targets in Registry.records
    disk,        \* targets in the state file
    mounts,      \* mounts[t]: the kernel's stack of mounts at t
    locks,       \* locks[t]: the lock object n.locks has for t, or None
    refs,        \* refs[l]: tl.refs of lock object l
    free,        \* free[l]: its channel holds the token
    pc,          \* pc[c]: where the handler stands
    target,      \* target[c]: the request's target path
    carried,     \* carried[c]: the token the request carries, or None
    tl,          \* tl[c]: the lock object it refers to
    restarting,  \* restarting[c]: WasPublished was true
    outcome,     \* outcome[c]: the answer it has decided on
    draining,    \* Shutdown: the targets it has left to unmount, or None
    restarts,    \* restarts so far
    phase,       \* phase[t]: what the kubelet wants of the target
    published,   \* published[t]: the kubelet was once told OK
    attrs,       \* attrs[t]: the volume attributes of its pod
    minted       \* minted[t]: the newest token of its pod

registryVars == <<live, token, records, disk>>
lockVars     == <<locks, refs, free>>
handlerVars  == <<target, carried, tl, restarting>>
callVars     == <<pc, handlerVars, outcome>>
processVars  == <<draining, restarts>>
kubeletVars  == <<phase, published, attrs, minted>>
vars == <<registryVars, mounts, lockVars, callVars, processVars, kubeletVars>>

NoCall(f) == [c \in Call |-> f]

Init ==
    /\ live = {} /\ records = {} /\ disk = {}
    /\ token = [t \in Target |-> None]
    /\ mounts = [t \in Target |-> <<>>]
    /\ locks = [t \in Target |-> None]
    /\ refs = NoCall(0)
    /\ free = NoCall(TRUE)
    /\ pc = NoCall("idle")
    /\ target = NoCall(None)
    /\ carried = NoCall(None)
    /\ tl = NoCall(None)
    /\ restarting = NoCall(FALSE)
    /\ outcome = NoCall(None)
    /\ draining = None
    /\ restarts = 0
    /\ phase = [t \in Target |-> "wanted"]
    /\ published = [t \in Target |-> FALSE]
    /\ attrs \in [Target -> Attributes]
    /\ minted = [t \in Target |-> 1]

Goto(c, where) == pc' = [pc EXCEPT ![c] = where]

(* The handlers at work on t. *)
Handlers(t) == {c \in Call : target[c] = t}

(* The kubelet waits for a call to return, unless it times out and retries. *)
MayArrive(request, t) ==
    \A c \in Handlers(t) :
      \/ request \in Overlap
      \/ request = "publish" /\ pc[c] = "swap" /\ "republish" \in Overlap

----------------------------------------------------------------------------
(* The mount table *)

Mounted(t) == mounts[t] # <<>>

(* umount(2) takes the topmost mount. *)
Unmount(t) ==
    /\ Mounted(t)
    /\ mounts' = [mounts EXCEPT ![t] = Tail(@)]

(* The path loses its topmost mount, or has none to lose. *)
Cleared(t) ==
    \/ Unmount(t)
    \/ ~Mounted(t) /\ UNCHANGED mounts

(* server.Unmount fails on a busy mount, and on one that was taken away     *)
(* from under it.                                                           *)
UnmountFails(t) ==
    /\ UnmountMayFail \/ ~Mounted(t)
    /\ UNCHANGED mounts

(* A fault: the mount a dead process left is not detached. *)
DetachNothing(t) == UNCHANGED mounts

(* DetachStale: nothing to do at a path that is not a mountpoint. *)
DetachStale(t) == Cleared(t)

DetachFails(t) ==
    /\ UnmountMayFail /\ Mounted(t)
    /\ UNCHANGED mounts

----------------------------------------------------------------------------
(* NodePublishVolume *)

(* The kubelet asks for a fresh token once the last one is old. *)
Mint(t) ==
    /\ minted[t] < MaxTokens
    /\ minted' = [minted EXCEPT ![t] = @ + 1]
    /\ UNCHANGED <<registryVars, mounts, lockVars, callVars, processVars,
                   phase, published, attrs>>

(* A request arrives and looks its target up: the republish fast path if it *)
(* is live, the lock if not.                                                *)
Publish(c, t, payload) ==
    /\ pc[c] = "idle"
    /\ phase[t] = "wanted"
    /\ MayArrive("publish", t)
    /\ Goto(c, IF t \in live THEN "swap" ELSE "ref")
    /\ target' = [target EXCEPT ![c] = t]
    /\ carried' = [carried EXCEPT ![c] = Extract(payload, minted[t])]
    /\ UNCHANGED <<registryVars, mounts, lockVars, tl, restarting, outcome,
                   processVars, kubeletVars>>

(* A fault: the fast path leaves the token of the first publish in place. *)
SwapTokenNever(c) == UNCHANGED token

(* swapToken: a request without a usable token changes nothing. *)
SwapToken(c) ==
    token' = IF carried[c] = None THEN token
             ELSE [token EXCEPT ![target[c]] = carried[c]]

Forget(c) ==
    /\ Goto(c, "idle")
    /\ target' = [target EXCEPT ![c] = None]
    /\ carried' = [carried EXCEPT ![c] = None]
    /\ tl' = [tl EXCEPT ![c] = None]
    /\ restarting' = [restarting EXCEPT ![c] = FALSE]
    /\ outcome' = [outcome EXCEPT ![c] = None]

(* The fast path's second half, some time after its lookup. *)
Republish(c) ==
    /\ pc[c] = "swap"
    /\ SwapToken(c)
    /\ published' = [published EXCEPT ![target[c]] = TRUE]
    /\ Forget(c)
    /\ UNCHANGED <<live, records, disk, mounts, lockVars, processVars, phase,
                   attrs, minted>>

(* A fault: the reference is not counted. *)
AddRefLost(l) == refs' = refs

AddRef(l) == refs' = [refs EXCEPT ![l] = @ + 1]

(* lockTarget under locksMu: find or make the target's lock, and count in. *)
LockRef(c) ==
    LET t == target[c]
        l == IF locks[t] # None THEN locks[t]
             ELSE CHOOSE l \in Call : refs[l] = 0
    IN
    /\ pc[c] = "ref"
    /\ locks' = [locks EXCEPT ![t] = l]
    /\ free' = [free EXCEPT ![l] = IF locks[t] = None THEN TRUE ELSE @]
    /\ AddRef(l)
    /\ tl' = [tl EXCEPT ![c] = l]
    /\ Goto(c, "wait")
    /\ UNCHANGED <<registryVars, mounts, target, carried, restarting,
                   outcome, processVars, kubeletVars>>

LockTake(c) ==
    /\ pc[c] = "wait"
    /\ free[tl[c]]
    /\ free' = [free EXCEPT ![tl[c]] = FALSE]
    /\ Goto(c, "recheck")
    /\ UNCHANGED <<registryVars, mounts, locks, refs, handlerVars, outcome,
                   processVars, kubeletVars>>

Answer(c, o) ==
    /\ outcome' = [outcome EXCEPT ![c] = o]
    /\ Goto(c, "unlock")

(* Get once more; on a miss, WasPublished decides how failures are answered. *)
Recheck(c) ==
    /\ pc[c] = "recheck"
    /\ IF target[c] \in live
       THEN Answer(c, "ok") /\ SwapToken(c) /\ UNCHANGED restarting
       ELSE /\ restarting' = [restarting EXCEPT ![c] = target[c] \in records]
            /\ Goto(c, "check")
            /\ UNCHANGED <<outcome, token>>
    /\ UNCHANGED <<live, records, disk, mounts, lockVars, target, carried,
                   tl, processVars, kubeletVars>>

(* A fault: every error of publish is returned. *)
PublishErrorLoud(c) == Answer(c, "error")

(* publish returned an error: silent if the target was published before. *)
PublishError(c) == Answer(c, IF restarting[c] THEN "ok" ELSE "error")

(* publish: the request's checks, and with its token the first Fresh. *)
Authorize(c) ==
    /\ pc[c] = "check"
    /\ Acceptable(attrs[target[c]])
    /\ carried[c] # None
    /\ Goto(c, "detach")
    /\ UNCHANGED <<registryVars, mounts, lockVars, handlerVars, outcome,
                   processVars, kubeletVars>>

Refuse(c) ==
    /\ pc[c] = "check"
    /\ PublishError(c)
    /\ UNCHANGED <<registryVars, mounts, lockVars, handlerVars, processVars,
                   kubeletVars>>

Detach(c) ==
    /\ pc[c] = "detach"
    /\ \/ DetachStale(target[c]) /\ Goto(c, "mount") /\ UNCHANGED outcome
       \/ DetachFails(target[c]) /\ PublishError(c)
    /\ UNCHANGED <<registryVars, lockVars, handlerVars, processVars,
                   kubeletVars>>

(* MkdirAll and objectfs.Mount; a dead mount at the path stops the former. *)
Mount(c) ==
    LET t == target[c] IN
    /\ pc[c] = "mount"
    /\ Mounted(t) => Head(mounts[t]) = "served"
    /\ mounts' = [mounts EXCEPT ![t] = <<"served">> \o @]
    /\ Goto(c, "put")
    /\ UNCHANGED <<registryVars, lockVars, handlerVars, outcome, processVars,
                   kubeletVars>>

MountFails(c) ==
    /\ pc[c] = "mount"
    /\ PublishError(c)
    /\ UNCHANGED <<registryVars, mounts, lockVars, handlerVars, processVars,
                   kubeletVars>>

(* Registry.Put: both maps first, ... *)
Put(c) ==
    /\ pc[c] = "put"
    /\ live' = live \cup {target[c]}
    /\ token' = [token EXCEPT ![target[c]] = carried[c]]
    /\ records' = records \cup {target[c]}
    /\ Goto(c, "persist")
    /\ UNCHANGED <<disk, mounts, lockVars, handlerVars, outcome, processVars,
                   kubeletVars>>

(* ... then the state file, written under the mutex from the map as it is. *)
Persist(c) ==
    /\ pc[c] = "persist"
    /\ disk' = records
    /\ Answer(c, "ok")
    /\ UNCHANGED <<live, token, records, mounts, lockVars, handlerVars,
                   processVars, kubeletVars>>

(* Put returned an error: cancel and unmount; the maps keep their entries. *)
PersistFails(c) ==
    /\ PersistMayFail
    /\ pc[c] = "persist"
    /\ Unmount(target[c]) \/ UnmountFails(target[c])
    /\ PublishError(c)
    /\ UNCHANGED <<registryVars, lockVars, handlerVars, processVars,
                   kubeletVars>>

(* unlockTarget: the token goes back, ... *)
Unlock(c) ==
    /\ pc[c] = "unlock"
    /\ free' = [free EXCEPT ![tl[c]] = TRUE]
    /\ Goto(c, "unref")
    /\ UNCHANGED <<registryVars, mounts, locks, refs, handlerVars, outcome,
                   processVars, kubeletVars>>

(* A fault: the first to leave removes the lock others still refer to. *)
LastRefAlways(l) == TRUE

(* The last reference gone, the table forgets the lock. *)
LastRef(l) == refs[l] = 1

(* ... and under locksMu the reference; then the call returns. *)
Unref(c) ==
    LET t == target[c]
        l == tl[c]
    IN
    /\ pc[c] = "unref"
    /\ refs' = [refs EXCEPT ![l] = @ - 1]
    /\ locks' = [locks EXCEPT ![t] = IF LastRef(l) THEN None ELSE @]
    /\ published' = [published EXCEPT ![t] = @ \/ outcome[c] = "ok"]
    /\ Forget(c)
    /\ UNCHANGED <<registryVars, mounts, free, processVars, phase, attrs,
                   minted>>

----------------------------------------------------------------------------
(* NodeUnpublishVolume and Registry.Delete *)

(* The pod goes away; from now on the kubelet unpublishes. *)
PodDeleted(t) ==
    /\ phase[t] = "wanted"
    /\ phase' = [phase EXCEPT ![t] = "removing"]
    /\ UNCHANGED <<registryVars, mounts, lockVars, callVars, processVars,
                   published, attrs, minted>>

(* A fault: the entry stays in the live map. *)
DeleteKeepsLive(c, t) ==
    /\ pc[c] = "idle"
    /\ phase[t] \in {"removing", "removed"}
    /\ MayArrive("unpublish", t)
    /\ records' = records \ {t}
    /\ target' = [target EXCEPT ![c] = t]
    /\ Goto(c, IF t \in live THEN "unmount"
               ELSE IF t \in records THEN "undetach" ELSE "save")
    /\ UNCHANGED <<live, token, disk, mounts, lockVars, carried, tl,
                   restarting, outcome, processVars, kubeletVars>>

(* Delete takes both entries out and goes on with what it found. *)
Delete(c, t) ==
    /\ pc[c] = "idle"
    /\ phase[t] \in {"removing", "removed"}
    /\ MayArrive("unpublish", t)
    /\ live' = live \ {t}
    /\ records' = records \ {t}
    /\ target' = [target EXCEPT ![c] = t]
    /\ Goto(c, IF t \in live THEN "unmount"
               ELSE IF t \in records THEN "undetach" ELSE "save")
    /\ UNCHANGED <<token, disk, mounts, lockVars, carried, tl, restarting,
                   outcome, processVars, kubeletVars>>

DeleteUnmount(c) ==
    LET t == target[c]
        Done == Goto(c, "save") /\ UNCHANGED outcome
        Failed == Goto(c, "save") /\ outcome' = [outcome EXCEPT ![c] = "error"]
    IN
    /\ \/ pc[c] = "unmount" /\ Cleared(t) /\ Done
       \/ pc[c] = "unmount" /\ UnmountFails(t) /\ Failed
       \/ pc[c] = "undetach" /\ DetachStale(t) /\ Done
       \/ pc[c] = "undetach" /\ DetachFails(t) /\ Failed
    /\ UNCHANGED <<registryVars, lockVars, handlerVars, processVars,
                   kubeletVars>>

(* persist, whatever happened before; success ends the kubelet's retries. *)
DeleteSave(c) ==
    LET t == target[c] IN
    /\ pc[c] = "save"
    /\ \/ /\ disk' = records
          /\ phase' = [phase EXCEPT ![t] =
                         IF outcome[c] = "error" THEN @ ELSE "removed"]
       \/ /\ PersistMayFail
          /\ UNCHANGED <<disk, phase>>
    /\ Forget(c)
    /\ UNCHANGED <<live, token, records, mounts, lockVars, processVars,
                   published, attrs, minted>>

----------------------------------------------------------------------------
(* The process ends, killed or after Shutdown, and the next one starts:     *)
(* the handlers and the maps are gone, the mounts are not, and NewRegistry  *)
(* reads the state file.                                                    *)
Restart ==
    /\ restarts < MaxRestarts
    /\ restarts' = restarts + 1
    /\ live' = {}
    /\ token' = [t \in Target |-> None]
    /\ records' = disk
    /\ mounts' = [t \in Target |-> [i \in DOMAIN mounts[t] |-> "dead"]]
    /\ locks' = [t \in Target |-> None]
    /\ refs' = NoCall(0)
    /\ free' = NoCall(TRUE)
    /\ pc' = NoCall("idle")
    /\ target' = NoCall(None)
    /\ carried' = NoCall(None)
    /\ tl' = NoCall(None)
    /\ restarting' = NoCall(FALSE)
    /\ outcome' = NoCall(None)
    /\ draining' = None
    /\ UNCHANGED <<disk, kubeletVars>>

(* SIGTERM: Shutdown copies the live targets; handlers keep being served. *)
ShutdownBegin ==
    /\ restarts < MaxRestarts
    /\ draining = None
    /\ draining' = live
    /\ UNCHANGED <<registryVars, mounts, lockVars, callVars, restarts,
                   kubeletVars>>

ShutdownUnmount(t) ==
    /\ draining # None /\ t \in draining
    /\ draining' = draining \ {t}
    /\ Unmount(t) \/ UnmountFails(t)
    /\ UNCHANGED <<registryVars, lockVars, callVars, restarts, kubeletVars>>

----------------------------------------------------------------------------
PublishStep(c) ==
    \/ Republish(c)
    \/ LockRef(c)
    \/ LockTake(c)
    \/ Recheck(c)
    \/ Authorize(c)
    \/ Refuse(c)
    \/ Detach(c)
    \/ Mount(c)
    \/ MountFails(c)
    \/ Put(c)
    \/ Persist(c)
    \/ PersistFails(c)
    \/ Unlock(c)
    \/ Unref(c)

DeleteStep(c) == DeleteUnmount(c) \/ DeleteSave(c)

ShutdownStep == ShutdownBegin \/ \E t \in Target : ShutdownUnmount(t)

Next ==
    \/ \E t \in Target : Mint(t) \/ PodDeleted(t)
    \/ \E c \in Call, t \in Target :
         Delete(c, t) \/ \E payload \in Payloads : Publish(c, t, payload)
    \/ \E c \in Call : PublishStep(c) \/ DeleteStep(c)
    \/ ShutdownStep
    \/ Restart

Spec == Init /\ [][Next]_vars

----------------------------------------------------------------------------
(* Type invariant. *)
TypeOK ==
    /\ live \subseteq Target /\ records \subseteq Target /\ disk \subseteq Target
    /\ token \in [Target -> 1..MaxTokens \cup {None}]
    /\ mounts \in [Target -> Seq({"served", "dead"})]
    /\ locks \in [Target -> Call \cup {None}]
    /\ refs \in [Call -> Nat]
    /\ free \in [Call -> BOOLEAN]
    /\ pc \in [Call -> {"idle", "swap", "ref", "wait", "recheck", "check",
                        "detach", "mount", "put", "persist", "unlock", "unref",
                        "unmount", "undetach", "save"}]
    /\ target \in [Call -> Target \cup {None}]
    /\ carried \in [Call -> 1..MaxTokens \cup {None}]
    /\ tl \in [Call -> Call \cup {None}]
    /\ restarting \in [Call -> BOOLEAN]
    /\ outcome \in [Call -> {None, "ok", "error"}]
    /\ draining \in (SUBSET Target) \cup {None}
    /\ restarts \in 0..MaxRestarts
    /\ phase \in [Target -> {"wanted", "removing", "removed"}]
    /\ published \in [Target -> BOOLEAN]
    /\ attrs \in [Target -> Attributes]
    /\ minted \in [Target -> 1..MaxTokens]

(* The handlers between lockTarget and unlockTarget. *)
Publishing(c) ==
    pc[c] \in {"recheck", "check", "detach", "mount", "put", "persist",
               "unlock"}

(* No two handlers are in the first-publish path of one target: the lock    *)
(* that is removed with its last reference excludes as one that is kept.    *)
OnePublisher ==
    \A c, d \in Call :
      Publishing(c) /\ Publishing(d) /\ target[c] = target[d] => c = d

(* A publish decided to fail is never one of a target the kubelet has been  *)
(* told is mounted, restarts included: the kubelet would delete the mount   *)
(* point, and later calls could not bring it back.                          *)
RepublishNeverFails ==
    [][\A c \in Call :
         outcome[c] = None /\ outcome'[c] = "error" /\ Publishing(c)
           => ~published[target[c]]]_vars

(* What the fast path answers for is there: a target in the registry has    *)
(* exactly one mount, and this process serves it.                           *)
LiveIsMounted ==
    \A t \in Target : draining = None /\ t \in live => mounts[t] = <<"served">>

(* Once the kubelet has been told that a target it had mounted is gone, it  *)
(* is: neither a mount nor a record is left behind.                         *)
NothingStranded ==
    \A t \in Target :
      phase[t] = "removed" /\ published[t] /\ Handlers(t) = {}
        => ~Mounted(t) /\ t \notin live \cup records \cup disk

(* What is mounted can be locked: publish refuses the attributes whose      *)
(* Lease the API server would refuse at the first flock, or that other      *)
(* holders would take over while it is being renewed.                       *)
MountedIsLockable == \A t \in live : Lockable(attrs[t])

(* ParseConfig's checks leave two gaps and no third: the lock of a mounted  *)
(* volume works unless its object's name has no room for the prefix of the  *)
(* default leaseName, or its leaseDurationSeconds is beyond int32; there it *)
(* never works, wherever Go's arithmetic has wrapped to.                    *)
LockableExactly ==
    \A t \in live : Lockable(attrs[t]) <=> WithinLimits(attrs[t])

(* Handlers run on, the kubelet republishes what a pod wants with a usable  *)
(* token, a shutdown comes to its end, and neither the API server nor the   *)
(* mount fails every time.                                                  *)
Fairness ==
    /\ \A c \in Call :
         /\ WF_vars(PublishStep(c)) /\ WF_vars(DeleteStep(c))
         /\ SF_vars(LockTake(c)) /\ SF_vars(Authorize(c)) /\ SF_vars(Mount(c))
    /\ \A t \in Target :
         SF_vars(\E c \in Call, payload \in Payloads :
                   /\ Extract(payload, minted[t]) # None
                   /\ Publish(c, t, payload))
    /\ WF_vars(draining # None /\ Restart)

FairSpec == Spec /\ Fairness

(* A target whose attributes are acceptable and that a pod keeps wanting    *)
(* ends up mounted and served, whatever was left behind by the processes    *)
(* before.                                                                  *)
Remounted ==
    \A t \in Target :
      Acceptable(attrs[t]) =>
        \/ <>(phase[t] # "wanted")
        \/ <>[](published[t] /\ mounts[t] = <<"served">>)

(* Its API calls end up being made with the newest token of its pod, in     *)
(* whatever order overlapping republishes finish.                           *)
TokenConverges ==
    \A t \in Target :
      Acceptable(attrs[t]) =>
        <>(phase[t] # "wanted") \/ <>[](token[t] = minted[t])
=============================================================================
