----------------------------- MODULE ControlPlane ----------------------------
(***************************************************************************)
(* One reconciliation pass of the control plane, call by call: Sync        *)
(* gathers a snapshot of the cluster, publishes every owned Gateway's      *)
(* generation (objects, then the manifest, then garbage collection), writes *)
(* its Programmed condition and finally collects what belongs to no owned  *)
(* Gateway (gatewayapi/engine.go, gatewayapi/publish.go). Each API write   *)
(* is a step of its own, so that a crash, an API error, a pod's poll or a  *)
(* user's edit may come between any two of them.                           *)
(*                                                                         *)
(* There is one control plane (single replica, no leader election), and    *)
(* its next pass starts when the previous one has returned.                *)
(***************************************************************************)
EXTENDS Acks

CONSTANTS
    Rejected,       \* a Gateway whose parameters or addresses are refused
    Gone,           \* a deleted Gateway; its UID never comes back
    Servable,       \* generations with at least one valid listener
    StaticAddresses,\* <<g, p>>: spec.addresses of g has the node of pod p
    NoGateway,
    MaxEdits        \* bound on edits of the user's resources

ASSUME ControlPlaneAssumption ==
    /\ Rejected \notin Generations \cup {NoGen}
    /\ Gone \notin Generations \cup {NoGen, Rejected}
    /\ Servable \subseteq Generations
    /\ StaticAddresses \subseteq Gateways \X Pods
    /\ NoGateway \notin Gateways
    /\ MaxEdits \in Nat

\* What the user's resources ask for: a Gateway compiles to a generation,
\* is owned but refused, is not owned (NoGen: its class is missing or of
\* another controller), or is deleted.
Specs == GenOrNone \cup {Rejected, Gone}

Owned(s) == s \notin {NoGen, Gone}

Stages == {"idle", "gather", "next", "objects", "gc", "status", "orphans"}

VARIABLES
    spec,              \* what the user's resources ask for, per Gateway
    edits,             \* how many edits have happened, of MaxEdits
    programmed,        \* generation Programmed=True was last written for
    stage,             \* where the pass stands
    todo,              \* owned Gateways of the snapshot still to reconcile
    cur,               \* the Gateway being reconciled
    pending,           \* its generation objects still to ensure
    doomed,            \* listed objects garbage collection is deleting
    doomedManifests,   \* listed manifests gcOrphans is deleting
    seenSpec,          \* the snapshot: the user's resources,
    seenObjs,          \*   the generated objects,
    seenManifests,     \*   the manifests,
    seenAcks,          \*   and the acknowledgements
    orphaned           \* history: generations gcOrphans took objects from

world == <<seenSpec, seenObjs, seenManifests, seenAcks>>

passVars == <<stage, todo, cur, pending, doomed, doomedManifests, world>>

cpVars == <<spec, edits, programmed, passVars, orphaned>>

-----------------------------------------------------------------------------
\* The pass's local state when no pass runs.
NoPass ==
    /\ stage = "idle"
    /\ todo = {} /\ cur = NoGateway /\ pending = {}
    /\ doomed = {} /\ doomedManifests = {}
    /\ seenSpec = [g \in Gateways |-> NoGen]
    /\ seenObjs = {} /\ seenManifests = {}
    /\ seenAcks = EmptyAckState

DropPass ==
    /\ stage' = "idle"
    /\ todo' = {} /\ cur' = NoGateway /\ pending' = {}
    /\ doomed' = {} /\ doomedManifests' = {}
    /\ seenSpec' = [g \in Gateways |-> NoGen]
    /\ seenObjs' = {} /\ seenManifests' = {}
    /\ seenAcks' = EmptyAckState

CPInit ==
    /\ spec \in [Gateways -> Specs \ {Gone}]
    /\ edits = 0
    /\ programmed = [g \in Gateways |-> NoGen]
    /\ NoPass
    /\ orphaned = {}

\* The user edits routes, listeners or parameters, removes the class or
\* brings it back, or deletes the Gateway, which takes its status with it.
EditSpec(g, s) ==
    /\ edits < MaxEdits
    /\ spec[g] \notin {s, Gone}
    /\ edits' = edits + 1
    /\ spec' = [spec EXCEPT ![g] = s]
    /\ programmed' = [programmed EXCEPT ![g] = IF s = Gone THEN NoGen ELSE @]
    /\ UNCHANGED <<clusterVars, ackState, passVars, orphaned>>

-----------------------------------------------------------------------------
\* A pass starts from the acknowledgements published last.
LoadAcks ==
    /\ stage = "idle"
    /\ stage' = "gather"
    /\ seenAcks' = ackState
    /\ UNCHANGED <<clusterVars, ackState, spec, edits, programmed, todo, cur,
                   pending, doomed, doomedManifests, seenSpec, seenObjs,
                   seenManifests, orphaned>>

\* gatherWorld and the start of sync: the snapshot the pass works from. The
\* generated objects have one writer; user resources listed at different
\* moments compile to some generation, like those of an edit in between.
GatherWorld ==
    /\ stage = "gather"
    /\ stage' = "next"
    /\ todo' = {g \in Gateways : Owned(spec[g])}
    /\ seenSpec' = spec
    /\ seenObjs' = {o \in ObjectNames : objs[o] # "absent"}
    /\ seenManifests' = {g \in Gateways : manifest[g].state # "absent"}
    /\ UNCHANGED <<clusterVars, ackState, spec, edits, programmed, cur,
                   pending, doomed, doomedManifests, seenAcks, orphaned>>

\* A list that fails ends the pass before it did anything.
GatherFails ==
    /\ Fault
    /\ stage = "gather"
    /\ DropPass
    /\ UNCHANGED <<objs, manifest, committed, removed, tampered, ackState, spec,
                   edits, programmed, orphaned>>

\* writeGatewayStatus reads the Gateway afresh: no write when it is gone.
SetProgrammed(g, n) ==
    programmed' = [programmed EXCEPT ![g] = IF spec[g] = Gone THEN @ ELSE n]

\* reconcileGateway's early return: invalid parameters or an unsupported
\* address only write the status; the published generation stays as it is.
RejectGateway(g) ==
    /\ stage = "next"
    /\ g \in todo
    /\ seenSpec[g] = Rejected
    /\ todo' = todo \ {g}
    /\ \/ SetProgrammed(g, NoGen) /\ UNCHANGED faults
       \/ Fault /\ UNCHANGED programmed
    /\ UNCHANGED <<objs, manifest, committed, removed, tampered, ackState,
                   spec, edits, stage, cur, pending, doomed, doomedManifests,
                   world, orphaned>>

\* reconcileGateway compiles the generation of the snapshot.
StartPublish(g) ==
    /\ stage = "next"
    /\ g \in todo
    /\ seenSpec[g] \in Generations
    /\ todo' = todo \ {g}
    /\ cur' = g
    /\ pending' = ObjectsOf[seenSpec[g]]
    /\ stage' = "objects"
    /\ UNCHANGED <<clusterVars, ackState, spec, edits, programmed, doomed,
                   doomedManifests, world, orphaned>>

\* The gateway object first, then the attachments, then the Secret.
NextObject(k) ==
    /\ k \in pending
    /\ k # "gateway" => "gateway" \notin pending
    /\ k = "secret" => pending = {"secret"}

\* ensureImmutableCM, ensureGeneratedSecret: whatever is stored under the
\* name is taken for the object; only a missing one is created.
Ensured(o) == [objs EXCEPT ![o] = IF @ = "absent" THEN "intact" ELSE @]

EnsureObject(k) ==
    /\ stage = "objects"
    /\ NextObject(k)
    /\ objs' = Ensured(<<cur, seenSpec[cur], k>>)
    /\ pending' = pending \ {k}
    /\ UNCHANGED <<manifest, committed, removed, tampered, faults, ackState,
                   spec, edits, programmed, stage, todo, cur, doomed,
                   doomedManifests, world, orphaned>>

\* The API call returns an error, whether or not the write took place:
\* publishGeneration returns it and the Gateway's status is not written.
EnsureObjectFails(k) ==
    /\ Fault
    /\ stage = "objects"
    /\ NextObject(k)
    /\ objs' \in {objs, Ensured(<<cur, seenSpec[cur], k>>)}
    /\ stage' = "next" /\ cur' = NoGateway /\ pending' = {}
    /\ UNCHANGED <<manifest, committed, removed, tampered, ackState, spec,
                   edits, programmed, todo, doomed, doomedManifests, world,
                   orphaned>>

\* ensureManifest's new content: the preceding generation is remembered.
NewManifest(g, n) ==
    [state |-> "valid",
     gen   |-> n,
     prev  |-> IF manifest[g].gen = n THEN manifest[g].prev ELSE manifest[g].gen]

\* (mutant) The preceding generation is forgotten.
KeepAcked(g, m) == {m.gen} \cup AckedGenerations(seenAcks, g)

\* gcGenerations' keep set: desired, previous, and whatever a pod applied.
Keep(g, m) == {m.gen, m.prev} \cup AckedGenerations(seenAcks, g)

\* The listed objects gcGenerations will delete once m is committed.
Garbage(g, m) ==
    IF AllAcked(seenAcks, g, m.gen)
    THEN {o \in seenObjs : o[1] = g /\ o[2] \notin Keep(g, m)}
    ELSE {}

\* The write of ensureManifest.
Commit(g, m) ==
    /\ manifest' = [manifest EXCEPT ![g] = m]
    /\ committed' = [committed EXCEPT ![g] = @ \cup {m.gen}]
    /\ orphaned' = orphaned \ {<<g, m.gen>>}

EnsureManifest ==
    LET m == NewManifest(cur, seenSpec[cur])
    IN  /\ stage = "objects"
        /\ pending = {}
        /\ Commit(cur, m)
        /\ doomed' = Garbage(cur, m)
        /\ stage' = "gc"
        /\ UNCHANGED <<objs, removed, tampered, faults, ackState, spec, edits,
                       programmed, todo, cur, pending, doomedManifests, world>>

EnsureManifestFails ==
    /\ Fault
    /\ stage = "objects"
    /\ pending = {}
    /\ \/ Commit(cur, NewManifest(cur, seenSpec[cur]))
       \/ UNCHANGED <<manifest, committed, orphaned>>
    /\ stage' = "next" /\ cur' = NoGateway
    /\ UNCHANGED <<objs, removed, tampered, ackState, spec, edits, programmed,
                   todo, pending, doomed, doomedManifests, world>>

\* The ConfigMap loops of gcGenerations and gcOrphans precede the Secret
\* loops; a failed deletion is ignored.
NextDoomed(o) ==
    /\ o \in doomed
    /\ IsSecret(o) => doomedManifests = {} /\ \A x \in doomed : IsSecret(x)

CollectGeneration(o) ==
    /\ stage = "gc"
    /\ NextDoomed(o)
    /\ doomed' = doomed \ {o}
    /\ \/ objs' = [objs EXCEPT ![o] = "absent"] /\ UNCHANGED faults
       \/ Fault /\ UNCHANGED objs
    /\ UNCHANGED <<manifest, committed, removed, tampered, ackState, spec,
                   edits, programmed, stage, todo, cur, pending,
                   doomedManifests, world, orphaned>>

GenerationsCollected ==
    /\ stage = "gc"
    /\ doomed = {}
    /\ stage' = "status"
    /\ UNCHANGED <<clusterVars, ackState, spec, edits, programmed, todo, cur,
                   pending, doomed, doomedManifests, world, orphaned>>

\* validateGatewayAddresses: a healthy pod runs at every static address.
AddressesUsable(g) ==
    \A p \in Pods : <<g, p>> \in StaticAddresses => p \in seenAcks.healthy

\* gatewayConditions' verdict: Programmed=True is written for a generation
\* with a valid listener that every healthy pod of the snapshot has applied.
Verdict(g) ==
    IF /\ AddressesUsable(g)
       /\ seenSpec[g] \in Servable
       /\ AllAcked(seenAcks, g, seenSpec[g])
    THEN seenSpec[g]
    ELSE NoGen

WriteStatus ==
    /\ stage = "status"
    /\ \/ SetProgrammed(cur, Verdict(cur)) /\ UNCHANGED faults
       \/ Fault /\ UNCHANGED programmed
    /\ stage' = "next" /\ cur' = NoGateway
    /\ UNCHANGED <<objs, manifest, committed, removed, tampered, ackState,
                   spec, edits, todo, pending, doomed, doomedManifests, world,
                   orphaned>>

-----------------------------------------------------------------------------
\* gcOrphans: everything listed for a Gateway the snapshot does not own.
StartOrphans ==
    /\ stage = "next"
    /\ todo = {}
    /\ stage' = "orphans"
    /\ doomed' = {o \in seenObjs : ~Owned(seenSpec[o[1]])}
    /\ doomedManifests' = {g \in seenManifests : ~Owned(seenSpec[g])}
    /\ UNCHANGED <<clusterVars, ackState, spec, edits, programmed, todo, cur,
                   pending, world, orphaned>>

CollectOrphan(o) ==
    /\ stage = "orphans"
    /\ NextDoomed(o)
    /\ doomed' = doomed \ {o}
    /\ \/ /\ objs' = [objs EXCEPT ![o] = "absent"]
          /\ orphaned' = orphaned \cup {<<o[1], o[2]>>}
          /\ UNCHANGED faults
       \/ Fault /\ UNCHANGED <<objs, orphaned>>
    /\ UNCHANGED <<manifest, committed, removed, tampered, ackState, spec,
                   edits, programmed, stage, todo, cur, pending,
                   doomedManifests, world>>

CollectOrphanManifest(g) ==
    /\ stage = "orphans"
    /\ g \in doomedManifests
    /\ doomedManifests' = doomedManifests \ {g}
    /\ \/ /\ manifest' = [manifest EXCEPT ![g] = NoManifest]
          /\ removed' = removed \cup {g}
          /\ UNCHANGED faults
       \/ Fault /\ UNCHANGED <<manifest, removed>>
    /\ UNCHANGED <<objs, committed, tampered, ackState, spec, edits,
                   programmed, stage, todo, cur, pending, doomed, world,
                   orphaned>>

\* Sync returns and drops its snapshot.
EndPass ==
    /\ stage = "orphans"
    /\ doomed = {} /\ doomedManifests = {}
    /\ DropPass
    /\ UNCHANGED <<clusterVars, ackState, spec, edits, programmed, orphaned>>

\* The control plane dies at any point; its successor knows no pod yet.
Crash ==
    /\ Fault
    /\ stage # "idle" \/ ackState # EmptyAckState
    /\ DropPass
    /\ ackState' = EmptyAckState
    /\ UNCHANGED <<objs, manifest, committed, removed, tampered, spec, edits,
                   programmed, orphaned>>

Reconcile ==
    \/ LoadAcks \/ GatherWorld \/ GatherFails
    \/ \E g \in Gateways : RejectGateway(g) \/ StartPublish(g)
    \/ \E k \in ObjectKinds : EnsureObject(k) \/ EnsureObjectFails(k)
    \/ EnsureManifest \/ EnsureManifestFails
    \/ \E o \in ObjectNames : CollectGeneration(o) \/ CollectOrphan(o)
    \/ GenerationsCollected \/ WriteStatus \/ StartOrphans
    \/ \E g \in Gateways : CollectOrphanManifest(g)
    \/ EndPass

EnvironmentOfCP ==
    \/ \E g \in Gateways, s \in Specs : EditSpec(g, s)
    \/ \E o \in ObjectNames : TamperObject(o) /\ UNCHANGED <<ackState, cpVars>>
    \/ \E g \in Gateways : TamperManifest(g) /\ UNCHANGED <<ackState, cpVars>>

\* On its own the control plane is driven by any acknowledgements at all.
AnyAcks ==
    /\ ackState' \in AckStates
    /\ UNCHANGED <<clusterVars, cpVars>>

CPNext == Reconcile \/ Crash \/ EnvironmentOfCP \/ AnyAcks

CPStart == ClusterInit /\ CPInit /\ ackState = EmptyAckState

CPSpec == CPStart /\ [][CPNext]_<<clusterVars, ackState, cpVars>>

-----------------------------------------------------------------------------
CPTypeOK ==
    /\ ClusterTypeOK
    /\ ackState \in AckStates
    /\ spec \in [Gateways -> Specs]
    /\ edits \in Nat
    /\ programmed \in [Gateways -> GenOrNone]
    /\ stage \in Stages
    /\ todo \in SUBSET Gateways
    /\ cur \in Gateways \cup {NoGateway}
    /\ pending \in SUBSET ObjectKinds
    /\ doomed \in SUBSET ObjectNames
    /\ doomedManifests \in SUBSET Gateways
    /\ seenSpec \in [Gateways -> Specs]
    /\ seenObjs \in SUBSET ObjectNames
    /\ seenManifests \in SUBSET Gateways
    /\ seenAcks \in AckStates
    /\ orphaned \in SUBSET (Gateways \X Generations)

\* Publication is atomic and retention holds at every single API call: the
\* generation a manifest names, and the one it replaced, are complete in the
\* store (publishGeneration writes the objects before ensureManifest, and
\* gcGenerations deletes from an old listing), whatever crashed or failed in
\* between and whatever the pods acknowledged. It excepts what people do to
\* the objects by hand and generations gcOrphans has taken objects from,
\* until they are published again.
Retained ==
    ~tampered =>
        \A g \in Gateways : \A n \in {manifest[g].gen, manifest[g].prev} :
            n # NoGen /\ <<g, n>> \notin orphaned => Complete(g, n)
==============================================================================
