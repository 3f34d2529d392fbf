---------------------------- MODULE PortAllocator ----------------------------
(***************************************************************************)
(* Internal listener ports across reconciliation passes: a pass rebuilds   *)
(* its allocator from the annotations of the generated Services, allocates *)
(* a port for every listener, publishes the generation that uses them and  *)
(* only then writes the annotation (gatewayapi/ports.go, frontend.go, and  *)
(* the calls of engine.go between them).                                   *)
(***************************************************************************)
EXTENDS Integers

CONSTANTS
    NGateways,   \* Gateways are numbered in the order they are listed
    Groups,      \* (external port, protocol) groups a Gateway may declare
    MinPort,
    MaxPort,     \* the internal port range of the installation
    Deletable,   \* Gateways the user may delete
    Refusable,   \* Gateways whose parameters may be refused at times
    FaultKinds,  \* what may go wrong: "crash", "error", "delete"
    MaxEdits,    \* bound on edits of listeners
    MaxFaults    \* bound on faults

Gateways == 1 .. NGateways

\* The keys of the allocator: <<Gateway UID, external port and protocol>>.
Keys == Gateways \X Groups

Ports == MinPort .. MaxPort

NoPort == 0

ASSUME PortAssumption ==
    /\ NGateways \in Nat
    /\ MinPort \in Nat \ {0} /\ MaxPort \in Nat
    /\ Deletable \subseteq Gateways /\ Refusable \subseteq Gateways
    /\ FaultKinds \subseteq {"crash", "error", "delete"}
    /\ MaxEdits \in Nat /\ MaxFaults \in Nat

\* A listener group that is not declared, one whose listeners are refused
\* for a reason of their own, and one that is fit to serve.
ListenerStates == {"none", "bad", "good"}

VARIABLES
    alive,          \* Gateways that exist
    listeners,      \* what their listeners look like
    svc,            \* ports in the annotation of each generated Service
    published,      \* ports of the generation each manifest names
    stage,          \* where the pass stands
    at,             \* the Gateway it is at
    pending,        \* its listener groups still to validate
    assigned,       \* the allocator of the pass
    seenAlive,      \* the snapshot of the pass: Gateways
    seenListeners,  \*   and listeners
    edits, faults

world == <<alive, listeners, edits>>

pass == <<stage, at, pending, assigned, seenAlive, seenListeners>>

vars == <<world, svc, published, pass, faults>>

NoPorts == [x \in Keys |-> NoPort]

Init ==
    /\ alive = Gateways
    /\ listeners = [x \in Keys |-> "none"]
    /\ svc = NoPorts /\ published = NoPorts
    /\ stage = "idle" /\ at = 1 /\ pending = {} /\ assigned = NoPorts
    /\ seenAlive = {} /\ seenListeners = listeners
    /\ edits = 0 /\ faults = 0

Fault(kind) ==
    /\ kind \in FaultKinds
    /\ faults < MaxFaults
    /\ faults' = faults + 1

-----------------------------------------------------------------------------
\* The user changes a listener.
EditListener(x, s) ==
    /\ edits < MaxEdits
    /\ x[1] \in alive
    /\ listeners[x] # s
    /\ listeners' = [listeners EXCEPT ![x] = s]
    /\ edits' = edits + 1
    /\ UNCHANGED <<alive, svc, published, pass, faults>>

\* The user deletes a Gateway for good.
DeleteGateway(g) ==
    /\ g \in alive \cap Deletable
    /\ alive' = alive \ {g}
    /\ UNCHANGED <<listeners, svc, published, pass, edits, faults>>

Without(ports, g) == [x \in Keys |-> IF x[1] = g THEN NoPort ELSE ports[x]]

\* Kubernetes collects the Service of a deleted Gateway, its owner.
ServiceCollected(g) ==
    /\ g \notin alive
    /\ svc' = Without(svc, g)
    /\ UNCHANGED <<world, published, pass, faults>>

\* Someone deletes a generated Service.
ServiceDeleted(g) ==
    /\ Fault("delete")
    /\ svc' = Without(svc, g)
    /\ UNCHANGED <<world, published, pass>>

-----------------------------------------------------------------------------
\* (mutant) The allocator starts empty.
FreshAllocator == NoPorts

\* newPortAllocator: every annotated port is assigned and in use.
NewPortAllocator == svc

\* gatherWorld, and the allocator sync builds from it.
Gather ==
    /\ stage = "idle"
    /\ stage' = "gateway" /\ at' = 1
    /\ assigned' = NewPortAllocator
    /\ seenAlive' = alive /\ seenListeners' = listeners
    /\ UNCHANGED <<world, svc, published, pending, faults>>

\* sync's loop reaches a Gateway it does not own, or reconcileGateway
\* returns early because its parameters or addresses are refused.
SkipGateway ==
    /\ stage = "gateway"
    /\ at \in Gateways
    /\ at \notin seenAlive \/ at \in Refusable
    /\ at' = at + 1
    /\ UNCHANGED <<world, svc, published, stage, pending, assigned, seenAlive,
                   seenListeners, faults>>

\* validateListeners goes through the Gateway's listeners.
ValidateListeners ==
    /\ stage = "gateway"
    /\ at \in seenAlive
    /\ pending' = {k \in Groups : seenListeners[<<at, k>>] # "none"}
    /\ stage' = "allocate"
    /\ UNCHANGED <<world, svc, published, at, assigned, seenAlive,
                   seenListeners, faults>>

\* (mutant) Ports of other Gateways are not looked at.
FreeInGateway(a) == Ports \ {a[<<at, k>>] : k \in Groups}

Free(a) == Ports \ {a[x] : x \in Keys}

FirstFree(a) == {p \in Free(a) : \A q \in Free(a) : p <= q}

\* Allocate: the table it leaves, as a set of one. An assigned port is final;
\* otherwise the first free one of the range is taken, if there is one.
Allocate(a, x) ==
    IF a[x] # NoPort \/ Free(a) = {} THEN {a}
    ELSE {[a EXCEPT ![x] = p] : p \in FirstFree(a)}

\* validateListener allocates whether or not the listener was refused
\* before; without a port it is refused with PortUnavailable.
ValidateListener(k) ==
    /\ stage = "allocate"
    /\ k \in pending
    /\ assigned' \in Allocate(assigned, <<at, k>>)
    /\ pending' = pending \ {k}
    /\ UNCHANGED <<world, svc, published, stage, at, seenAlive, seenListeners,
                   faults>>

\* The ports publishGeneration and desiredServicePorts take: valid listeners.
ValidPorts ==
    [k \in Groups |-> IF seenListeners[<<at, k>>] = "good"
                      THEN assigned[<<at, k>>] ELSE NoPort]

WithValidPorts ==
    [x \in Keys |-> IF x[1] = at THEN ValidPorts[x[2]] ELSE published[x]]

PublishGeneration ==
    /\ stage = "allocate"
    /\ pending = {}
    /\ published' = WithValidPorts
    /\ stage' = "frontend"
    /\ UNCHANGED <<world, svc, at, pending, assigned, seenAlive, seenListeners,
                   faults>>

\* publishGeneration fails before or after the manifest was written:
\* reconcileGateway returns and the annotation is not.
PublishFails ==
    /\ Fault("error")
    /\ stage = "allocate"
    /\ pending = {}
    /\ published' \in {published, WithValidPorts}
    /\ stage' = "gateway" /\ at' = at + 1
    /\ UNCHANGED <<world, svc, pending, assigned, seenAlive, seenListeners>>

\* (mutant) The annotation lists nothing.
EmptyPortMap == Without(svc, at)

\* PortMap: whatever the allocator holds for the Gateway, used or not.
PortMap == [x \in Keys |-> IF x[1] = at THEN assigned[x] ELSE svc[x]]

\* ensureFrontend runs when there is a port to expose. It may fail before or
\* after the Service was written (the EndpointSlice comes last); the loop
\* goes on all the same.
EnsureFrontend ==
    /\ stage = "frontend"
    /\ IF \E k \in Groups : ValidPorts[k] # NoPort
       THEN \/ svc' = PortMap /\ UNCHANGED faults
            \/ Fault("error") /\ svc' \in {svc, PortMap}
       ELSE UNCHANGED <<svc, faults>>
    /\ stage' = "gateway" /\ at' = at + 1
    /\ UNCHANGED <<world, published, pending, assigned, seenAlive,
                   seenListeners>>

\* gcOrphans deletes the manifests of Gateways the snapshot does not have.
CollectOrphans ==
    /\ stage = "gateway"
    /\ at = NGateways + 1
    /\ \/ /\ published' = [x \in Keys |-> IF x[1] \in seenAlive
                                          THEN published[x] ELSE NoPort]
          /\ UNCHANGED faults
       \/ Fault("error") /\ UNCHANGED published
    /\ stage' = "idle" /\ at' = 1 /\ assigned' = NoPorts
    /\ UNCHANGED <<world, svc, pending, seenAlive, seenListeners>>

\* The control plane dies and is restarted.
Crash ==
    /\ Fault("crash")
    /\ stage # "idle"
    /\ stage' = "idle" /\ at' = 1 /\ pending' = {} /\ assigned' = NoPorts
    /\ UNCHANGED <<world, svc, published, seenAlive, seenListeners>>

Next ==
    \/ \E x \in Keys, s \in ListenerStates : EditListener(x, s)
    \/ \E g \in Gateways :
        DeleteGateway(g) \/ ServiceCollected(g) \/ ServiceDeleted(g)
    \/ Gather \/ SkipGateway \/ ValidateListeners
    \/ \E k \in Groups : ValidateListener(k)
    \/ PublishGeneration \/ PublishFails \/ EnsureFrontend
    \/ CollectOrphans \/ Crash

Spec == Init /\ [][Next]_vars

-----------------------------------------------------------------------------
PortOrNone == Ports \cup {NoPort}

TypeOK ==
    /\ alive \in SUBSET Gateways
    /\ listeners \in [Keys -> ListenerStates]
    /\ svc \in [Keys -> PortOrNone]
    /\ published \in [Keys -> PortOrNone]
    /\ stage \in {"idle", "gateway", "allocate", "frontend"}
    /\ at \in 1 .. NGateways + 1
    /\ stage \in {"allocate", "frontend"} => at \in Gateways
    /\ pending \in SUBSET Groups
    /\ assigned \in [Keys -> PortOrNone]
    /\ seenAlive \in SUBSET Gateways
    /\ seenListeners \in [Keys -> ListenerStates]
    /\ edits \in Nat /\ faults \in Nat

Unique(ports) ==
    \A x, y \in Keys : x # y /\ ports[x] # NoPort => ports[x] # ports[y]

\* No port is handed out twice, neither by the allocator of a pass nor
\* across the annotations that passes, crashes and failed writes have left
\* (Allocate skips every port of newPortAllocator).
AllocationsUnique == Unique(assigned) /\ Unique(svc)

\* An exhausted range, a refused listener or a restart never renumbers a port
\* an annotation holds (Allocate returns an assigned port as it is): the entry
\* only goes away with its Service.
PersistedStable ==
    [][\A x \in Keys : svc[x] # NoPort => svc'[x] \in {svc[x], NoPort}]_vars

\* While no Gateway was deleted and nothing failed, no two committed
\* generations share a port, not even halfway through a pass: MergeTables
\* (routing/build.go) cannot conflict. It can once the Service of a deleted
\* Gateway is gone before its manifest, or a pass dies before annotating.
MergeUndisturbed == alive = Gateways /\ faults = 0 => Unique(published)
==============================================================================
