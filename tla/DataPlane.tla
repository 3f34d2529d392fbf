------------------------------ MODULE DataPlane ------------------------------
(***************************************************************************)
(* The configuration side of a data-plane pod: the config watcher polls    *)
(* the generated objects and mails a snapshot when something changed; the  *)
(* loader verifies what the manifests name, swaps the routing tables and   *)
(* then publishes the statuses that /readyz reports                        *)
(* (app/dataplane/configwatcher, app/dataplane/loader, routing/load.go).   *)
(* A pod only reads the cluster; on its own it is driven by any store.     *)
(***************************************************************************)
EXTENDS Cluster, Sequences

CONSTANTS
    Unbuildable,   \* generations whose payload no pod can turn into tables
    MaxMailbox     \* bound on snapshots waiting for the loader

ASSUME DataPlaneAssumption ==
    /\ Unbuildable \subseteq Generations
    /\ MaxMailbox \in Nat \ {0}

VARIABLES
    up,             \* pods that run and whose readiness probe succeeds
    listed,         \* pods whose watcher is between its two list calls
    listing,        \* what the first call returned
    lastSnapshot,   \* the snapshot the watcher mailed last
    mailbox,        \* snapshots mailed to the loader and not yet handled
    served,         \* generation of the table each Gateway is served from
    computed,       \* statuses of the last rebuild,
    reported,       \*   and the statuses published to /readyz
    everServed      \* history: what each pod has served

dpVars == <<up, listed, listing, lastSnapshot, mailbox, served, computed,
            reported, everServed>>

\* Names and resource versions identify the content of the generated objects.
Snapshots ==
    [manifests : [Gateways -> Manifests], objs : [ObjectNames -> ObjectStates]]

EmptySnapshot ==
    [manifests |-> [g \in Gateways |-> NoManifest],
     objs      |-> [o \in ObjectNames |-> "absent"]]

\* GatewayStatus; a Gateway absent from the map reads as the zero status.
Statuses == [desired : GenOrNone, applied : GenOrNone, failed : BOOLEAN]

NoStatus == [desired |-> NoGen, applied |-> NoGen, failed |-> FALSE]

NoTables == [g \in Gateways |-> NoGen]

DPInit ==
    /\ up = Pods
    /\ listed = {}
    /\ listing = [p \in Pods |-> EmptySnapshot]
    /\ lastSnapshot = [p \in Pods |-> EmptySnapshot]
    /\ mailbox = [p \in Pods |-> <<>>]
    /\ served = [p \in Pods |-> NoTables]
    /\ computed = [p \in Pods |-> [g \in Gateways |-> NoStatus]]
    /\ reported = computed
    /\ everServed = [p \in Pods |-> [g \in Gateways |-> {}]]

-----------------------------------------------------------------------------
\* poll lists the ConfigMaps: the manifests and all objects but the Secrets.
ListConfigMaps(p) ==
    /\ p \in up \ listed
    /\ Len(mailbox[p]) < MaxMailbox
    /\ listed' = listed \cup {p}
    /\ listing' = [listing EXCEPT ![p] =
           [manifests |-> manifest,
            objs |-> [o \in ObjectNames |->
                         IF IsSecret(o) THEN "absent" ELSE objs[o]]]]
    /\ UNCHANGED <<clusterVars, up, lastSnapshot, mailbox, served, computed,
                   reported, everServed>>

\* What poll knows after its second call.
PolledSnapshot(p) ==
    [listing[p] EXCEPT !.objs =
        [o \in ObjectNames |-> IF IsSecret(o) THEN objs[o] ELSE @[o]]]

\* (mutant) Only the generation objects are compared.
SameObjects(p) == PolledSnapshot(p).objs = lastSnapshot[p].objs

SameSnapshot(p) == PolledSnapshot(p) = lastSnapshot[p]

\* poll lists the Secrets and mails the snapshot if it is a new one.
ListSecrets(p) ==
    /\ p \in listed
    /\ IF SameSnapshot(p)
       THEN UNCHANGED <<lastSnapshot, mailbox>>
       ELSE /\ lastSnapshot' = [lastSnapshot EXCEPT ![p] = PolledSnapshot(p)]
            /\ mailbox' = [mailbox EXCEPT ![p] = Append(@, PolledSnapshot(p))]
    /\ listed' = listed \ {p}
    /\ listing' = [listing EXCEPT ![p] = EmptySnapshot]
    /\ UNCHANGED <<clusterVars, up, served, computed, reported, everServed>>

\* The second list call fails: poll gives up until its next tick.
ListSecretsFails(p) ==
    /\ Fault
    /\ p \in listed
    /\ listed' = listed \ {p}
    /\ listing' = [listing EXCEPT ![p] = EmptySnapshot]
    /\ UNCHANGED <<objs, manifest, committed, removed, tampered, up,
                   lastSnapshot, mailbox, served, computed, reported,
                   everServed>>

-----------------------------------------------------------------------------
\* A generation activates only when each of its objects is present with the
\* checksum of the manifest, and tables can be built from them.
LoadGeneration(raw, g, n) ==
    /\ n \notin Unbuildable
    /\ \A k \in ObjectsOf[n] : raw.objs[<<g, n, k>>] = "intact"

\* (mutant) A generation that does not load leaves nothing to serve.
LoadedOrNone(raw, g, was) ==
    LET m == raw.manifests[g]
    IN  IF m.state = "valid" /\ LoadGeneration(raw, g, m.gen) THEN m.gen ELSE NoGen

\* The table a rebuild from raw leaves for g, where was is the current one:
\* none without a manifest; the desired generation if it loads, or is the
\* current one already; the last valid one otherwise.
RebuiltTable(raw, g, was) ==
    LET m == raw.manifests[g]
    IN  CASE m.state = "absent" -> NoGen
          [] m.state = "valid" /\ LoadGeneration(raw, g, m.gen) -> m.gen
          [] OTHER -> was

\* (mutant) The desired generation is acknowledged before it loads.
EagerStatus(raw, g, was, before) ==
    LET m == raw.manifests[g]
    IN  [desired |-> m.gen, applied |-> m.gen, failed |-> FALSE]

\* The status a rebuild computes for g; without a table a failed load
\* repeats what was reported before.
RebuiltStatus(raw, g, was, before) ==
    LET m   == raw.manifests[g]
        new == RebuiltTable(raw, g, was)
        ok  == m.state = "valid" /\ new = m.gen
    IN  IF m.state = "absent" THEN NoStatus
        ELSE [desired |-> m.gen,
              applied |-> IF ok \/ was # NoGen THEN new ELSE before.applied,
              failed  |-> ~ok]

\* rebuild: handle the oldest snapshot and publish the merged tables.
Rebuild(p) ==
    LET raw == Head(mailbox[p])
    IN  /\ p \in up
        /\ mailbox[p] # <<>>
        /\ computed[p] = reported[p]
        /\ mailbox' = [mailbox EXCEPT ![p] = Tail(@)]
        /\ served' = [served EXCEPT ![p] =
               [g \in Gateways |-> RebuiltTable(raw, g, @[g])]]
        /\ computed' = [computed EXCEPT ![p] =
               [g \in Gateways |->
                   RebuiltStatus(raw, g, served[p][g], reported[p][g])]]
        /\ everServed' = [everServed EXCEPT ![p] =
               [g \in Gateways |-> @[g] \cup ({served'[p][g]} \ {NoGen})]]
        /\ UNCHANGED <<clusterVars, up, listed, listing, lastSnapshot, reported>>

\* rebuild goes on to publish the statuses.
PublishStatuses(p) ==
    /\ computed[p] # reported[p]
    /\ reported' = [reported EXCEPT ![p] = computed[p]]
    /\ UNCHANGED <<clusterVars, up, listed, listing, lastSnapshot, mailbox,
                   served, computed, everServed>>

-----------------------------------------------------------------------------
\* Everything a pod holds in memory, but where its watcher stands.
ForgetConfig(p) ==
    /\ listing' = [listing EXCEPT ![p] = EmptySnapshot]
    /\ lastSnapshot' = [lastSnapshot EXCEPT ![p] = EmptySnapshot]
    /\ mailbox' = [mailbox EXCEPT ![p] = <<>>]
    /\ served' = [served EXCEPT ![p] = NoTables]
    /\ computed' = [computed EXCEPT ![p] = [g \in Gateways |-> NoStatus]]
    /\ reported' = [reported EXCEPT ![p] = [g \in Gateways |-> NoStatus]]

\* (mutant) A poll outlives its pod.
PodStopsMidPoll(p) ==
    /\ Fault
    /\ p \in up
    /\ up' = up \ {p}
    /\ ForgetConfig(p)
    /\ UNCHANGED <<objs, manifest, committed, removed, tampered, listed, everServed>>

\* The pod is killed: everything it knew is gone.
PodStops(p) ==
    /\ Fault
    /\ p \in up
    /\ up' = up \ {p}
    /\ listed' = listed \ {p}
    /\ ForgetConfig(p)
    /\ UNCHANGED <<objs, manifest, committed, removed, tampered, everServed>>

\* The kubelet restarts it. Readyz answers ready before anything is loaded.
PodStarts(p) ==
    /\ p \in Pods \ up
    /\ up' = up \cup {p}
    /\ UNCHANGED <<clusterVars, listed, listing, lastSnapshot, mailbox, served,
                   computed, reported, everServed>>

PodStep(p) ==
    \/ ListConfigMaps(p) \/ ListSecrets(p) \/ ListSecretsFails(p)
    \/ Rebuild(p) \/ PublishStatuses(p)
    \/ PodStops(p) \/ PodStarts(p)

\* Without its control plane a pod is driven by any store at all, changing
\* at most MaxFaults times.
AnyObject(o, s) ==
    /\ Fault
    /\ objs' = [objs EXCEPT ![o] = s]
    /\ UNCHANGED <<manifest, committed, removed, tampered, dpVars>>

AnyManifest(g, m) ==
    /\ Fault
    /\ m \in {NoManifest, CorruptManifest} \/ (m.state = "valid" /\ m.gen # NoGen)
    /\ manifest' = [manifest EXCEPT ![g] = m]
    /\ committed' = [committed EXCEPT ![g] = @ \cup ({m.gen} \ {NoGen})]
    /\ removed' = IF m = NoManifest THEN removed \cup {g} ELSE removed
    /\ UNCHANGED <<objs, tampered, dpVars>>

DPNext ==
    \/ \E p \in Pods : PodStep(p)
    \/ \E o \in ObjectNames, s \in ObjectStates : AnyObject(o, s)
    \/ \E g \in Gateways, m \in Manifests : AnyManifest(g, m)

DPStart == ClusterInit /\ DPInit

DPSpec == DPStart /\ [][DPNext]_<<clusterVars, dpVars>>

-----------------------------------------------------------------------------
PodTypeOK ==
    /\ up \in SUBSET Pods
    /\ listed \in SUBSET up
    /\ listing \in [Pods -> Snapshots]
    /\ lastSnapshot \in [Pods -> Snapshots]
    /\ mailbox \in [Pods -> Seq(Snapshots)]
    /\ served \in [Pods -> [Gateways -> GenOrNone]]
    /\ computed \in [Pods -> [Gateways -> Statuses]]
    /\ reported \in [Pods -> [Gateways -> Statuses]]
    /\ everServed \in [Pods -> [Gateways -> SUBSET Generations]]

\* What /readyz reports as applied is what the pod serves: the statuses of a
\* rebuild agree with the tables it published, in particular when a failed
\* load repeats an earlier status (loader/worker.go keeps the previous table
\* or the previous status), and the reported ones lag by one publication at
\* most, so that no pod acknowledges a generation it never served.
AckMatchesTables ==
    \A p \in Pods, g \in Gateways :
        /\ computed[p][g].applied = served[p][g]
        /\ reported[p][g].applied \in everServed[p][g] \cup {NoGen}

\* Last-valid behaviour: a running pod never stops serving a Gateway whose
\* manifest was never deleted, whatever becomes of the objects.
LastValidKept ==
    [][\A p \in Pods, g \in Gateways :
           served[p][g] # NoGen /\ served'[p][g] = NoGen
               => p \notin up' \/ g \in removed]_<<clusterVars, dpVars>>
==============================================================================
