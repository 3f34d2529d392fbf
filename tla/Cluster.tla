------------------------------- MODULE Cluster -------------------------------
(***************************************************************************)
(* The generated objects through which the two planes of krouter talk:     *)
(* the immutable ConfigMaps and Secret of every compiled generation and    *)
(* the manifest ConfigMap that commits one of them per Gateway             *)
(* (lib/k8s/compiled, lib/k8s/gatewayapi/publish.go).                      *)
(*                                                                         *)
(* A generation identifier is the hash of everything compiled for a        *)
(* Gateway, so it is a model value; the payloads are reduced to whether    *)
(* the stored object still has the checksum the manifest lists.            *)
(***************************************************************************)
EXTENDS Naturals, FiniteSets

CONSTANTS
    Gateways,       \* Gateway UIDs
    Pods,           \* the data-plane pods of the DaemonSet
    Generations,    \* content-addressed generation identifiers
    ObjectsOf,      \* which objects each generation is made of
    NoGen,          \* the empty generation string
    HandEdits,      \* what people may do to generated objects by hand
    MaxFaults       \* bound on crashes, API errors, restarts and hand edits

\* The roles of a generation's objects. All HTTP/GRPC/L4 attachments of a
\* generation are written by one loop and are represented by one of them.
ObjectKinds == {"gateway", "attachment", "secret"}

ASSUME ClusterAssumption ==
    /\ NoGen \notin Generations
    /\ ObjectsOf \in [Generations -> SUBSET ObjectKinds]
    /\ \A n \in Generations : "gateway" \in ObjectsOf[n]
    /\ HandEdits \subseteq {"delete", "replace"}
    /\ MaxFaults \in Nat

GenOrNone == Generations \cup {NoGen}

\* GatewayConfigName, AttachmentName, TLSSecretName: one name per Gateway,
\* generation and role.
ObjectNames == Gateways \X Generations \X ObjectKinds

IsSecret(o) == o[3] = "secret"

\* What the API server holds under a name.
ObjectStates == {"absent", "intact", "damaged"}

\* A manifest that is missing or does not parse reads as the zero Manifest.
Manifests ==
    [state : {"absent", "corrupt", "valid"}, gen : GenOrNone, prev : GenOrNone]

NoManifest == [state |-> "absent", gen |-> NoGen, prev |-> NoGen]

CorruptManifest == [state |-> "corrupt", gen |-> NoGen, prev |-> NoGen]

VARIABLES
    objs,        \* the generation objects in the system namespace
    manifest,    \* the manifest ConfigMap of each Gateway
    committed,   \* history: generations a manifest has ever named
    removed,     \* history: Gateways whose manifest has ever been deleted
    tampered,    \* history: whether generated objects were edited by hand
    faults       \* how many faults have happened, of MaxFaults

clusterVars == <<objs, manifest, committed, removed, tampered, faults>>

Fault == faults < MaxFaults /\ faults' = faults + 1

\* Every object a manifest of generation n lists is stored unharmed.
Complete(g, n) == \A k \in ObjectsOf[n] : objs[<<g, n, k>>] = "intact"

ClusterTypeOK ==
    /\ objs \in [ObjectNames -> ObjectStates]
    /\ manifest \in [Gateways -> Manifests]
    /\ committed \in [Gateways -> SUBSET Generations]
    /\ removed \in SUBSET Gateways
    /\ tampered \in BOOLEAN
    /\ faults \in Nat

\* A fresh installation: nothing has been generated.
ClusterInit ==
    /\ objs = [o \in ObjectNames |-> "absent"]
    /\ manifest = [g \in Gateways |-> NoManifest]
    /\ committed = [g \in Gateways |-> {}]
    /\ removed = {}
    /\ tampered = FALSE
    /\ faults = 0

\* Someone deletes a generated object, or replaces it by one of the same name
\* and labels: immutable objects cannot be edited, only deleted and created.
TamperObject(o) ==
    /\ Fault
    /\ objs[o] # "absent"
    /\ \/ "delete" \in HandEdits /\ objs' = [objs EXCEPT ![o] = "absent"]
       \/ "replace" \in HandEdits /\ objs' = [objs EXCEPT ![o] = "damaged"]
    /\ tampered' = TRUE
    /\ UNCHANGED <<manifest, committed, removed>>

\* Someone deletes a manifest or edits it into something that does not parse.
TamperManifest(g) ==
    /\ Fault
    /\ manifest[g].state # "absent"
    /\ \/ /\ "delete" \in HandEdits
          /\ manifest' = [manifest EXCEPT ![g] = NoManifest]
          /\ removed' = removed \cup {g}
       \/ /\ "replace" \in HandEdits
          /\ manifest' = [manifest EXCEPT ![g] = CorruptManifest]
          /\ UNCHANGED removed
    /\ tampered' = TRUE
    /\ UNCHANGED <<objs, committed>>
==============================================================================
