--------------------------------- MODULE Acks --------------------------------
(***************************************************************************)
(* AckState: the view of the data-plane pods that the ack poller publishes *)
(* and every reconciliation pass reads (lib/k8s/gatewayapi/types.go).      *)
(***************************************************************************)
EXTENDS Cluster

VARIABLE ackState   \* the latest published AckState

\* A pod that is not listed, not ready or not answering has Healthy = false
\* and no Gateways entry; both read as no applied generation.
AckStates ==
    {s \in [healthy : SUBSET Pods, applied : [Pods -> [Gateways -> GenOrNone]]] :
        \A p \in Pods \ s.healthy : s.applied[p] = [g \in Gateways |-> NoGen]}

EmptyAckState ==
    [healthy |-> {}, applied |-> [p \in Pods |-> [g \in Gateways |-> NoGen]]]

\* (mutant) One pod is enough.
SomeAcked(acks, g, n) == \E p \in acks.healthy : acks.applied[p][g] = n

AllAcked(acks, g, n) ==
    /\ acks.healthy # {}
    /\ \A p \in acks.healthy : acks.applied[p][g] = n

AckedGenerations(acks, g) == {acks.applied[p][g] : p \in Pods} \ {NoGen}
==============================================================================
