------------------------------ MODULE AckPoller ------------------------------
(***************************************************************************)
(* The control plane's ack poller: every second it lists the data-plane    *)
(* pods, asks the ready ones for /readyz one after the other, and then     *)
(* publishes the whole view at once (app/controlplane/ackpoller).          *)
(***************************************************************************)
EXTENDS Acks, DataPlane

VARIABLES
    polling,   \* whether a poll is under way
    toPoll,    \* ready pods of the list still to be asked
    partial    \* the AckState under construction

pollVars == <<polling, toPoll, partial>>

PollInit == polling = FALSE /\ toPoll = {} /\ partial = EmptyAckState

\* poll lists the pods; when the list fails the old AckState stays in force.
ListPods ==
    /\ ~polling
    /\ polling' = TRUE
    /\ toPoll' = up
    /\ UNCHANGED <<clusterVars, dpVars, ackState, partial>>

\* (mutant) The desired generation is taken for the applied one.
FetchPodDesired(p) ==
    /\ p \in toPoll \cap up
    /\ toPoll' = toPoll \ {p}
    /\ partial' =
           [healthy |-> partial.healthy \cup {p},
            applied |-> [partial.applied EXCEPT ![p] =
                            [g \in Gateways |-> reported[p][g].desired]]]
    /\ UNCHANGED <<clusterVars, dpVars, ackState, polling>>

\* fetch of a pod that answers: the statuses the loader published last.
FetchPod(p) ==
    /\ p \in toPoll \cap up
    /\ toPoll' = toPoll \ {p}
    /\ partial' =
           [healthy |-> partial.healthy \cup {p},
            applied |-> [partial.applied EXCEPT ![p] =
                            [g \in Gateways |-> reported[p][g].applied]]]
    /\ UNCHANGED <<clusterVars, dpVars, ackState, polling>>

\* fetch of a pod that is gone or does not answer in time: not healthy.
FetchPodFails(p) ==
    /\ p \in toPoll
    /\ \/ p \notin up /\ UNCHANGED faults
       \/ Fault
    /\ toPoll' = toPoll \ {p}
    /\ UNCHANGED <<objs, manifest, committed, removed, tampered, dpVars,
                   ackState, polling, partial>>

PublishAcks ==
    /\ polling
    /\ toPoll = {}
    /\ ackState' = partial
    /\ polling' = FALSE
    /\ partial' = EmptyAckState
    /\ UNCHANGED <<clusterVars, dpVars, toPoll>>

PollStep ==
    \/ ListPods \/ PublishAcks
    \/ \E p \in Pods : FetchPod(p) \/ FetchPodFails(p)
==============================================================================
