-------------------------------- MODULE Krouter -------------------------------
(***************************************************************************)
(* The whole configuration path: users edit resources, the control plane   *)
(* publishes generations, every pod polls and loads them, the ack poller   *)
(* asks the pods, and the next pass turns what they say into Programmed    *)
(* conditions and garbage collection. The planes share nothing but the     *)
(* generated objects and the polled statuses.                              *)
(***************************************************************************)
EXTENDS ControlPlane, AckPoller

vars == <<clusterVars, ackState, cpVars, dpVars, pollVars>>

Init ==
    /\ ClusterInit /\ CPInit /\ DPInit /\ PollInit
    /\ ackState = EmptyAckState

ReconcilerStep == Reconcile /\ UNCHANGED <<dpVars, pollVars>>

PollerStep == PollStep /\ UNCHANGED cpVars

WatcherStep(p) ==
    /\ ListConfigMaps(p) \/ ListSecrets(p) \/ ListSecretsFails(p)
    /\ UNCHANGED <<ackState, cpVars, pollVars>>

LoaderStep(p) ==
    /\ Rebuild(p) \/ PublishStatuses(p)
    /\ UNCHANGED <<ackState, cpVars, pollVars>>

PodLifecycle(p) ==
    /\ PodStops(p) \/ PodStarts(p)
    /\ UNCHANGED <<ackState, cpVars, pollVars>>

\* A crash of the control plane also loses the poll under way.
ControlPlaneCrash ==
    /\ Crash
    /\ polling' = FALSE /\ toPoll' = {} /\ partial' = EmptyAckState
    /\ UNCHANGED dpVars

UserStep == EnvironmentOfCP /\ UNCHANGED <<dpVars, pollVars>>

Next ==
    \/ ReconcilerStep \/ PollerStep \/ ControlPlaneCrash \/ UserStep
    \/ \E p \in Pods : WatcherStep(p) \/ LoaderStep(p) \/ PodLifecycle(p)

\* Each actor is a goroutine that loops on a timer or a mailbox: it takes
\* its next step in the end. The reconciler and the poller can always take
\* one, so they take steps for ever; a step of theirs changes where they
\* stand. Users, crashes and faults are never forced.
Fairness ==
    /\ []<><<TRUE>>_passVars
    /\ []<><<TRUE>>_pollVars
    /\ \A p \in Pods :
        /\ WF_vars(WatcherStep(p))
        /\ WF_vars(LoaderStep(p))
        /\ WF_vars(PodStarts(p) /\ UNCHANGED <<ackState, cpVars, pollVars>>)

Spec == Init /\ [][Next]_vars

FairSpec == Spec /\ Fairness

-----------------------------------------------------------------------------
TypeOK ==
    /\ CPTypeOK
    /\ PodTypeOK
    /\ polling \in BOOLEAN
    /\ toPoll \in SUBSET Pods
    /\ partial \in AckStates

\* An acknowledgement in the poller's hands or in a pass's snapshot is only
\* ever of a generation that pod has really served.
AcksHonest(acks) ==
    \A p \in Pods, g \in Gateways :
        acks.applied[p][g] \in everServed[p][g] \cup {NoGen}

\* Programmed=True is written for a generation only if some pod has served
\* it; a restarted pod, a lost poll or a crashed pass never make it up.
ProgrammedWasServed ==
    /\ AcksHonest(partial) /\ AcksHonest(ackState) /\ AcksHonest(seenAcks)
    /\ \A g \in Gateways : programmed[g] # NoGen =>
           \E p \in Pods : programmed[g] \in everServed[p][g]

\* While no fault has happened, Programmed=True means that every pod of the
\* DaemonSet has served the generation: one pod that lags behind holds it
\* back, and so does a poll that started before the pod's swap.
ProgrammedByAll ==
    faults = 0 =>
        \A g \in Gateways, p \in Pods :
            programmed[g] \in everServed[p][g] \cup {NoGen}

\* The configuration path implements the abstract delivery of Rollout: pods
\* move between whole committed generations, fall back to the last valid one
\* and are never acknowledged for more than they served, whatever is
\* written, deleted, lost or restarted meanwhile.
Delivery == INSTANCE Rollout WITH
    committed <- committed,      \* generations that a manifest has named
    removed <- removed,          \* Gateways whose manifest was deleted
    up <- up, served <- served,  \* pods and the tables they have swapped in
    everServed <- everServed,
    programmed <- programmed     \* the condition as it was last written

ImplementsRollout == Delivery!Spec

\* The system has caught up with the user's resources: every pod serves what
\* they compile to, Programmed says so, and nothing else is kept than the
\* desired and the preceding generation; an unowned Gateway leaves nothing.
CaughtUp(g) ==
    /\ spec[g] \in Generations \ Unbuildable =>
        /\ \A p \in Pods : served[p][g] = spec[g] /\ reported[p][g].applied = spec[g]
        /\ programmed[g] = IF spec[g] \in Servable THEN spec[g] ELSE NoGen
        /\ \A o \in ObjectNames : o[1] = g /\ objs[o] # "absent"
                => o[2] \in {manifest[g].gen, manifest[g].prev}
    /\ ~Owned(spec[g]) =>
        /\ manifest[g] = NoManifest
        /\ \A o \in ObjectNames : o[1] = g => objs[o] = "absent"
        /\ \A p \in Pods : served[p][g] = NoGen
    /\ spec[g] \in Unbuildable \cup {Rejected} => programmed[g] = NoGen

\* An object that someone put in the place of a generated one stays: the
\* control plane only looks whether there is one of that name.
Replaced(g) == \E o \in ObjectNames : o[1] = g /\ objs[o] = "damaged"

\* Once users stop editing and faults stop, the system catches up for good,
\* whatever crashed, failed, restarted, was deleted by hand or edited into
\* something that does not parse before; except while a generated object
\* is replaced by another one.
Converges == <>[](\A g \in Gateways : CaughtUp(g) \/ Replaced(g))
==============================================================================
