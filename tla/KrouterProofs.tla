---------------------------- MODULE KrouterProofs ----------------------------
(***************************************************************************)
(* The whole configuration path, for any Gateways, pods, generations and   *)
(* bounds: the types and the retention invariant of the control plane      *)
(* alone; what is proved of it and of a pod alone holds of the two         *)
(* together; acknowledgements are honest; and the path implements the      *)
(* abstract delivery of Rollout.                                           *)
(***************************************************************************)
EXTENDS Krouter, DataPlaneProofs

-----------------------------------------------------------------------------
(* The control plane alone. *)

cpAll == <<clusterVars, ackState, cpVars>>

\* The AckState of a control plane that knows no pod is well formed.
LEMMA EmptyAckStateType == EmptyAckState \in AckStates
  BY DEF EmptyAckState, AckStates, GenOrNone

\* ensureImmutableCM and ensureGeneratedSecret keep the store well typed.
LEMMA EnsuredType ==
  ASSUME objs \in [ObjectNames -> ObjectStates], NEW o
  PROVE  Ensured(o) \in [ObjectNames -> ObjectStates]
  BY Zenon DEF Ensured, ObjectStates

\* ensureManifest writes a well typed manifest.
LEMMA NewManifestType ==
  ASSUME manifest \in [Gateways -> Manifests], NEW g \in Gateways,
         NEW n \in Generations
  PROVE  NewManifest(g, n) \in Manifests
  BY DEF NewManifest, Manifests, GenOrNone

\* The current Gateway is one the snapshot has a generation for.
CurOK ==
    stage \in {"objects", "gc", "status"} =>
        cur \in Gateways /\ seenSpec[cur] \in Generations

TypeInv == CPTypeOK /\ CurOK

\* Every step of the control plane keeps the types (CPTypeOK), given that
\* reconcileGateway only publishes Gateways of its snapshot.
LEMMA TypeStep == TypeInv /\ [CPNext]_cpAll => TypeInv'
  <1> SUFFICES ASSUME TypeInv, [CPNext]_cpAll PROVE TypeInv'
    OBVIOUS
  <1> USE ClusterAssumption, ControlPlaneAssumption, EmptyAckStateType
  <1> USE DEF TypeInv, CPTypeOK, ClusterTypeOK, CurOK
  <1>1. ASSUME NEW g \in Gateways, NEW s \in Specs, EditSpec(g, s) PROVE TypeInv'
    BY <1>1 DEF EditSpec, clusterVars, passVars, world, GenOrNone
  <1>2. CASE GatherWorld
    BY <1>2 DEF GatherWorld, clusterVars, Stages
  <1>21. CASE LoadAcks
    BY <1>21 DEF LoadAcks, clusterVars, Stages
  <1>22. CASE GatherFails
    BY <1>22 DEF GatherFails, DropPass, Fault, Stages, Specs, GenOrNone
  <1>3. ASSUME NEW g \in Gateways, RejectGateway(g) PROVE TypeInv'
    BY <1>3 DEF RejectGateway, SetProgrammed, Fault, world, GenOrNone
  <1>4. ASSUME NEW g \in Gateways, StartPublish(g) PROVE TypeInv'
    BY <1>4 DEF StartPublish, clusterVars, world, Stages
  <1>5. ASSUME NEW k \in ObjectKinds, EnsureObject(k) PROVE TypeInv'
    BY <1>5, EnsuredType DEF EnsureObject, world
  <1>6. ASSUME NEW k \in ObjectKinds, EnsureObjectFails(k) PROVE TypeInv'
    BY <1>6, EnsuredType DEF EnsureObjectFails, Fault, world, Stages
  <1>7. CASE EnsureManifest
    <2>1. NewManifest(cur, seenSpec[cur]) \in Manifests
      BY <1>7, NewManifestType DEF EnsureManifest
    <2>2. NewManifest(cur, seenSpec[cur]).gen = seenSpec[cur]
      BY DEF NewManifest
    <2>3. Garbage(cur, NewManifest(cur, seenSpec[cur])) \in SUBSET ObjectNames
      BY DEF Garbage
    <2> QED
      BY <1>7, <2>1, <2>2, <2>3 DEF EnsureManifest, Commit, world, Stages
  <1>8. CASE EnsureManifestFails
    <2>1. NewManifest(cur, seenSpec[cur]) \in Manifests
      BY <1>8, NewManifestType DEF EnsureManifestFails
    <2>2. NewManifest(cur, seenSpec[cur]).gen = seenSpec[cur]
      BY DEF NewManifest
    <2> QED
      BY <1>8, <2>1, <2>2 DEF EnsureManifestFails, Commit, Fault, world, Stages
  <1>9. ASSUME NEW o \in ObjectNames, CollectGeneration(o) PROVE TypeInv'
    BY <1>9 DEF CollectGeneration, Fault, world, ObjectStates
  <1>10. CASE GenerationsCollected
    BY <1>10 DEF GenerationsCollected, clusterVars, world, Stages
  <1>11. CASE WriteStatus
    <2>1. Verdict(cur) \in GenOrNone
      BY DEF Verdict, GenOrNone
    <2> QED
      BY <1>11, <2>1 DEF WriteStatus, SetProgrammed, Fault, world, Stages
  <1>12. CASE StartOrphans
    BY <1>12 DEF StartOrphans, clusterVars, world, Stages
  <1>13. ASSUME NEW o \in ObjectNames, CollectOrphan(o) PROVE TypeInv'
    <2>1. <<o[1], o[2]>> \in Gateways \X Generations
      BY DEF ObjectNames
    <2> QED
      BY <1>13, <2>1 DEF CollectOrphan, Fault, world, ObjectStates
  <1>14. ASSUME NEW g \in Gateways, CollectOrphanManifest(g) PROVE TypeInv'
    <2>1. NoManifest \in Manifests
      BY DEF NoManifest, Manifests, GenOrNone
    <2> QED
      BY <1>14, <2>1 DEF CollectOrphanManifest, Fault, world
  <1>15. CASE EndPass
    BY <1>15 DEF EndPass, DropPass, clusterVars, Stages, Specs, GenOrNone
  <1>16. CASE Crash
    BY <1>16 DEF Crash, DropPass, Fault, Stages, Specs, GenOrNone
  <1>17. ASSUME NEW o \in ObjectNames, TamperObject(o),
                UNCHANGED <<ackState, cpVars>>
         PROVE  TypeInv'
    BY <1>17 DEF TamperObject, Fault, cpVars, passVars, world, ObjectStates
  <1>18. ASSUME NEW g \in Gateways, TamperManifest(g),
                UNCHANGED <<ackState, cpVars>>
         PROVE  TypeInv'
    <2>1. NoManifest \in Manifests /\ CorruptManifest \in Manifests
      BY DEF NoManifest, CorruptManifest, Manifests, GenOrNone
    <2> QED
      BY <1>18, <2>1 DEF TamperManifest, Fault, cpVars, passVars, world
  <1>19. CASE AnyAcks
    BY <1>19 DEF AnyAcks, clusterVars, cpVars, passVars, world
  <1>20. CASE UNCHANGED cpAll
    BY <1>20 DEF cpAll, clusterVars, cpVars, passVars, world
  <1> QED
    BY <1>1, <1>2, <1>3, <1>4, <1>5, <1>6, <1>7, <1>8, <1>9, <1>10, <1>11,
       <1>12, <1>13, <1>14, <1>15, <1>16, <1>17, <1>18, <1>19, <1>20,
       <1>21, <1>22, Zenon
       DEF CPNext, Reconcile, EnvironmentOfCP

\* A fresh installation with an idle control plane is well typed.
LEMMA InitType == CPStart => TypeInv
  <1> SUFFICES ASSUME ClusterInit, CPInit, ackState = EmptyAckState PROVE TypeInv
    BY DEF CPStart
  <1>1. ClusterTypeOK
    <2>1. NoManifest \in Manifests
      BY DEF NoManifest, Manifests, GenOrNone
    <2> QED
      BY <2>1, Zenon DEF ClusterInit, ClusterTypeOK, ObjectStates
  <1>2. ackState \in AckStates /\ seenAcks \in AckStates
    BY EmptyAckStateType DEF CPInit, NoPass
  <1>3. seenSpec \in [Gateways -> Specs] /\ programmed \in [Gateways -> GenOrNone]
    BY DEF CPInit, NoPass, Specs, GenOrNone
  <1> QED
    BY <1>1, <1>2, <1>3 DEF CPInit, NoPass, TypeInv, CPTypeOK, CurOK, Stages

\* The types hold in every reachable state: whatever fails, crashes, is
\* edited or acknowledged, the pass's local state stays well formed.
THEOREM CPTypeCorrect == CPSpec => []CPTypeOK
  <1>1. CPStart => TypeInv
    BY InitType
  <1>2. TypeInv /\ [CPNext]_cpAll => TypeInv'
    BY TypeStep
  <1>3. TypeInv => CPTypeOK
    BY DEF TypeInv
  <1> QED
    BY <1>1, <1>2, <1>3, PTL DEF CPSpec, cpAll

-----------------------------------------------------------------------------
\* Nothing but a hand edit damages a stored object.
NoDamage == ~tampered => \A o \in ObjectNames : objs[o] # "damaged"

\* What publishGeneration has ensured so far is in the store.
EnsuredSoFar ==
    stage = "objects" /\ ~tampered =>
        \A k \in ObjectsOf[seenSpec[cur]] \ pending :
            objs[<<cur, seenSpec[cur], k>>] = "intact"

\* gcGenerations deletes objects of its Gateway only, and none of the two
\* generations the manifest names.
GarbageOnly ==
    stage = "gc" =>
        \A o \in doomed :
            o[1] = cur /\ o[2] \notin {manifest[cur].gen, manifest[cur].prev}

StoreInv == TypeInv /\ NoDamage /\ EnsuredSoFar /\ GarbageOnly /\ Retained

\* The name of an object determines its Gateway, generation and role.
LEMMA ObjectName ==
  ASSUME NEW g \in Gateways, NEW n \in Generations, NEW k \in ObjectsOf[n]
  PROVE  <<g, n, k>> \in ObjectNames
  BY ClusterAssumption DEF ObjectNames

\* Creating what is missing takes nothing from a complete generation.
LEMMA EnsureKeepsComplete ==
  ASSUME objs \in [ObjectNames -> ObjectStates], NEW o, objs' = Ensured(o)
  PROVE  \A x \in ObjectNames : objs[x] = "intact" => objs'[x] = "intact"
  BY DEF Ensured

\* The write of ensureManifest keeps Retained: the generation it names has
\* just been ensured, the one it replaces was retained before.
LEMMA CommitRetains ==
  ASSUME TypeInv, Retained, stage = "objects", cur \in Gateways,
         seenSpec[cur] \in Generations,
         ~tampered => Complete(cur, seenSpec[cur]),
         Commit(cur, NewManifest(cur, seenSpec[cur])),
         objs' = objs, tampered' = tampered
  PROVE  Retained'
  <1> DEFINE m == NewManifest(cur, seenSpec[cur])
  <1>1. /\ m.gen = seenSpec[cur]
        /\ m.prev \in {manifest[cur].gen, manifest[cur].prev}
    BY DEF NewManifest
  <1> HIDE DEF m
  <1> SUFFICES ASSUME ~tampered, NEW g \in Gateways,
                      NEW n \in {manifest'[g].gen, manifest'[g].prev},
                      n # NoGen, <<g, n>> \notin orphaned'
               PROVE  Complete(g, n)
    BY Zenon DEF Retained, Complete
  <1>2. manifest' = [manifest EXCEPT ![cur] = m]
    BY DEF Commit, m
  <1>3. orphaned' = orphaned \ {<<cur, m.gen>>}
    BY DEF Commit, m
  <1>4. CASE g = cur
    <2>1. manifest'[g] = m
      BY <1>2, <1>4 DEF TypeInv, CPTypeOK, ClusterTypeOK
    <2>2. CASE n = seenSpec[cur]
      BY <2>2, <1>4
    <2>3. CASE n # seenSpec[cur]
      <3>1. n \in {manifest[g].gen, manifest[g].prev}
        BY <1>1, <1>4, <2>1, <2>3
      <3>2. <<g, n>> \notin orphaned
        BY <1>1, <1>3, <2>3
      <3> QED
        BY <3>1, <3>2, Zenon DEF Retained
    <2> QED
      BY <2>2, <2>3
  <1>5. CASE g # cur
    <2>1. manifest'[g] = manifest[g]
      BY <1>2, <1>5 DEF TypeInv, CPTypeOK, ClusterTypeOK
    <2>2. <<g, n>> \notin orphaned
      BY <1>3, <1>5
    <2> QED
      BY <2>1, <2>2, Zenon DEF Retained
  <1> QED
    BY <1>4, <1>5

\* Deleting an object of a generation no manifest names, or one that is
\* recorded as orphaned, takes nothing Retained speaks of.
LEMMA DeletionRetains ==
  ASSUME TypeInv, Retained, NEW o \in ObjectNames,
         UNCHANGED <<manifest, tampered>>,
         orphaned \subseteq orphaned',
         objs' \in {objs, [objs EXCEPT ![o] = "absent"]},
         \/ objs' = objs
         \/ o[2] \notin {manifest[o[1]].gen, manifest[o[1]].prev}
         \/ <<o[1], o[2]>> \in orphaned'
  PROVE  Retained'
  <1> SUFFICES ASSUME ~tampered, NEW g \in Gateways,
                      NEW n \in {manifest[g].gen, manifest[g].prev},
                      n # NoGen, <<g, n>> \notin orphaned'
               PROVE  Complete(g, n)'
    BY Zenon DEF Retained
  <1>1. Complete(g, n)
    BY Zenon DEF Retained
  <1>2. objs \in [ObjectNames -> ObjectStates] /\ n \in Generations
    BY DEF TypeInv, CPTypeOK, ClusterTypeOK, Manifests, GenOrNone
  <1>3. \A k : o = <<g, n, k>> => objs' = objs
    OBVIOUS
  <1> QED
    BY <1>1, <1>2, <1>3, ObjectName DEF Complete

\* Retained speaks of the store and its histories only.
LEMMA StoreUnchanged ==
  ASSUME Retained, UNCHANGED <<objs, manifest, tampered, orphaned>>
  PROVE  Retained'
  <1>1. \A g, n : Complete(g, n)' <=> Complete(g, n)
    BY DEF Complete
  <1> QED
    BY <1>1, Zenon DEF Retained

\* A step that leaves the store alone and does not enter a publication or a
\* collection keeps the store invariants.
LEMMA QuietStep ==
  ASSUME StoreInv, UNCHANGED <<objs, manifest, tampered, orphaned>>,
         stage' = "objects" => UNCHANGED <<stage, cur, pending, seenSpec>>,
         stage' = "gc" => UNCHANGED <<stage, cur, doomed>>
  PROVE  (NoDamage /\ EnsuredSoFar /\ GarbageOnly /\ Retained)'
  <1>1. NoDamage'
    BY DEF StoreInv, NoDamage
  <1>2. EnsuredSoFar'
    BY DEF StoreInv, EnsuredSoFar
  <1>3. GarbageOnly'
    BY DEF StoreInv, GarbageOnly
  <1>4. Retained'
    BY StoreUnchanged DEF StoreInv
  <1> QED
    BY <1>1, <1>2, <1>3, <1>4

\* Every single API call of the control plane keeps the store invariants.
LEMMA StoreStep == StoreInv /\ [CPNext]_cpAll => StoreInv'
  <1> SUFFICES ASSUME StoreInv, [CPNext]_cpAll PROVE StoreInv'
    OBVIOUS
  <1> DEFINE Goal == (NoDamage /\ EnsuredSoFar /\ GarbageOnly /\ Retained)'
  <1>0. TypeInv /\ TypeInv'
    BY TypeStep DEF StoreInv
  <1> SUFFICES Goal
    BY <1>0 DEF StoreInv
  <1> USE ClusterAssumption, ControlPlaneAssumption
  <1>1. ASSUME NEW g \in Gateways, NEW s \in Specs, EditSpec(g, s) PROVE Goal
    BY <1>1, QuietStep DEF EditSpec, clusterVars, passVars, world
  <1>2. CASE GatherWorld
    BY <1>2, QuietStep DEF GatherWorld, clusterVars
  <1>23. CASE LoadAcks
    BY <1>23, QuietStep DEF LoadAcks, clusterVars
  <1>24. CASE GatherFails
    BY <1>24, QuietStep DEF GatherFails, DropPass
  <1>3. ASSUME NEW g \in Gateways, RejectGateway(g) PROVE Goal
    BY <1>3, QuietStep DEF RejectGateway
  <1>4. ASSUME NEW g \in Gateways, StartPublish(g) PROVE Goal
    <2>1. /\ UNCHANGED <<objs, manifest, tampered, orphaned, seenSpec>>
          /\ stage' = "objects" /\ pending' = ObjectsOf[seenSpec[cur']]
      BY <1>4 DEF StartPublish, clusterVars, world
    <2>2. EnsuredSoFar'
      BY <2>1 DEF EnsuredSoFar
    <2> QED
      BY <2>1, <2>2, StoreUnchanged DEF StoreInv, NoDamage, GarbageOnly
  <1>5. ASSUME NEW k \in ObjectKinds, stage = "objects",
               objs' \in {objs, Ensured(<<cur, seenSpec[cur], k>>)},
               UNCHANGED <<manifest, tampered, orphaned>>
        PROVE  (NoDamage /\ Retained)'
    <2>1. objs \in [ObjectNames -> ObjectStates]
      BY <1>0 DEF TypeInv, CPTypeOK, ClusterTypeOK
    <2>2. \A x \in ObjectNames : objs[x] = "intact" => objs'[x] = "intact"
      BY <1>5, <2>1, EnsureKeepsComplete
    <2>3. NoDamage'
      BY <1>5, <2>1 DEF StoreInv, NoDamage, Ensured
    <2>4. \A g \in Gateways, n \in Generations : Complete(g, n) => Complete(g, n)'
      BY <2>2, ObjectName DEF Complete
    <2>5. \A g \in Gateways : {manifest[g].gen, manifest[g].prev} \subseteq GenOrNone
      BY <1>0 DEF TypeInv, CPTypeOK, ClusterTypeOK, Manifests
    <2>6. Retained'
      BY <1>5, <2>4, <2>5, Zenon DEF StoreInv, Retained, GenOrNone
    <2> QED
      BY <2>3, <2>6
  <1>6. ASSUME NEW k \in ObjectKinds, EnsureObject(k) PROVE Goal
    <2>1. (NoDamage /\ Retained)'
      BY <1>5, <1>6 DEF EnsureObject
    <2>2. /\ stage = "objects" /\ stage' = stage /\ cur' = cur
          /\ seenSpec' = seenSpec /\ pending' = pending \ {k}
          /\ tampered' = tampered
          /\ objs' = Ensured(<<cur, seenSpec[cur], k>>)
      BY <1>6 DEF EnsureObject, world
    <2>3. /\ cur \in Gateways /\ seenSpec[cur] \in Generations
          /\ objs \in [ObjectNames -> ObjectStates]
      BY <1>0, <2>2 DEF TypeInv, CurOK, CPTypeOK, ClusterTypeOK
    <2>4. EnsuredSoFar'
      <3> SUFFICES ASSUME ~tampered, NEW j \in ObjectsOf[seenSpec[cur]],
                          j \notin pending \ {k}
                   PROVE  objs'[<<cur, seenSpec[cur], j>>] = "intact"
        BY <2>2 DEF EnsuredSoFar
      <3>1. <<cur, seenSpec[cur], j>> \in ObjectNames
        BY <2>3, ObjectName
      <3>2. CASE j = k
        BY <2>2, <2>3, <3>1, <3>2 DEF Ensured, StoreInv, NoDamage, ObjectStates
      <3>3. CASE j # k
        <4>1. objs[<<cur, seenSpec[cur], j>>] = "intact"
          BY <2>2, <3>3 DEF StoreInv, EnsuredSoFar
        <4> QED
          BY <2>2, <2>3, <3>1, <4>1, EnsureKeepsComplete
      <3> QED
        BY <3>2, <3>3
    <2> QED
      BY <2>1, <2>2, <2>4 DEF GarbageOnly
  <1>7. ASSUME NEW k \in ObjectKinds, EnsureObjectFails(k) PROVE Goal
    <2>1. (NoDamage /\ Retained)' /\ stage' = "next"
      BY <1>5, <1>7 DEF EnsureObjectFails
    <2> QED
      BY <2>1 DEF EnsuredSoFar, GarbageOnly
  <1>8. ASSUME stage = "objects", pending = {} 
        PROVE  /\ cur \in Gateways /\ seenSpec[cur] \in Generations
               /\ ~tampered => Complete(cur, seenSpec[cur])
    BY <1>0, <1>8 DEF TypeInv, CurOK, StoreInv, EnsuredSoFar, Complete
  <1>9. CASE EnsureManifest
    <2> DEFINE m == NewManifest(cur, seenSpec[cur])
    <2>1. Retained'
      BY <1>0, <1>8, <1>9, CommitRetains DEF EnsureManifest, StoreInv
    <2>2. /\ stage' = "gc" /\ cur' = cur /\ doomed' = Garbage(cur, m)
          /\ UNCHANGED <<objs, tampered>>
          /\ manifest' = [manifest EXCEPT ![cur] = m]
      BY <1>9 DEF EnsureManifest, Commit
    <2>3. manifest'[cur] = m
      BY <1>0, <1>8, <1>9, <2>2 DEF EnsureManifest, TypeInv, CPTypeOK, ClusterTypeOK
    <2>4. \A o \in doomed' : o[1] = cur /\ o[2] \notin {m.gen, m.prev}
      BY <2>2 DEF Garbage, Keep
    <2> QED
      BY <2>1, <2>2, <2>3, <2>4
         DEF StoreInv, NoDamage, EnsuredSoFar, GarbageOnly
  <1>10. CASE EnsureManifestFails
    <2>1. /\ stage' = "next" /\ UNCHANGED <<objs, tampered>>
          /\ stage = "objects" /\ pending = {}
      BY <1>10 DEF EnsureManifestFails
    <2>2. Commit(cur, NewManifest(cur, seenSpec[cur])) => Retained'
      BY <1>0, <1>8, <2>1, CommitRetains DEF StoreInv
    <2>3. UNCHANGED <<manifest, committed, orphaned>> => Retained'
      BY <2>1, StoreUnchanged DEF StoreInv
    <2>4. Retained'
      BY <1>10, <2>2, <2>3 DEF EnsureManifestFails
    <2> QED
      BY <2>1, <2>4 DEF StoreInv, NoDamage, EnsuredSoFar, GarbageOnly
  <1>11. ASSUME NEW o \in ObjectNames, CollectGeneration(o) PROVE Goal
    <2>1. /\ stage = "gc" /\ o \in doomed /\ doomed' = doomed \ {o}
          /\ objs' \in {objs, [objs EXCEPT ![o] = "absent"]}
          /\ UNCHANGED <<manifest, tampered, orphaned, stage, cur>>
      BY <1>11 DEF CollectGeneration, NextDoomed
    <2>2. objs \in [ObjectNames -> ObjectStates]
      BY <1>0 DEF TypeInv, CPTypeOK, ClusterTypeOK
    <2>3. o[1] = cur /\ o[2] \notin {manifest[cur].gen, manifest[cur].prev}
      BY <2>1 DEF StoreInv, GarbageOnly
    <2>4. NoDamage'
      BY <2>1, <2>2 DEF StoreInv, NoDamage
    <2>5. Retained'
      BY <1>0, <2>1, <2>2, <2>3, DeletionRetains, Zenon DEF StoreInv
    <2> QED
      BY <2>1, <2>4, <2>5 DEF StoreInv, EnsuredSoFar, GarbageOnly
  <1>12. CASE GenerationsCollected
    BY <1>12, QuietStep DEF GenerationsCollected, clusterVars
  <1>13. CASE WriteStatus
    BY <1>13, QuietStep DEF WriteStatus
  <1>14. CASE StartOrphans
    BY <1>14, QuietStep DEF StartOrphans, clusterVars
  <1>15. ASSUME NEW o \in ObjectNames, CollectOrphan(o) PROVE Goal
    <2>1. /\ stage = "orphans" /\ UNCHANGED <<manifest, tampered, stage>>
          /\ \/ /\ objs' = [objs EXCEPT ![o] = "absent"]
                /\ orphaned' = orphaned \cup {<<o[1], o[2]>>}
             \/ UNCHANGED <<objs, orphaned>>
      BY <1>15 DEF CollectOrphan
    <2>2. objs \in [ObjectNames -> ObjectStates]
      BY <1>0 DEF TypeInv, CPTypeOK, ClusterTypeOK
    <2>3. NoDamage'
      BY <2>1, <2>2 DEF StoreInv, NoDamage
    <2>4. Retained'
      BY <1>0, <2>1, <2>2, DeletionRetains, Zenon DEF StoreInv
    <2> QED
      BY <2>1, <2>3, <2>4 DEF EnsuredSoFar, GarbageOnly
  <1>16. ASSUME NEW g \in Gateways, CollectOrphanManifest(g) PROVE Goal
    <2>1. /\ stage = "orphans" /\ UNCHANGED <<objs, tampered, stage, orphaned>>
          /\ manifest' \in {manifest, [manifest EXCEPT ![g] = NoManifest]}
      BY <1>16 DEF CollectOrphanManifest
    <2>2. \A x \in Gateways :
            \/ manifest'[x] = manifest[x]
            \/ manifest'[x].gen = NoGen /\ manifest'[x].prev = NoGen
      <3>1. manifest \in [Gateways -> Manifests]
        BY <1>0 DEF TypeInv, CPTypeOK, ClusterTypeOK
      <3>2. \A x \in Gateways : manifest'[x] \in {manifest[x], NoManifest}
        BY <2>1, <3>1
      <3>3. NoManifest.gen = NoGen /\ NoManifest.prev = NoGen
        BY DEF NoManifest
      <3> QED
        BY <3>2, <3>3
    <2>3. \A x, n : Complete(x, n)' <=> Complete(x, n)
      BY <2>1 DEF Complete
    <2>4. ASSUME ~tampered, NEW x \in Gateways,
                 NEW n \in {manifest'[x].gen, manifest'[x].prev},
                 n # NoGen, <<x, n>> \notin orphaned
          PROVE  Complete(x, n)
      BY <2>2, <2>4, Zenon DEF StoreInv, Retained
    <2>5. Retained'
      BY <2>1, <2>3, <2>4, Zenon DEF Retained
    <2> QED
      BY <2>1, <2>5 DEF StoreInv, NoDamage, EnsuredSoFar, GarbageOnly
  <1>17. CASE EndPass
    BY <1>17, QuietStep DEF EndPass, DropPass, clusterVars
  <1>18. CASE Crash
    BY <1>18, QuietStep DEF Crash, DropPass
  <1>19. ASSUME NEW o \in ObjectNames, TamperObject(o),
                UNCHANGED <<ackState, cpVars>>
         PROVE  Goal
    BY <1>19 DEF TamperObject, StoreInv, NoDamage, EnsuredSoFar, GarbageOnly,
                 Retained, cpVars, passVars, world
  <1>20. ASSUME NEW g \in Gateways, TamperManifest(g),
                UNCHANGED <<ackState, cpVars>>
         PROVE  Goal
    <2>1. /\ tampered' /\ UNCHANGED <<stage, cur, doomed>>
          /\ manifest' \in {[manifest EXCEPT ![g] = NoManifest],
                            [manifest EXCEPT ![g] = CorruptManifest]}
      BY <1>20 DEF TamperManifest, cpVars, passVars
    <2>2. /\ manifest \in [Gateways -> Manifests]
          /\ \A o \in doomed : o[2] \in Generations
      BY <1>0 DEF TypeInv, CPTypeOK, ClusterTypeOK, ObjectNames
    <2>3. \A x \in Gateways : x # g => manifest'[x] = manifest[x]
      BY <2>1, <2>2
    <2>4. manifest'[g].gen = NoGen /\ manifest'[g].prev = NoGen
      <3>1. manifest'[g] \in {NoManifest, CorruptManifest}
        BY <2>1, <2>2
      <3>2. /\ NoManifest.gen = NoGen /\ NoManifest.prev = NoGen
            /\ CorruptManifest.gen = NoGen /\ CorruptManifest.prev = NoGen
        BY DEF NoManifest, CorruptManifest
      <3> QED
        BY <3>1, <3>2
    <2>5. GarbageOnly'
      <3> SUFFICES ASSUME stage = "gc", NEW o \in doomed
                   PROVE  o[1] = cur /\ o[2] \notin {manifest'[cur].gen, manifest'[cur].prev}
        BY <2>1 DEF GarbageOnly
      <3>1. cur \in Gateways
        BY <1>0 DEF TypeInv, CurOK
      <3>2. o[1] = cur /\ o[2] \notin {manifest[cur].gen, manifest[cur].prev}
        BY DEF StoreInv, GarbageOnly
      <3>3. o[2] # NoGen
        BY <2>2, ClusterAssumption DEF ClusterAssumption
      <3>4. CASE cur = g
        BY <2>4, <3>2, <3>3, <3>4
      <3>5. CASE cur # g
        BY <2>3, <3>1, <3>2, <3>5
      <3> QED
        BY <3>4, <3>5
    <2> QED
      BY <2>1, <2>5, Zenon DEF NoDamage, EnsuredSoFar, Retained
  <1>21. CASE AnyAcks
    BY <1>21, QuietStep DEF AnyAcks, clusterVars, cpVars, passVars, world
  <1>22. CASE UNCHANGED cpAll
    BY <1>22, QuietStep DEF cpAll, clusterVars, cpVars, passVars, world
  <1> QED
    BY <1>1, <1>2, <1>3, <1>4, <1>6, <1>7, <1>9, <1>10, <1>11, <1>12, <1>13,
       <1>14, <1>15, <1>16, <1>17, <1>18, <1>19, <1>20, <1>21, <1>22, <1>23,
       <1>24
       DEF CPNext, Reconcile, EnvironmentOfCP

\* A fresh installation retains nothing yet.
LEMMA StoreInit == CPStart => StoreInv
  <1> SUFFICES ASSUME ClusterInit, CPInit, ackState = EmptyAckState
               PROVE  StoreInv
    BY DEF CPStart
  <1>1. TypeInv
    BY InitType DEF CPStart
  <1> QED
    BY <1>1 DEF ClusterInit, CPInit, NoPass, NoManifest, StoreInv, NoDamage,
                EnsuredSoFar, GarbageOnly, Retained

\* Publication is atomic and retention holds at every API call, for any
\* number of Gateways, pods and generations and any acknowledgements: the
\* generation a manifest names and the one it replaced are complete.
THEOREM CPRetained == CPSpec => []Retained
  <1>1. StoreInv => Retained
    BY DEF StoreInv
  <1> QED
    BY <1>1, StoreInit, StoreStep, PTL DEF CPSpec, cpAll

-----------------------------------------------------------------------------
\* What a step of the control plane does to the manifests and to the
\* Programmed conditions, of which it changes one at a time.
CommitsOne ==
    \E g \in Gateways : \E m \in Manifests :
        /\ m.state = "valid" /\ m.gen \in Generations
        /\ manifest' = [manifest EXCEPT ![g] = m]
        /\ committed' = [committed EXCEPT ![g] = @ \cup {m.gen}]
        /\ UNCHANGED <<removed, programmed>>

WithdrawsOne ==
    \E g \in Gateways :
        /\ manifest' = [manifest EXCEPT ![g] = NoManifest]
        /\ removed' = removed \cup {g}
        /\ UNCHANGED <<committed, programmed>>

CorruptsOne ==
    \E g \in Gateways :
        /\ manifest' = [manifest EXCEPT ![g] = CorruptManifest]
        /\ UNCHANGED <<committed, removed, programmed>>

ProgramsOne ==
    \E g \in Gateways : \E n \in GenOrNone :
        /\ n = NoGen \/ (n \in Generations /\ AllAcked(seenAcks, g, n))
        /\ programmed' = [programmed EXCEPT ![g] = n]
        /\ UNCHANGED <<manifest, committed, removed>>

\* writeGatewayStatus writes nothing for a Gateway that is gone.
LEMMA SetProgrammedEffect ==
  ASSUME programmed \in [Gateways -> GenOrNone], NEW g \in Gateways, NEW n,
         SetProgrammed(g, n)
  PROVE  programmed' = programmed \/ programmed' = [programmed EXCEPT ![g] = n]
  BY Zenon DEF SetProgrammed

\* Every step of the control plane, and every edit, is one of these.
LEMMA CPEffect ==
  ASSUME TypeInv, CPNext
  PROVE  \/ CommitsOne \/ WithdrawsOne \/ CorruptsOne \/ ProgramsOne
         \/ UNCHANGED <<manifest, committed, removed, programmed>>
  <1> DEFINE Quietly == UNCHANGED <<manifest, committed, removed, programmed>>
             Goal == CommitsOne \/ WithdrawsOne \/ CorruptsOne \/ ProgramsOne \/ Quietly
  <1> SUFFICES Goal
    OBVIOUS
  <1> USE DEF TypeInv, CPTypeOK, ClusterTypeOK
  <1>0. NoGen \in GenOrNone
    BY DEF GenOrNone
  <1>1. ASSUME NEW g \in Gateways, NEW s \in Specs, EditSpec(g, s) PROVE Goal
    <2>1. UNCHANGED <<manifest, committed, removed>>
      BY <1>1 DEF EditSpec, clusterVars
    <2>2. programmed' = [programmed EXCEPT ![g] = NoGen] \/ programmed' = programmed
      BY <1>1, Zenon DEF EditSpec
    <2> QED
      BY <1>0, <2>1, <2>2 DEF ProgramsOne
  <1>2. ASSUME NEW g \in Gateways, RejectGateway(g) PROVE Goal
    <2>1. UNCHANGED <<manifest, committed, removed>>
      BY <1>2 DEF RejectGateway
    <2>2. programmed' = [programmed EXCEPT ![g] = NoGen] \/ programmed' = programmed
      BY <1>2, SetProgrammedEffect DEF RejectGateway
    <2> QED
      BY <1>0, <2>1, <2>2 DEF ProgramsOne
  <1>3. CASE WriteStatus
    <2>1. UNCHANGED <<manifest, committed, removed>> /\ cur \in Gateways
      BY <1>3 DEF WriteStatus, CurOK
    <2>2. \/ programmed' = [programmed EXCEPT ![cur] = Verdict(cur)]
          \/ programmed' = programmed
      BY <1>3, <2>1, SetProgrammedEffect DEF WriteStatus
    <2>3. \/ Verdict(cur) = NoGen
          \/ Verdict(cur) \in Generations /\ AllAcked(seenAcks, cur, Verdict(cur))
      BY ControlPlaneAssumption DEF Verdict
    <2>4. Verdict(cur) \in GenOrNone
      BY <2>3 DEF GenOrNone
    <2> QED
      BY <2>1, <2>2, <2>3, <2>4 DEF ProgramsOne
  <1>4. ASSUME stage = "objects", Commit(cur, NewManifest(cur, seenSpec[cur])),
               UNCHANGED <<removed, programmed>>
        PROVE  Goal
    <2> DEFINE m == NewManifest(cur, seenSpec[cur])
    <2>1. cur \in Gateways /\ seenSpec[cur] \in Generations
      BY <1>4 DEF CurOK
    <2>2. m \in Manifests /\ m.state = "valid" /\ m.gen = seenSpec[cur]
      BY <2>1, NewManifestType DEF NewManifest
    <2> HIDE DEF m
    <2>3. /\ manifest' = [manifest EXCEPT ![cur] = m]
          /\ committed' = [committed EXCEPT ![cur] = @ \cup {m.gen}]
      BY <1>4 DEF Commit, m
    <2> QED
      BY <1>4, <2>1, <2>2, <2>3, Zenon DEF CommitsOne
  <1>5. CASE EnsureManifest
    BY <1>4, <1>5 DEF EnsureManifest
  <1>6. CASE EnsureManifestFails
    BY <1>4, <1>6 DEF EnsureManifestFails
  <1>7. ASSUME NEW g \in Gateways, CollectOrphanManifest(g) PROVE Goal
    BY <1>7 DEF CollectOrphanManifest, WithdrawsOne
  <1>8. ASSUME NEW g \in Gateways, TamperManifest(g), UNCHANGED cpVars PROVE Goal
    BY <1>8 DEF TamperManifest, WithdrawsOne, CorruptsOne, cpVars
  <1>9. ASSUME NEW o \in ObjectNames, TamperObject(o), UNCHANGED cpVars PROVE Goal
    BY <1>9 DEF TamperObject, cpVars
  <1>10. CASE LoadAcks \/ GatherWorld \/ GatherFails \/ GenerationsCollected
                \/ StartOrphans \/ EndPass \/ Crash \/ AnyAcks
    BY <1>10 DEF LoadAcks, GatherWorld, GatherFails, GenerationsCollected,
       StartOrphans, EndPass, Crash, AnyAcks, clusterVars, cpVars
  <1>11. ASSUME NEW g \in Gateways, StartPublish(g) PROVE Goal
    BY <1>11 DEF StartPublish, clusterVars
  <1>12. ASSUME NEW k \in ObjectKinds, EnsureObject(k) \/ EnsureObjectFails(k) PROVE Goal
    BY <1>12 DEF EnsureObject, EnsureObjectFails
  <1>13. ASSUME NEW o \in ObjectNames, CollectGeneration(o) \/ CollectOrphan(o) PROVE Goal
    BY <1>13 DEF CollectGeneration, CollectOrphan
  <1> HIDE DEF Goal
  <1> QED
    BY <1>1, <1>2, <1>3, <1>5, <1>6, <1>7, <1>8, <1>9, <1>10, <1>11, <1>12, <1>13
       DEF CPNext, Reconcile, EnvironmentOfCP

\* The control plane moves the store as the pods expect.
LEMMA CPStoreMoves ==
  ASSUME TypeInv, SnapshotsNamed, CPNext
  PROVE  StoreMoves
  <1>1. ClusterTypeOK /\ ClusterTypeOK'
    BY TypeStep DEF TypeInv, CPTypeOK
  <1> USE DEF ClusterTypeOK
  <1>2. \A g \in Gateways : Named(manifest[g], g)
    BY DEF SnapshotsNamed
  <1>3. CASE CommitsOne
    <2>1. PICK g \in Gateways : \E m \in Manifests :
            /\ m.state = "valid" /\ m.gen \in Generations
            /\ manifest' = [manifest EXCEPT ![g] = m]
            /\ committed' = [committed EXCEPT ![g] = @ \cup {m.gen}]
            /\ UNCHANGED <<removed, programmed>>
      BY <1>3, Zenon DEF CommitsOne
    <2>2. PICK m \in Manifests :
            /\ m.state = "valid" /\ m.gen \in Generations
            /\ manifest' = [manifest EXCEPT ![g] = m]
            /\ committed' = [committed EXCEPT ![g] = @ \cup {m.gen}]
            /\ removed' = removed
      BY <2>1, Zenon
    <2>3. \A h \in Gateways : committed[h] \subseteq committed'[h]
      BY <1>1, <2>2
    <2>4. manifest'[g].gen \in committed'[g] /\ manifest'[g].state = "valid"
      BY <1>1, <2>2
    <2>5. \A h \in Gateways \ {g} : manifest'[h] = manifest[h]
      BY <1>1, <2>2
    <2>6. \A h \in Gateways : Named(manifest[h], h)'
      BY <1>2, <2>3, <2>4, <2>5 DEF Named
    <2>7. \A h \in Gateways \ removed' :
              manifest[h].state # "absent" => manifest'[h].state # "absent"
      BY <2>4, <2>5
    <2> QED
      BY <1>1, <2>2, <2>3, <2>6, <2>7 DEF StoreMoves
  <1>4. CASE WithdrawsOne
    BY <1>1, <1>2, <1>4 DEF WithdrawsOne, StoreMoves, Named, NoManifest
  <1>5. CASE CorruptsOne
    BY <1>1, <1>2, <1>5 DEF CorruptsOne, StoreMoves, Named, CorruptManifest
  <1>6. CASE UNCHANGED <<manifest, committed, removed>>
    BY <1>1, <1>2, <1>6 DEF StoreMoves, Named
  <1> QED
    BY <1>3, <1>4, <1>5, <1>6, CPEffect DEF ProgramsOne

-----------------------------------------------------------------------------
PollTypes ==
    /\ polling \in BOOLEAN
    /\ toPoll \in SUBSET Pods
    /\ partial \in AckStates

\* Without faults every pod is up, a poll asks and hears all of them, and
\* an AckState that knows one pod knows them all.
Whole(acks) == acks.healthy \in {{}, Pods}

PollsWhole ==
    faults = 0 =>
        /\ up = Pods
        /\ polling => toPoll \cup partial.healthy = Pods
        /\ Whole(ackState) /\ Whole(seenAcks)

KInv ==
    /\ StoreInv /\ PodInv /\ PollTypes
    /\ ProgrammedWasServed
    /\ PollsWhole /\ ProgrammedByAll

-----------------------------------------------------------------------------
\* The steps of the whole system, by who takes them.
NobodysFault ==
    /\ UNCHANGED <<objs, manifest, committed, removed, tampered>>
    /\ faults' \in {faults, faults + 1}

PodTurn(p) == PodStep(p) /\ UNCHANGED <<ackState, cpVars, pollVars>>

ControlTurn ==
    /\ CPNext /\ UNCHANGED <<dpVars, pollVars>>
    /\ ackState' = ackState
    /\ seenAcks' \in {seenAcks, ackState, EmptyAckState}

CrashTurn ==
    /\ CPNext /\ UNCHANGED dpVars
    /\ ackState' = EmptyAckState /\ seenAcks' = EmptyAckState
    /\ polling' = FALSE /\ toPoll' = {} /\ partial' = EmptyAckState
    /\ UNCHANGED <<manifest, committed, removed, programmed>>
    /\ faults' = faults + 1

PollTurn ==
    /\ ListPods \/ \E p \in Pods : FetchPod(p) \/ FetchPodFails(p)
    /\ NobodysFault /\ UNCHANGED <<dpVars, ackState, cpVars>>

\* Every step is the turn of one of them.
LEMMA Turns ==
  ASSUME Next
  PROVE  \/ ControlTurn \/ CrashTurn \/ PollTurn
         \/ PublishAcks /\ UNCHANGED cpVars
         \/ \E p \in Pods : PodTurn(p)
  <1>1. CASE ReconcilerStep
    <2>1. CPNext /\ UNCHANGED <<dpVars, pollVars>>
      BY <1>1 DEF ReconcilerStep, CPNext
    <2>2. ackState' = ackState /\ seenAcks' \in {seenAcks, ackState, EmptyAckState}
      BY <1>1, Zenon DEF ReconcilerStep, Reconcile, LoadAcks, GatherWorld, GatherFails,
         RejectGateway, StartPublish, EnsureObject, EnsureObjectFails,
         EnsureManifest, EnsureManifestFails, CollectGeneration, CollectOrphan,
         GenerationsCollected, WriteStatus, StartOrphans, CollectOrphanManifest,
         EndPass, DropPass, world
    <2> QED
      BY <2>1, <2>2 DEF ControlTurn
  <1>2. CASE UserStep
    <2>1. CPNext /\ UNCHANGED <<dpVars, pollVars>>
      BY <1>2 DEF UserStep, CPNext
    <2>2. ackState' = ackState /\ seenAcks' = seenAcks
      BY <1>2 DEF UserStep, EnvironmentOfCP, EditSpec, cpVars, passVars, world
    <2> QED
      BY <2>1, <2>2 DEF ControlTurn
  <1>3. CASE ControlPlaneCrash
    BY <1>3 DEF ControlPlaneCrash, CPNext, Crash, DropPass, Fault, CrashTurn
  <1>4. CASE PollerStep
    <2>1. ASSUME ListPods \/ \E p \in Pods : FetchPod(p) \/ FetchPodFails(p)
          PROVE  NobodysFault /\ UNCHANGED <<dpVars, ackState>>
      BY <2>1 DEF ListPods, FetchPod, FetchPodFails, Fault, clusterVars, NobodysFault
    <2> QED
      BY <1>4, <2>1 DEF PollerStep, PollStep, PollTurn
  <1>5. ASSUME NEW p \in Pods, WatcherStep(p) \/ LoaderStep(p) \/ PodLifecycle(p)
        PROVE  PodTurn(p)
    BY <1>5 DEF WatcherStep, LoaderStep, PodLifecycle, PodStep, PodTurn
  <1> QED
    BY <1>1, <1>2, <1>3, <1>4, <1>5 DEF Next

\* A pod that fails or stops, and a poll, leave the store alone.
LEMMA FaultAlone ==
  ASSUME StoreInv, PodInv, NobodysFault
  PROVE  /\ StoreMoves
         /\ UNCHANGED <<ackState, cpVars>> => StoreInv'
  <1> USE DEF NobodysFault
  <1>1. ClusterTypeOK'
    BY DEF PodInv, PodTypes, ClusterTypeOK
  <1>2. StoreMoves
    BY <1>1 DEF PodInv, SnapshotsNamed, Named, StoreMoves
  <1>3. ASSUME UNCHANGED <<ackState, cpVars>> PROVE StoreInv'
    <2>1. TypeInv'
      BY <1>1, <1>3 DEF StoreInv, TypeInv, CPTypeOK, CurOK, cpVars, passVars, world
    <2>2. (NoDamage /\ EnsuredSoFar /\ GarbageOnly /\ Retained)'
      BY <1>3, QuietStep DEF cpVars, passVars, world
    <2> QED
      BY <2>1, <2>2 DEF StoreInv
  <1> QED
    BY <1>2, <1>3

\* A step of a pod costs one fault at most.
LEMMA PodFault ==
  ASSUME NEW p \in Pods, PodStep(p)
  PROVE  NobodysFault
  <1>1. faults' \in {faults, faults + 1}
    BY Zenon DEF PodStep, ListConfigMaps, ListSecrets, ListSecretsFails, Rebuild,
       PublishStatuses, PodStops, PodStarts, Fault, clusterVars
  <1> QED
    BY <1>1, PodReads DEF NobodysFault

\* The control plane's and the pods' own invariants hold of the composition:
\* neither disturbs the other.
LEMMA PartsStep ==
  ASSUME KInv, Next
  PROVE  StoreInv' /\ PodInv'
  <1> USE DEF KInv
  <1>0. StoreInv /\ PodInv /\ TypeInv /\ SnapshotsNamed
    BY DEF StoreInv, PodInv
  <1>1. ASSUME CPNext, UNCHANGED dpVars PROVE StoreInv' /\ PodInv'
    BY <1>0, <1>1, StoreStep, CPStoreMoves, StoreInvStep
  <1>2. CASE PollTurn
    BY <1>0, <1>2, FaultAlone, StoreInvStep DEF PollTurn
  <1>3. CASE PublishAcks /\ UNCHANGED cpVars
    <2>1. CPNext /\ UNCHANGED dpVars
      BY <1>3 DEF PublishAcks, CPNext, AnyAcks, PollTypes
    <2> QED
      BY <1>1, <2>1
  <1>4. ASSUME NEW p \in Pods, PodTurn(p) PROVE StoreInv' /\ PodInv'
    <2>1. NobodysFault /\ UNCHANGED <<ackState, cpVars>>
      BY <1>4, PodFault DEF PodTurn
    <2> QED
      BY <1>0, <1>4, <2>1, FaultAlone, PodInvStep DEF PodTurn
  <1> QED
    BY <1>1, <1>2, <1>3, <1>4, Turns, Zenon DEF ControlTurn, CrashTurn

-----------------------------------------------------------------------------
\* What a pod has served stays served.
LEMMA ServedGrows ==
  ASSUME PodInv, Next
  PROVE  \A p \in Pods, g \in Gateways : everServed[p][g] \subseteq everServed'[p][g]
  <1>1. CASE UNCHANGED everServed
    BY <1>1
  <1>2. ASSUME NEW q \in Pods, Rebuild(q), NEW p \in Pods, NEW g \in Gateways
        PROVE  everServed[p][g] \subseteq everServed'[p][g]
    <2>1. /\ everServed' = [everServed EXCEPT ![q] = everServed'[q]]
          /\ everServed'[q] =
               [h \in Gateways |-> everServed[q][h] \cup ({served'[q][h]} \ {NoGen})]
      BY <1>2, RebuildEffect, Zenon DEF PodInv
    <2>2. everServed \in [Pods -> [Gateways -> SUBSET Generations]]
      BY DEF PodInv, PodTypes, PodTypeOK
    <2>3. CASE p = q
      BY <2>1, <2>3, Zenon
    <2>4. CASE p # q
      BY <2>1, <2>2, <2>4, Zenon
    <2> QED
      BY <2>3, <2>4
  <1>3. ASSUME NEW p \in Pods, PodStep(p) PROVE UNCHANGED everServed \/ Rebuild(p)
    BY <1>3, Zenon DEF PodStep, ListConfigMaps, ListSecrets, ListSecretsFails,
       PublishStatuses, PodStops, PodStarts
  <1>4. UNCHANGED everServed \/ \E p \in Pods : PodStep(p)
    BY Turns, Zenon DEF ControlTurn, CrashTurn, PollTurn, PublishAcks, PodTurn, dpVars
  <1> QED
    BY <1>1, <1>2, <1>3, <1>4, Zenon

\* A view that knows no pod is honest.
LEMMA EmptyHonest == AcksHonest(EmptyAckState)
  BY Zenon DEF AcksHonest, EmptyAckState

\* fetch adds to the poller's view what the pod reports.
LEMMA FetchEffect ==
  ASSUME KInv, NEW p \in Pods, FetchPod(p)
  PROVE  /\ partial' \in AckStates
         /\ AcksHonest(partial')
         /\ partial'.healthy = partial.healthy \cup {p}
  <1> DEFINE row == [g \in Gateways |-> reported[p][g].applied]
  <1>1. partial' = [healthy |-> partial.healthy \cup {p},
                    applied |-> [partial.applied EXCEPT ![p] = row]]
    BY DEF FetchPod
  <1>2. /\ partial.healthy \in SUBSET Pods
        /\ partial.applied \in [Pods -> [Gateways -> GenOrNone]]
        /\ \A q \in Pods \ partial.healthy : partial.applied[q] = [g \in Gateways |-> NoGen]
    BY DEF KInv, PollTypes, AckStates
  <1>3. row \in [Gateways -> GenOrNone]
    BY DEF KInv, PodInv, PodTypes, PodTypeOK, Statuses
  <1>4. \A g \in Gateways : row[g] \in everServed[p][g] \cup {NoGen}
    BY DEF KInv, PodInv, AckInv, AckMatchesTables
  <1> HIDE DEF row
  <1>5. partial' \in AckStates
    BY <1>1, <1>2, <1>3 DEF AckStates
  <1>6. AcksHonest(partial)
    BY DEF KInv, ProgrammedWasServed
  <1>7. \A q \in Pods, g \in Gateways :
            partial'.applied[q][g] \in everServed[q][g] \cup {NoGen}
    BY <1>1, <1>2, <1>4, <1>6 DEF AcksHonest
  <1> QED
    BY <1>1, <1>5, <1>7, Zenon DEF AcksHonest

\* The poller's view stays well formed.
LEMMA PollTypesStep ==
  ASSUME KInv, Next
  PROVE  PollTypes'
  <1> USE DEF PollTypes
  <1>0. PollTypes /\ up \in SUBSET Pods
    BY DEF KInv, PodInv, PodTypes, PodTypeOK
  <1>1. CASE UNCHANGED pollVars
    BY <1>0, <1>1 DEF pollVars
  <1>2. CASE CrashTurn
    BY <1>2, EmptyAckStateType, Zenon DEF CrashTurn
  <1>3. CASE PublishAcks
    BY <1>0, <1>3, EmptyAckStateType, Zenon DEF PublishAcks
  <1>4. CASE ListPods
    BY <1>0, <1>4 DEF ListPods
  <1>5. ASSUME NEW p \in Pods, FetchPod(p) PROVE PollTypes'
    BY <1>0, <1>5, FetchEffect DEF FetchPod
  <1>6. ASSUME NEW p \in Pods, FetchPodFails(p) PROVE PollTypes'
    BY <1>0, <1>6 DEF FetchPodFails
  <1> QED
    BY <1>1, <1>2, <1>3, <1>4, <1>5, <1>6, Turns DEF ControlTurn, PollTurn, PodTurn

\* The three views of the acknowledgements stay honest.
LEMMA HonestStep ==
  ASSUME KInv, Next
  PROVE  (AcksHonest(partial) /\ AcksHonest(ackState) /\ AcksHonest(seenAcks))'
  <1>1. /\ AcksHonest(partial) /\ AcksHonest(ackState) /\ AcksHonest(seenAcks)
        /\ PodInv
    BY DEF KInv, ProgrammedWasServed
  <1> DEFINE Good(s) == \A p \in Pods, g \in Gateways :
                           s.applied[p][g] \in everServed'[p][g] \cup {NoGen}
  <1>2. \A s : AcksHonest(s) => Good(s)
    BY <1>1, ServedGrows DEF AcksHonest
  <1>3. Good(partial) /\ Good(ackState) /\ Good(seenAcks) /\ Good(EmptyAckState)
    BY <1>1, <1>2, EmptyHonest
  <1> HIDE DEF Good
  <1> SUFFICES Good(partial') /\ Good(ackState') /\ Good(seenAcks')
    BY DEF Good, AcksHonest
  <1>4. CASE ControlTurn
    BY <1>3, <1>4 DEF ControlTurn, pollVars
  <1>5. CASE CrashTurn
    BY <1>3, <1>5 DEF CrashTurn
  <1>6. CASE PollTurn
    <2>1. ackState' = ackState /\ seenAcks' = seenAcks
      BY <1>6 DEF PollTurn, cpVars, passVars, world
    <2>2. ASSUME NEW p \in Pods, FetchPod(p) PROVE Good(partial')
      BY <1>2, <2>2, FetchEffect
    <2>3. ASSUME NEW p \in Pods, FetchPodFails(p) PROVE partial' = partial
      BY <2>3 DEF FetchPodFails
    <2>4. ASSUME ListPods PROVE partial' = partial
      BY <2>4 DEF ListPods
    <2> QED
      BY <1>3, <1>6, <2>1, <2>2, <2>3, <2>4 DEF PollTurn
  <1>7. CASE PublishAcks /\ UNCHANGED cpVars
    BY <1>3, <1>7 DEF PublishAcks, cpVars, passVars, world
  <1>8. ASSUME NEW p \in Pods, PodTurn(p)
        PROVE  Good(partial') /\ Good(ackState') /\ Good(seenAcks')
    BY <1>3, <1>8 DEF PodTurn, cpVars, passVars, world, pollVars
  <1> QED
    BY <1>4, <1>5, <1>6, <1>7, <1>8, Turns

\* Who writes a Programmed condition: a pass that found every healthy pod of
\* its view to have applied the generation, or one that takes it back.
LEMMA ProgrammedEffect ==
  ASSUME KInv, Next
  PROVE  programmed' = programmed \/ (ProgramsOne /\ UNCHANGED dpVars)
  <1>1. ASSUME CPNext PROVE programmed' = programmed \/ ProgramsOne
    BY <1>1, CPEffect DEF KInv, StoreInv, CommitsOne, WithdrawsOne, CorruptsOne
  <1> QED
    BY <1>1, Turns, Zenon DEF ControlTurn, CrashTurn, PollTurn, PodTurn, cpVars

\* Programmed=True keeps being about something some pod has served.
LEMMA ProgrammedStep ==
  ASSUME KInv, Next
  PROVE  ProgrammedWasServed'
  <1>1. ASSUME NEW h \in Gateways, programmed'[h] # NoGen
        PROVE  \E p \in Pods : programmed'[h] \in everServed'[p][h]
    <2>1. programmed[h] # NoGen => \E p \in Pods : programmed[h] \in everServed[p][h]
      BY DEF KInv, ProgrammedWasServed
    <2>2. CASE programmed'[h] = programmed[h]
      BY <1>1, <2>1, <2>2, ServedGrows DEF KInv
    <2>3. CASE programmed'[h] # programmed[h]
      <3>1. ProgramsOne /\ UNCHANGED dpVars
        BY <2>3, ProgrammedEffect
      <3>2. PICK g \in Gateways, n \in GenOrNone :
              /\ n = NoGen \/ (n \in Generations /\ AllAcked(seenAcks, g, n))
              /\ programmed' = [programmed EXCEPT ![g] = n]
        BY <3>1, Zenon DEF ProgramsOne
      <3>3. programmed \in [Gateways -> GenOrNone]
        BY DEF KInv, StoreInv, TypeInv, CPTypeOK
      <3>4. h = g /\ n = programmed'[h]
        BY <2>3, <3>2, <3>3
      <3>5. AllAcked(seenAcks, h, programmed'[h])
        BY <1>1, <3>2, <3>4
      <3>6. PICK p \in seenAcks.healthy : seenAcks.applied[p][h] = programmed'[h]
        BY <3>5 DEF AllAcked
      <3>7. p \in Pods
        BY <3>6 DEF KInv, StoreInv, TypeInv, CPTypeOK, AckStates
      <3>8. programmed'[h] \in everServed[p][h]
        BY <1>1, <3>6, <3>7 DEF KInv, ProgrammedWasServed, AcksHonest
      <3> QED
        BY <3>7, <3>8, ServedGrows DEF KInv
    <2> QED
      BY <2>2, <2>3
  <1> QED
    BY <1>1, HonestStep DEF ProgrammedWasServed

\* A step of anyone costs one fault at most.
LEMMA FaultSteps ==
  ASSUME Next
  PROVE  faults' \in {faults, faults + 1}
  <1>1. ASSUME CPNext PROVE faults' \in {faults, faults + 1}
    BY <1>1, Zenon DEF CPNext, Reconcile, LoadAcks, GatherWorld, GatherFails,
       RejectGateway, StartPublish, EnsureObject, EnsureObjectFails,
       EnsureManifest, EnsureManifestFails, CollectGeneration, CollectOrphan,
       GenerationsCollected, WriteStatus, StartOrphans, CollectOrphanManifest,
       EndPass, Crash, EnvironmentOfCP, EditSpec, TamperObject, TamperManifest,
       AnyAcks, Fault, clusterVars
  <1>2. ASSUME NEW p \in Pods, PodTurn(p) PROVE faults' \in {faults, faults + 1}
    BY <1>2, PodFault DEF PodTurn, NobodysFault
  <1>3. ASSUME PollTurn PROVE faults' \in {faults, faults + 1}
    BY <1>3 DEF PollTurn, NobodysFault
  <1>4. ASSUME PublishAcks PROVE faults' = faults
    BY <1>4 DEF PublishAcks, clusterVars
  <1> QED
    BY <1>1, <1>2, <1>3, <1>4, Turns, Zenon DEF ControlTurn, CrashTurn

\* As long as nothing fails, every poll is of all pods.
LEMMA PollsWholeStep ==
  ASSUME KInv, Next
  PROVE  PollsWhole'
  <1> SUFFICES ASSUME faults' = 0
               PROVE  /\ up' = Pods
                      /\ polling' => toPoll' \cup partial'.healthy = Pods
                      /\ Whole(ackState') /\ Whole(seenAcks')
    BY Zenon DEF PollsWhole, Whole
  <1>1. faults \in Nat /\ up \subseteq Pods /\ partial.healthy \subseteq Pods
    BY DEF KInv, PodInv, PodTypes, ClusterTypeOK, PodTypeOK, PollTypes, AckStates
  <1>2. Whole(EmptyAckState)
    BY DEF Whole, EmptyAckState
  <1>3. faults = 0 => /\ up = Pods
                      /\ polling => toPoll \cup partial.healthy = Pods
                      /\ Whole(ackState) /\ Whole(seenAcks)
    BY DEF KInv, PollsWhole
  <1>4. CASE ControlTurn
    <2>1. faults = 0
      BY <1>1, FaultSteps
    <2> QED
      BY <1>2, <1>3, <1>4, <2>1 DEF ControlTurn, dpVars, pollVars
  <1>5. CASE CrashTurn
    BY <1>1, <1>5 DEF CrashTurn
  <1>6. CASE PollTurn
    <2>1. /\ faults = 0 /\ up' = up /\ ackState' = ackState /\ seenAcks' = seenAcks
      <3>1. faults = 0
        BY <1>1, <1>6 DEF PollTurn, NobodysFault
      <3>2. up' = up /\ ackState' = ackState
        BY <1>6 DEF PollTurn, dpVars
      <3>3. seenAcks' = seenAcks
        BY <1>6 DEF PollTurn, cpVars, passVars, world
      <3> QED
        BY <3>1, <3>2, <3>3
    <2>2. ASSUME ListPods PROVE toPoll' \cup partial'.healthy = Pods
      BY <1>1, <1>3, <2>1, <2>2 DEF ListPods
    <2>3. ASSUME NEW p \in Pods, FetchPod(p), polling'
          PROVE  toPoll' \cup partial'.healthy = Pods
      <3>1. /\ toPoll' = toPoll \ {p} /\ polling' = polling
            /\ partial'.healthy = partial.healthy \cup {p}
        BY <2>3, FetchEffect, Zenon DEF FetchPod
      <3> QED
        BY <1>3, <2>1, <2>3, <3>1
    <2>4. ASSUME NEW p \in Pods, FetchPodFails(p) PROVE FALSE
      BY <1>1, <1>3, <2>1, <2>4 DEF FetchPodFails, Fault
    <2> QED
      BY <1>3, <1>6, <2>1, <2>2, <2>3, <2>4, Zenon DEF PollTurn
  <1>7. CASE PublishAcks /\ UNCHANGED cpVars
    <2>1. /\ faults = 0 /\ up' = up /\ seenAcks' = seenAcks
          /\ ackState' = partial /\ ~polling' /\ polling /\ toPoll = {}
      BY <1>7 DEF PublishAcks, clusterVars, dpVars, cpVars, passVars, world
    <2>2. partial.healthy = Pods
      BY <1>3, <2>1
    <2> QED
      BY <1>3, <2>1, <2>2 DEF Whole
  <1>8. ASSUME NEW p \in Pods, PodTurn(p)
        PROVE  /\ up' = Pods
               /\ polling' => toPoll' \cup partial'.healthy = Pods
               /\ Whole(ackState') /\ Whole(seenAcks')
    <2>1. faults = 0
      BY <1>1, <1>8, PodFault DEF PodTurn, NobodysFault
    <2>2. /\ ackState' = ackState /\ seenAcks' = seenAcks
          /\ UNCHANGED <<polling, toPoll, partial>>
      BY <1>8 DEF PodTurn, cpVars, passVars, world, pollVars
    <2>3. up' = up \/ PodStops(p) \/ PodStarts(p)
      BY <1>8, Zenon DEF PodTurn, PodStep, ListConfigMaps, ListSecrets, ListSecretsFails,
         Rebuild, PublishStatuses
    <2>4. ~PodStarts(p)
      BY <1>3, <2>1, Zenon DEF PodStarts
    <2>5. PodStops(p) => faults' = faults + 1
      BY Zenon DEF PodStops, Fault
    <2>6. ~PodStops(p)
      BY <2>1, <2>5
    <2> QED
      BY <1>3, <2>1, <2>2, <2>3, <2>4, <2>6
  <1> QED
    BY <1>4, <1>5, <1>6, <1>7, <1>8, Turns, Zenon

\* And then Programmed=True means that all of them have served it.
LEMMA ByAllStep ==
  ASSUME KInv, Next
  PROVE  ProgrammedByAll'
  <1> SUFFICES ASSUME faults' = 0, NEW h \in Gateways, NEW p \in Pods
               PROVE  programmed'[h] \in everServed'[p][h] \cup {NoGen}
    BY DEF ProgrammedByAll
  <1>1. everServed[p][h] \subseteq everServed'[p][h]
    BY ServedGrows DEF KInv
  <1>2. faults = 0
    <2>1. faults \in Nat
      BY DEF KInv, PodInv, PodTypes, ClusterTypeOK
    <2>2. faults' \in {faults, faults + 1}
      BY FaultSteps
    <2> QED
      BY <2>1, <2>2
  <1>3. CASE programmed'[h] = programmed[h]
    BY <1>1, <1>2, <1>3, Zenon DEF KInv, ProgrammedByAll
  <1>4. CASE programmed'[h] # programmed[h]
    <2>1. ProgramsOne
      BY <1>4, ProgrammedEffect
    <2>2. PICK g \in Gateways, n \in GenOrNone :
            /\ n = NoGen \/ (n \in Generations /\ AllAcked(seenAcks, g, n))
            /\ programmed' = [programmed EXCEPT ![g] = n]
      BY <2>1, Zenon DEF ProgramsOne
    <2>3. programmed \in [Gateways -> GenOrNone]
      BY DEF KInv, StoreInv, TypeInv, CPTypeOK
    <2>4. h = g /\ n = programmed'[h]
      BY <1>4, <2>2, <2>3
    <2>5. CASE n # NoGen
      <3>1. AllAcked(seenAcks, h, n)
        BY <2>2, <2>4, <2>5
      <3>2. seenAcks.healthy = Pods
        BY <1>2, <3>1 DEF KInv, PollsWhole, Whole, AllAcked
      <3>3. seenAcks.applied[p][h] = n
        BY <3>1, <3>2 DEF AllAcked
      <3>4. n \in everServed[p][h] \cup {NoGen}
        BY <3>3, Zenon DEF KInv, ProgrammedWasServed, AcksHonest
      <3> QED
        BY <1>1, <2>4, <3>4, Zenon
    <2> QED
      BY <2>4, <2>5
  <1> QED
    BY <1>3, <1>4, Zenon

-----------------------------------------------------------------------------
\* A fresh installation.
LEMMA KInvInit == Init => KInv
  <1> SUFFICES ASSUME Init PROVE KInv
    OBVIOUS
  <1>1. StoreInv
    BY StoreInit DEF Init, CPStart
  <1>2. PodInv
    BY PodInvInit DEF Init
  <1>3. PollTypes
    BY EmptyAckStateType, Zenon DEF Init, PollInit, PollTypes
  <1>4. ProgrammedWasServed
    BY EmptyHonest DEF Init, PollInit, CPInit, NoPass, ProgrammedWasServed
  <1>5. PollsWhole
    BY DEF Init, DPInit, PollInit, CPInit, NoPass, PollsWhole, Whole, EmptyAckState
  <1>6. ProgrammedByAll
    BY DEF Init, CPInit, ProgrammedByAll
  <1> QED
    BY <1>1, <1>2, <1>3, <1>4, <1>5, <1>6 DEF KInv

\* Every step of the whole system keeps the invariant.
LEMMA KInvStep == KInv /\ [Next]_vars => KInv'
  <1> SUFFICES ASSUME KInv, [Next]_vars PROVE KInv'
    OBVIOUS
  <1>1. CASE Next
    BY <1>1, PartsStep, PollTypesStep, ProgrammedStep, PollsWholeStep, ByAllStep
       DEF KInv
  <1>2. CASE UNCHANGED vars
    <2>1. NobodysFault /\ UNCHANGED <<ackState, cpVars, dpVars, pollVars, faults>>
      BY <1>2 DEF vars, clusterVars, NobodysFault
    <2>2. StoreInv' /\ PodInv'
      BY <2>1, FaultAlone, StoreInvStep DEF KInv
    <2>3. PollTypes'
      BY <2>1 DEF KInv, PollTypes, pollVars
    <2> USE DEF dpVars, cpVars, passVars, world, pollVars
    <2>4. ProgrammedWasServed'
      BY <2>1, Zenon DEF KInv, ProgrammedWasServed, AcksHonest
    <2>5. PollsWhole' /\ ProgrammedByAll'
      BY <2>1, Zenon DEF KInv, PollsWhole, Whole, ProgrammedByAll
    <2> QED
      BY <2>2, <2>3, <2>4, <2>5 DEF KInv
  <1> QED
    BY <1>1, <1>2

\* The composed system is well typed: what the poller publishes is what a
\* pass may read, and what the control plane writes is what a pod may read.
THEOREM KrouterTypes == Spec => []TypeOK
  <1>1. KInv => TypeOK
    BY DEF KInv, StoreInv, TypeInv, PodInv, PodTypes, PollTypes, TypeOK
  <1> QED
    BY <1>1, KInvInit, KInvStep, PTL DEF Spec

\* Retention holds of the control plane among its pods and poller.
THEOREM KrouterRetained == Spec => []Retained
  <1>1. KInv => Retained
    BY DEF KInv, StoreInv
  <1> QED
    BY <1>1, KInvInit, KInvStep, PTL DEF Spec

\* An acknowledgement is of a generation that pod has served wherever a copy
\* of it is kept, and Programmed=True is written only for a generation that
\* some pod has served, whatever crashes, restarts or fails in between.
THEOREM ProgrammedHonest == Spec => []ProgrammedWasServed
  <1>1. KInv => ProgrammedWasServed
    BY DEF KInv
  <1> QED
    BY <1>1, KInvInit, KInvStep, PTL DEF Spec

\* As long as nothing has failed, Programmed=True means that every pod has
\* served the generation, however many pods there are.
THEOREM ProgrammedComplete == Spec => []ProgrammedByAll
  <1>1. KInv => ProgrammedByAll
    BY DEF KInv
  <1> QED
    BY <1>1, KInvInit, KInvStep, PTL DEF Spec

-----------------------------------------------------------------------------
\* Every step of the whole system is a step of Rollout, or none.
LEMMA DeliveryStep == KInv /\ [Next]_vars => [Delivery!Next]_Delivery!vars
  <1> SUFFICES ASSUME KInv, Next, ~UNCHANGED Delivery!vars
               PROVE  Delivery!Next
    BY DEF vars, clusterVars, cpVars, dpVars, Delivery!vars
  <1>1. /\ served \in [Pods -> [Gateways -> GenOrNone]]
        /\ programmed \in [Gateways -> GenOrNone]
    BY DEF KInv, PodInv, PodTypes, PodTypeOK, StoreInv, TypeInv, CPTypeOK
  <1>2. ASSUME CPNext, UNCHANGED dpVars PROVE Delivery!Next
    <2>1. UNCHANGED <<up, served, everServed>>
      BY <1>2 DEF dpVars
    <2>2. CASE CommitsOne
      <3>1. PICK g \in Gateways, n \in Generations :
              /\ committed' = [committed EXCEPT ![g] = @ \cup {n}]
              /\ UNCHANGED <<removed, programmed>>
        BY <2>2, Zenon DEF CommitsOne
      <3>2. Delivery!CommitGeneration(g, n)
        BY <2>1, <3>1 DEF Delivery!CommitGeneration
      <3> QED
        BY <3>2 DEF Delivery!Next
    <2>3. CASE WithdrawsOne
      <3>1. PICK g \in Gateways :
              removed' = removed \cup {g} /\ UNCHANGED <<committed, programmed>>
        BY <2>3 DEF WithdrawsOne
      <3>2. Delivery!Withdraw(g)
        BY <2>1, <3>1 DEF Delivery!Withdraw
      <3> QED
        BY <3>2 DEF Delivery!Next
    <2>4. CASE ProgramsOne
      <3>1. PICK g \in Gateways, n \in GenOrNone :
              /\ n = NoGen \/ (n \in Generations /\ AllAcked(seenAcks, g, n))
              /\ programmed' = [programmed EXCEPT ![g] = n]
              /\ UNCHANGED <<committed, removed>>
        BY <2>4, Zenon DEF ProgramsOne
      <3>2. programmed'[g] = n
        BY <1>1, <3>1
      <3>3. n # NoGen => \E p \in Pods : n \in everServed[p][g]
        BY <2>1, <3>2, ProgrammedStep DEF ProgrammedWasServed
      <3>4. Delivery!Program(g, n)
        BY <2>1, <3>1, <3>3 DEF Delivery!Program
      <3> QED
        BY <3>1, <3>4 DEF Delivery!Next, GenOrNone
    <2>5. ~CorruptsOne /\ ~UNCHANGED <<manifest, committed, removed, programmed>>
      BY <2>1 DEF CorruptsOne, Delivery!vars
    <2> QED
      BY <1>2, <2>2, <2>3, <2>4, <2>5, CPEffect DEF KInv, StoreInv
  <1>3. ASSUME NEW p \in Pods, PodTurn(p) PROVE Delivery!Next
    <2>1. UNCHANGED <<committed, removed, programmed>>
      BY <1>3, PodReads DEF PodTurn, cpVars
    <2>2. CASE Rebuild(p)
      <3>1. /\ p \in up /\ up' = up
            /\ served' = [served EXCEPT ![p] = served'[p]]
            /\ served'[p] \in [Gateways -> Generations \cup {NoGen}]
            /\ everServed' = [everServed EXCEPT ![p] = everServed'[p]]
            /\ everServed'[p] =
                 [g \in Gateways |-> everServed[p][g] \cup ({served'[p][g]} \ {NoGen})]
        BY <2>2, RebuildEffect, Zenon DEF KInv, PodInv, GenOrNone, Rebuild
      <3>2. \A g \in Gateways :
              \/ served'[p][g] = served[p][g]
              \/ served'[p][g] \in committed[g]
              \/ served'[p][g] = NoGen /\ g \in removed
        BY <2>2, SwapAllowed, Zenon DEF KInv
      <3>3. PICK t \in [Gateways -> Generations \cup {NoGen}] : t = served'[p]
        BY <3>1
      <3>4. Delivery!Swap(p, t)
        BY <2>1, <3>1, <3>2, <3>3 DEF Delivery!Swap
      <3> QED
        BY <3>4 DEF Delivery!Next
    <2>3. CASE PodStops(p)
      <3>1. Delivery!Stop(p)
        BY <2>1, <2>3 DEF PodStops, ForgetConfig, NoTables, Delivery!Stop
      <3> QED
        BY <3>1 DEF Delivery!Next
    <2>4. CASE PodStarts(p)
      <3>1. Delivery!Start(p)
        BY <2>1, <2>4 DEF PodStarts, Delivery!Start
      <3> QED
        BY <3>1 DEF Delivery!Next
    <2> QED
      BY <1>3, <2>1, <2>2, <2>3, <2>4, Zenon
         DEF PodTurn, PodStep, ListConfigMaps, ListSecrets, ListSecretsFails,
             PublishStatuses, Delivery!vars
  <1>4. ASSUME PollTurn \/ PublishAcks, UNCHANGED cpVars PROVE FALSE
    BY <1>4 DEF PollTurn, PublishAcks, NobodysFault, clusterVars, cpVars, dpVars,
       Delivery!vars
  <1> QED
    BY <1>2, <1>3, <1>4, Turns, Zenon DEF ControlTurn, CrashTurn, PollTurn

\* The configuration path implements Rollout: each pod moves between whole
\* committed generations, lets go of one only after a withdrawal or when it
\* stops, and Programmed=True is only written for what a pod has served.
THEOREM DeliveryImplemented == Spec => ImplementsRollout
  <1>1. Init => Delivery!Init
    BY DEF Init, ClusterInit, CPInit, DPInit, NoTables, Delivery!Init
  <1> QED
    BY <1>1, KInvInit, KInvStep, DeliveryStep, PTL
       DEF Spec, ImplementsRollout, Delivery!Spec
==============================================================================
