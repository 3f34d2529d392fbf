--------------------------- MODULE DataPlaneProofs ---------------------------
(***************************************************************************)
(* What a pod reports and serves, for any Gateways, pods, generations and  *)
(* bounds. The steps of a pod and those of the store are proved apart, so  *)
(* that the second part holds of any store that moves as StoreMoves says:  *)
(* the arbitrary one of DPSpec, and the one the control plane writes.      *)
(***************************************************************************)
EXTENDS DataPlane, SequenceTheorems, TLAPS

dpAll == <<clusterVars, dpVars>>

-----------------------------------------------------------------------------
\* Statuses and tables agree, and both are of what the pod has served.
AckInv ==
    /\ AckMatchesTables
    /\ \A p \in Pods, g \in Gateways : served[p][g] \in everServed[p][g] \cup {NoGen}

\* A manifest that parses names a generation its Gateway has committed,
\* wherever a copy of it is kept.
Named(m, g) == m.state = "valid" => m.gen \in committed[g]

NamedIn(s) == \A g \in Gateways : Named(s.manifests[g], g)

SnapshotsNamed ==
    /\ \A g \in Gateways : Named(manifest[g], g)
    /\ \A p \in Pods : NamedIn(listing[p])
    /\ \A p \in Pods : \A i \in 1 .. Len(mailbox[p]) : NamedIn(mailbox[p][i])

Present(s, g) == s.manifests[g].state # "absent"

\* Pod p knows that g has a manifest: it serves g, or a snapshot it was
\* mailed says so.
Mailed(p, g) ==
    served[p][g] # NoGen \/ \E i \in 1 .. Len(mailbox[p]) : Present(mailbox[p][i], g)

\* The manifest of a Gateway that was never withdrawn is there for good
\* once it is there, and what a pod knows reaches it in that order: the
\* manifest, the listing, the mailbox and the tables.
Spreads(p, g) ==
    /\ \A i \in 1 .. Len(mailbox[p]) :
           served[p][g] # NoGen => Present(mailbox[p][i], g)
    /\ \A i, j \in 1 .. Len(mailbox[p]) :
           i < j /\ Present(mailbox[p][i], g) => Present(mailbox[p][j], g)
    /\ p \in listed /\ Mailed(p, g) => Present(listing[p], g)
    /\ p \in listed /\ Present(listing[p], g) => manifest[g].state # "absent"
    /\ Mailed(p, g) => manifest[g].state # "absent"

PresenceSpreads == \A p \in Pods : \A g \in Gateways \ removed : Spreads(p, g)

PodTypes == ClusterTypeOK /\ PodTypeOK

PodInv == PodTypes /\ AckInv /\ SnapshotsNamed /\ PresenceSpreads

-----------------------------------------------------------------------------
\* A manifest that is missing or does not parse is well typed.
LEMMA ManifestTypes == NoManifest \in Manifests /\ CorruptManifest \in Manifests
  BY DEF NoManifest, CorruptManifest, Manifests, GenOrNone

\* What a pod holds before its first poll is well typed.
LEMMA EmptyTypes ==
  /\ EmptySnapshot \in Snapshots
  /\ NoStatus \in Statuses
  /\ NoTables \in [Gateways -> GenOrNone]
  BY ManifestTypes DEF EmptySnapshot, Snapshots, NoStatus, Statuses, NoTables,
     GenOrNone, ObjectStates

\* Both list calls of poll make snapshots.
LEMMA SnapshotTypes ==
  ASSUME PodTypes, NEW p \in Pods
  PROVE  /\ [manifests |-> manifest,
             objs |-> [o \in ObjectNames |->
                          IF IsSecret(o) THEN "absent" ELSE objs[o]]] \in Snapshots
         /\ PolledSnapshot(p) \in Snapshots
         /\ PolledSnapshot(p).manifests = listing[p].manifests
  <1>1. listing[p] \in Snapshots
    BY DEF PodTypes, PodTypeOK
  <1>2. \A o \in ObjectNames : listing[p].objs[o] \in ObjectStates
    BY <1>1 DEF Snapshots
  <1>3. \A o \in ObjectNames : objs[o] \in ObjectStates
    BY DEF PodTypes, ClusterTypeOK
  <1> DEFINE os == [o \in ObjectNames |-> IF IsSecret(o) THEN objs[o]
                                           ELSE listing[p].objs[o]]
  <1>4. os \in [ObjectNames -> ObjectStates]
    BY <1>2, <1>3
  <1>5. PolledSnapshot(p) = [manifests |-> listing[p].manifests, objs |-> os]
    BY <1>1 DEF PolledSnapshot, Snapshots
  <1>6. listing[p].manifests \in [Gateways -> Manifests]
    BY <1>1 DEF Snapshots
  <1>7. PolledSnapshot(p) \in Snapshots
    BY <1>4, <1>5, <1>6 DEF Snapshots
  <1>8. [o \in ObjectNames |-> IF IsSecret(o) THEN "absent" ELSE objs[o]]
            \in [ObjectNames -> ObjectStates]
    BY <1>3 DEF ObjectStates
  <1>9. manifest \in [Gateways -> Manifests]
    BY DEF PodTypes, ClusterTypeOK
  <1> QED
    BY <1>5, <1>7, <1>8, <1>9 DEF Snapshots

\* What rebuild makes of a snapshot: a table, and a status that acknowledges
\* just that table. In particular the status that a failed load repeats is
\* the right one, because without a table none was acknowledged.
LEMMA Rebuilt ==
  ASSUME NEW raw \in Snapshots, NEW g \in Gateways, NEW was \in GenOrNone,
         NEW before \in Statuses, before.applied = was
  PROVE  /\ RebuiltTable(raw, g, was) \in GenOrNone
         /\ RebuiltStatus(raw, g, was, before) \in Statuses
         /\ RebuiltStatus(raw, g, was, before).applied = RebuiltTable(raw, g, was)
  <1> DEFINE m == raw.manifests[g]
             new == RebuiltTable(raw, g, was)
             ok == m.state = "valid" /\ new = m.gen
  <1>1. m \in Manifests
    BY DEF Snapshots
  <1>2. m.gen \in GenOrNone
    BY <1>1 DEF Manifests
  <1>3. /\ m.state = "absent" => new = NoGen
        /\ m.state = "valid" /\ LoadGeneration(raw, g, m.gen) => new = m.gen
        /\ m.state # "absent" /\ ~(m.state = "valid" /\ LoadGeneration(raw, g, m.gen))
               => new = was
    BY DEF RebuiltTable
  <1>4. new \in GenOrNone
    BY <1>2, <1>3 DEF GenOrNone
  <1> HIDE DEF m, new
  <1>5. RebuiltStatus(raw, g, was, before) =
            IF m.state = "absent" THEN NoStatus
            ELSE [desired |-> m.gen,
                  applied |-> IF ok \/ was # NoGen THEN new ELSE before.applied,
                  failed |-> ~ok]
    BY DEF RebuiltStatus, m, new
  <1>6. CASE m.state = "absent"
    BY <1>3, <1>4, <1>5, <1>6, EmptyTypes DEF NoStatus, new
  <1>7. CASE m.state # "absent"
    <2> DEFINE applied == IF ok \/ was # NoGen THEN new ELSE before.applied
    <2>1. applied = new
      BY <1>3, <1>7
    <2>2. RebuiltStatus(raw, g, was, before) =
              [desired |-> m.gen, applied |-> new, failed |-> ~ok]
      BY <1>5, <1>7, <2>1
    <2>3. (~ok) \in BOOLEAN
      OBVIOUS
    <2> QED
      BY <1>2, <1>4, <2>2, <2>3 DEF Statuses, new
  <1> QED
    BY <1>6, <1>7

-----------------------------------------------------------------------------
\* The steps of a pod.

\* A snapshot leaves the mailbox at its head and enters it at its end.
LEMMA MailboxSteps ==
  ASSUME NEW q \in Seq(Snapshots)
  PROVE  /\ \A s \in Snapshots :
                /\ Append(q, s) \in Seq(Snapshots)
                /\ Len(Append(q, s)) = Len(q) + 1
                /\ \A i \in 1 .. Len(q) : Append(q, s)[i] = q[i]
                /\ Append(q, s)[Len(q) + 1] = s
         /\ q # <<>> =>
                /\ Tail(q) \in Seq(Snapshots)
                /\ Len(q) \in Nat \ {0}
                /\ Head(q) \in Snapshots
                /\ Head(q) = q[1]
                /\ Len(Tail(q)) = Len(q) - 1
                /\ \A i \in 1 .. Len(Tail(q)) : Tail(q)[i] = q[i + 1]
  <1>1. \A s \in Snapshots :
            /\ Append(q, s) \in Seq(Snapshots)
            /\ Len(Append(q, s)) = Len(q) + 1
            /\ \A i \in 1 .. Len(q) : Append(q, s)[i] = q[i]
            /\ Append(q, s)[Len(q) + 1] = s
    BY AppendProperties
  <1>2. ASSUME q # <<>>
        PROVE  /\ Tail(q) \in Seq(Snapshots)
               /\ Len(q) \in Nat \ {0}
               /\ Head(q) \in Snapshots
               /\ Head(q) = q[1]
               /\ Len(Tail(q)) = Len(q) - 1
               /\ \A i \in 1 .. Len(Tail(q)) : Tail(q)[i] = q[i + 1]
    BY <1>2, HeadTailProperties, EmptySeq
  <1> QED
    BY <1>1, <1>2

\* What rebuild makes of the oldest snapshot, for each Gateway of pod p.
LEMMA RebuildEffect ==
  ASSUME PodTypes, AckInv, NEW p \in Pods, Rebuild(p)
  PROVE  /\ mailbox[p] # <<>>
         /\ served' = [served EXCEPT ![p] = served'[p]]
         /\ computed' = [computed EXCEPT ![p] = computed'[p]]
         /\ everServed' = [everServed EXCEPT ![p] = everServed'[p]]
         /\ served'[p] \in [Gateways -> GenOrNone]
         /\ computed'[p] \in [Gateways -> Statuses]
         /\ everServed'[p] \in [Gateways -> SUBSET Generations]
         /\ \A g \in Gateways :
                /\ served'[p][g] = RebuiltTable(mailbox[p][1], g, served[p][g])
                /\ computed'[p][g].applied = served'[p][g]
         /\ everServed'[p] =
                [g \in Gateways |-> everServed[p][g] \cup ({served'[p][g]} \ {NoGen})]
  <1> DEFINE raw == Head(mailbox[p])
  <1> USE DEF PodTypes, PodTypeOK
  <1>1. mailbox[p] # <<>> /\ raw \in Snapshots /\ raw = mailbox[p][1]
    BY MailboxSteps DEF Rebuild
  <1>2. computed[p] = reported[p]
    BY DEF Rebuild
  <1>3. \A g \in Gateways : served[p][g] \in GenOrNone /\ reported[p][g] \in Statuses
    OBVIOUS
  <1>4. \A g \in Gateways : reported[p][g].applied = served[p][g]
    BY <1>2 DEF AckInv, AckMatchesTables
  <1> HIDE DEF raw
  <1>5. \A g \in Gateways :
            /\ RebuiltTable(raw, g, served[p][g]) \in GenOrNone
            /\ RebuiltStatus(raw, g, served[p][g], reported[p][g]) \in Statuses
            /\ RebuiltStatus(raw, g, served[p][g], reported[p][g]).applied
                   = RebuiltTable(raw, g, served[p][g])
    BY <1>1, <1>3, <1>4, Rebuilt, Zenon
  <1>6. /\ served' = [served EXCEPT ![p] = [g \in Gateways |->
                          RebuiltTable(raw, g, served[p][g])]]
        /\ computed' = [computed EXCEPT ![p] = [g \in Gateways |->
                            RebuiltStatus(raw, g, served[p][g], reported[p][g])]]
        /\ everServed' = [everServed EXCEPT ![p] = [g \in Gateways |->
                              everServed[p][g] \cup ({served'[p][g]} \ {NoGen})]]
    BY DEF Rebuild, raw
  <1>7. /\ served'[p] = [g \in Gateways |-> RebuiltTable(raw, g, served[p][g])]
        /\ computed'[p] = [g \in Gateways |->
                               RebuiltStatus(raw, g, served[p][g], reported[p][g])]
        /\ everServed'[p] = [g \in Gateways |->
                                 everServed[p][g] \cup ({served'[p][g]} \ {NoGen})]
    BY <1>6
  <1>8. served'[p] \in [Gateways -> GenOrNone] /\ computed'[p] \in [Gateways -> Statuses]
    BY <1>5, <1>7
  <1>9. \A g \in Gateways : computed'[p][g].applied = served'[p][g]
    BY <1>5, <1>7
  <1>10. ASSUME NEW g \in Gateways
         PROVE  everServed[p][g] \cup ({served'[p][g]} \ {NoGen}) \in SUBSET Generations
    <2>1. everServed[p][g] \in SUBSET Generations
      OBVIOUS
    <2>2. served'[p][g] \in Generations \cup {NoGen}
      BY <1>8 DEF GenOrNone
    <2> QED
      BY <2>1, <2>2
  <1>11. everServed'[p] \in [Gateways -> SUBSET Generations]
    BY <1>7, <1>10
  <1> QED
    BY <1>1, <1>6, <1>7, <1>8, <1>9, <1>11

\* Every step of a pod keeps its types.
LEMMA PodTypeStep ==
  ASSUME PodTypes, AckInv, NEW p \in Pods, PodStep(p)
  PROVE  PodTypes'
  <1> USE ClusterAssumption, EmptyTypes DEF PodTypes, PodTypeOK, ClusterTypeOK
  <1>1. CASE ListConfigMaps(p)
    BY <1>1, SnapshotTypes, Zenon DEF ListConfigMaps, clusterVars
  <1>2. CASE ListSecrets(p)
    <2>1. PolledSnapshot(p) \in Snapshots
      BY SnapshotTypes, Zenon
    <2>2. Append(mailbox[p], PolledSnapshot(p)) \in Seq(Snapshots)
      BY <2>1, MailboxSteps
    <2>3. lastSnapshot' \in [Pods -> Snapshots] /\ mailbox' \in [Pods -> Seq(Snapshots)]
      <3>1. CASE SameSnapshot(p)
        BY <1>2, <3>1 DEF ListSecrets
      <3>2. CASE ~SameSnapshot(p)
        <4> DEFINE longer == Append(mailbox[p], PolledSnapshot(p))
        <4>1. /\ lastSnapshot' = [lastSnapshot EXCEPT ![p] = PolledSnapshot(p)]
              /\ mailbox' = [mailbox EXCEPT ![p] = longer]
          BY <1>2, <3>2 DEF ListSecrets
        <4>2. longer \in Seq(Snapshots)
          BY <2>2
        <4> HIDE DEF longer
        <4> QED
          BY <2>1, <4>1, <4>2
      <3> QED
        BY <3>1, <3>2
    <2> QED
      BY <1>2, <2>3, Zenon DEF ListSecrets, clusterVars
  <1>3. CASE ListSecretsFails(p)
    BY <1>3 DEF ListSecretsFails, Fault
  <1>4. CASE Rebuild(p)
    <2> HIDE EmptyTypes
    <2>1. /\ UNCHANGED <<clusterVars, up, listed, listing, lastSnapshot, reported>>
          /\ mailbox' = [mailbox EXCEPT ![p] = Tail(mailbox[p])]
      BY <1>4 DEF Rebuild
    <2>2. Tail(mailbox[p]) \in Seq(Snapshots)
      BY <1>4, RebuildEffect, MailboxSteps, Zenon
    <2>3. served' \in [Pods -> [Gateways -> GenOrNone]]
      BY <1>4, RebuildEffect, Zenon
    <2>4. computed' \in [Pods -> [Gateways -> Statuses]]
      BY <1>4, RebuildEffect, Zenon
    <2>5. everServed' \in [Pods -> [Gateways -> SUBSET Generations]]
      BY <1>4, RebuildEffect, Zenon
    <2> QED
      BY <2>1, <2>2, <2>3, <2>4, <2>5, Zenon DEF clusterVars
  <1>5. CASE PublishStatuses(p)
    BY <1>5 DEF PublishStatuses, clusterVars
  <1>6. CASE PodStops(p)
    <2>1. <<>> \in Seq(Snapshots)
      OBVIOUS
    <2> QED
      BY <1>6, <2>1 DEF PodStops, ForgetConfig, Fault
  <1>7. CASE PodStarts(p)
    BY <1>7 DEF PodStarts, clusterVars
  <1> QED
    BY <1>1, <1>2, <1>3, <1>4, <1>5, <1>6, <1>7, SMTT(30) DEF PodStep

\* Every step of a pod keeps its statuses in line with its tables.
LEMMA AckStep ==
  ASSUME PodTypes, AckInv, NEW p \in Pods, PodStep(p)
  PROVE  AckInv'
  <1> USE DEF PodTypes, PodTypeOK
  <1>1. CASE UNCHANGED <<served, computed, reported, everServed>>
    BY <1>1 DEF AckInv, AckMatchesTables
  <1>2. CASE Rebuild(p)
    <2> SUFFICES ASSUME NEW q \in Pods, NEW g \in Gateways
                 PROVE  /\ computed'[q][g].applied = served'[q][g]
                        /\ reported'[q][g].applied \in everServed'[q][g] \cup {NoGen}
                        /\ served'[q][g] \in everServed'[q][g] \cup {NoGen}
      BY DEF AckInv, AckMatchesTables
    <2>1. reported' = reported
      BY <1>2 DEF Rebuild
    <2>2. /\ computed[q][g].applied = served[q][g]
          /\ reported[q][g].applied \in everServed[q][g] \cup {NoGen}
          /\ served[q][g] \in everServed[q][g] \cup {NoGen}
      BY DEF AckInv, AckMatchesTables
    <2>5. /\ served' = [served EXCEPT ![p] = served'[p]]
          /\ computed' = [computed EXCEPT ![p] = computed'[p]]
          /\ everServed' = [everServed EXCEPT ![p] = everServed'[p]]
          /\ computed'[p][g].applied = served'[p][g]
          /\ everServed'[p] =
                [h \in Gateways |-> everServed[p][h] \cup ({served'[p][h]} \ {NoGen})]
      BY <1>2, RebuildEffect
    <2>3. CASE q # p
      <3>1. /\ served'[q] = served[q] /\ computed'[q] = computed[q]
            /\ everServed'[q] = everServed[q]
        BY <2>3, <2>5
      <3> QED
        BY <2>1, <2>2, <3>1
    <2>4. CASE q = p
      <3>1. everServed'[p][g] = everServed[p][g] \cup ({served'[p][g]} \ {NoGen})
        BY <2>5
      <3> QED
        BY <2>1, <2>2, <2>4, <2>5, <3>1
    <2> QED
      BY <2>3, <2>4
  <1>3. CASE PublishStatuses(p)
    <2>1. /\ reported' = [reported EXCEPT ![p] = computed[p]]
          /\ UNCHANGED <<served, computed, everServed>>
      BY <1>3 DEF PublishStatuses
    <2> QED
      BY <2>1 DEF AckInv, AckMatchesTables
  <1>4. CASE PodStops(p)
    <2>1. /\ served' = [served EXCEPT ![p] = NoTables]
          /\ computed' = [computed EXCEPT ![p] = [g \in Gateways |-> NoStatus]]
          /\ reported' = [reported EXCEPT ![p] = [g \in Gateways |-> NoStatus]]
          /\ everServed' = everServed
      BY <1>4 DEF PodStops, ForgetConfig
    <2> QED
      BY <2>1 DEF AckInv, AckMatchesTables, NoTables, NoStatus
  <1> QED
    BY <1>1, <1>2, <1>3, <1>4
       DEF PodStep, ListConfigMaps, ListSecrets, ListSecretsFails, PodStarts

\* A pod only reads the cluster.
LEMMA PodReads ==
  ASSUME NEW p \in Pods, PodStep(p)
  PROVE  UNCHANGED <<objs, manifest, committed, removed, tampered>>
  BY Zenon DEF PodStep, ListConfigMaps, ListSecrets, ListSecretsFails, Rebuild,
     PublishStatuses, PodStops, PodStarts, clusterVars

\* What a step of pod p does to the watcher's and the loader's data.
LEMMA PodData ==
  ASSUME PodTypes, AckInv, NEW p \in Pods, PodStep(p)
  PROVE  /\ \A q \in Pods \ {p} :
                /\ listing'[q] = listing[q] /\ mailbox'[q] = mailbox[q]
                /\ served'[q] = served[q] /\ (q \in listed' <=> q \in listed)
         /\ \/ /\ p \in listed' /\ listing'[p].manifests = manifest
               /\ mailbox'[p] = mailbox[p] /\ served'[p] = served[p]
            \/ /\ p \in listed /\ p \notin listed' /\ listing'[p] = EmptySnapshot
               /\ served'[p] = served[p]
               /\ \/ mailbox'[p] = mailbox[p]
                  \/ mailbox'[p] = Append(mailbox[p], PolledSnapshot(p))
            \/ /\ Rebuild(p)
               /\ (p \in listed' <=> p \in listed) /\ listing'[p] = listing[p]
               /\ mailbox'[p] = Tail(mailbox[p])
            \/ /\ p \notin listed' /\ listing'[p] = EmptySnapshot
               /\ mailbox'[p] = <<>> /\ served'[p] = NoTables
            \/ /\ (p \in listed' <=> p \in listed)
               /\ UNCHANGED <<listing, mailbox, served>>
  <1> USE DEF PodTypes, PodTypeOK
  <1>1. CASE ListConfigMaps(p)
    BY <1>1 DEF ListConfigMaps
  <1>2. CASE ListSecrets(p)
    <2>1. CASE SameSnapshot(p)
      BY <1>2, <2>1, Zenon DEF ListSecrets
    <2>2. CASE ~SameSnapshot(p)
      <3> DEFINE longer == Append(mailbox[p], PolledSnapshot(p))
      <3>1. mailbox' = [mailbox EXCEPT ![p] = longer]
        BY <1>2, <2>2 DEF ListSecrets
      <3>2. /\ p \in listed /\ listed' = listed \ {p} /\ served' = served
            /\ listing' = [listing EXCEPT ![p] = EmptySnapshot]
        BY <1>2 DEF ListSecrets
      <3>3. mailbox'[p] = longer /\ \A q \in Pods \ {p} : mailbox'[q] = mailbox[q]
        BY <3>1
      <3> HIDE DEF longer
      <3>4. mailbox'[p] = Append(mailbox[p], PolledSnapshot(p))
        BY <3>3 DEF longer
      <3> QED
        BY <3>2, <3>3, <3>4
    <2> QED
      BY <2>1, <2>2, Zenon
  <1>3. CASE ListSecretsFails(p)
    BY <1>3 DEF ListSecretsFails
  <1>4. CASE Rebuild(p)
    <2>1. /\ UNCHANGED <<listed, listing>>
          /\ mailbox' = [mailbox EXCEPT ![p] = Tail(mailbox[p])]
      BY <1>4 DEF Rebuild
    <2>2. \A q \in Pods \ {p} : served'[q] = served[q]
      <3>1. served' = [served EXCEPT ![p] = served'[p]]
        BY <1>4, RebuildEffect, Zenon
      <3> QED
        BY <3>1
    <2>3. /\ mailbox'[p] = Tail(mailbox[p])
          /\ \A q \in Pods \ {p} : mailbox'[q] = mailbox[q]
      BY <2>1
    <2> QED
      BY <1>4, <2>1, <2>2, <2>3
  <1>5. CASE PublishStatuses(p)
    BY <1>5, Zenon DEF PublishStatuses
  <1>6. CASE PodStops(p)
    BY <1>6, Zenon DEF PodStops, ForgetConfig
  <1>7. CASE PodStarts(p)
    BY <1>7, Zenon DEF PodStarts
  <1> QED
    BY <1>1, <1>2, <1>3, <1>4, <1>5, <1>6, <1>7, Zenon DEF PodStep

\* No step of a pod makes up a manifest.
LEMMA NamedStep ==
  ASSUME PodTypes, AckInv, SnapshotsNamed, NEW p \in Pods, PodStep(p)
  PROVE  SnapshotsNamed'
  <1>1. manifest' = manifest /\ committed' = committed
    BY PodReads
  <1>2. \A s : NamedIn(s)' <=> NamedIn(s)
    BY <1>1 DEF NamedIn, Named
  <1>3. NamedIn(EmptySnapshot)
    BY Zenon DEF NamedIn, Named, EmptySnapshot, NoManifest
  <1>4. \A i \in 1 .. Len(mailbox[p]) : NamedIn(mailbox[p][i])
    BY DEF SnapshotsNamed
  <1>5. mailbox[p] \in Seq(Snapshots)
    BY DEF PodTypes, PodTypeOK
  <1>6. NamedIn(listing[p]) /\ NamedIn(PolledSnapshot(p))
    BY SnapshotTypes, Zenon DEF SnapshotsNamed, NamedIn
  <1>7. NamedIn(listing'[p])
    <2>1. CASE listing'[p].manifests = manifest
      BY <2>1 DEF SnapshotsNamed, NamedIn
    <2> QED
      BY <1>3, <1>6, <2>1, PodData, Zenon
  <1>8. \A i \in 1 .. Len(mailbox'[p]) : NamedIn(mailbox'[p][i])
    <2>1. CASE mailbox'[p] = mailbox[p]
      BY <1>4, <2>1
    <2>2. CASE mailbox'[p] = Append(mailbox[p], PolledSnapshot(p))
      BY <1>4, <1>5, <1>6, <2>2, MailboxSteps, SnapshotTypes, SMTT(30)
    <2>3. CASE Rebuild(p) /\ mailbox'[p] = Tail(mailbox[p])
      <3>1. mailbox[p] # <<>>
        BY <2>3 DEF Rebuild
      <3> QED
        BY <1>4, <1>5, <2>3, <3>1, MailboxSteps
    <2>4. CASE mailbox'[p] = <<>>
      BY <2>4, EmptySeq
    <2> QED
      BY <2>1, <2>2, <2>3, <2>4, PodData, Zenon
  <1>9. ASSUME NEW q \in Pods
        PROVE  /\ NamedIn(listing'[q])
               /\ \A i \in 1 .. Len(mailbox'[q]) : NamedIn(mailbox'[q][i])
    <2>1. CASE q = p
      BY <1>7, <1>8, <2>1
    <2>2. CASE q # p
      BY <2>2, PodData, SMTT(30) DEF SnapshotsNamed
    <2> QED
      BY <2>1, <2>2
  <1>10. \A g \in Gateways : Named(manifest[g], g)'
    BY <1>1 DEF SnapshotsNamed, Named
  <1> QED
    BY <1>2, <1>9, <1>10 DEF SnapshotsNamed

\* Each step of a pod passes on what it knows in order.
LEMMA SpreadStep ==
  ASSUME PodTypes, AckInv, SnapshotsNamed, PresenceSpreads, NEW p \in Pods, PodStep(p)
  PROVE  PresenceSpreads'
  <1>1. manifest' = manifest /\ removed' = removed
    BY PodReads
  <1> SUFFICES ASSUME NEW q \in Pods, NEW g \in Gateways \ removed, Spreads(q, g)
               PROVE  Spreads(q, g)'
    BY <1>1 DEF PresenceSpreads
  <1>2. CASE q # p
    BY <1>1, <1>2, PodData, SMTT(30) DEF Spreads, Mailed
  <1>3. CASE q = p
    <2> USE <1>1, <1>3 DEF Spreads, Mailed
    <2>1. mailbox[p] \in Seq(Snapshots)
      BY Zenon DEF PodTypes, PodTypeOK
    <2>2. ASSUME p \in listed', listing'[p].manifests = manifest,
                 mailbox'[p] = mailbox[p], served'[p] = served[p]
          PROVE  Spreads(p, g)'
      BY <2>2, Zenon DEF Present
    <2>3. ASSUME p \in listed, p \notin listed', served'[p] = served[p],
                 mailbox'[p] = mailbox[p]
          PROVE  Spreads(p, g)'
      BY <2>3, Zenon
    <2>4. ASSUME p \in listed, p \notin listed', served'[p] = served[p],
                 mailbox'[p] = Append(mailbox[p], PolledSnapshot(p))
          PROVE  Spreads(p, g)'
      <3> DEFINE s == PolledSnapshot(p)
                 n == Len(mailbox[p])
      <3>1. Present(s, g) <=> Present(listing[p], g)
        BY SnapshotTypes, Zenon DEF Present
      <3>2. /\ Len(mailbox'[p]) = n + 1 /\ n \in Nat
            /\ \A i \in 1 .. n : mailbox'[p][i] = mailbox[p][i]
            /\ mailbox'[p][n + 1] = s
        BY <2>1, <2>4, MailboxSteps, SnapshotTypes, LenProperties, SMTT(30)
      <3> HIDE DEF s, n
      <3>3. \A i \in 1 .. n + 1 : i \in 1 .. n \/ i = n + 1
        BY <3>2, SMTT(30)
      <3>4. Mailed(p, g) => Present(s, g)
        BY <2>4, <3>1, Zenon
      <3>5. Mailed(p, g)' => Mailed(p, g) \/ Present(s, g)
        BY <2>4, <3>2, <3>3, Zenon DEF n
      <3>6. \A i \in 1 .. n + 1 : served'[p][g] # NoGen => Present(mailbox'[p][i], g)
        BY <2>4, <3>2, <3>3, <3>4, Zenon DEF n
      <3>7. ASSUME NEW i \in 1 .. n + 1, NEW j \in 1 .. n + 1, i < j,
                   Present(mailbox'[p][i], g)
            PROVE  Present(mailbox'[p][j], g)
        <4>1. i \in 1 .. n /\ Present(mailbox[p][i], g)
          BY <3>2, <3>7, SMTT(30)
        <4>2. Mailed(p, g)
          BY <4>1, Zenon DEF n
        <4>3. CASE j = n + 1
          BY <3>2, <3>4, <4>2, <4>3, Zenon
        <4>4. CASE j \in 1 .. n
          BY <3>2, <3>7, <4>1, <4>4, Zenon DEF n
        <4> QED
          BY <3>3, <4>3, <4>4, Zenon
      <3>8. Mailed(p, g)' => manifest[g].state # "absent"
        BY <2>4, <3>1, <3>5, Zenon
      <3> QED
        BY <2>4, <3>2, <3>6, <3>7, <3>8, Zenon
    <2>5. ASSUME Rebuild(p), p \in listed' <=> p \in listed, listing'[p] = listing[p],
                 mailbox'[p] = Tail(mailbox[p])
          PROVE  Spreads(p, g)'
      <3> DEFINE n == Len(mailbox[p])
      <3>1. /\ n \in Nat \ {0} /\ Len(mailbox'[p]) = n - 1
            /\ \A i \in 1 .. n - 1 : mailbox'[p][i] = mailbox[p][i + 1]
        <4>1. mailbox[p] # <<>>
          BY <2>5, Zenon DEF Rebuild
        <4> QED
          BY <2>1, <2>5, <4>1, MailboxSteps, Zenon
      <3>2. served'[p][g] # NoGen => served[p][g] # NoGen \/ Present(mailbox[p][1], g)
        <4>1. served'[p][g] = RebuiltTable(mailbox[p][1], g, served[p][g])
          BY <2>5, RebuildEffect, Zenon
        <4> QED
          BY <4>1, Zenon DEF RebuiltTable, Present
      <3> HIDE DEF n
      <3>3. 1 \in 1 .. n /\ \A i \in 1 .. n - 1 : i + 1 \in 1 .. n
        BY <3>1, SMTT(30)
      <3>4. Mailed(p, g)' => Mailed(p, g)
        BY <3>1, <3>2, <3>3, Zenon DEF n
      <3>5. \A i \in 1 .. n - 1 : served'[p][g] # NoGen => Present(mailbox'[p][i], g)
        <4> SUFFICES ASSUME NEW i \in 1 .. n - 1, served'[p][g] # NoGen
                     PROVE  Present(mailbox[p][i + 1], g)
          BY <3>1, Zenon
        <4>1. 1 < i + 1 /\ i + 1 \in 1 .. n
          BY <3>1, SMTT(30)
        <4> QED
          BY <3>2, <3>3, <4>1, Zenon DEF n
      <3>6. ASSUME NEW i \in 1 .. n - 1, NEW j \in 1 .. n - 1, i < j,
                   Present(mailbox'[p][i], g)
            PROVE  Present(mailbox'[p][j], g)
        <4>1. i + 1 < j + 1 /\ Present(mailbox[p][i + 1], g)
          BY <3>1, <3>6, SMTT(30)
        <4>2. Present(mailbox[p][j + 1], g)
          BY <3>3, <4>1, Zenon DEF n
        <4> QED
          BY <3>1, <4>2, Zenon
      <3> QED
        BY <2>5, <3>1, <3>4, <3>5, <3>6, Zenon
    <2>6. ASSUME p \notin listed', mailbox'[p] = <<>>, served'[p] = NoTables
          PROVE  Spreads(p, g)'
      <3>1. Len(mailbox'[p]) = 0 /\ served'[p][g] = NoGen
        BY <2>6, Zenon DEF NoTables
      <3> QED
        BY <2>6, <3>1, SMTT(30)
    <2>7. ASSUME p \in listed' <=> p \in listed, UNCHANGED <<listing, mailbox, served>>
          PROVE  Spreads(p, g)'
      BY <2>7, Zenon
    <2> HIDE DEF Spreads, Mailed
    <2> QED
      BY <2>2, <2>3, <2>4, <2>5, <2>6, <2>7, PodData, Zenon
  <1> QED
    BY <1>2, <1>3

\* Every step of a pod keeps the whole invariant.
LEMMA PodInvStep ==
  ASSUME PodInv, NEW p \in Pods, PodStep(p)
  PROVE  PodInv'
  BY PodTypeStep, AckStep, NamedStep, SpreadStep, Zenon DEF PodInv

-----------------------------------------------------------------------------
\* The steps of the store: a manifest that parses names a generation its
\* Gateway has committed, and none goes away unrecorded.
StoreMoves ==
    /\ ClusterTypeOK'
    /\ \A g \in Gateways : committed[g] \subseteq committed'[g]
    /\ removed \subseteq removed'
    /\ \A g \in Gateways : Named(manifest[g], g)'
    /\ \A g \in Gateways \ removed' :
           manifest[g].state # "absent" => manifest'[g].state # "absent"

\* What the pods know stays true of any store that moves like that.
LEMMA StoreInvStep ==
  ASSUME PodInv, StoreMoves, UNCHANGED dpVars
  PROVE  PodInv'
  <1> USE DEF dpVars
  <1>1. PodTypes'
    BY Zenon DEF PodInv, PodTypes, PodTypeOK, StoreMoves
  <1>2. AckInv'
    BY Zenon DEF PodInv, AckInv, AckMatchesTables
  <1>3. SnapshotsNamed'
    <2>1. \A s : NamedIn(s) => NamedIn(s)'
      BY Zenon DEF NamedIn, Named, StoreMoves
    <2> QED
      BY <2>1, Zenon DEF PodInv, SnapshotsNamed, StoreMoves
  <1>4. PresenceSpreads'
    <2> SUFFICES ASSUME NEW p \in Pods, NEW g \in Gateways \ removed'
                 PROVE  Spreads(p, g)'
      BY Zenon DEF PresenceSpreads
    <2>1. Spreads(p, g)
      BY Zenon DEF PodInv, PresenceSpreads, StoreMoves
    <2>2. Mailed(p, g)' <=> Mailed(p, g)
      BY Zenon DEF Mailed
    <2>3. manifest[g].state # "absent" => manifest'[g].state # "absent"
      BY Zenon DEF StoreMoves
    <2> QED
      BY <2>1, <2>2, <2>3, Zenon DEF Spreads
  <1> QED
    BY <1>1, <1>2, <1>3, <1>4, Zenon DEF PodInv

\* A fresh installation.
LEMMA PodInvInit == ClusterInit /\ DPInit => PodInv
  <1> SUFFICES ASSUME ClusterInit, DPInit PROVE PodInv
    OBVIOUS
  <1>1. ClusterTypeOK
    BY ManifestTypes, Zenon DEF ClusterInit, ClusterTypeOK, ObjectStates
  <1>2. PodTypeOK
    <2>1. <<>> \in Seq(Snapshots)
      OBVIOUS
    <2> QED
      BY <2>1, EmptyTypes, Zenon DEF DPInit, PodTypeOK
  <1>3. AckInv
    BY Zenon DEF DPInit, AckInv, AckMatchesTables, NoTables, NoStatus
  <1>4. \A p \in Pods : Len(mailbox[p]) = 0 /\ p \notin listed
    BY Zenon DEF DPInit
  <1>5. SnapshotsNamed
    BY <1>4, SMTT(30) DEF ClusterInit, DPInit, SnapshotsNamed, NamedIn, Named, EmptySnapshot,
       NoManifest
  <1>6. \A p \in Pods, g \in Gateways : served[p][g] = NoGen
    BY Zenon DEF DPInit, NoTables
  <1>7. PresenceSpreads
    BY <1>4, <1>6, SMTT(30) DEF PresenceSpreads, Spreads, Mailed
  <1> QED
    BY <1>1, <1>2, <1>3, <1>5, <1>7 DEF PodInv, PodTypes

\* Every step of a pod with any store keeps the invariant.
LEMMA DPInvStep == PodInv /\ [DPNext]_dpAll => PodInv'
  <1> SUFFICES ASSUME PodInv, [DPNext]_dpAll PROVE PodInv'
    OBVIOUS
  <1> USE DEF PodInv, PodTypes, ClusterTypeOK
  <1>1. ASSUME NEW p \in Pods, PodStep(p) PROVE PodInv'
    BY <1>1, PodInvStep, Zenon
  <1>2. ASSUME NEW o \in ObjectNames, NEW s \in ObjectStates, AnyObject(o, s)
        PROVE  PodInv'
    <2>1. StoreMoves
      BY <1>2, SMTT(30) DEF AnyObject, Fault, StoreMoves, SnapshotsNamed, Named
    <2> QED
      BY <1>2, <2>1, StoreInvStep, Zenon DEF AnyObject
  <1>3. ASSUME NEW g \in Gateways, NEW m \in Manifests, AnyManifest(g, m)
        PROVE  PodInv'
    <2>1. /\ manifest' = [manifest EXCEPT ![g] = m]
          /\ committed' = [committed EXCEPT ![g] = @ \cup ({m.gen} \ {NoGen})]
          /\ removed' = IF m = NoManifest THEN removed \cup {g} ELSE removed
          /\ UNCHANGED <<objs, tampered>> /\ faults' = faults + 1
          /\ m \in {NoManifest, CorruptManifest} \/ (m.state = "valid" /\ m.gen # NoGen)
      BY <1>3, Zenon DEF AnyManifest, Fault
    <2>2. m.gen \in GenOrNone /\ {m.gen} \ {NoGen} \subseteq Generations
      BY Zenon DEF Manifests, GenOrNone
    <2>3. ClusterTypeOK'
      BY <2>1, <2>2, SMTT(30)
    <2>4. Named(m, g)'
      BY <2>1, SMTT(30) DEF Named, NoManifest, CorruptManifest
    <2>5. \A h \in Gateways : Named(manifest[h], h)'
      <3> SUFFICES ASSUME NEW h \in Gateways PROVE Named(manifest[h], h)'
        BY Zenon
      <3>1. CASE h = g
        BY <2>1, <2>4, <3>1, Zenon DEF Named
      <3>2. CASE h # g
        <4>1. manifest'[h] = manifest[h] /\ committed'[h] = committed[h]
          BY <2>1, <3>2, Zenon
        <4> QED
          BY <4>1, Zenon DEF SnapshotsNamed, Named
      <3> QED
        BY <3>1, <3>2, Zenon
    <2>6. \A h \in Gateways \ removed' :
              manifest[h].state # "absent" => manifest'[h].state # "absent"
      BY <2>1, SMTT(30) DEF CorruptManifest
    <2>7. \A h \in Gateways : committed[h] \subseteq committed'[h]
      BY <2>1, Zenon
    <2>8. StoreMoves
      BY <2>1, <2>3, <2>5, <2>6, <2>7, Zenon DEF StoreMoves
    <2> QED
      BY <1>3, <2>8, StoreInvStep, Zenon DEF AnyManifest
  <1>4. CASE UNCHANGED dpAll
    <2>1. StoreMoves
      BY <1>4, Zenon DEF dpAll, clusterVars, StoreMoves, SnapshotsNamed, Named
    <2> QED
      BY <1>4, <2>1, StoreInvStep, Zenon DEF dpAll
  <1> QED
    BY <1>1, <1>2, <1>3, <1>4, Zenon DEF DPNext

-----------------------------------------------------------------------------
\* Whatever a pod is mailed, it acknowledges only what it serves, reports
\* only what it has served, and a load that fails repeats no generation it
\* does not serve (rebuild of the loader), with any store at all.
THEOREM AcksMatchTables == DPSpec => []AckMatchesTables
  <1>1. DPStart => PodInv
    BY PodInvInit DEF DPStart
  <1>2. PodInv => AckMatchesTables
    BY DEF PodInv, AckInv
  <1> QED
    BY <1>1, <1>2, DPInvStep, PTL DEF DPSpec, dpAll

\* What a rebuild does to a table: it keeps it, replaces it by a committed
\* generation, or drops it, and only for a Gateway that was withdrawn.
LEMMA SwapAllowed ==
  ASSUME PodInv, NEW p \in Pods, Rebuild(p), NEW g \in Gateways
  PROVE  \/ served'[p][g] = served[p][g]
         \/ served'[p][g] \in committed[g]
         \/ served'[p][g] = NoGen /\ g \in removed
  <1> DEFINE raw == mailbox[p][1]
             m == raw.manifests[g]
  <1>1. served'[p][g] = RebuiltTable(raw, g, served[p][g])
    BY RebuildEffect, Zenon DEF PodInv
  <1>2. 1 \in 1 .. Len(mailbox[p])
    <2>1. mailbox[p] \in Seq(Snapshots) /\ mailbox[p] # <<>>
      BY Zenon DEF PodInv, PodTypes, PodTypeOK, Rebuild
    <2> QED
      BY <2>1, MailboxSteps, SMTT(30)
  <1> HIDE DEF raw
  <1>3. NamedIn(raw)
    BY <1>2, Zenon DEF PodInv, SnapshotsNamed, raw
  <1>4. CASE m.state = "absent"
    <2>1. served'[p][g] = NoGen
      BY <1>1, <1>4 DEF RebuiltTable
    <2>2. g \notin removed => served[p][g] = NoGen
      BY <1>2, <1>4, Zenon DEF PodInv, PresenceSpreads, Spreads, Present, raw
    <2> QED
      BY <2>1, <2>2, Zenon
  <1>5. CASE m.state = "valid" /\ LoadGeneration(raw, g, m.gen)
    <2>1. served'[p][g] = m.gen
      BY <1>1, <1>5 DEF RebuiltTable
    <2> QED
      BY <1>3, <1>5, <2>1, Zenon DEF NamedIn, Named
  <1>6. CASE m.state # "absent" /\ ~(m.state = "valid" /\ LoadGeneration(raw, g, m.gen))
    BY <1>1, <1>6 DEF RebuiltTable
  <1> QED
    BY <1>4, <1>5, <1>6, Zenon

\* Last-valid behaviour: a running pod stops serving a Gateway only if its
\* manifest was deleted, whatever objects are missing, damaged or
\* unbuildable and however old the snapshot in hand is.
THEOREM LastValidServed == DPSpec => LastValidKept
  <1>1. DPStart => PodInv
    BY PodInvInit DEF DPStart
  <1>2. PodInv /\ [DPNext]_dpAll =>
          [\A p \in Pods, g \in Gateways :
               served[p][g] # NoGen /\ served'[p][g] = NoGen
                   => p \notin up' \/ g \in removed]_dpAll
    <2> SUFFICES ASSUME PodInv, DPNext, NEW q \in Pods, NEW g \in Gateways,
                        served[q][g] # NoGen, served'[q][g] = NoGen
                 PROVE  q \notin up' \/ g \in removed
      BY Zenon
    <2> USE DEF PodInv, PodTypes, PodTypeOK, ClusterTypeOK
    <2>1. CASE UNCHANGED served
      BY <2>1, Zenon
    <2>2. ASSUME NEW p \in Pods, Rebuild(p) PROVE g \in removed
      <3>1. q = p
        <4>1. served' = [served EXCEPT ![p] = served'[p]]
          BY <2>2, RebuildEffect, Zenon
        <4> QED
          BY <4>1, Zenon
      <3>2. NoGen \notin committed[g]
        BY ClusterAssumption, Zenon
      <3> QED
        BY <2>2, <3>1, <3>2, SwapAllowed, Zenon
    <2>3. ASSUME NEW p \in Pods, PodStops(p) PROVE q \notin up'
      BY <2>3, Zenon DEF PodStops, ForgetConfig
    <2> QED
      BY <2>1, <2>2, <2>3, Zenon
         DEF DPNext, PodStep, ListConfigMaps, ListSecrets, ListSecretsFails,
             PublishStatuses, PodStarts, AnyObject, AnyManifest, dpVars
  <1> QED
    BY <1>1, <1>2, DPInvStep, PTL DEF DPSpec, LastValidKept, dpAll
==============================================================================
