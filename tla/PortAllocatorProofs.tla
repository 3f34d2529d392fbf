------------------------- MODULE PortAllocatorProofs -------------------------
(***************************************************************************)
(* Port allocations are unique and stable for any number of Gateways, any  *)
(* listener groups and any port range.                                     *)
(***************************************************************************)
EXTENDS PortAllocator, TLAPS

\* Whatever an annotation still holds, the pass's allocator holds too: this
\* is why a pass that writes one Service cannot clash with the others.
Reserved == stage # "idle" => \A x \in Keys : svc[x] \in {NoPort, assigned[x]}

Inv == TypeOK /\ AllocationsUnique /\ Reserved

\* Port 0 stands for no port: it is outside every range.
LEMMA NoPortFree == NoPort \notin Ports
  BY PortAssumption DEF NoPort, Ports

\* Allocate returns the table as it was, or enters a port nobody had.
LEMMA AllocateFresh ==
  ASSUME NEW a, NEW x, NEW b \in Allocate(a, x)
  PROVE  b = a \/ (a[x] = NoPort /\ \E p \in Free(a) : b = [a EXCEPT ![x] = p])
  BY DEF Allocate, FirstFree

\* Every step keeps the types (TypeOK).
LEMMA TypeStep == TypeOK /\ [Next]_vars => TypeOK'
  <1> SUFFICES ASSUME TypeOK, [Next]_vars PROVE TypeOK'
    OBVIOUS
  <1> USE PortAssumption
  <1> USE DEF TypeOK, Gateways, PortOrNone
  <1>0. NoPorts \in [Keys -> PortOrNone]
    BY DEF NoPorts
  <1>1. ASSUME NEW x \in Keys, NEW s \in ListenerStates, EditListener(x, s)
        PROVE  TypeOK'
    BY <1>1 DEF EditListener, pass
  <1>2. ASSUME NEW g \in Gateways, DeleteGateway(g) PROVE TypeOK'
    BY <1>2 DEF DeleteGateway, pass
  <1>3. ASSUME NEW g \in Gateways, ServiceCollected(g) PROVE TypeOK'
    BY <1>3 DEF ServiceCollected, Without, pass, world
  <1>4. ASSUME NEW g \in Gateways, ServiceDeleted(g) PROVE TypeOK'
    BY <1>4 DEF ServiceDeleted, Without, Fault, pass, world
  <1>5. CASE Gather
    BY <1>5 DEF Gather, NewPortAllocator, world
  <1>6. CASE SkipGateway
    BY <1>6 DEF SkipGateway, world
  <1>7. CASE ValidateListeners
    BY <1>7 DEF ValidateListeners, world
  <1>8. ASSUME NEW k \in Groups, ValidateListener(k) PROVE TypeOK'
    <2>1. assigned' \in [Keys -> PortOrNone]
      BY <1>8, AllocateFresh DEF ValidateListener, Free
    <2> QED
      BY <1>8, <2>1 DEF ValidateListener, world
  <1>9. WithValidPorts \in [Keys -> PortOrNone]
    BY DEF WithValidPorts, ValidPorts, Keys
  <1>10. CASE PublishGeneration
    BY <1>9, <1>10 DEF PublishGeneration, world
  <1>11. CASE PublishFails
    BY <1>9, <1>11 DEF PublishFails, Fault, world
  <1>12. CASE EnsureFrontend
    BY <1>12 DEF EnsureFrontend, PortMap, Fault, world
  <1>13. CASE CollectOrphans
    BY <1>0, <1>13 DEF CollectOrphans, Fault, world
  <1>14. CASE Crash
    BY <1>0, <1>14 DEF Crash, Fault, world
  <1>15. CASE UNCHANGED vars
    BY <1>15 DEF vars, pass, world
  <1> QED
    BY <1>1, <1>2, <1>3, <1>4, <1>5, <1>6, <1>7, <1>8, <1>10, <1>11, <1>12,
       <1>13, <1>14, <1>15 DEF Next

\* Taking entries out of the annotations cannot make two of them clash, nor
\* leave one the allocator does not hold.
LEMMA WithoutKeeps ==
  ASSUME Inv, NEW g, svc' = Without(svc, g), UNCHANGED pass
  PROVE  AllocationsUnique' /\ Reserved'
  <1>1. \A x \in Keys : svc'[x] \in {svc[x], NoPort}
    BY DEF Without
  <1>2. Unique(svc)'
    BY <1>1 DEF Inv, AllocationsUnique, Unique
  <1> QED
    BY <1>1, <1>2 DEF Inv, AllocationsUnique, Unique, Reserved, pass

\* Every step keeps allocations unique and reserved.
LEMMA InvStep == Inv /\ [Next]_vars => Inv'
  <1> SUFFICES ASSUME Inv, [Next]_vars PROVE AllocationsUnique' /\ Reserved'
    BY TypeStep DEF Inv
  <1> USE DEF Inv
  <1>0. UNCHANGED <<svc, assigned, stage>> => AllocationsUnique' /\ Reserved'
    BY DEF AllocationsUnique, Unique, Reserved
  <1>00. UNCHANGED <<svc, assigned>> /\ stage # "idle"
            => AllocationsUnique' /\ Reserved'
    BY DEF AllocationsUnique, Unique, Reserved
  <1>000. svc' = svc /\ assigned' = NoPorts /\ stage' = "idle"
            => AllocationsUnique' /\ Reserved'
    BY DEF AllocationsUnique, Unique, Reserved, NoPorts
  <1>1. ASSUME NEW x \in Keys, NEW s \in ListenerStates, EditListener(x, s)
        PROVE  AllocationsUnique' /\ Reserved'
    BY <1>0, <1>1 DEF EditListener, pass
  <1>2. ASSUME NEW g \in Gateways, DeleteGateway(g)
        PROVE  AllocationsUnique' /\ Reserved'
    BY <1>0, <1>2 DEF DeleteGateway, pass
  <1>3. ASSUME NEW g \in Gateways, ServiceCollected(g) \/ ServiceDeleted(g)
        PROVE  AllocationsUnique' /\ Reserved'
    BY <1>3, WithoutKeeps DEF ServiceCollected, ServiceDeleted
  <1>5. CASE Gather
    BY <1>5 DEF Gather, NewPortAllocator, AllocationsUnique, Unique, Reserved
  <1>6. CASE SkipGateway
    BY <1>0, <1>6 DEF SkipGateway
  <1>7. CASE ValidateListeners
    BY <1>00, <1>7 DEF ValidateListeners
  <1>8. ASSUME NEW k \in Groups, ValidateListener(k)
        PROVE  AllocationsUnique' /\ Reserved'
    <2>0. /\ <<at, k>> \in Keys /\ assigned \in [Keys -> PortOrNone]
          /\ svc' = svc /\ stage' = stage /\ stage = "allocate"
      BY <1>8 DEF ValidateListener, TypeOK, Keys
    <2>1. CASE assigned' = assigned
      BY <1>0, <2>0, <2>1
    <2>2. CASE \E p \in Free(assigned) :
                 /\ assigned[<<at, k>>] = NoPort
                 /\ assigned' = [assigned EXCEPT ![<<at, k>>] = p]
      <3>1. PICK p \in Free(assigned) :
                 /\ assigned[<<at, k>>] = NoPort
                 /\ assigned' = [assigned EXCEPT ![<<at, k>>] = p]
        BY <2>2, Zenon
      <3>2. p # NoPort /\ \A x \in Keys : assigned[x] # p
        BY NoPortFree DEF Free
      <3>3. Unique(assigned)'
        BY <2>0, <3>1, <3>2 DEF AllocationsUnique, Unique
      <3>4. Reserved'
        BY <2>0, <3>1 DEF Reserved
      <3> QED
        BY <2>0, <3>3, <3>4 DEF AllocationsUnique, Unique
    <2> QED
      BY <1>8, <2>1, <2>2, AllocateFresh DEF ValidateListener
  <1>9. CASE PublishGeneration \/ PublishFails
    BY <1>00, <1>9 DEF PublishGeneration, PublishFails
  <1>10. CASE EnsureFrontend
    <2>1. /\ stage = "frontend" /\ stage' = "gateway" /\ assigned' = assigned
          /\ svc' \in {svc, PortMap}
      BY <1>10 DEF EnsureFrontend
    <2>2. \A x \in Keys : svc'[x] \in {NoPort, assigned[x]}
      BY <2>1 DEF Reserved, PortMap
    <2> QED
      BY <2>1, <2>2 DEF AllocationsUnique, Unique, Reserved
  <1>11. CASE CollectOrphans \/ Crash
    BY <1>000, <1>11 DEF CollectOrphans, Crash
  <1>12. CASE UNCHANGED vars
    BY <1>0, <1>12 DEF vars, pass
  <1> QED
    BY <1>1, <1>2, <1>3, <1>5, <1>6, <1>7, <1>8, <1>9, <1>10, <1>11, <1>12
       DEF Next

\* The initial state has no allocations at all.
LEMMA InvInit == Init => Inv
  BY PortAssumption
     DEF Init, Inv, TypeOK, AllocationsUnique, Unique, Reserved, NoPorts,
         PortOrNone, Gateways, ListenerStates

\* No port is handed out twice within a pass, nor across the annotations any
\* history of passes, crashes, failed writes and deletions has left.
THEOREM PortsUnique == Spec => []AllocationsUnique
  <1>1. Inv => AllocationsUnique
    BY DEF Inv
  <1> QED
    BY InvInit, InvStep, <1>1, PTL DEF Spec

\* A persisted port is never renumbered, whatever the range, the listeners
\* and the faults: the entry stays or goes away with its Service.
THEOREM PortsStable == Spec => PersistedStable
  <1>1. Inv /\ [Next]_vars =>
          [\A x \in Keys : svc[x] # NoPort => svc'[x] \in {svc[x], NoPort}]_vars
    <2> SUFFICES ASSUME Inv, Next, NEW x \in Keys, svc[x] # NoPort
                 PROVE  svc'[x] \in {svc[x], NoPort}
      OBVIOUS
    <2>1. svc' = svc \/ (EnsureFrontend /\ svc' = PortMap)
            \/ \E g \in Gateways : svc' = Without(svc, g)
      BY Zenon DEF Next, EditListener, DeleteGateway, ServiceCollected, ServiceDeleted,
             Gather, SkipGateway, ValidateListeners, ValidateListener,
             PublishGeneration, PublishFails, EnsureFrontend, CollectOrphans,
             Crash
    <2>2. EnsureFrontend /\ svc' = PortMap => svc'[x] = svc[x]
      BY DEF EnsureFrontend, PortMap, Inv, Reserved
    <2> QED
      BY <2>1, <2>2 DEF Without
  <1> QED
    BY InvInit, InvStep, <1>1, PTL DEF Spec, PersistedStable

-----------------------------------------------------------------------------
\* While no Gateway was deleted and nothing failed, every published port is
\* annotated, or about to be: the pass is between the two writes.
Undisturbed == alive = Gateways /\ faults = 0

Covered ==
    Undisturbed => \A x \in Keys :
        \/ published[x] \in {NoPort, svc[x]}
        \/ stage = "frontend" /\ x[1] = at /\ published[x] = ValidPorts[x[2]]

MergeInv == Inv /\ Covered

\* What is annotated or about to be is in one allocator, so it is unique.
LEMMA CoveredUnique == MergeInv => MergeUndisturbed
  <1> SUFFICES ASSUME MergeInv, Undisturbed, NEW x \in Keys, NEW y \in Keys,
                      x # y, published[x] # NoPort
               PROVE  published[x] # published[y]
    BY DEF MergeUndisturbed, Undisturbed, Unique
  <1> USE DEF MergeInv, Inv, Covered, AllocationsUnique, Unique, Reserved
  <1>1. ASSUME stage = "frontend", NEW z \in Keys
        PROVE  published[z] \in {NoPort, assigned[z]}
    <2>1. z[2] \in Groups /\ (z[1] = at => z = <<at, z[2]>>)
      BY DEF Keys
    <2>2. z[1] = at => ValidPorts[z[2]] \in {NoPort, assigned[z]}
      BY <2>1 DEF ValidPorts
    <2> QED
      BY <1>1, <2>2
  <1>2. CASE stage = "frontend"
    BY <1>1, <1>2
  <1>3. CASE stage # "frontend"
    BY <1>3
  <1> QED
    BY <1>2, <1>3

\* Every step keeps the published ports covered: the annotation follows the
\* manifest, and only a fault or a deletion comes between them.
LEMMA CoveredStep == MergeInv /\ [Next]_vars => Covered'
  <1> SUFFICES ASSUME MergeInv, [Next]_vars, Undisturbed' PROVE Covered'
    BY DEF Covered
  <1>0. Undisturbed /\ ~Fault("crash") /\ ~Fault("error") /\ ~Fault("delete")
    <2>1. ~Fault("crash") /\ ~Fault("error") /\ ~Fault("delete")
      BY DEF Fault, Undisturbed, MergeInv, Inv, TypeOK
    <2>2. faults' = faults
      BY <2>1, Zenon DEF Next, EditListener, DeleteGateway, ServiceCollected, ServiceDeleted,
             Gather, SkipGateway, ValidateListeners, ValidateListener, PublishGeneration,
             PublishFails, EnsureFrontend, CollectOrphans, Crash, vars
    <2>3. Gateways \subseteq alive
      BY Zenon DEF Next, Undisturbed, EditListener, DeleteGateway, ServiceCollected,
             ServiceDeleted, Gather, SkipGateway, ValidateListeners, ValidateListener,
             PublishGeneration, PublishFails, EnsureFrontend, CollectOrphans, Crash, vars, world
    <2> QED
      BY <2>1, <2>2, <2>3, Zenon DEF Undisturbed, MergeInv, Inv, TypeOK
  <1> DEFINE Annotated == \A x \in Keys : published[x] \in {NoPort, svc[x]}
  <1>a. \A x \in Keys :
          \/ published[x] \in {NoPort, svc[x]}
          \/ stage = "frontend" /\ x[1] = at /\ published[x] = ValidPorts[x[2]]
    BY <1>0 DEF MergeInv, Covered
  <1>b. stage # "frontend" => Annotated
    BY <1>a
  <1>c. Annotated' => Covered'
    BY DEF Covered
  <1>1. CASE stage # "frontend" /\ UNCHANGED <<svc, published>>
    BY <1>1, <1>b, <1>c
  <1>2. CASE UNCHANGED <<svc, published, stage, at, assigned, seenListeners>>
    BY <1>2, <1>a DEF Covered, ValidPorts
  <1>3. ASSUME NEW x \in Keys, NEW s \in ListenerStates, EditListener(x, s)
        PROVE  Covered'
    BY <1>2, <1>3 DEF EditListener, pass
  <1>4. ASSUME NEW g \in Gateways, DeleteGateway(g) PROVE Covered'
    BY <1>2, <1>4 DEF DeleteGateway, pass
  <1>5. ASSUME NEW g \in Gateways, ServiceCollected(g) \/ ServiceDeleted(g)
        PROVE  Covered'
    BY <1>0, <1>5 DEF ServiceCollected, ServiceDeleted, Undisturbed
  <1>6. CASE Gather \/ SkipGateway \/ ValidateListeners
    BY <1>1, <1>6 DEF Gather, SkipGateway, ValidateListeners
  <1>7. ASSUME NEW k \in Groups, ValidateListener(k) PROVE Covered'
    BY <1>1, <1>7 DEF ValidateListener
  <1>8. CASE PublishGeneration
    <2>1. /\ stage = "allocate" /\ stage' = "frontend"
          /\ published' = WithValidPorts
          /\ UNCHANGED <<svc, at, assigned, seenListeners>>
      BY <1>8 DEF PublishGeneration
    <2>2. ValidPorts' = ValidPorts
      BY <2>1 DEF ValidPorts
    <2> QED
      BY <1>b, <2>1, <2>2 DEF Covered, WithValidPorts
  <1>9. CASE EnsureFrontend
    <2>1. /\ stage = "frontend"
          /\ svc' = IF \E k \in Groups : ValidPorts[k] # NoPort THEN PortMap ELSE svc
          /\ published' = published
      BY <1>0, <1>9 DEF EnsureFrontend
    <2>2. \A x \in Keys : svc[x] \in {NoPort, assigned[x]}
      BY <2>1 DEF MergeInv, Inv, Reserved
    <2>3. ASSUME NEW x \in Keys PROVE published[x] \in {NoPort, svc'[x]}
      <3>1. x[2] \in Groups /\ (x[1] = at => x = <<at, x[2]>>)
        BY DEF Keys
      <3>2. CASE x[1] = at /\ published[x] = ValidPorts[x[2]] /\ published[x] # NoPort
        <4>1. published[x] = assigned[x]
          BY <3>1, <3>2 DEF ValidPorts
        <4>2. svc'[x] = assigned[x]
          BY <2>1, <3>1, <3>2 DEF PortMap
        <4> QED
          BY <4>1, <4>2
      <3>3. CASE published[x] \in {NoPort, svc[x]}
        BY <2>1, <2>2, <3>3 DEF PortMap
      <3> QED
        BY <1>a, <3>2, <3>3
    <2> QED
      BY <1>c, <2>1, <2>3
  <1>10. CASE CollectOrphans
    <2>1. published' = [x \in Keys |-> IF x[1] \in seenAlive THEN published[x] ELSE NoPort]
      BY <1>0, <1>10 DEF CollectOrphans
    <2> QED
      BY <1>b, <1>c, <1>10, <2>1 DEF CollectOrphans
  <1>11. CASE PublishFails \/ Crash
    BY <1>0, <1>11 DEF PublishFails, Crash
  <1>12. CASE UNCHANGED vars
    BY <1>2, <1>12 DEF vars, pass
  <1> QED
    BY <1>3, <1>4, <1>5, <1>6, <1>7, <1>8, <1>9, <1>10, <1>11, <1>12 DEF Next

\* As long as no Gateway was deleted and nothing failed, no two committed
\* generations share a port at any moment of a pass, for any Gateways and
\* any range: MergeTables cannot conflict.
THEOREM PortsMerge == Spec => []MergeUndisturbed
  <1>1. Init => MergeInv
    BY InvInit DEF MergeInv, Covered, Init, NoPorts
  <1>2. MergeInv /\ [Next]_vars => MergeInv'
    BY InvStep, CoveredStep DEF MergeInv
  <1> QED
    BY <1>1, <1>2, CoveredUnique, PTL DEF Spec
==============================================================================
