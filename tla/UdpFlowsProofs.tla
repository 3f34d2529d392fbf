--------------------------- MODULE UdpFlowsProofs ----------------------------
(***************************************************************************)
(* The flows map of the datagram engine, for any clients, backends, number *)
(* of flows and idle period.                                               *)
(***************************************************************************)
EXTENDS UdpFlows, TLAPS

Types ==
    /\ open \in BOOLEAN
    /\ stage \in {"recv", "open", "write", "deadline", "ended"}
    /\ flows \in [Clients -> FlowIds \cup {NoFlow}]
    /\ relay \in [FlowIds -> {"none", "read", "reply", "leave"}]
    /\ of \in [FlowIds -> Clients \cup {NoClient}]
    /\ closed \in [FlowIds -> BOOLEAN]
    /\ age \in [FlowIds -> 0 .. IdleTicks]
    /\ quiet \in [FlowIds -> 0 .. IdleTicks]
    /\ mayMove \in [Clients -> BOOLEAN]

\* The datagram in hand has a source, and a flow once it is past "open";
\* its source has none while one is being opened.
LoopOK ==
    /\ stage \in {"open", "write", "deadline"} => client \in Clients
    /\ stage \in {"write", "deadline"} => fl \in FlowIds
    /\ stage = "open" => flows[client] = NoFlow

\* The map and the goroutines know of the same flows.
MapExact ==
    /\ \A f \in FlowIds : relay[f] # "none" => of[f] \in Clients /\ flows[of[f]] = f
    /\ \A c \in Clients : flows[c] # NoFlow => relay[flows[c]] # "none" /\ of[flows[c]] = c

MapInv == Types /\ LoopOK /\ MapExact

\* The read deadline runs late at most: it is set after the datagram or the
\* response that ends the silence, before time passes on. So a deadline that
\* passes, while the socket is open, ends a flow that was silent for the
\* whole period, and only such a flow, or a refused one, leaves the map.
DeadlineLate ==
    \A f \in FlowIds : relay[f] = "read" =>
        \/ age[f] <= quiet[f]
        \/ stage = "deadline" /\ fl = f

SilenceNoted ==
    \A f \in FlowIds :
        /\ relay[f] # "none" /\ quiet[f] = IdleTicks => mayMove[of[f]]
        /\ relay[f] = "read" /\ age[f] = IdleTicks => mayMove[of[f]]
        /\ relay[f] = "leave" /\ open => mayMove[of[f]]
        /\ relay[f] \in {"read", "reply"} /\ closed[f] => ~open

LeavesFree == open => \A c \in Clients : flows[c] = NoFlow => mayMove[c]

StickyInv == MapInv /\ DeadlineLate /\ SilenceNoted /\ LeavesFree

-----------------------------------------------------------------------------
\* Tick makes no age exceed the period.
LEMMA LaterType ==
  ASSUME NEW f \in FlowIds, NEW t \in 0 .. IdleTicks
  PROVE  Later(f, t) \in 0 .. IdleTicks
  BY UdpAssumption DEF Later

\* What openFlow does, with the flow it takes by name.
LEMMA OpenEffect ==
  ASSUME NEW b \in Backends, OpenFlow(b)
  PROVE  \E f \in FlowIds :
            /\ relay[f] = "none" /\ stage = "open" /\ stage' = "write" /\ fl' = f
            /\ flows' = [flows EXCEPT ![client] = f]
            /\ relay' = [relay EXCEPT ![f] = "read"]
            /\ of' = [of EXCEPT ![f] = client]
            /\ closed' = [closed EXCEPT ![f] = FALSE]
            /\ age' = [age EXCEPT ![f] = 0]
            /\ quiet' = [quiet EXCEPT ![f] = 0]
            /\ mayMove' = [mayMove EXCEPT ![client] = FALSE]
            /\ UNCHANGED <<open, client>>
  <1> DEFINE f == CHOOSE g \in FlowIds : relay[g] = "none"
  <1>1. f \in FlowIds /\ relay[f] = "none"
    BY DEF OpenFlow
  <1> HIDE DEF f
  <1>2. /\ stage = "open" /\ stage' = "write" /\ fl' = f
        /\ flows' = [flows EXCEPT ![client] = f]
        /\ relay' = [relay EXCEPT ![f] = "read"]
        /\ of' = [of EXCEPT ![f] = client]
        /\ closed' = [closed EXCEPT ![f] = FALSE]
        /\ age' = [age EXCEPT ![f] = 0]
        /\ quiet' = [quiet EXCEPT ![f] = 0]
        /\ mayMove' = [mayMove EXCEPT ![client] = FALSE]
        /\ UNCHANGED <<open, client>>
    BY DEF OpenFlow, f
  <1> QED
    BY <1>1, <1>2, Zenon

\* The types and what the loop knows of the datagram in hand.
LEMMA TypesStep == MapInv /\ [Next]_vars => (Types /\ LoopOK)'
  <1> SUFFICES ASSUME MapInv, [Next]_vars PROVE (Types /\ LoopOK)'
    OBVIOUS
  <1> USE UdpAssumption DEF MapInv, Types, LoopOK
  <1>0. NoFlow \notin FlowIds /\ 0 \in 0 .. IdleTicks
    BY DEF NoFlow, FlowIds
  <1>1. ASSUME NEW c \in Clients, Receive(c) PROVE (Types /\ LoopOK)'
    BY <1>1 DEF Receive
  <1>2. ASSUME NEW b \in Backends, OpenFlow(b) PROVE (Types /\ LoopOK)'
    <2>1. PICK f \in FlowIds :
            /\ stage = "open" /\ stage' = "write" /\ fl' = f
            /\ flows' = [flows EXCEPT ![client] = f]
            /\ relay' = [relay EXCEPT ![f] = "read"]
            /\ of' = [of EXCEPT ![f] = client]
            /\ closed' = [closed EXCEPT ![f] = FALSE]
            /\ age' = [age EXCEPT ![f] = 0]
            /\ quiet' = [quiet EXCEPT ![f] = 0]
            /\ mayMove' = [mayMove EXCEPT ![client] = FALSE]
            /\ UNCHANGED <<open, client>>
      BY <1>2, OpenEffect
    <2>2. client \in Clients
      BY <2>1
    <2>3. LoopOK'
      BY <2>1, <2>2
    <2> QED
      BY <1>0, <2>1, <2>2, <2>3
  <1>3. CASE OpenFlowFails \/ Drop \/ Refused \/ Stop
    BY <1>3, Zenon DEF OpenFlowFails, Drop, Refused, Stop, loop
  <1>4. CASE Forward
    BY <1>0, <1>4 DEF Forward
  <1>5. CASE ExtendDeadline
    BY <1>0, <1>5 DEF ExtendDeadline
  <1>6. CASE ServeReturns
    BY <1>6 DEF ServeReturns
  <1>7. ASSUME NEW f \in FlowIds, Respond(f) PROVE (Types /\ LoopOK)'
    BY <1>0, <1>7 DEF Respond, loop
  <1>8. ASSUME NEW f \in FlowIds, Relay(f) PROVE (Types /\ LoopOK)'
    BY <1>0, <1>8 DEF Relay, loop
  <1>9. ASSUME NEW f \in FlowIds, ReadFails(f) PROVE (Types /\ LoopOK)'
    BY <1>9 DEF ReadFails, loop
  <1>10. ASSUME NEW f \in FlowIds, ReadRefused(f) PROVE (Types /\ LoopOK)'
    BY <1>10, Zenon DEF ReadRefused, loop
  <1>11. ASSUME NEW f \in FlowIds, CloseUpstream(f) PROVE (Types /\ LoopOK)'
    BY <1>11 DEF CloseUpstream, loop
  <1>12. ASSUME NEW f \in FlowIds, DeleteFlow(f) PROVE (Types /\ LoopOK)'
    BY <1>12, Zenon DEF DeleteFlow, loop
  <1>13. CASE Tick
    <2>1. /\ age' \in [FlowIds -> 0 .. IdleTicks]
          /\ quiet' \in [FlowIds -> 0 .. IdleTicks]
      BY <1>13, LaterType DEF Tick
    <2>2. mayMove' \in [Clients -> BOOLEAN]
      BY <1>13 DEF Tick
    <2> QED
      BY <1>13, <2>1, <2>2 DEF Tick, loop
  <1>14. CASE UNCHANGED vars
    BY <1>14 DEF vars, loop
  <1> QED
    BY <1>1, <1>2, <1>3, <1>4, <1>5, <1>6, <1>7, <1>8, <1>9, <1>10, <1>11, <1>12,
       <1>13, <1>14 DEF Next, Serve, RelayResponses

\* openFlow enters a flow for a client that has none, and the delete at the
\* end of relayResponses takes out the flow of that goroutine.
LEMMA MapStep == MapInv /\ [Next]_vars => MapInv'
  <1> SUFFICES ASSUME MapInv, [Next]_vars PROVE MapExact'
    BY TypesStep DEF MapInv
  <1> USE DEF MapInv, Types, LoopOK, MapExact
  <1>0. NoFlow \notin FlowIds
    BY DEF NoFlow, FlowIds
  <1>1. CASE /\ UNCHANGED <<flows, of>>
             /\ \A f \in FlowIds : relay'[f] = "none" <=> relay[f] = "none"
    BY <1>1
  <1>2. ASSUME NEW b \in Backends, OpenFlow(b) PROVE MapExact'
    <2>1. PICK f \in FlowIds :
            /\ relay[f] = "none" /\ stage = "open"
            /\ flows' = [flows EXCEPT ![client] = f]
            /\ relay' = [relay EXCEPT ![f] = "read"]
            /\ of' = [of EXCEPT ![f] = client]
      BY <1>2, OpenEffect
    <2>2. client \in Clients /\ flows[client] = NoFlow
      BY <2>1
    <2>3. ASSUME NEW g \in FlowIds, relay'[g] # "none"
          PROVE  of'[g] \in Clients /\ flows'[of'[g]] = g
      BY <1>0, <2>1, <2>2, <2>3
    <2>4. ASSUME NEW c \in Clients, flows'[c] # NoFlow
          PROVE  relay'[flows'[c]] # "none" /\ of'[flows'[c]] = c
      BY <1>0, <2>1, <2>2, <2>4
    <2> QED
      BY <2>3, <2>4
  <1>3. ASSUME NEW f \in FlowIds, DeleteFlow(f) PROVE MapExact'
    <2>1. /\ relay[f] = "leave" /\ of' = of
          /\ flows' = [flows EXCEPT ![of[f]] = NoFlow]
          /\ relay' = [relay EXCEPT ![f] = "none"]
      BY <1>3 DEF DeleteFlow
    <2> QED
      BY <1>0, <2>1
  <1>4. ASSUME NEW f \in FlowIds,
               Respond(f) \/ Relay(f) \/ ReadFails(f) \/ ReadRefused(f)
        PROVE  MapExact'
    BY <1>1, <1>4 DEF Respond, Relay, ReadFails, ReadRefused
  <1> QED
    BY <1>1, <1>2, <1>3, <1>4
       DEF Next, Serve, RelayResponses, Receive, OpenFlowFails, Forward, Drop,
           Refused, ExtendDeadline, Stop, ServeReturns, CloseUpstream, Tick, vars

\* No flow, and no goroutine, to begin with.
LEMMA MapInit == Init => MapInv
  BY UdpAssumption DEF Init, MapInv, Types, LoopOK, MapExact

\* A goroutine's flow is the one the map has for its client until the delete
\* at its end, which therefore never removes another flow: datagrams and the
\* ends of flows may interleave in any order (Serve, openFlow, relayResponses).
THEOREM FlowsInMap == Spec => []MapHoldsFlows
  <1>1. MapInv => MapHoldsFlows
    BY DEF MapInv, MapExact, MapHoldsFlows
  <1> QED
    BY <1>1, MapInit, MapStep, PTL DEF Spec

-----------------------------------------------------------------------------
Sticks == DeadlineLate /\ SilenceNoted /\ LeavesFree

\* Every step keeps the account of silent flows.
LEMMA StickyStep == StickyInv /\ [Next]_vars => StickyInv'
  <1> SUFFICES ASSUME StickyInv, [Next]_vars PROVE Sticks'
    BY MapStep DEF StickyInv, Sticks
  <1> USE UdpAssumption DEF StickyInv, MapInv, Types, LoopOK, MapExact,
          DeadlineLate, SilenceNoted, LeavesFree, Sticks
  <1>0. NoFlow \notin FlowIds
    BY DEF NoFlow, FlowIds
  <1>1. CASE Stop
    BY <1>1 DEF Stop, loop
  <1>2. ASSUME NEW c \in Clients, Receive(c) PROVE Sticks'
    BY <1>2 DEF Receive
  <1>3. ASSUME NEW b \in Backends, OpenFlow(b) PROVE Sticks'
    <2>1. PICK f \in FlowIds :
            /\ relay[f] = "none" /\ stage = "open" /\ stage' = "write" /\ fl' = f
            /\ flows' = [flows EXCEPT ![client] = f]
            /\ relay' = [relay EXCEPT ![f] = "read"]
            /\ of' = [of EXCEPT ![f] = client]
            /\ closed' = [closed EXCEPT ![f] = FALSE]
            /\ age' = [age EXCEPT ![f] = 0]
            /\ quiet' = [quiet EXCEPT ![f] = 0]
            /\ mayMove' = [mayMove EXCEPT ![client] = FALSE]
            /\ UNCHANGED <<open, client>>
      BY <1>3, OpenEffect
    <2>2. client \in Clients /\ flows[client] = NoFlow
      BY <2>1
    <2>3. ASSUME NEW g \in FlowIds \ {f}, relay[g] # "none"
          PROVE  of'[g] = of[g] /\ mayMove'[of[g]] = mayMove[of[g]]
      <3>1. of'[g] = of[g]
        BY <2>1, <2>3
      <3>2. of[g] \in Clients /\ flows[of[g]] = g /\ g # NoFlow
        BY <1>0, <2>3
      <3>3. of[g] # client
        BY <2>2, <3>2
      <3> QED
        BY <2>1, <3>1, <3>2, <3>3
    <2>4. DeadlineLate'
      BY <2>1
    <2>5. SilenceNoted'
      <3>1. ASSUME NEW g \in FlowIds \ {f}
            PROVE  /\ relay'[g] = relay[g] /\ closed'[g] = closed[g]
                   /\ age'[g] = age[g] /\ quiet'[g] = quiet[g]
        BY <2>1
      <3>2. relay'[f] = "read" /\ closed'[f] = FALSE /\ age'[f] = 0 /\ quiet'[f] = 0
        BY <2>1
      <3>3. ASSUME NEW g \in FlowIds
            PROVE  /\ relay'[g] # "none" /\ quiet'[g] = IdleTicks => mayMove'[of'[g]]
                   /\ relay'[g] = "read" /\ age'[g] = IdleTicks => mayMove'[of'[g]]
                   /\ relay'[g] = "leave" /\ open' => mayMove'[of'[g]]
                   /\ relay'[g] \in {"read", "reply"} /\ closed'[g] => ~open'
        <4>1. CASE g = f
          BY <3>2, <4>1
        <4>2. CASE g # f /\ relay[g] # "none"
          <5>1. of'[g] = of[g] /\ mayMove'[of[g]] = mayMove[of[g]] /\ open' = open
            BY <2>1, <2>3, <4>2, Zenon
          <5> QED
            BY <3>1, <4>2, <5>1
        <4>3. CASE g # f /\ relay[g] = "none"
          BY <3>1, <4>3
        <4> QED
          BY <4>1, <4>2, <4>3
      <3> QED
        BY <3>3
    <2>6. LeavesFree'
      BY <1>0, <2>1, <2>2
    <2> QED
      BY <2>4, <2>5, <2>6
  <1>4. CASE OpenFlowFails \/ Drop \/ Refused
    BY <1>4 DEF OpenFlowFails, Drop, Refused
  <1>5. CASE Forward
    <2>1. /\ stage = "write" /\ stage' = "deadline" /\ fl' = fl
          /\ quiet' = [quiet EXCEPT ![fl] = 0]
          /\ UNCHANGED <<open, flows, relay, of, closed, age, mayMove>>
      BY <1>5 DEF Forward
    <2>2. DeadlineLate'
      BY <2>1
    <2>3. SilenceNoted'
      BY <2>1
    <2> QED
      BY <2>1, <2>2, <2>3
  <1>6. CASE ExtendDeadline
    <2>1. /\ stage = "deadline"
          /\ age' = [age EXCEPT ![fl] = 0]
          /\ UNCHANGED <<open, flows, relay, of, closed, quiet, mayMove>>
      BY <1>6 DEF ExtendDeadline
    <2>2. DeadlineLate'
      BY <2>1
    <2>3. SilenceNoted'
      BY <2>1
    <2> QED
      BY <2>1, <2>2, <2>3
  <1>7. CASE ServeReturns
    BY <1>7 DEF ServeReturns
  <1>8. ASSUME NEW f \in FlowIds, Respond(f) PROVE Sticks'
    BY <1>8 DEF Respond, loop
  <1>9. ASSUME NEW f \in FlowIds, Relay(f) PROVE Sticks'
    BY <1>9 DEF Relay, loop
  <1>10. ASSUME NEW f \in FlowIds, ReadFails(f) PROVE Sticks'
    BY <1>10 DEF ReadFails, loop
  <1>11. ASSUME NEW f \in FlowIds, ReadRefused(f) PROVE Sticks'
    BY <1>11 DEF ReadRefused, loop
  <1>12. ASSUME NEW f \in FlowIds, CloseUpstream(f) PROVE Sticks'
    BY <1>12 DEF CloseUpstream, loop
  <1>13. ASSUME NEW f \in FlowIds, DeleteFlow(f) PROVE Sticks'
    BY <1>13 DEF DeleteFlow, loop
  <1>14. CASE Tick
    <2>1. /\ stage \in {"recv", "ended"}
          /\ \A f \in FlowIds : /\ age'[f] = Later(f, age[f])
                                 /\ quiet'[f] = Later(f, quiet[f])
          /\ \A c \in Clients : mayMove[c] => mayMove'[c]
          /\ \A f \in FlowIds : relay[f] # "none" /\ quiet'[f] = IdleTicks
                                 => mayMove'[of[f]]
          /\ UNCHANGED <<open, stage, fl, flows, relay, of, closed>>
      BY <1>14, Zenon DEF Tick, loop
    <2>2. ASSUME NEW f \in FlowIds, relay[f] = "read"
          PROVE  /\ age'[f] <= quiet'[f]
                 /\ age'[f] = IdleTicks => quiet'[f] = IdleTicks
      <3>1. age[f] <= quiet[f] /\ age[f] \in 0 .. IdleTicks /\ quiet[f] \in 0 .. IdleTicks
        BY <2>1, <2>2
      <3> QED
        BY <2>1, <3>1 DEF Later
    <2>3. DeadlineLate'
      BY <2>1, <2>2
    <2>4. SilenceNoted'
      BY <2>1, <2>2
    <2>5. LeavesFree'
      BY <2>1
    <2> QED
      BY <2>3, <2>4, <2>5
  <1>15. CASE UNCHANGED vars
    BY <1>15 DEF vars, loop
  <1> QED
    BY <1>1, <1>2, <1>3, <1>4, <1>5, <1>6, <1>7, <1>8, <1>9, <1>10, <1>11, <1>12,
       <1>13, <1>14, <1>15 DEF Next, Serve, RelayResponses

\* While the listener is open, a client is given another flow only after the
\* one it had was silent for the whole idle period or was refused, however
\* its datagrams and responses meet the read deadline (the deadline is set
\* after the write in Serve and after the reply in relayResponses).
THEOREM FlowsSticky == Spec => StickyUntilIdle
  <1>1. Init => StickyInv
    BY MapInit, UdpAssumption
       DEF Init, StickyInv, DeadlineLate, SilenceNoted, LeavesFree
  <1>2. StickyInv /\ [Next]_vars =>
          [\A c \in Clients :
             /\ open
             /\ flows'[c] \notin {NoFlow, flows[c]}
             /\ target'[flows'[c]] # lastTo[c]
             => mayMove[c]]_vars
    <2> SUFFICES ASSUME StickyInv, Next, NEW c \in Clients, open,
                        flows'[c] \notin {NoFlow, flows[c]}
                 PROVE  mayMove[c]
      OBVIOUS
    <2>1. ASSUME NEW b \in Backends, OpenFlow(b)
          PROVE  c = client /\ flows[c] = NoFlow
      BY <2>1 DEF OpenFlow, StickyInv, MapInv, Types, LoopOK
    <2>2. ASSUME NEW f \in FlowIds, DeleteFlow(f) PROVE FALSE
      BY <2>2 DEF DeleteFlow, StickyInv, MapInv, Types
    <2>3. flows' # flows
      OBVIOUS
    <2>4. \/ \E b \in Backends : OpenFlow(b)
          \/ \E f \in FlowIds : DeleteFlow(f)
      BY <2>3, Zenon DEF Next, Serve, RelayResponses, Receive, OpenFlowFails, Forward, Drop,
         Refused, ExtendDeadline, Stop, ServeReturns, Respond, Relay, ReadFails,
         ReadRefused, CloseUpstream, Tick
    <2> QED
      BY <2>1, <2>2, <2>4 DEF StickyInv, LeavesFree
  <1> QED
    BY <1>1, <1>2, StickyStep, PTL DEF Spec, StickyUntilIdle
==============================================================================
