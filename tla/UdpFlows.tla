------------------------------ MODULE UdpFlows -------------------------------
(***************************************************************************)
(* The datagram engine of one UDP listener (lib/transports/udp): the loop  *)
(* that reads datagrams and opens flows, and one goroutine per flow that   *)
(* relays responses until the flow's read deadline passes.                 *)
(***************************************************************************)
EXTENDS Integers

CONSTANTS
    Clients,    \* client source addresses
    Backends,   \* endpoints PickUDP may select
    MaxFlows,   \* flow objects
    IdleTicks   \* idleTimeout, in ticks

ASSUME UdpAssumption == MaxFlows \in Nat /\ IdleTicks \in Nat \ {0}

FlowIds == 1 .. MaxFlows

NoFlow == 0

NoClient == ""

VARIABLES
    open,    \* is the listener's socket open?
    stage,   \* the datagram loop: "recv", "open", "write", "deadline", "ended"
    client,  \* the source of the datagram in hand
    fl,      \* its flow
    flows,   \* the flows map, by client
    relay,   \* the goroutine of each flow: "none", "read", "reply", "leave"
    of,      \* the client of each flow
    target,  \* the backend it is pinned to
    closed,  \* is its upstream socket closed?
    age,     \* time since its read deadline was set
    quiet,   \* time since a datagram passed in either direction
    mayMove, \* since it was opened, was the flow idle for the period, or refused?
    lastTo,  \* the backend that got the client's last datagram
    used     \* flows a datagram went to

loop == <<stage, client, fl>>

vars == <<open, loop, flows, relay, of, target, closed, age, quiet,
          mayMove, lastTo, used>>

Init ==
    /\ open = TRUE /\ stage = "recv" /\ client = NoClient /\ fl = NoFlow
    /\ flows = [c \in Clients |-> NoFlow]
    /\ relay = [f \in FlowIds |-> "none"]
    /\ of = [f \in FlowIds |-> NoClient]
    /\ target = [f \in FlowIds |-> NoClient]
    /\ closed = [f \in FlowIds |-> TRUE]
    /\ age = [f \in FlowIds |-> 0]
    /\ quiet = [f \in FlowIds |-> 0]
    /\ mayMove = [c \in Clients |-> TRUE]
    /\ lastTo = [c \in Clients |-> NoClient] /\ used = {}

-----------------------------------------------------------------------------
\* Serve reads a datagram and looks its source up.
Receive(c) ==
    /\ stage = "recv"
    /\ open
    /\ client' = c /\ fl' = flows[c]
    /\ stage' = IF flows[c] = NoFlow THEN "open" ELSE "write"
    /\ UNCHANGED <<open, flows, relay, of, target, closed, age, quiet,
                   mayMove, lastTo, used>>

\* openFlow selects a backend; the flow is entered and its goroutine started.
OpenFlow(b) ==
    LET f == CHOOSE g \in FlowIds : relay[g] = "none"
    IN  /\ stage = "open"
        /\ \E g \in FlowIds : relay[g] = "none"
        /\ flows' = [flows EXCEPT ![client] = f]
        /\ relay' = [relay EXCEPT ![f] = "read"]
        /\ of' = [of EXCEPT ![f] = client]
        /\ target' = [target EXCEPT ![f] = b]
        /\ closed' = [closed EXCEPT ![f] = FALSE]
        /\ age' = [age EXCEPT ![f] = 0]
        /\ quiet' = [quiet EXCEPT ![f] = 0]
        /\ mayMove' = [mayMove EXCEPT ![client] = FALSE]
        /\ used' = used \ {f}
        /\ fl' = f
        /\ stage' = "write"
        /\ UNCHANGED <<open, client, lastTo>>

\* No endpoint is selectable, or the dial fails: the datagram is dropped.
OpenFlowFails ==
    /\ stage = "open"
    /\ stage' = "recv" /\ client' = NoClient
    /\ UNCHANGED <<open, fl, flows, relay, of, target, closed, age, quiet,
                   mayMove, lastTo, used>>

\* The datagram goes to the backend, unless the upstream was closed.
Forward ==
    /\ stage = "write"
    /\ ~closed[fl]
    /\ stage' = "deadline"
    /\ lastTo' = [lastTo EXCEPT ![client] = target[fl]]
    /\ quiet' = [quiet EXCEPT ![fl] = 0]
    /\ used' = used \cup {fl}
    /\ UNCHANGED <<open, client, fl, flows, relay, of, target, closed, age,
                   mayMove>>

\* (mutant) A datagram for a closed flow opens another one at once.
DropReopens ==
    /\ stage = "write"
    /\ closed[fl]
    /\ stage' = "open"
    /\ UNCHANGED <<open, client, fl, flows, relay, of, target, closed, age,
                   quiet,
                   mayMove, lastTo, used>>

\* Write fails because the upstream was closed.
Drop ==
    /\ stage = "write"
    /\ closed[fl]
    /\ stage' = "recv" /\ client' = NoClient /\ fl' = NoFlow
    /\ UNCHANGED <<open, flows, relay, of, target, closed, age, quiet,
                   mayMove, lastTo, used>>

\* Write fails because the endpoint refused an earlier datagram.
Refused ==
    /\ stage = "write"
    /\ ~closed[fl] /\ fl \in used
    /\ stage' = "recv" /\ client' = NoClient /\ fl' = NoFlow
    /\ UNCHANGED <<open, flows, relay, of, target, closed, age, quiet,
                   mayMove, lastTo, used>>

\* (mutant) Only responses move the deadline.
DeadlineKept ==
    /\ stage = "deadline"
    /\ stage' = "recv" /\ client' = NoClient /\ fl' = NoFlow
    /\ UNCHANGED <<open, flows, relay, of, target, closed, age, quiet,
                   mayMove, lastTo, used>>

\* The deadline moves on. It has no effect on a goroutine past its Read.
ExtendDeadline ==
    /\ stage = "deadline"
    /\ age' = [age EXCEPT ![fl] = 0]
    /\ stage' = "recv" /\ client' = NoClient /\ fl' = NoFlow
    /\ UNCHANGED <<open, flows, relay, of, target, closed, quiet, mayMove,
                   lastTo, used>>

\* The supervisor closes the socket; Serve returns and closes the upstreams.
Stop ==
    /\ open
    /\ open' = FALSE
    /\ UNCHANGED <<loop, flows, relay, of, target, closed, age, quiet,
                   mayMove, lastTo, used>>

ServeReturns ==
    /\ stage = "recv"
    /\ ~open
    /\ stage' = "ended"
    /\ closed' = [f \in FlowIds |-> closed[f] \/ \E c \in Clients : flows[c] = f]
    /\ UNCHANGED <<open, client, fl, flows, relay, of, target, age, quiet,
                   mayMove, lastTo, used>>

-----------------------------------------------------------------------------
\* relayResponses: a response arrives and is relayed to the flow's client,
\* which fails once the listener's socket is closed.
Respond(f) ==
    /\ relay[f] = "read" /\ ~closed[f] /\ f \in used
    /\ relay' = [relay EXCEPT ![f] = "reply"]
    /\ quiet' = [quiet EXCEPT ![f] = 0]
    /\ UNCHANGED <<open, loop, flows, of, target, closed, age, mayMove,
                   lastTo, used>>

Relay(f) ==
    /\ relay[f] = "reply"
    /\ relay' = [relay EXCEPT ![f] = IF open THEN "read" ELSE "leave"]
    /\ age' = [age EXCEPT ![f] = IF open THEN 0 ELSE @]
    /\ UNCHANGED <<open, loop, flows, of, target, closed, quiet, mayMove,
                   lastTo, used>>

\* Read fails: the deadline passed or the upstream was closed.
ReadFails(f) ==
    /\ relay[f] = "read"
    /\ age[f] = IdleTicks \/ closed[f]
    /\ relay' = [relay EXCEPT ![f] = "leave"]
    /\ UNCHANGED <<open, loop, flows, of, target, closed, age, quiet,
                   mayMove, lastTo, used>>

\* Read reports that the endpoint refused a datagram: the flow ends too.
ReadRefused(f) ==
    /\ relay[f] = "read" /\ ~closed[f] /\ f \in used
    /\ relay' = [relay EXCEPT ![f] = "leave"]
    /\ mayMove' = [mayMove EXCEPT ![of[f]] = TRUE]
    /\ UNCHANGED <<open, loop, flows, of, target, closed, age, quiet, lastTo,
                   used>>

\* It returns, which closes the upstream; then the flow leaves the map.
CloseUpstream(f) ==
    /\ relay[f] = "leave" /\ ~closed[f]
    /\ closed' = [closed EXCEPT ![f] = TRUE]
    /\ UNCHANGED <<open, loop, flows, relay, of, target, age, quiet, mayMove,
                   lastTo, used>>

\* (mutant) The flow stays in the map.
Forgotten(f) ==
    /\ relay[f] = "leave" /\ closed[f]
    /\ relay' = [relay EXCEPT ![f] = "none"]
    /\ UNCHANGED <<open, loop, flows, of, target, closed, age, quiet,
                   mayMove, lastTo, used>>

DeleteFlow(f) ==
    /\ relay[f] = "leave" /\ closed[f]
    /\ flows' = [flows EXCEPT ![of[f]] = NoFlow]
    /\ relay' = [relay EXCEPT ![f] = "none"]
    /\ UNCHANGED <<open, loop, of, target, closed, age, quiet, mayMove,
                   lastTo, used>>

Later(f, t) == IF relay[f] # "none" /\ t < IdleTicks THEN t + 1 ELSE t

\* Time passes: the loop handles a datagram in less than a tick, but a
\* goroutine may notice its deadline late.
Tick ==
    /\ stage \in {"recv", "ended"}
    /\ age' = [f \in FlowIds |-> Later(f, age[f])]
    /\ quiet' = [f \in FlowIds |-> Later(f, quiet[f])]
    /\ mayMove' = [c \in Clients |->
                     mayMove[c] \/ \E f \in FlowIds : /\ relay[f] # "none" /\ of[f] = c
                                                      /\ quiet'[f] = IdleTicks]
    /\ <<age, quiet>>' # <<age, quiet>>
    /\ UNCHANGED <<open, loop, flows, relay, of, target, closed, lastTo, used>>

Serve ==
    \/ \E b \in Backends : OpenFlow(b)
    \/ OpenFlowFails \/ Forward \/ Drop \/ Refused \/ ExtendDeadline \/ ServeReturns

RelayResponses(f) == Relay(f) \/ ReadFails(f) \/ CloseUpstream(f) \/ DeleteFlow(f)

Next ==
    \/ Serve \/ Stop \/ Tick
    \/ \E c \in Clients : Receive(c)
    \/ \E f \in FlowIds : Respond(f) \/ ReadRefused(f) \/ RelayResponses(f)

Spec == Init /\ [][Next]_vars

\* Goroutines run; datagrams, responses and time are the environment's.
FairSpec ==
    /\ Spec
    /\ WF_vars(Serve)
    /\ \A f \in FlowIds : WF_vars(RelayResponses(f))

-----------------------------------------------------------------------------

\* A goroutine's flow is the map's flow of its client until it is done: the
\* delete at its end never removes another flow, and none is left out.
MapHoldsFlows == \A f \in FlowIds : relay[f] # "none" => flows[of[f]] = f

\* docs/spec/traffic.md: a flow keeps its backend until it was idle for a
\* bounded period. A client is given a flow to another backend only after
\* the one it had was idle that long or, which the document does not say,
\* its backend refused a datagram.
StickyUntilIdle ==
    [][\A c \in Clients :
         /\ open
         /\ flows'[c] \notin {NoFlow, flows[c]}
         /\ target'[flows'[c]] # lastTo[c]
         => mayMove[c]]_vars

\* A client that goes on sending goes on being forwarded, however its
\* datagrams meet the end of its flows, unless endpoints go on refusing or
\* none can be selected.
KeepsForwarding ==
    \A c \in Clients :
        []<><<Receive(c)>>_vars
        => []<><<(Forward \/ OpenFlowFails \/ Refused) /\ client = c>>_vars
==============================================================================
