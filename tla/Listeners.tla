------------------------------ MODULE Listeners ------------------------------
(***************************************************************************)
(* The listener supervisor of a data-plane pod (app/dataplane/listeners):  *)
(* tables arrive by mail; servers whose port went away or changed kind are *)
(* stopped one after the other, each draining its connections for a        *)
(* bounded time, and servers for new ports are bound and started.          *)
(***************************************************************************)
EXTENDS Integers, Sequences, SequencesExt

CONSTANTS
    Ports,       \* internal ports
    Kinds,       \* server kinds: the values of routing.PortSpec
    NoSpec,      \* no server, no table
    Conns,       \* connections
    DrainLimit,  \* how long Stop waits for connections (30 seconds)
    MaxReloads,  \* bound on published tables
    MaxTaken     \* bound on how often a port becomes unavailable

ASSUME ListenersAssumption ==
    /\ NoSpec \notin Kinds
    /\ DrainLimit \in Nat \ {0}
    /\ MaxReloads \in Nat /\ MaxTaken \in Nat

Specs == Kinds \cup {NoSpec}

Tables == [Ports -> Specs]

EmptyTables == [p \in Ports |-> NoSpec]

NoConn == [port |-> "", server |-> 0]

VARIABLES
    tables,    \* the live tables, read by every request
    mail,      \* tables on their way to the supervisor
    children,  \* the servers it runs: spec by port
    socket,    \* who listens on each port: "free", "ours", "other"
    failed,    \* ports that could not be bound when last tried
    stage,     \* what the supervisor's goroutine is doing
    target,    \* the tables it reconciles with
    todo,      \* ports still to stop, or to start
    draining,  \* <<port, server>> pairs that Stop waits for
    timer,     \* how long it has waited
    server,    \* number of the server last started on each port
    conns,     \* connections, with the server that accepted them
    term,      \* was the pod told to terminate?
    reloads, taken

worker == <<stage, target, todo, draining, timer>>

vars == <<tables, mail, children, socket, failed, worker, server, conns, term,
          reloads, taken>>

Init ==
    /\ tables = EmptyTables /\ mail = <<>> /\ children = EmptyTables
    /\ socket = [p \in Ports |-> "free"] /\ failed = {}
    /\ stage = "idle" /\ target = EmptyTables /\ todo = {}
    /\ draining = {} /\ timer = 0
    /\ server = [p \in Ports |-> 0] /\ conns = [c \in Conns |-> NoConn]
    /\ term = FALSE /\ reloads = 0 /\ taken = 0

-----------------------------------------------------------------------------
\* The loader publishes new tables and mails them.
Publish(t) ==
    /\ reloads < MaxReloads
    /\ t # tables
    /\ tables' = t /\ mail' = Append(mail, t)
    /\ reloads' = reloads + 1
    /\ UNCHANGED <<children, socket, failed, worker, server, conns, term,
                   taken>>

\* A port nobody listens on cannot be bound for a while.
OtherProcess(p) ==
    /\ \/ /\ socket[p] = "free" /\ taken < MaxTaken
          /\ socket' = [socket EXCEPT ![p] = "other"]
          /\ taken' = taken + 1
       \/ /\ socket[p] = "other"
          /\ socket' = [socket EXCEPT ![p] = "free"]
          /\ UNCHANGED taken
    /\ UNCHANGED <<tables, mail, children, failed, worker, server, conns, term,
                   reloads>>

\* A client connects, and a connection ends.
Accept(c, p) ==
    /\ conns[c] = NoConn
    /\ socket[p] = "ours"
    /\ conns' = [conns EXCEPT ![c] = [port |-> p, server |-> server[p]]]
    /\ UNCHANGED <<tables, mail, children, socket, failed, worker, server, term,
                   reloads, taken>>

Close(c) ==
    /\ conns[c] # NoConn
    /\ conns' = [conns EXCEPT ![c] = NoConn]
    /\ UNCHANGED <<tables, mail, children, socket, failed, worker, server, term,
                   reloads, taken>>

\* The pod is told to terminate.
Terminate ==
    /\ ~term
    /\ term' = TRUE
    /\ UNCHANGED <<tables, mail, children, socket, failed, worker, server, conns,
                   reloads, taken>>

-----------------------------------------------------------------------------
\* (mutant) Every reload restarts all servers.
RestartAll(t) == {p \in Ports : children[p] # NoSpec}

\* (mutant) A change of kind goes unnoticed.
Disappeared(t) == {p \in Ports : children[p] # NoSpec /\ t[p] = NoSpec}

\* Children whose port disappeared or changed kind.
Outdated(t) == {p \in Ports : children[p] # NoSpec /\ t[p] # children[p]}

\* DoWork receives tables: even when told to end, select may take the mail.
Receive ==
    /\ stage = "idle"
    /\ mail # <<>>
    /\ target' = Head(mail) /\ mail' = Tail(mail)
    /\ todo' = Outdated(Head(mail))
    /\ stage' = "stop"
    /\ UNCHANGED <<tables, children, socket, failed, draining, timer, server,
                   conns, term, reloads, taken>>

Unlisten(ps) ==
    /\ children' = [p \in Ports |-> IF p \in ps THEN NoSpec ELSE children[p]]
    /\ socket' = [p \in Ports |-> IF p \in ps THEN "free" ELSE socket[p]]
    /\ draining' = {<<p, server[p]>> : p \in ps}
    /\ timer' = 0

\* Stop closes the listening socket and waits.
StopChild(p) ==
    /\ stage = "stop"
    /\ draining = {}
    /\ p \in todo
    /\ Unlisten({p})
    /\ todo' = todo \ {p}
    /\ UNCHANGED <<tables, mail, failed, stage, target, server, conns, term,
                   reloads, taken>>

\* (mutant) Stop waits for ever.
DrainedPatiently ==
    /\ draining # {}
    /\ \A c \in Conns : <<conns[c].port, conns[c].server>> \notin draining
    /\ draining' = {} /\ timer' = 0
    /\ stage' = IF stage = "stopAll" THEN "ended" ELSE stage
    /\ UNCHANGED <<tables, mail, children, socket, failed, target, todo, server,
                   conns, term, reloads, taken>>

\* It returns when the server's connections are gone or time is up; those
\* that are left go on by themselves.
Drained ==
    /\ draining # {}
    /\ \/ \A c \in Conns : <<conns[c].port, conns[c].server>> \notin draining
       \/ timer = DrainLimit
    /\ draining' = {} /\ timer' = 0
    /\ stage' = IF stage = "stopAll" THEN "ended" ELSE stage
    /\ UNCHANGED <<tables, mail, children, socket, failed, target, todo, server,
                   conns, term, reloads, taken>>

\* Then every port of the tables without a server gets one.
StopDone ==
    /\ stage = "stop"
    /\ todo = {} /\ draining = {}
    /\ stage' = "start"
    /\ todo' = {p \in Ports : target[p] # NoSpec /\ children[p] = NoSpec}
    /\ UNCHANGED <<tables, mail, children, socket, failed, target, draining,
                   timer, server, conns, term, reloads, taken>>

\* New binds the port before Start; a port that cannot be bound is skipped.
StartChild(p) ==
    /\ stage = "start"
    /\ p \in todo
    /\ \/ /\ socket[p] = "free"
          /\ socket' = [socket EXCEPT ![p] = "ours"]
          /\ children' = [children EXCEPT ![p] = target[p]]
          /\ server' = [server EXCEPT ![p] = @ + 1]
          /\ failed' = failed \ {p}
       \/ /\ socket[p] = "other"
          /\ failed' = failed \cup {p}
          /\ UNCHANGED <<socket, children, server>>
    /\ todo' = todo \ {p}
    /\ UNCHANGED <<tables, mail, stage, target, draining, timer, conns, term,
                   reloads, taken>>

Reconciled ==
    /\ stage = "start"
    /\ todo = {}
    /\ stage' = "idle"
    /\ UNCHANGED <<tables, mail, children, socket, failed, target, todo, draining,
                   timer, server, conns, term, reloads, taken>>

\* stopAll drains every server in parallel.
StopAll ==
    /\ stage = "idle"
    /\ term
    /\ Unlisten({p \in Ports : children[p] # NoSpec})
    /\ stage' = IF draining' = {} THEN "ended" ELSE "stopAll"
    /\ UNCHANGED <<tables, mail, failed, target, todo, server, conns, term,
                   reloads, taken>>

\* Time passes while Stop waits. Everything else is immediate.
Tick ==
    /\ draining # {} /\ timer < DrainLimit
    /\ timer' = timer + 1
    /\ UNCHANGED <<tables, mail, children, socket, failed, stage, target, todo,
                   draining, server, conns, term, reloads, taken>>

Supervise ==
    \/ Receive \/ Drained \/ StopDone \/ Reconciled \/ StopAll
    \/ \E p \in Ports : StopChild(p) \/ StartChild(p)

Next ==
    \/ Supervise \/ Tick \/ Terminate
    \/ \E t \in Tables : Publish(t)
    \/ \E p \in Ports : OtherProcess(p)
    \/ \E c \in Conns : Close(c) \/ \E p \in Ports : Accept(c, p)

Spec == Init /\ [][Next]_vars

\* The goroutine runs and so does the clock: connections need not end.
FairSpec == Spec /\ WF_vars(Supervise) /\ WF_vars(Tick)

-----------------------------------------------------------------------------

\* The package comment of listeners: reloads that keep a port never touch it.
\* A port that has the same spec in the running server, the live tables and
\* all tables still on their way goes on listening until the pod terminates.
KeptPorts ==
    [][\A p \in Ports :
         /\ ~term
         /\ children[p] # NoSpec /\ children[p] = tables[p]
         /\ stage # "idle" => target[p] = children[p]
         /\ \A i \in DOMAIN mail : mail[i][p] = children[p]
         => children'[p] = children[p] /\ server'[p] = server[p]]_vars

\* Once tables stop changing, every port of theirs is served by a server of
\* the right kind and no other port is, except those whose last bind failed;
\* the recorded servers are the ones that listen.
ListensInTheEnd ==
    <>[](term \/ \A p \in Ports :
                    /\ \/ children[p] = tables[p]
                       \/ children[p] = NoSpec /\ p \in failed
                    /\ children[p] # NoSpec <=> socket[p] = "ours")

\* A pod told to terminate ends, even when no client ever hangs up.
Ends == term ~> stage = "ended"
==============================================================================
