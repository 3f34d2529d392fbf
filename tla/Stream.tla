-------------------------------- MODULE Stream -------------------------------
(***************************************************************************)
(* One connection of a TCP or TLS listener, from accept to close: the      *)
(* PROXY preamble (lib/transports/proxyproto), the ClientHello that TLS    *)
(* listeners peek at (lib/transports/tls), the dial, and the two copy      *)
(* goroutines of Splice (lib/transports/tcp). Bytes are numbered in the    *)
(* order their sender wrote them; a ClientHello is the client's byte 1.    *)
(***************************************************************************)
EXTENDS Integers, Sequences

CONSTANTS
    Kinds,    \* of listeners: "tcp", "passthrough" and "terminate"
    Wraps,    \* may the listener require a preamble (TRUE), or none (FALSE)?
    MaxBytes, \* bytes a peer writes
    Aborts    \* may peers reset the connection?

ASSUME StreamAssumption ==
    /\ Kinds \subseteq {"tcp", "passthrough", "terminate"}
    /\ Wraps \subseteq BOOLEAN
    /\ MaxBytes \in Nat /\ Aborts \in BOOLEAN

VARIABLES
    kind,     \* of the listener that accepted the connection
    wrapped,  \* is the connection a proxyproto.Conn?
    stage,    \* of Serve: "start", "peek", "pick", "handshake", "dial",
              \* "splice", "closed"
    deadline, \* is a read deadline set on the downstream?
    preamble, \* "unread", "read" or "failed"
    said,     \* the preamble the client sent: "none", "good" or "bad"
    recorded, \* bytes consumed by peekClientHello
    sent,     \* bytes the peer on each side wrote
    fin,      \* did it finish writing?
    gone,     \* did it reset the connection?
    sock,     \* the socket to it: "open", "shut" (for writing), "closed"
    taken,    \* bytes read from it
    got,      \* bytes written to it
    copy,     \* the goroutine reading it: "idle", "copy", "shut", "done"
    hand      \* the byte this goroutine is about to write, or 0

Sides == {"client", "backend"}

Other(s) == IF s = "client" THEN "backend" ELSE "client"

serve == <<kind, wrapped, stage, deadline, preamble, recorded>>
peers == <<said, sent, fin, gone>>
splice == <<sock, taken, got, copy, hand>>
vars == <<serve, peers, splice>>

Init ==
    /\ kind \in Kinds /\ wrapped \in Wraps
    /\ stage = "start" /\ deadline = FALSE /\ recorded = 0
    /\ preamble = IF wrapped THEN "unread" ELSE "read"
    /\ said = "none"
    /\ sent = [s \in Sides |-> 0] /\ taken = [s \in Sides |-> 0]
    /\ fin = [s \in Sides |-> FALSE] /\ gone = [s \in Sides |-> FALSE]
    /\ sock = [s \in Sides |-> "open"] /\ copy = [s \in Sides |-> "idle"]
    /\ got = [s \in Sides |-> <<>>] /\ hand = [s \in Sides |-> 0]

-----------------------------------------------------------------------------
\* The peers: they write, finish writing, reset, or stay silent.
Say(v) ==
    /\ wrapped /\ said = "none" /\ sent["client"] = 0
    /\ said' = v
    /\ UNCHANGED <<serve, sent, fin, gone, splice>>

Connected(s) ==
    /\ ~gone[s] /\ ~fin[s] /\ sock[s] # "closed"
    /\ s = "backend" => stage = "splice"

Send(s) ==
    /\ Connected(s) /\ sent[s] < MaxBytes
    /\ sent' = [sent EXCEPT ![s] = @ + 1]
    /\ UNCHANGED <<serve, said, fin, gone, splice>>

Finish(s) ==
    /\ Connected(s)
    /\ fin' = [fin EXCEPT ![s] = TRUE]
    /\ UNCHANGED <<serve, said, sent, gone, splice>>

Abort(s) ==
    /\ Aborts /\ Connected(s)
    /\ gone' = [gone EXCEPT ![s] = TRUE]
    /\ UNCHANGED <<serve, said, sent, fin, splice>>

-----------------------------------------------------------------------------

\* Serve starts; on a TLS listener it bounds the wait for the ClientHello.
Start ==
    /\ stage = "start"
    /\ deadline' = (kind # "tcp")
    /\ stage' = IF kind = "tcp" THEN "pick" ELSE "peek"
    /\ UNCHANGED <<kind, wrapped, preamble, recorded, peers, splice>>

\* The first Read or Write of a wrapped connection reads the preamble. Its
\* own deadline replaces the connection's, and none is left behind.
Preambles == preamble = "unread" /\ stage \in {"peek", "splice"}

ReadPreamble ==
    /\ Preambles /\ said = "good"
    /\ preamble' = "read" /\ deadline' = FALSE
    /\ UNCHANGED <<kind, wrapped, stage, recorded, peers, splice>>

\* It is malformed, missing, from an untrusted peer or late: reject.
PreambleFails ==
    /\ Preambles
    /\ preamble' = "failed" /\ deadline' = FALSE
    /\ sock' = [sock EXCEPT !["client"] = "closed"]
    /\ UNCHANGED <<kind, wrapped, stage, recorded, peers, taken, got, copy, hand>>

\* peekClientHello records every byte its parser took from the connection.
PeekClientHello ==
    /\ stage = "peek" /\ preamble = "read"
    /\ ~gone["client"]
    /\ \E n \in 1 .. sent["client"] :
           /\ recorded' = n
           /\ taken' = [taken EXCEPT !["client"] = n]
    /\ deadline' = FALSE /\ stage' = "pick"
    /\ UNCHANGED <<kind, wrapped, preamble, peers, sock, got, copy, hand>>

\* A read of Serve's own fails: the connection ended, or its deadline passed.
ReadEnds ==
    \/ deadline \/ fin["client"] \/ gone["client"] \/ preamble = "failed"

\* Serve returns: the deferred calls close both connections.
Close ==
    /\ stage' = "closed"
    /\ sock' = [s \in Sides |-> "closed"]
    /\ UNCHANGED <<kind, wrapped, deadline, preamble, recorded, peers, taken, got,
                   copy, hand>>

\* So does a peek at something that is no ClientHello.
PeekFails ==
    /\ stage = "peek" /\ preamble # "unread"
    /\ ReadEnds \/ sent["client"] > 0
    /\ Close

\* PickTCP or PickTLS selects an endpoint, or the connection is refused.
Pick ==
    /\ stage = "pick"
    /\ stage' = IF kind = "terminate" THEN "handshake" ELSE "dial"
    /\ deadline' = (kind = "terminate")
    /\ UNCHANGED <<kind, wrapped, preamble, recorded, peers, splice>>

Refuse == stage = "pick" /\ Close

\* serveTerminated: the local handshake, fed with the recorded bytes first.
Handshake ==
    /\ stage = "handshake" /\ ~gone["client"]
    /\ deadline' = FALSE /\ stage' = "dial"
    /\ taken' = [taken EXCEPT !["client"] = 1]
    /\ UNCHANGED <<kind, wrapped, preamble, recorded, peers, sock, got, copy, hand>>

HandshakeFails == stage = "handshake" /\ ReadEnds /\ Close

\* (mutant) The bytes the peek consumed are not replayed.
DialUnreplayed ==
    /\ stage = "dial"
    /\ stage' = "splice"
    /\ copy' = [s \in Sides |-> "copy"]
    /\ UNCHANGED <<kind, wrapped, deadline, preamble, recorded, peers, sock, taken,
                   got, hand>>

\* The backend is dialled; passthrough replays what the peek consumed.
Dial ==
    /\ stage = "dial"
    /\ stage' = "splice"
    /\ got' = [got EXCEPT !["backend"] =
                 IF kind = "passthrough" THEN [i \in 1 .. recorded |-> i] ELSE <<>>]
    /\ copy' = [s \in Sides |-> "copy"]
    /\ UNCHANGED <<kind, wrapped, deadline, preamble, recorded, peers, sock, taken,
                   hand>>

DialFails == stage = "dial" /\ Close

-----------------------------------------------------------------------------
\* Splice: io.Copy of the goroutine reading side s, one byte at a time.
Usable(s) == sock[s] # "closed" /\ ~gone[s] /\ (s = "client" => preamble = "read")

Readable(s) == Usable(s)

Read(s) ==
    /\ copy[s] = "copy" /\ hand[s] = 0
    /\ Readable(s) /\ taken[s] < sent[s]
    /\ taken' = [taken EXCEPT ![s] = @ + 1]
    /\ hand' = [hand EXCEPT ![s] = taken[s] + 1]
    /\ UNCHANGED <<serve, peers, sock, got, copy>>

\* End of file, or an error.
ReadFails(s) ==
    /\ copy[s] = "copy" /\ hand[s] = 0
    /\ \/ fin[s] /\ taken[s] = sent[s] /\ (s = "client" => preamble = "read")
       \/ gone[s] \/ sock[s] = "closed"
    /\ copy' = [copy EXCEPT ![s] = "shut"]
    /\ UNCHANGED <<serve, peers, sock, taken, got, hand>>

Write(s) ==
    /\ hand[s] # 0
    /\ Usable(Other(s))
    /\ got' = [got EXCEPT ![Other(s)] = Append(@, hand[s])]
    /\ hand' = [hand EXCEPT ![s] = 0]
    /\ UNCHANGED <<serve, peers, sock, taken, copy>>

\* The byte is lost and the copy ends.
WriteFails(s) ==
    /\ hand[s] # 0
    /\ sock[Other(s)] = "closed" \/ gone[Other(s)]
    /\ hand' = [hand EXCEPT ![s] = 0]
    /\ copy' = [copy EXCEPT ![s] = "shut"]
    /\ UNCHANGED <<serve, peers, sock, taken, got>>

\* Is the connection to side s a *net.TCPConn?
TCPConn(s) == s = "backend" \/ (kind # "terminate" /\ ~wrapped)

\* (mutant) Every connection is closed altogether.
CloseFully(s) ==
    /\ copy[s] = "shut"
    /\ copy' = [copy EXCEPT ![s] = "done"]
    /\ sock' = [sock EXCEPT ![Other(s)] = "closed"]
    /\ UNCHANGED <<serve, peers, taken, got, hand>>

\* (mutant) The end of one direction is not passed on.
CloseNothing(s) ==
    /\ copy[s] = "shut"
    /\ copy' = [copy EXCEPT ![s] = "done"]
    /\ UNCHANGED <<serve, peers, sock, taken, got, hand>>

\* closeWrite half-closes a *net.TCPConn and closes anything else.
CloseWrite(s) ==
    /\ copy[s] = "shut"
    /\ copy' = [copy EXCEPT ![s] = "done"]
    /\ sock' = [sock EXCEPT ![Other(s)] =
                  IF TCPConn(Other(s)) /\ @ # "closed" THEN "shut" ELSE "closed"]
    /\ UNCHANGED <<serve, peers, taken, got, hand>>

\* Both copies are done: Serve returns.
Done ==
    /\ stage = "splice" /\ \A s \in Sides : copy[s] = "done"
    /\ Close

-----------------------------------------------------------------------------
Serve ==
    \/ Start \/ ReadPreamble \/ PreambleFails \/ PeekClientHello \/ PeekFails
    \/ Pick \/ Refuse \/ Handshake \/ HandshakeFails \/ Dial \/ DialFails \/ Done

Copy(s) == Read(s) \/ ReadFails(s) \/ Write(s) \/ WriteFails(s) \/ CloseWrite(s)

Next ==
    \/ Serve
    \/ \E v \in {"good", "bad"} : Say(v)
    \/ \E s \in Sides : Copy(s) \/ Send(s) \/ Finish(s) \/ Abort(s)

Spec == Init /\ [][Next]_vars

\* The goroutines run and deadlines pass; the peers may be silent for ever.
FairSpec == Spec /\ WF_vars(Serve) /\ \A s \in Sides : WF_vars(Copy(s))

-----------------------------------------------------------------------------

\* The bytes of side s that are not forwarded: the ClientHello of a session
\* that ends here.
Held(s) == IF s = "client" /\ kind = "terminate" THEN 1 ELSE 0

\* Each peer receives what the other wrote, from the first byte on, in
\* order, none twice and none missing: the replay of the peeked bytes and
\* the copy after it join up.  Where a preamble is due, a connection without
\* one has nothing forwarded, whichever copy reads it first (Conn.preamble).
InOrder ==
    /\ \A s \in Sides :
          \A i \in 1 .. Len(got[Other(s)]) : got[Other(s)][i] = i + Held(s)
    /\ wrapped /\ got["backend"] # <<>> => said = "good"

\* Splice: "using half-closes so a one-way shutdown drains cleanly". A
\* direction ends only when its sender finished and all it wrote went out.
DrainsCleanly ==
    \A s \in Sides :
        copy[s] = "done" /\ preamble = "read" /\ (\A t \in Sides : ~gone[t])
        => fin[s] /\ Len(got[Other(s)]) = sent[s] - Held(s)

\* So it is where closeWrite finds a *net.TCPConn at both ends: without a
\* preamble, and where the client's session does not end here.
RawDrainsCleanly == ~wrapped /\ kind # "terminate" => DrainsCleanly

\* A connection that both peers have left is closed, and one that a peer
\* has left is passed on as ended to the other.
Ends ==
    /\ (\A s \in Sides : fin[s] \/ gone[s]) ~> stage = "closed"
    /\ \A s \in Sides : fin[s] ~> sock[Other(s)] # "open"
==============================================================================
