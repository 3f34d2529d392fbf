----------------------------- MODULE StreamProofs ----------------------------
(***************************************************************************)
(* What a TCP or TLS connection carries, for any kinds of listeners and    *)
(* any number of bytes.                                                    *)
(***************************************************************************)
EXTENDS Stream, SequenceTheorems, TLAPS

Types ==
    /\ kind \in {"tcp", "passthrough", "terminate"} /\ wrapped \in BOOLEAN
    /\ stage \in {"start", "peek", "pick", "handshake", "dial", "splice", "closed"}
    /\ preamble \in {"unread", "read", "failed"}
    /\ said \in {"none", "good", "bad"}
    /\ recorded \in Nat
    /\ sent \in [Sides -> Nat] /\ taken \in [Sides -> Nat] /\ hand \in [Sides -> Nat]
    /\ fin \in [Sides -> BOOLEAN] /\ gone \in [Sides -> BOOLEAN]
    /\ sock \in [Sides -> {"open", "shut", "closed"}]
    /\ copy \in [Sides -> {"idle", "copy", "shut", "done"}]
    /\ got \in [Sides -> Seq(Nat)]

\* The copies run while Serve is in Splice, and are over when it returns.
CopiesOK ==
    /\ stage \notin {"splice", "closed"} => \A s \in Sides : copy[s] = "idle"
    /\ stage = "splice" => \A s \in Sides : copy[s] # "idle"
    /\ stage = "closed" => \A s \in Sides : copy[s] \in {"idle", "done"}
    /\ \A s \in Sides : hand[s] # 0 => copy[s] = "copy"

\* Before Splice nothing is forwarded, and what was read is what the peek
\* recorded, of which a session that ends here keeps the ClientHello.
PeekOK ==
    stage \notin {"splice", "closed"} =>
        /\ \A s \in Sides : got[s] = <<>>
        /\ taken["backend"] = 0
        /\ stage \in {"start", "peek"} \/ kind = "tcp" => recorded = 0
        /\ stage \in {"pick", "handshake", "dial"} /\ kind # "tcp" => recorded > 0
        /\ taken["client"] = IF stage = "dial" /\ kind = "terminate" THEN 1 ELSE recorded
        /\ stage = "handshake" => kind = "terminate"
        /\ stage = "peek" => kind # "tcp"

\* A copy has written all it has read, but the byte in its hand.
FedOK ==
    \A s \in Sides : copy[s] = "copy" =>
        /\ hand[s] \in {0, taken[s]}
        /\ Len(got[Other(s)]) + Held(s) + (IF hand[s] = 0 THEN 0 ELSE 1) = taken[s]

Numbered ==
    \A s \in Sides :
        \A i \in 1 .. Len(got[Other(s)]) : got[Other(s)][i] = i + Held(s)

\* The client's bytes are read past the preamble only.
PreambleOK ==
    /\ taken["client"] > 0 \/ got["backend"] # <<>> => preamble = "read"
    /\ wrapped /\ preamble = "read" => said = "good"
    /\ ~wrapped => preamble = "read"

OrderInv == Types /\ CopiesOK /\ PeekOK /\ FedOK /\ Numbered /\ PreambleOK

\* Without a preamble and a session that ends here, a socket is closed by
\* Serve's return alone, so a copy ends at the end of its sender's bytes.
RawClosed ==
    ~wrapped /\ kind # "terminate" /\ stage # "closed"
    => \A s \in Sides : sock[s] # "closed"

RawEnded ==
    ~wrapped /\ kind # "terminate" /\ (\A t \in Sides : ~gone[t])
    => \A s \in Sides : copy[s] \in {"shut", "done"}
                        => fin[s] /\ Len(got[Other(s)]) = sent[s]

DrainInv == OrderInv /\ RawClosed /\ RawEnded

-----------------------------------------------------------------------------
\* Serve's returns and failures change no more than the stage and the sockets.
Closes == \/ PeekFails \/ Refuse \/ HandshakeFails \/ DialFails \/ Done

\* A stream is closed once, after both directions are done if it was spliced.
LEMMA ClosesEffect ==
  ASSUME Closes
  PROVE  /\ stage # "closed" /\ stage # "start"
         /\ stage = "splice" => \A s \in Sides : copy[s] = "done"
         /\ stage' = "closed"
         /\ sock' = [s \in Sides |-> "closed"]
         /\ UNCHANGED <<kind, wrapped, deadline, preamble, recorded, peers, taken, got,
                        copy, hand>>
  BY DEF Closes, PeekFails, Refuse, HandshakeFails, DialFails, Done, Close

\* The actions of the peers touch nothing that Serve and the copies hold.
Peers == \/ \E v \in {"good", "bad"} : Say(v)
         \/ \E s \in Sides : Send(s) \/ Finish(s) \/ Abort(s)

\* The peers talk to the proxy only through the sockets.
LEMMA PeersEffect ==
  ASSUME Peers
  PROVE  UNCHANGED <<serve, splice>> /\ (said' = said \/ (said = "none" /\ wrapped))
  BY DEF Peers, Say, Send, Finish, Abort

\* Every step keeps the types.
LEMMA TypesStep == Types /\ [Next]_vars => Types'
  <1> SUFFICES ASSUME Types, [Next]_vars PROVE Types'
    OBVIOUS
  <1> USE DEF Types, Sides, Other
  <1>1. CASE Start
    BY <1>1 DEF Start, peers, splice
  <1>2. CASE ReadPreamble
    BY <1>2 DEF ReadPreamble, peers, splice
  <1>3. CASE PreambleFails
    BY <1>3 DEF PreambleFails, peers
  <1>4. CASE PeekClientHello
    BY <1>4 DEF PeekClientHello, peers
  <1>5. CASE Closes
    BY <1>5, ClosesEffect DEF peers
  <1>6. CASE Pick
    BY <1>6 DEF Pick, peers, splice
  <1>7. CASE Handshake
    BY <1>7 DEF Handshake, peers
  <1>8. CASE Dial
    <2>1. [i \in 1 .. recorded |-> i] \in Seq(Nat)
      OBVIOUS
    <2>2. got' \in [Sides -> Seq(Nat)]
      <3> DEFINE replay == IF kind = "passthrough" THEN [i \in 1 .. recorded |-> i] ELSE <<>>
      <3>1. replay \in Seq(Nat)
        BY <2>1
      <3>2. got' = [got EXCEPT !["backend"] = replay]
        BY <1>8 DEF Dial
      <3> HIDE DEF replay
      <3> QED
        BY <3>1, <3>2
    <2> QED
      BY <1>8, <2>2 DEF Dial, peers
  <1>9. ASSUME NEW s \in Sides, Read(s) PROVE Types'
    BY <1>9 DEF Read, serve, peers
  <1>10. ASSUME NEW s \in Sides, ReadFails(s) PROVE Types'
    BY <1>10 DEF ReadFails, serve, peers
  <1>11. ASSUME NEW s \in Sides, Write(s) PROVE Types'
    <2>1. Append(got[Other(s)], hand[s]) \in Seq(Nat)
      BY AppendProperties
    <2>2. got' = [got EXCEPT ![Other(s)] = Append(got[Other(s)], hand[s])]
      BY <1>11 DEF Write
    <2>3. got' \in [Sides -> Seq(Nat)]
      <3> DEFINE longer == Append(got[Other(s)], hand[s])
      <3> HIDE DEF longer
      <3>1. longer \in Seq(Nat) /\ got' = [got EXCEPT ![Other(s)] = longer]
        BY <2>1, <2>2 DEF longer
      <3> QED
        BY <3>1
    <2> QED
      BY <1>11, <2>3 DEF Write, serve, peers
  <1>12. ASSUME NEW s \in Sides, WriteFails(s) PROVE Types'
    BY <1>12 DEF WriteFails, serve, peers
  <1>13. ASSUME NEW s \in Sides, CloseWrite(s) PROVE Types'
    <2>1. PICK how \in {"shut", "closed"} : sock' = [sock EXCEPT ![Other(s)] = how]
      BY <1>13, Zenon DEF CloseWrite
    <2> QED
      BY <1>13, <2>1 DEF CloseWrite, serve, peers
  <1>14. ASSUME NEW v \in {"good", "bad"}, Say(v) PROVE Types'
    BY <1>14 DEF Say, serve, splice
  <1>15. ASSUME NEW s \in Sides, Send(s) \/ Finish(s) \/ Abort(s) PROVE Types'
    <2>1. CASE Send(s)
      BY <2>1 DEF Send, serve, splice
    <2>2. CASE Finish(s)
      BY <2>2 DEF Finish, serve, splice
    <2>3. CASE Abort(s)
      BY <2>3 DEF Abort, serve, splice
    <2> QED
      BY <1>15, <2>1, <2>2, <2>3
  <1>16. CASE UNCHANGED vars
    BY <1>16 DEF vars, serve, peers, splice
  <1> QED
    BY <1>1, <1>2, <1>3, <1>4, <1>5, <1>6, <1>7, <1>8, <1>9, <1>10, <1>11, <1>12,
       <1>13, <1>14, <1>15, <1>16 DEF Next, Serve, Copy, Closes
-----------------------------------------------------------------------------
\* The phases of a connection, and of its copies.
Phases == CopiesOK /\ PeekOK

\* Every step keeps the phases of a stream in order.
LEMMA PhasesStep == Types /\ Phases /\ [Next]_vars => Phases'
  <1> SUFFICES ASSUME Types, Phases, [Next]_vars PROVE Phases'
    OBVIOUS
  <1> USE DEF Types, Phases, CopiesOK, PeekOK, Sides, Other
  <1>1. CASE Start
    BY <1>1 DEF Start, peers, splice
  <1>2. CASE ReadPreamble
    BY <1>2 DEF ReadPreamble, peers, splice
  <1>3. CASE PreambleFails
    BY <1>3 DEF PreambleFails, peers
  <1>4. CASE PeekClientHello
    <2>1. PICK n \in 1 .. sent["client"] : /\ recorded' = n
                                           /\ taken' = [taken EXCEPT !["client"] = n]
      BY <1>4, Zenon DEF PeekClientHello
    <2>a. n \in Nat /\ n > 0
      OBVIOUS
    <2>2. /\ stage = "peek" /\ stage' = "pick"
          /\ UNCHANGED <<kind, got, copy, hand>>
      BY <1>4 DEF PeekClientHello
    <2>3. kind # "tcp"
      BY <2>2
    <2> QED
      BY <2>1, <2>a, <2>2, <2>3
  <1>5. CASE Closes
    BY <1>5, ClosesEffect DEF peers
  <1>6. CASE Pick
    BY <1>6 DEF Pick, peers, splice
  <1>7. CASE Handshake
    BY <1>7 DEF Handshake, peers
  <1>8. CASE Dial
    BY <1>8 DEF Dial, peers
  <1>9. ASSUME NEW s \in Sides, Read(s) PROVE Phases'
    BY <1>9 DEF Read, serve, peers
  <1>10. ASSUME NEW s \in Sides, ReadFails(s) PROVE Phases'
    BY <1>10 DEF ReadFails, serve, peers
  <1>11. ASSUME NEW s \in Sides, Write(s) PROVE Phases'
    BY <1>11 DEF Write, serve, peers
  <1>12. ASSUME NEW s \in Sides, WriteFails(s) PROVE Phases'
    BY <1>12 DEF WriteFails, serve, peers
  <1>13. ASSUME NEW s \in Sides, CloseWrite(s) PROVE Phases'
    BY <1>13 DEF CloseWrite, serve, peers
  <1>14. CASE Peers
    BY <1>14, PeersEffect DEF serve, splice
  <1>15. CASE UNCHANGED vars
    BY <1>15 DEF vars, serve, peers, splice
  <1> QED
    BY <1>1, <1>2, <1>3, <1>4, <1>5, <1>6, <1>7, <1>8, <1>9, <1>10, <1>11, <1>12,
       <1>13, <1>14, <1>15 DEF Next, Serve, Copy, Closes, Peers

\* What Dial replays is numbered, and is all that was read.
LEMMA ReplayProps ==
  ASSUME NEW n \in Nat
  PROVE  /\ [i \in 1 .. n |-> i] \in Seq(Nat)
         /\ Len([i \in 1 .. n |-> i]) = n
         /\ \A i \in 1 .. n : [j \in 1 .. n |-> j][i] = i
  OBVIOUS

\* The bytes are numbered and accounted for.
Accounts == FedOK /\ Numbered

\* Every step keeps them so.
LEMMA AccountsStep == Types /\ Phases /\ Accounts /\ [Next]_vars => Accounts'
  <1> SUFFICES ASSUME Types, Phases, Accounts, [Next]_vars PROVE Accounts'
    OBVIOUS
  <1> USE DEF Accounts, FedOK, Numbered
  <1>a. \A s \in Sides : Held(s) \in Nat /\ Len(got[Other(s)]) \in Nat /\ Other(s) \in Sides
    BY DEF Held, Types, Sides, Other
  <1>b. ASSUME kind' = kind PROVE \A s \in Sides : Held(s)' = Held(s)
    BY <1>b DEF Held
  <1>1. CASE UNCHANGED <<kind, got>> /\ \A s \in Sides :
                copy'[s] = "copy" =>
                   copy[s] = "copy" /\ hand'[s] = hand[s] /\ taken'[s] = taken[s]
    BY <1>1, <1>b
  <1>2. CASE PeekClientHello \/ Handshake
    <2>1. \A s \in Sides : copy'[s] # "copy"
      BY <1>2 DEF PeekClientHello, Handshake, Phases, CopiesOK
    <2>2. UNCHANGED <<kind, got>>
      BY <1>2 DEF PeekClientHello, Handshake
    <2> QED
      BY <1>b, <2>1, <2>2
  <1>3. CASE Dial
    <2> DEFINE replay == IF kind = "passthrough" THEN [i \in 1 .. recorded |-> i] ELSE <<>>
    <2>1. /\ stage = "dial" /\ kind' = kind /\ taken' = taken /\ hand' = hand
          /\ got' = [got EXCEPT !["backend"] = replay]
      BY <1>3 DEF Dial
    <2>2. /\ replay \in Seq(Nat)
          /\ Len(replay) = IF kind = "passthrough" THEN recorded ELSE 0
          /\ \A i \in 1 .. Len(replay) : replay[i] = i
      BY ReplayProps DEF Types
    <2> HIDE DEF replay
    <2>3. got'["backend"] = replay /\ got'["client"] = <<>>
      BY <2>1 DEF Types, Phases, PeekOK, Sides
    <2>4. /\ taken["backend"] = 0 /\ \A s \in Sides : hand[s] = 0
          /\ taken["client"] = IF kind = "terminate" THEN 1 ELSE recorded
          /\ kind = "tcp" => recorded = 0
      BY <2>1 DEF Phases, PeekOK, CopiesOK, Types, Sides
    <2>5. Numbered'
      BY <2>1, <2>2, <2>3 DEF Sides, Other, Types, Held
    <2>6. FedOK'
      <3>1. /\ hand'["client"] = 0 /\ hand'["backend"] = 0
            /\ taken'["client"] = taken["client"] /\ taken'["backend"] = 0
        BY <2>1, <2>4 DEF Sides
      <3>2. Len(got'["backend"]) + Held("client")' + 0 = taken'["client"]
        <4>1. Held("client")' = IF kind = "terminate" THEN 1 ELSE 0
          BY <2>1 DEF Held
        <4>2. taken["client"] = Len(replay) + (IF kind = "terminate" THEN 1 ELSE 0)
          <5>1. CASE kind = "passthrough"
            BY <2>2, <2>4, <5>1 DEF Types
          <5>2. CASE kind = "terminate"
            BY <2>2, <2>4, <5>2
          <5>3. CASE kind = "tcp"
            BY <2>2, <2>4, <5>3
          <5> QED
            BY <5>1, <5>2, <5>3 DEF Types
        <4>3. Len(got'["backend"]) = Len(replay) /\ Len(replay) \in Nat
          BY <2>2, <2>3
        <4> QED
          BY <3>1, <4>1, <4>2, <4>3
      <3>3. Len(got'["client"]) + Held("backend")' + 0 = taken'["backend"]
        BY <2>3, <3>1 DEF Held
      <3> QED
        BY <3>1, <3>2, <3>3 DEF Sides, Other
    <2> QED
      BY <2>5, <2>6
  <1>4. ASSUME NEW s \in Sides, Read(s) PROVE Accounts'
    <2>1. /\ copy[s] = "copy" /\ hand[s] = 0 /\ UNCHANGED <<kind, got, copy>>
          /\ taken' = [taken EXCEPT ![s] = taken[s] + 1]
          /\ hand' = [hand EXCEPT ![s] = taken[s] + 1]
      BY <1>4 DEF Read, serve
    <2>2. Len(got[Other(s)]) + Held(s) + 1 = taken[s] + 1
      BY <1>a, <2>1 DEF Types
    <2>3. taken[s] + 1 # 0 /\ hand'[s] = taken[s] + 1 /\ taken'[s] = taken[s] + 1
      BY <2>1 DEF Types
    <2>4. \A t \in Sides \ {s} : hand'[t] = hand[t] /\ taken'[t] = taken[t]
      BY <2>1 DEF Types
    <2>5. \A t \in Sides : Held(t)' = Held(t) /\ got'[Other(t)] = got[Other(t)]
      BY <1>b, <2>1
    <2>6. FedOK'
      BY <2>1, <2>2, <2>3, <2>4, <2>5
    <2> QED
      BY <2>1, <2>5, <2>6
  <1>5. ASSUME NEW s \in Sides, Write(s) PROVE Accounts'
    <2> DEFINE longer == Append(got[Other(s)], hand[s])
    <2>1. /\ hand[s] # 0 /\ UNCHANGED <<kind, taken, copy>>
          /\ got' = [got EXCEPT ![Other(s)] = longer]
          /\ hand' = [hand EXCEPT ![s] = 0]
      BY <1>5 DEF Write, serve
    <2>2. copy[s] = "copy" /\ Other(s) \in Sides /\ \A t \in Sides : Other(t) = Other(s) => t = s
      BY <2>1 DEF Phases, CopiesOK, Sides, Other
    <2>3. hand[s] = Len(got[Other(s)]) + Held(s) + 1 /\ hand[s] = taken[s]
      BY <2>1, <2>2
    <2>4. got[Other(s)] \in Seq(Nat) /\ hand[s] \in Nat
      BY <2>2 DEF Types
    <2>5. /\ longer \in Seq(Nat)
          /\ Len(longer) = Len(got[Other(s)]) + 1
          /\ \A i \in 1 .. Len(got[Other(s)]) : longer[i] = got[Other(s)][i]
          /\ longer[Len(got[Other(s)]) + 1] = hand[s]
      BY <2>4, AppendProperties
    <2> HIDE DEF longer
    <2>6. got'[Other(s)] = longer /\ \A t \in Sides \ {s} : got'[Other(t)] = got[Other(t)]
      BY <2>1, <2>2 DEF Types, Sides, Other
    <2>7. \A i \in 1 .. Len(longer) : longer[i] = i + Held(s)
      <3>1. ASSUME NEW i \in 1 .. Len(got[Other(s)]) PROVE longer[i] = i + Held(s)
        BY <2>5
      <3>2. longer[Len(got[Other(s)]) + 1] = (Len(got[Other(s)]) + 1) + Held(s)
        BY <1>a, <2>3, <2>5
      <3> QED
        BY <1>a, <2>5, <3>1, <3>2
    <2>8. Numbered'
      BY <1>b, <2>1, <2>6, <2>7
    <2>9. FedOK'
      <3>1. ASSUME NEW t \in Sides, t # s, copy'[t] = "copy"
            PROVE  /\ hand'[t] \in {0, taken'[t]}
                   /\ Len(got'[Other(t)]) + Held(t)' + (IF hand'[t] = 0 THEN 0 ELSE 1) = taken'[t]
        <4>1. hand'[t] = hand[t] /\ taken'[t] = taken[t] /\ got'[Other(t)] = got[Other(t)]
          BY <2>1, <2>6, <3>1 DEF Types
        <4> QED
          BY <1>b, <2>1, <3>1, <4>1
      <3>2. hand'[s] = 0 /\ taken'[s] = taken[s]
        BY <2>1 DEF Types
      <3>3. Len(longer) + Held(s) + 0 = taken[s]
        BY <1>a, <2>3, <2>5
      <3>4. Len(got'[Other(s)]) + Held(s)' + 0 = taken'[s]
        BY <1>b, <2>1, <2>6, <3>2, <3>3
      <3> QED
        BY <3>1, <3>2, <3>4
    <2> QED
      BY <2>8, <2>9
  <1>6. CASE Start \/ ReadPreamble \/ PreambleFails \/ Pick
    BY <1>1, <1>6 DEF Start, ReadPreamble, PreambleFails, Pick, splice
  <1>7. CASE Closes
    BY <1>1, <1>7, ClosesEffect
  <1>8. ASSUME NEW s \in Sides, ReadFails(s) \/ WriteFails(s) \/ CloseWrite(s)
        PROVE  Accounts'
    BY <1>1, <1>8, Zenon DEF ReadFails, WriteFails, CloseWrite, serve, Types
  <1>9. CASE Peers
    BY <1>1, <1>9, PeersEffect DEF serve, splice
  <1>10. CASE UNCHANGED vars
    BY <1>1, <1>10 DEF vars, serve, splice
  <1> QED
    BY <1>2, <1>3, <1>4, <1>5, <1>6, <1>7, <1>8, <1>9, <1>10
       DEF Next, Serve, Copy, Closes, Peers
\* Every step keeps the client's bytes behind the preamble.
LEMMA PreambleStep == Types /\ Phases /\ FedOK /\ PreambleOK /\ [Next]_vars => PreambleOK'
  <1> SUFFICES ASSUME Types, Phases, FedOK, PreambleOK, [Next]_vars PROVE PreambleOK'
    OBVIOUS
  <1> USE DEF PreambleOK, Sides, Types
  <1>1. CASE Start \/ Pick
    BY <1>1 DEF Start, Pick, peers, splice
  <1>2. CASE ReadPreamble
    BY <1>2 DEF ReadPreamble, peers, splice
  <1>3. CASE PreambleFails
    BY <1>3 DEF PreambleFails, Preambles, peers
  <1>4. CASE PeekClientHello
    BY <1>4 DEF PeekClientHello, peers
  <1>5. CASE Closes
    BY <1>5, ClosesEffect DEF peers
  <1>6. CASE Handshake
    <2>1. taken["client"] > 0
      BY <1>6 DEF Handshake, Phases, PeekOK
    <2> QED
      BY <1>6, <2>1 DEF Handshake, peers
  <1>7. CASE Dial
    <2>1. kind # "tcp" => taken["client"] > 0
      BY <1>7 DEF Dial, Phases, PeekOK
    <2>2. kind # "passthrough" => got'["backend"] = <<>>
      BY <1>7 DEF Dial
    <2> QED
      BY <1>7, <2>1, <2>2 DEF Dial, peers
  <1>8. ASSUME NEW s \in Sides, Read(s) PROVE PreambleOK'
    BY <1>8 DEF Read, Readable, Usable, serve, peers
  <1>9. ASSUME NEW s \in Sides, Write(s) PROVE PreambleOK'
    <2>1. /\ hand[s] # 0 /\ got' = [got EXCEPT ![Other(s)] = Append(got[Other(s)], hand[s])]
          /\ UNCHANGED <<wrapped, preamble, said, taken>>
      BY <1>9 DEF Write, serve, peers
    <2>2. CASE s = "client"
      <3>1. copy["client"] = "copy" /\ hand["client"] = taken["client"]
        BY <2>1, <2>2 DEF Phases, CopiesOK, FedOK
      <3> QED
        BY <2>1, <2>2, <3>1
    <2>3. CASE s = "backend"
      BY <2>1, <2>3 DEF Other
    <2> QED
      BY <2>2, <2>3
  <1>10. ASSUME NEW s \in Sides, ReadFails(s) \/ WriteFails(s) \/ CloseWrite(s)
         PROVE  PreambleOK'
    BY <1>10 DEF ReadFails, WriteFails, CloseWrite, serve, peers
  <1>11. CASE Peers
    BY <1>11, PeersEffect DEF serve, splice
  <1>12. CASE UNCHANGED vars
    BY <1>12 DEF vars, serve, peers, splice
  <1> QED
    BY <1>1, <1>2, <1>3, <1>4, <1>5, <1>6, <1>7, <1>8, <1>9, <1>10, <1>11, <1>12
       DEF Next, Serve, Copy, Closes, Peers

\* Initially nothing was sent.
LEMMA OrderInit == Init => OrderInv
  <1> SUFFICES ASSUME Init PROVE OrderInv
    OBVIOUS
  <1> USE StreamAssumption DEF Init, Sides, Other
  <1>1. Types
    BY DEF Types
  <1>2. CopiesOK /\ PeekOK /\ PreambleOK
    BY DEF CopiesOK, PeekOK, PreambleOK
  <1>3. FedOK /\ Numbered
    BY DEF FedOK, Numbered
  <1> QED
    BY <1>1, <1>2, <1>3 DEF OrderInv

\* Every step keeps the bytes in order.
LEMMA OrderStep == OrderInv /\ [Next]_vars => OrderInv'
  BY TypesStep, PhasesStep, AccountsStep, PreambleStep DEF OrderInv, Phases, Accounts

\* On every listener each peer is given the other's bytes from the first one
\* on, in order, none twice and none missing, and nothing of a client that
\* owes a preamble: what peekClientHello recorded and what Splice copies join up.
THEOREM BytesInOrder == Spec => []InOrder
  <1>1. OrderInv => InOrder
    BY DEF OrderInv, Numbered, PreambleOK, InOrder
  <1> QED
    BY <1>1, OrderInit, OrderStep, PTL DEF Spec

-----------------------------------------------------------------------------
\* How raw connections end.
Ended == RawClosed /\ RawEnded

\* Every step keeps the raw connections' ends clean.
LEMMA EndedStep == DrainInv /\ [Next]_vars => Ended'
  <1> SUFFICES ASSUME DrainInv, [Next]_vars, ~wrapped', kind' # "terminate" PROVE Ended'
    BY DEF Ended, RawClosed, RawEnded
  <1> USE DEF Ended, RawClosed, RawEnded, DrainInv, OrderInv, Types, Sides, Other
  <1>1. CASE Start \/ Pick \/ ReadPreamble
    BY <1>1 DEF Start, Pick, ReadPreamble, peers, splice
  <1>2. CASE PreambleFails
    BY <1>2 DEF PreambleFails, Preambles, PreambleOK
  <1>3. CASE PeekClientHello \/ Handshake
    BY <1>3 DEF PeekClientHello, Handshake, peers
  <1>4. CASE Closes
    BY <1>4, ClosesEffect DEF peers
  <1>5. CASE Dial
    BY <1>5 DEF Dial, peers
  <1>6. ASSUME NEW s \in Sides, Read(s) PROVE Ended'
    BY <1>6 DEF Read, serve, peers
  <1>7. ASSUME NEW s \in Sides, ReadFails(s) PROVE Ended'
    <2>1. /\ copy[s] = "copy" /\ hand[s] = 0
          /\ \/ fin[s] /\ taken[s] = sent[s]
             \/ gone[s] \/ sock[s] = "closed"
          /\ copy' = [copy EXCEPT ![s] = "shut"]
          /\ UNCHANGED <<kind, wrapped, stage, sent, fin, gone, sock, got>>
      BY <1>7 DEF ReadFails, serve, peers
    <2>2. sock[s] # "closed"
      BY <2>1 DEF CopiesOK
    <2>3. Len(got[Other(s)]) = taken[s]
      BY <2>1 DEF FedOK, Held
    <2> QED
      BY <2>1, <2>2, <2>3
  <1>8. ASSUME NEW s \in Sides, Write(s) PROVE Ended'
    <2>1. /\ hand[s] # 0
          /\ got' = [got EXCEPT ![Other(s)] = Append(got[Other(s)], hand[s])]
          /\ UNCHANGED <<kind, wrapped, stage, sent, fin, gone, sock, copy>>
      BY <1>8 DEF Write, serve, peers
    <2>2. copy[s] = "copy"
      BY <2>1 DEF CopiesOK
    <2>3. \A t \in Sides : copy[t] \in {"shut", "done"} => got'[Other(t)] = got[Other(t)]
      BY <2>1, <2>2
    <2> QED
      BY <2>1, <2>3
  <1>9. ASSUME NEW s \in Sides, WriteFails(s) PROVE Ended'
    <2>1. /\ hand[s] # 0
          /\ sock[Other(s)] = "closed" \/ gone[Other(s)]
          /\ copy' = [copy EXCEPT ![s] = "shut"]
          /\ UNCHANGED <<kind, wrapped, stage, sent, fin, gone, sock, got>>
      BY <1>9 DEF WriteFails, serve, peers
    <2>2. sock[Other(s)] # "closed"
      BY <2>1 DEF CopiesOK
    <2> QED
      BY <2>1, <2>2
  <1>10. ASSUME NEW s \in Sides, CloseWrite(s) PROVE Ended'
    <2>1. /\ copy[s] = "shut" /\ copy' = [copy EXCEPT ![s] = "done"]
          /\ UNCHANGED <<kind, wrapped, stage, sent, fin, gone, got>>
      BY <1>10 DEF CloseWrite, serve, peers
    <2>2. /\ sock[Other(s)] # "closed"
          /\ sock' = [sock EXCEPT ![Other(s)] = "shut"]
      BY <1>10, <2>1, Zenon DEF CloseWrite, TCPConn, CopiesOK
    <2> QED
      BY <2>1, <2>2
  <1>11. CASE Peers
    <2>1. UNCHANGED <<serve, splice>>
      BY <1>11, PeersEffect
    <2>2. \A s \in Sides : /\ ~gone'[s] => ~gone[s]
                           /\ fin[s] => fin'[s] /\ sent'[s] = sent[s]
      BY <1>11 DEF Peers, Say, Send, Finish, Abort, Connected
    <2> QED
      BY <2>1, <2>2 DEF serve, splice
  <1>12. CASE UNCHANGED vars
    BY <1>12 DEF vars, serve, peers, splice
  <1> QED
    BY <1>1, <1>2, <1>3, <1>4, <1>5, <1>6, <1>7, <1>8, <1>9, <1>10, <1>11, <1>12
       DEF Next, Serve, Copy, Closes, Peers

\* Where both ends are *net.TCPConn, Splice's half-closes drain: a direction
\* ends only when its sender finished and all it wrote was passed on.
THEOREM RawDrains == Spec => []RawDrainsCleanly
  <1>1. Init => DrainInv
    BY OrderInit DEF DrainInv, RawClosed, RawEnded, Init, Sides
  <1>2. DrainInv /\ [Next]_vars => DrainInv'
    BY OrderStep, EndedStep DEF DrainInv, Ended
  <1>3. DrainInv => RawDrainsCleanly
    BY DEF DrainInv, OrderInv, Types, RawEnded, RawDrainsCleanly, DrainsCleanly, Held, Sides
  <1> QED
    BY <1>1, <1>2, <1>3, PTL DEF Spec
==============================================================================
