------------------------------ MODULE Requests ------------------------------
(***************************************************************************)
(* Requests through a data plane (proxy/handler.go, proxy/extensions.go,   *)
(* proxy/cors.go) while the loader swaps the tables and the resolver       *)
(* publishes endpoints.  A connection takes its certificate from the       *)
(* tables of its handshake, a request its rule from those of its start,    *)
(* and a backend its endpoint from the index of the moment it is picked.   *)
(* TCP, UDP and TLS ports pick theirs for a whole connection or flow.      *)
(***************************************************************************)
EXTENDS Matching, TLC

CONSTANTS
    Slots,       \* requests under way at once
    Inputs,      \* what the client of a slot may send
    Configs,     \* the configurations the loader may be given
    World,       \* the EndpointSlices at the start
    Worlds,      \* those there may be
    MaxHops,     \* entries of X-Forwarded-For that are looked at
    BodyLimit,   \* chunks of a body that are kept for mirrors
    MaxPicks,    \* connections and flows of TCP, UDP and TLS ports
    MaxEvents    \* swaps, failed polls and changes of the EndpointSlices

VARIABLES
    built,       \* the tables so far: the numbers of their configurations,
                 \* their namespaces and transports; the last one serves
    inbox,       \* namespaces sent to the resolver
    wanted,      \* the namespaces it polls
    world,       \* the EndpointSlices of the cluster
    index,       \* those it published last
    counter,     \* requests per rule of a table, those that have any
    turn,        \* picks of an endpoint per backend or mirror
    req,         \* the requests
    copies,      \* (auxiliary) the mirrored requests
    picks, events

vars == <<built, inbox, wanted, world, index, counter, turn, req, copies, picks, events>>

tableVars == <<built, inbox>>
resolverVars == <<wanted, world, index>>
pickVars == <<counter, turn>>

NoConfig == [listeners |-> <<>>, routes |-> <<>>, trusted |-> {}, clientCert |-> "", secret |-> {}]

\* The tables of all configurations, and of none before the first swap.
AllTables == [i \in 0 .. Len(Configs) |-> BuildGatewayTable(IF i = 0 THEN NoConfig ELSE Configs[i])]

Buildable == {i \in DOMAIN Configs : Builds(Configs[i])}

TableAt(g) == AllTables[built[g].cfg]

Tables == TableAt(Len(built))

RulesOf(cfg) == UNION {ToSet(r.rules) : r \in ToSet(cfg.routes)}

\* The rules of a table by their ids.
AllRules ==
    [i \in 0 .. Len(Configs) |->
        [id \in {rule.id : rule \in RulesOf(AllTables[i].cfg)} |->
            BuildRule(AllTables[i].cfg, CHOOSE rule \in RulesOf(AllTables[i].cfg) : rule.id = id)]]

RuleAt(g, id) == AllRules[built[g].cfg][id]

MaxBackends == 3

Idle == [phase |-> "idle"]

Init ==
    /\ built = <<[cfg |-> 0, namespaces |-> {}, transports |-> [k \in {} |-> Nothing]]>> /\ inbox = <<>>
    /\ wanted = {} /\ world = World /\ index = {}
    /\ counter = [k \in {} |-> 0] /\ turn = [k \in {} |-> 0]
    /\ req = [s \in Slots |-> Idle]
    /\ copies = {}
    /\ picks = 0 /\ events = 0

-----------------------------------------------------------------------------
\* The loader and the resolver.

Event ==
    /\ events < MaxEvents
    /\ events' = events + 1

\* A later generation that builds replaces the tables; its namespaces go to
\* the resolver.  One that does not build leaves everything as it is.
Swap(i) ==
    /\ Event
    /\ i \in Buildable /\ i > built[Len(built)].cfg
    /\ built' = Append(built,
          [cfg |-> i, namespaces |-> AllTables[i].namespaces,
           transports |-> Transports(Len(built), Configs[i],
                              PreviousTransports(Tables, built[Len(built)].transports))])
    /\ inbox' = Append(inbox, AllTables[i].namespaces)
    /\ UNCHANGED <<resolverVars, pickVars, req, copies, picks>>

Poll(slices, namespaces) == {s \in slices : s.ns \in namespaces}

\* poll: the index is made anew, without the namespaces whose list calls
\* fail.
Publish(namespaces) ==
    \/ index' = Poll(world, namespaces) /\ UNCHANGED events
    \/ Event /\ \E ns \in namespaces : index' = Poll(world, namespaces \ {ns})

\* (mutant) The namespaces are polled once and forgotten.
ReceiveAndForget ==
    /\ inbox # <<>>
    /\ inbox' = Tail(inbox)
    /\ Publish(Head(inbox))
    /\ UNCHANGED <<built, wanted, world, pickVars, req, copies, picks>>

\* DoWork: new namespaces, or the poll interval.
Receive ==
    /\ inbox # <<>>
    /\ wanted' = Head(inbox) /\ inbox' = Tail(inbox)
    /\ Publish(wanted')
    /\ UNCHANGED <<built, world, pickVars, req, copies, picks>>

Interval ==
    /\ Publish(wanted)
    /\ UNCHANGED <<tableVars, wanted, world, pickVars, req, copies, picks>>

ChangeWorld(slices) ==
    /\ Event
    /\ world' = slices /\ world' # world
    /\ UNCHANGED <<tableVars, wanted, index, pickVars, req, copies, picks>>

-----------------------------------------------------------------------------
\* PickBackend counts a request for the rule; Pick counts one for the
\* backend, if it has endpoints.

Count(tally, k) == IF k \in DOMAIN tally THEN tally[k] ELSE 0

\* tally with one more for each of ks.
Counted(tally, ks) ==
    [k \in DOMAIN tally \cup ks |-> Count(tally, k) + IF k \in ks THEN 1 ELSE 0]

Picked(g, rule) == PickBucket(Count(counter, <<g, rule.id>>), rule.backends)

CountPick(g, rule, found) ==
    LET k == <<g, rule.id, Picked(g, rule)>>
    IN  /\ counter' = Counted(counter, {<<g, rule.id>>})
        /\ turn' = Counted(turn, IF found THEN {k} ELSE {})

Usable(backend) == backend.valid /\ Endpoints(index, backend) # <<>>

EndpointAt(backend, n) ==
    LET endpoints == Endpoints(index, backend)
    IN  endpoints[(n % Len(endpoints)) + 1]

\* PickTCP, PickUDP and PickTLS, for one connection or flow of a port.
PickL4(rule) ==
    /\ LET i == Picked(Len(built), rule)
       IN  CountPick(Len(built), rule, i # 0 /\ Usable(rule.backends[i]))
    /\ picks' = picks + 1
    /\ UNCHANGED <<tableVars, resolverVars, req, copies, events>>

PortIs(port, protocols) ==
    port \in DOMAIN Tables.ports /\ Tables.ports[port].protocol \in protocols

PickStream(port) ==
    /\ picks < MaxPicks /\ PortIs(port, {"TCP", "UDP"})
    /\ L4Route(Tables, port) # Nothing
    /\ PickL4(L4Route(Tables, port).rules[1])

PickTLS(port, sni) ==
    /\ picks < MaxPicks /\ PortIs(port, {"TLS"})
    /\ TLSRule(Tables, port, sni) # Nothing
    /\ PickL4(TLSRule(Tables, port, sni).rule)

-----------------------------------------------------------------------------
\* One request.

Move(s, fields) ==
    req' = [req EXCEPT ![s] = [f \in DOMAIN fields \cup DOMAIN req[s] |->
                                  IF f \in DOMAIN fields THEN fields[f] ELSE req[s][f]]]

Finished(s, result) == Move(s, [phase |-> "done", result |-> result])

OnlyRequest == UNCHANGED <<tableVars, resolverVars, pickVars, copies, picks, events>>

\* TLSConfigFor, or a connection without TLS.
Connect(s, in) ==
    /\ req[s].phase = "idle"
    /\ PortIs(in.port, {"HTTP", "HTTPS"})
    /\ LET holder == CertificateFor(Tables, in.port, in.sni)
           secure == PortIs(in.port, {"HTTPS"})
       IN  Move(s, [phase |-> "open", in |-> in, secure |-> secure, handshake |-> Len(built),
                    holder |-> IF secure THEN holder.name ELSE ""])
    /\ OnlyRequest

\* What Serve answers itself, "" for a request that goes on to its rule.
Reply(s, match) ==
    LET in == req[s].in
    IN  IF req[s].secure /\ Misdirected(Tables, in.port, in.sni, in.host) THEN "misdirected"
        ELSE IF AuthEndpoint(Tables, in) # {} THEN "auth endpoint"
        ELSE IF match = Nothing THEN "not found"
        ELSE ""

\* Serve up to the extensions: the tables are loaded once.
Serve(s) ==
    /\ req[s].phase = "open"
    /\ \E match \in {Match(Tables, req[s].in)} : \E reply \in {Reply(s, match)} :
          LET in == req[s].in
              trusted == IF in.port \in DOMAIN Tables.ports THEN Tables.cfg.trusted ELSE {}
          IN  Move(s, [table |-> Len(built), trusted |-> trusted, result |-> reply,
                       client |-> Resolve(trusted, in.peer, in.chain, MaxHops),
                       match |-> IF reply # "" THEN Nothing
                                 ELSE [listener |-> match.listener, route |-> match.route,
                                       rule |-> match.rule.id],
                       phase |-> IF reply = "" THEN "extend" ELSE "done"])
    /\ OnlyRequest

RuleOf(s) == RuleAt(req[s].table, req[s].match.rule)

IsPreflight(in) == in.method = "OPTIONS" /\ "Origin" \in in.headers

\* serveExtensions: what rejects the request, "" if nothing does.
Rejection(rule, in, limited) ==
    IF rule.invalid THEN "invalid extension"
    ELSE IF rule.limit /\ limited THEN "rate limited"
    ELSE IF rule.auth # Nothing /\ ~(rule.cors /\ IsPreflight(in)) /\ ~in.credentials
         THEN "denied"
    ELSE IF rule.waf /\ ~in.clean THEN "forbidden"
    ELSE ""

\* The extensions, then an answer of the gateway itself or the forwarding.
Extend(s, limited) ==
    /\ req[s].phase = "extend"
    /\ LET rule == RuleOf(s)
           rejection == Rejection(rule, req[s].in, limited)
       IN  IF rejection # "" THEN Finished(s, rejection)
           ELSE IF rule.cors /\ IsPreflight(req[s].in) THEN Finished(s, "preflight")
           ELSE IF rule.redirect THEN Finished(s, "redirect")
           ELSE Move(s, [phase |-> "forward"])
    /\ OnlyRequest

\* sampleMirrors
Samples(rule) ==
    {m \in SUBSET DOMAIN rule.mirrors :
        \A i \in DOMAIN rule.mirrors : /\ rule.mirrors[i].percent >= 100 => i \in m
                                       /\ i \in m => rule.mirrors[i].percent > 0}

\* (mutant) The timeout for the backend alone counts for nothing.
RequestTimeout(rule) == rule.timeouts.request

\* Timeout: the smaller one of those that are set.
Timeout(rule) ==
    LET set == {rule.timeouts.request, rule.timeouts.backend} \ {0}
    IN  IF set = {} THEN 0 ELSE CHOOSE t \in set : \A u \in set : t <= u

\* forward up to the request to the backend.
Forward(s, sampled) ==
    /\ req[s].phase = "forward"
    /\ LET rule == RuleOf(s)
           g == req[s].table
           i == Picked(g, rule)
           backend == rule.backends[i]
           found == i # 0 /\ Usable(backend) /\ ~backend.tlsInvalid
       IN  /\ sampled \in Samples(rule)
           /\ CountPick(g, rule, found)
           /\ CASE i = 0 -> Finished(s, "no backend")
                [] i # 0 /\ ~backend.valid -> Finished(s, "invalid backend")
                [] i # 0 /\ backend.valid /\ backend.tlsInvalid -> Finished(s, "TLS invalid")
                [] i # 0 /\ backend.valid /\ ~backend.tlsInvalid /\ ~found ->
                       Finished(s, "no endpoints")
                [] OTHER -> Move(s, [phase |-> "sent", backend |-> i, sampled |-> sampled,
                                     endpoint |-> EndpointAt(backend, Count(turn, <<g, rule.id, i>>)),
                                     forwarded |-> ForwardedFor(req[s].trusted, req[s].in.peer,
                                                                req[s].in.chain),
                                     timeouts |-> rule.timeouts, deadline |-> Timeout(rule),
                                     read |-> 0, kept |-> 0, overflowed |-> FALSE])
    /\ UNCHANGED <<tableVars, resolverVars, copies, picks, events>>

-----------------------------------------------------------------------------
\* The backend, and what is left to do when it is done.

Streaming(s) == req[s].phase \in {"sent", "copy"}

\* (mutant) What does not fit is left out without a mark.
CaptureSome(r) == [read |-> r.read + 1, kept |-> IF r.kept < BodyLimit THEN r.kept + 1 ELSE r.kept]

\* The TeeReader in front of cappedBuffer: a chunk the backend reads is kept
\* for the mirrors, or marks the capture as overflowed.
Capture(r) ==
    IF r.kept + 1 > BodyLimit THEN [read |-> r.read + 1, overflowed |-> TRUE]
    ELSE [read |-> r.read + 1, kept |-> r.kept + 1]

Upload(s) ==
    /\ Streaming(s)
    /\ req[s].read < req[s].in.body
    /\ Move(s, IF req[s].sampled = {} THEN [read |-> req[s].read + 1] ELSE Capture(req[s]))
    /\ OnlyRequest

\* The headers of the response; the body follows.
Answer(s) ==
    /\ req[s].phase = "sent"
    /\ Move(s, [phase |-> "copy"])
    /\ OnlyRequest

Finish(s) ==
    /\ req[s].phase = "copy"
    /\ Move(s, [phase |-> "mirror", result |-> "served"])
    /\ OnlyRequest

\* An error before the headers is answered; one after them aborts the
\* handler with everything it had still to do.
Broken(s, result) ==
    IF req[s].phase = "sent" THEN Move(s, [phase |-> "mirror", result |-> result])
    ELSE Finished(s, "aborted")

Fail(s) ==
    /\ Streaming(s)
    /\ Broken(s, "bad gateway")
    /\ OnlyRequest

Deadline(s) ==
    /\ Streaming(s)
    /\ req[s].deadline # 0
    /\ Broken(s, "timeout")
    /\ OnlyRequest

\* The sampled mirrors that can be reached.
Targets(s) ==
    {i \in req[s].sampled : LET backend == RuleOf(s).mirrors[i].backend
                            IN  ~backend.tlsInvalid /\ Endpoints(index, backend) # <<>>}

\* fireMirrors: with the endpoints of this moment, unless the capture
\* overflowed.
FireMirrors(s) ==
    /\ req[s].phase = "mirror"
    /\ LET targets == IF req[s].overflowed THEN {} ELSE Targets(s)
       IN  /\ copies' = copies \cup {[slot |-> s, to |-> i, body |-> req[s].kept] : i \in targets}
           /\ turn' = Counted(turn, {<<req[s].table, req[s].match.rule, "mirror", i>> : i \in targets})
    /\ Move(s, [phase |-> "done"])
    /\ UNCHANGED <<tableVars, resolverVars, counter, picks, events>>

-----------------------------------------------------------------------------
Handler(s) ==
    \/ Serve(s)
    \/ \E limited \in BOOLEAN : Extend(s, limited)
    \/ \E sampled \in SUBSET (1 .. MaxBackends) : Forward(s, sampled)
    \/ Deadline(s)
    \/ FireMirrors(s)

Backend(s) == Upload(s) \/ Answer(s) \/ Finish(s) \/ Fail(s)

Resolver == Receive \/ Interval

Next ==
    \/ \E i \in DOMAIN Configs : Swap(i)
    \/ Resolver
    \/ \E slices \in Worlds : ChangeWorld(slices)
    \/ \E port \in DOMAIN Tables.ports :
          \/ PickStream(port)
          \/ \E sni \in {in.sni : in \in UNION {Inputs[s] : s \in Slots}} : PickTLS(port, sni)
    \/ \E s \in Slots : \E in \in Inputs[s] : Connect(s, in)
    \/ \E s \in Slots : Handler(s) \/ Backend(s)

\* A request that does not wait for its backend alone.
Busy(s) ==
    \/ req[s].phase \in {"open", "extend", "forward", "mirror"}
    \/ Streaming(s) /\ req[s].deadline # 0

\* A handler's goroutine runs, its timer fires and the resolver polls;
\* nothing is assumed of clients and backends.
Spec ==
    /\ Init /\ [][Next]_vars
    /\ \A s \in Slots : []<>~Busy(s) \/ []<><<req'[s] # req[s]>>_req
    /\ WF_vars(Receive) /\ WF_vars(Interval)

-----------------------------------------------------------------------------
\* Properties.

Matched(s) == "match" \in DOMAIN req[s] /\ req[s].match # Nothing

Sent(s) == "backend" \in DOMAIN req[s]

\* Who serves a request.  On a TLS connection whose server name selects a
\* listener nothing but that listener does, whatever authority the request
\* names (Misdirected, match); and of its routes that offer the same match
\* under the same hostnames, the oldest one, on every pod (matchScore.beats).
ServedByOwner ==
    \A s \in Slots : Matched(s) =>
        LET ls == ListenersOn(TableAt(req[s].table), req[s].in.port)
            selected == BestListenerFor(ls, req[s].in.sni)
            listener == CHOOSE l \in ToSet(ls) : l.name = req[s].match.listener
            serving == CHOOSE r \in ToSet(listener.routes) : r.name = req[s].match.route
            Offers(rule) == rule.matches = RuleOf(s).matches /\ rule.grpc = RuleOf(s).grpc
        IN  /\ req[s].secure /\ selected # Nothing => req[s].match.listener = selected.name
            /\ \A r \in ToSet(listener.routes) \ {serving} :
                  r.hostnames = serving.hostnames /\ (\E rule \in ToSet(r.rules) : Offers(rule))
                    => LexLess(<<serving.created, serving.rank>>, <<r.created, r.rank>>)

NestedWildcards(ls) ==
    \E k, l \in ToSet(ls) :
        /\ IsWildcard(k.hostname) /\ IsWildcard(l.hostname)
        /\ IsStrictPrefix(Front(k.hostname), Front(l.hostname))

\* The listener that serves a request is the one whose certificate and
\* client validation the handshake used, as long as the client names a
\* server, the tables were not swapped in between and no wildcard of the port
\* lies under another one (CertificateFor, the order of the listeners,
\* Misdirected, match).
HandshakeOwner ==
    \A s \in Slots : /\ Matched(s) /\ req[s].secure
                     /\ req[s].in.sni # <<>> /\ req[s].handshake = req[s].table
        => LET ls == ListenersOn(TableAt(req[s].table), req[s].in.port)
           IN  BestListenerFor(ls, req[s].in.sni) # Nothing /\ ~NestedWildcards(ls) =>
                   req[s].match.listener = req[s].holder

\* The client address is the peer's, or one that every proxy up to the peer,
\* all of them trusted, has vouched for (Resolve); and a next hop that trusts
\* this data plane and whom it trusts finds the same client in the chain that
\* is passed on, if it is short enough to be looked at in full
\* (rewriteForwardingHeaders).
ClientVouched ==
    \A s \in Slots : Matched(s) =>
        LET in == req[s].in
            trusted == TableAt(req[s].table).cfg.trusted
            Vouched(i) == \A j \in DOMAIN in.chain : j > i => in.chain[j] \in trusted
        IN  /\ \/ req[s].client = in.peer
               \/ /\ in.peer \in trusted
                  /\ \E i \in DOMAIN in.chain : in.chain[i] = req[s].client /\ Vouched(i)
            /\ Sent(s) /\ Len(in.chain) < MaxHops =>
                  Resolve(trusted \cup {"krouter"}, "krouter", req[s].forwarded, MaxHops) = req[s].client

\* Every connection to a backend is made with exactly the parameters its
\* policy and the Gateway ask for in that generation, adopted transports
\* included, and never in the clear when there is a policy
\* (buildBackendTable, backendTLSFingerprint, forward).
PolicyKept ==
    LET transports == built[Len(built)].transports
    IN  \A b \in Reached(Tables) : b.policy # Nothing /\ ~b.tlsInvalid =>
            /\ b.key \in DOMAIN transports
            /\ transports[b.key].tls = TLSParams(Tables.cfg, b.policy)

\* A mirror gets the whole body whenever the backend has read it all
\* (cappedBuffer, fireMirrors).
MirrorsWhole ==
    \A c \in copies : req[c.slot].read = req[c.slot].in.body => c.body = req[c.slot].in.body

\* A request to a backend that never answers ends all the same when its
\* rule sets either timeout (Timeout, forward).
Answered ==
    \A s \in Slots :
        (Streaming(s) /\ req[s].timeouts # [request |-> 0, backend |-> 0])
            ~> (req[s].phase = "done")

\* Once swaps and failures end, the endpoints are those of the namespaces
\* the serving tables refer to (DoWork, poll).
EndpointsFollow == <>[](index = Poll(world, built[Len(built)].namespaces))
=============================================================================
