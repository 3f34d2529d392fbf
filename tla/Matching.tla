------------------------------ MODULE Matching ------------------------------
(***************************************************************************)
(* Which listener, rule, backend and endpoint serve a request or a         *)
(* connection (routing/match.go), and for whom (clientip), as functions of *)
(* a table of Routing.  A request is a record of its port, host, path,     *)
(* method, headers, params and whether it is gRPC.                         *)
(***************************************************************************)
EXTENDS Routing, FiniteSets

\* The listeners of a port, none for a port the table does not have.
ListenersOn(table, port) ==
    IF port \in DOMAIN table.ports THEN table.ports[port].listeners ELSE <<>>

Matching(ls, host) == SelectSeq(ls, LAMBDA l : HostnameMatches(l.hostname, host))

\* bestListenerFor: the first of the highest score.
BestListenerFor(ls, host) ==
    LET Better(best, l) ==
            IF best = Nothing \/ HostnameScore(l.hostname) > HostnameScore(best.hostname)
            THEN l ELSE best
    IN  FoldLeft(Better, Nothing, Matching(ls, host))

\* Misdirected: another listener owns the authority than the server name.
Misdirected(table, port, serverName, host) ==
    LET selected == BestListenerFor(ListenersOn(table, port), serverName)
    IN  selected # Nothing /\ BestListenerFor(ListenersOn(table, port), host) # selected

\* CertificateFor: the first listener with a certificate that matches, else
\* the first with a certificate.
CertificateFor(table, port, serverName) ==
    LET holders == SelectSeq(ListenersOn(table, port), LAMBDA l : l.cert # "")
        matching == IF serverName = <<>> THEN <<>> ELSE Matching(holders, serverName)
    IN  IF matching # <<>> THEN matching[1] ELSE IF holders # <<>> THEN holders[1] ELSE Nothing

-----------------------------------------------------------------------------
\* matchApplies, with pathPrefixMatches
MatchApplies(m, req) ==
    /\ CASE m.type = "Exact" -> req.path = m.path
         [] m.type = "PathPrefix" -> IsPrefix(m.path, req.path)
         [] OTHER -> FALSE
    /\ m.method \in {"", req.method}
    /\ m.headers \subseteq req.headers
    /\ m.params \subseteq req.params

\* pathScore and the other dimensions of ruleSpecificity.
Specificity(m) ==
    <<IF m.type = "Exact" THEN ExactBase + Len(m.path) ELSE Len(m.path),
      IF m.method = "" THEN 0 ELSE 1, Cardinality(m.headers), Cardinality(m.params)>>

\* a comes before b in the order of dictionaries.
LexLess(a, b) == \E i \in DOMAIN a : a[i] < b[i] /\ \A j \in 1 .. i - 1 : a[j] = b[j]

\* ruleBestMatch: the specificity of the best match that applies.
RuleBestMatch(rule, req) ==
    LET applying == SelectSeq(rule.matches, LAMBDA m : MatchApplies(m, req))
        Better(best, m) ==
            IF best = <<>> \/ LexLess(best, Specificity(m)) THEN Specificity(m) ELSE best
    IN  IF rule.matches = <<>> THEN <<0, 0, 0, 0>> ELSE FoldLeft(Better, <<>>, applying)

RouteMatches(route, host) ==
    route.hostnames = <<>> \/ \E h \in ToSet(route.hostnames) : HostnameMatches(h, host)

\* routeHostnameScore
RouteHostnameScore(listener, route, host) ==
    LET scores == {HostnameScore(h) : h \in {x \in ToSet(route.hostnames) : HostnameMatches(x, host)}}
    IN  IF route.hostnames = <<>> THEN HostnameScore(listener.hostname)
        ELSE CHOOSE s \in scores : \A t \in scores : t <= s

\* matchScore.beats: the more specific one, then the older route, then the
\* first in the order of names.
Beats(s, t) ==
    \/ LexLess(t.specific, s.specific)
    \/ s.specific = t.specific /\ LexLess(s.age, t.age)

Score(listener, route, specificity, host) ==
    [specific |-> <<HostnameScore(listener.hostname), RouteHostnameScore(listener, route, host)>>
                    \o specificity,
     age |-> <<route.created, route.rank>>]

\* The first candidate that no other one beats.
Best(candidates) ==
    FoldLeft(LAMBDA best, c : IF best = Nothing \/ Beats(c.score, best.score) THEN c ELSE best,
             Nothing, candidates)

\* The rules of the routes of some listeners for a host, in the order of the
\* table.
RuleCandidates(ls, host) ==
    FlattenSeq([i \in DOMAIN ls |->
        FlattenSeq([j \in DOMAIN ls[i].routes |->
            LET route == ls[i].routes[j]
            IN  IF RouteMatches(route, host)
                THEN [k \in DOMAIN route.rules |->
                         [listener |-> ls[i], route |-> route, rule |-> route.rules[k]]]
                ELSE <<>>])])

Scored(c, specificity, host) ==
    [listener |-> c.listener.name, route |-> c.route.name, rule |-> c.rule,
     score |-> Score(c.listener, c.route, specificity, host)]

\* (mutant) The listeners are not isolated from each other.
OwningAll(ls, host) == Matching(ls, host)

\* Listener isolation: only those of the winning hostname serve.
Owning(ls, host) ==
    LET matching == Matching(ls, host)
    IN  SelectSeq(matching, LAMBDA l :
            \A k \in ToSet(matching) : HostnameScore(k.hostname) <= HostnameScore(l.hostname))

\* match: rules that do not apply have no specificity.
MatchKind(table, req, grpc) ==
    LET owning == Owning(ListenersOn(table, req.port), req.host)
        applying == SelectSeq(RuleCandidates(owning, req.host), LAMBDA c :
                        c.rule.grpc = grpc /\ RuleBestMatch(c.rule, req) # <<>>)
    IN  Best([i \in DOMAIN applying |->
            Scored(applying[i], RuleBestMatch(applying[i].rule, req), req.host)])

\* Match: gRPC requests prefer the rules of GRPCRoutes.
Match(table, req) ==
    LET preferred == IF req.grpc THEN MatchKind(table, req, TRUE) ELSE Nothing
    IN  IF preferred # Nothing THEN preferred ELSE MatchKind(table, req, FALSE)

\* AuthEndpoint: the extensions whose reserved prefix the path is under, on
\* every listener that matches.
AuthEndpoint(table, req) ==
    LET ls == Matching(ListenersOn(table, req.port), req.host)
        routes == {r \in UNION {ToSet(l.routes) : l \in ToSet(ls)} : RouteMatches(r, req.host)}
    IN  {rule.auth.id :
            rule \in {x \in UNION {ToSet(r.rules) : r \in routes} :
                         /\ x.auth # Nothing
                         /\ x.auth.cookie /\ IsPrefix(x.auth.prefix, req.path)}}

-----------------------------------------------------------------------------
\* pickBucket: the index of the backend that holds the slot, 0 for none.
PickBucket(counter, backends) ==
    LET total == FoldLeft(LAMBDA n, b : n + b.weight, 0, backends)
        Sum(i) == FoldLeft(LAMBDA n, b : n + b.weight, 0, SubSeq(backends, 1, i))
    IN  IF total <= 0 THEN 0
        ELSE CHOOSE i \in DOMAIN backends :
                 counter % total < Sum(i) /\ \A j \in 1 .. i - 1 : counter % total >= Sum(j)

\* l4Route: the oldest route with rules, whatever its listener.
L4Route(table, port) ==
    LET routes == {r \in UNION {ToSet(l.routes) : l \in ToSet(ListenersOn(table, port))} :
                      r.rules # <<>>}
        Age(r) == <<r.created, r.rank>>
    IN  IF routes = {} THEN Nothing
        ELSE CHOOSE r \in routes : \A q \in routes : q = r \/ LexLess(Age(r), Age(q))

\* The rule of PickTLS: no isolation, the scores alone decide.
TLSRule(table, port, sni) ==
    LET all == RuleCandidates(Matching(ListenersOn(table, port), sni), sni)
    IN  Best([i \in DOMAIN all |-> Scored(all[i], <<0, 0, 0, 0>>, sni)])

\* EndpointsIndex.Endpoints: the ready addresses of a Service port, in order.
\* The ports of a slice are those of the Service whose names it serves.  A
\* condition that is not set counts as ready and not terminating.
Endpoints(index, backend) ==
    LET of == {s \in index : /\ s.ns = backend.ns /\ s.service = backend.name
                             /\ s.ipv4 /\ backend.port \in s.ports}
        ready == UNION {{e.address : e \in {x \in s.endpoints :
                            x.ready # "no" /\ x.terminating # "yes"}} : s \in of}
    IN  SetToSortSeq(ready, <)

-----------------------------------------------------------------------------
\* (mutant) The walk starts at the end the client controls.
WalkFromLeft(trusted, peer, chain, hops) ==
    LET stop == SelectInSeq(chain, LAMBDA a : a \notin trusted)
    IN  IF stop = 0 THEN peer ELSE chain[stop]

\* The loop of Resolve, from right to left over at most hops entries: the
\* first address that is not trusted, or the last before a malformed one.
Walk(trusted, peer, chain, hops) ==
    LET entries == SubSeq(Reverse(chain), 1, IF Len(chain) < hops THEN Len(chain) ELSE hops)
        stop == SelectInSeq(entries, LAMBDA a : a \notin trusted)
        known == IF stop = 0 THEN entries ELSE SubSeq(entries, 1, stop - 1)
        trustedEnd == IF known = <<>> THEN peer ELSE Last(known)
    IN  IF stop # 0 /\ entries[stop] # "malformed" THEN entries[stop] ELSE trustedEnd

\* Resolve: the client address; a peer that is not trusted is the client.
Resolve(trusted, peer, chain, hops) ==
    IF peer \in trusted THEN Walk(trusted, peer, chain, hops) ELSE peer

\* rewriteForwardingHeaders: X-Forwarded-For as the backend sees it.
ForwardedFor(trusted, peer, chain) ==
    IF peer \in trusted THEN Append(chain, peer) ELSE <<peer>>
=============================================================================
