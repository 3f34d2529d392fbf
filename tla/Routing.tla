------------------------------ MODULE Routing -------------------------------
(***************************************************************************)
(* The routing tables of a data plane (transports/http/routing) and the    *)
(* client address (transports/http/clientip), as functions of their        *)
(* inputs.  A configuration has the listeners and routes of a verified     *)
(* generation; BuildGatewayTable makes a table of it, from which Match,    *)
(* CertificateFor and the pickers select.                                  *)
(*                                                                         *)
(* Hostnames are sequences of labels from the last to the first, as in     *)
(* Attachment, in lower case.  A path is the sequence of its segments, the *)
(* last one "" behind a trailing slash; the prefix "/" is <<>>.            *)
(***************************************************************************)
EXTENDS Integers, SequencesExt

Nothing == [nothing |-> TRUE]

IsWildcard(hostname) == hostname # <<>> /\ Last(hostname) = "*"

\* hostnameMatches: a wildcard stands for one or more labels.
HostnameMatches(pattern, host) ==
    CASE pattern = <<>> -> TRUE
      [] IsWildcard(pattern) -> IsStrictPrefix(Front(pattern), host)
      [] OTHER -> pattern = host

\* Above the score of every wildcard, or of every prefix.
ExactBase == 65536

\* hostnameScore, with labels for characters: of two patterns that match
\* the same host, the one with more labels is the longer one.
HostnameScore(hostname) ==
    CASE hostname = <<>> -> 0
      [] IsWildcard(hostname) -> Len(hostname)
      [] OTHER -> ExactBase + Len(hostname)

\* hostnameSpecificity
HostnameSpecificity(hostname) ==
    CASE hostname = <<>> -> 0
      [] IsWildcard(hostname) -> 1
      [] OTHER -> 2

-----------------------------------------------------------------------------
\* (mutant) The client certificate is left out.
FingerprintOfServer(tls) == <<tls.hostname, tls.ca, tls.sans>>

\* backendTLSFingerprint
Fingerprint(tls) == <<tls.hostname, tls.clientCert, tls.ca, tls.sans>>

\* The parameters of a backend's connections: those of its policy and the
\* Gateway's client certificate.
TLSParams(cfg, policy) ==
    [hostname |-> policy.hostname, ca |-> policy.ca, sans |-> policy.sans,
     clientCert |-> cfg.clientCert]

\* buildBackendTable: a policy that was rejected, or whose CAs do not parse,
\* fails closed; another one has a transport, known by its fingerprint.
BuildBackend(cfg, b) ==
    LET unusable == b.policy # Nothing /\ (b.policy.invalid \/ b.policy.ca = "unparsable")
    IN  [name |-> b.name, ns |-> b.ns, weight |-> b.weight, valid |-> b.valid,
         port |-> b.port, policy |-> b.policy, tlsInvalid |-> unusable,
         key |-> IF b.policy = Nothing \/ unusable THEN <<>>
                 ELSE Fingerprint(TLSParams(cfg, b.policy))]

\* BuildGatewayTable, one rule: backends without weight are dropped, and an
\* authentication document that is not in the Secret fails the rule closed.
BuildRule(cfg, rule) ==
    LET weighted == SelectSeq(rule.backends, LAMBDA b : b.weight > 0)
        missing == rule.auth # Nothing /\ rule.auth.id \notin cfg.secret
    IN  [rule EXCEPT
            !.invalid = rule.invalid \/ missing,
            !.auth = IF missing THEN Nothing ELSE rule.auth,
            !.mirrors = [i \in DOMAIN rule.mirrors |->
                            [rule.mirrors[i] EXCEPT !.backend = BuildBackend(cfg, rule.mirrors[i].backend)]],
            !.backends = [i \in DOMAIN weighted |-> BuildBackend(cfg, weighted[i])]]

\* (mutant) The listeners stay in the order of the configuration.
KeepListeners(ls) == ls

\* The stable sort of a port's listeners: exact names, wildcards, no name.
SortListeners(ls) ==
    LET Class(n) == SelectSeq(ls, LAMBDA l : HostnameSpecificity(l.hostname) = n)
    IN  Class(2) \o Class(1) \o Class(0)

\* What makes BuildGatewayTable return an error.
Builds(cfg) ==
    /\ \A l \in ToSet(cfg.listeners) : {l.cert, l.clientCA} \ {""} \subseteq cfg.secret
    /\ cfg.clientCert # "" => cfg.clientCert \in cfg.secret
    /\ "malformed" \notin cfg.trusted

\* One internal port: the protocol of its first listener, and its listeners,
\* each with the routes attached to it.
BuildPort(cfg, port) ==
    LET own == SelectSeq(cfg.listeners, LAMBDA l : l.port = port)
        Routes(name) ==
            LET rs == SelectSeq(cfg.routes, LAMBDA r : name \in r.listeners)
            IN  [i \in DOMAIN rs |->
                    [rs[i] EXCEPT !.rules = [j \in DOMAIN rs[i].rules |->
                        BuildRule(cfg, rs[i].rules[j])]]]
    IN  [protocol |-> own[1].protocol,
         listeners |-> SortListeners([i \in DOMAIN own |->
             [name |-> own[i].name, hostname |-> own[i].hostname, cert |-> own[i].cert,
              clientCA |-> own[i].clientCA, routes |-> Routes(own[i].name)]])]

\* The namespaces of the valid backends and mirrors, for the resolver.
BackendNamespaces(cfg) ==
    LET rules == UNION {ToSet(r.rules) : r \in ToSet(cfg.routes)}
        backends == {b \in UNION {ToSet(rule.backends) : rule \in rules} : b.weight > 0}
        mirrors == {m.backend : m \in UNION {ToSet(rule.mirrors) : rule \in rules}}
    IN  {b.ns : b \in {x \in backends \cup mirrors : x.valid}}

\* BuildGatewayTable, of a configuration that builds.
BuildGatewayTable(cfg) ==
    [cfg |-> cfg, namespaces |-> BackendNamespaces(cfg),
     ports |-> [p \in {l.port : l \in ToSet(cfg.listeners)} |-> BuildPort(cfg, p)]]

BackendsOf(rules) ==
    UNION {ToSet(rule.backends) \cup {m.backend : m \in ToSet(rule.mirrors)} : rule \in rules}

\* Every backend and mirror the listeners of a table reach.
Reached(table) ==
    BackendsOf(UNION {ToSet(r.rules) :
        r \in UNION {ToSet(l.routes) :
            l \in UNION {ToSet(table.ports[p].listeners) : p \in DOMAIN table.ports}}})

\* previousTransports: those of the backends the listeners reach.
PreviousTransports(table, transports) ==
    [k \in {b.key : b \in Reached(table)} \ {<<>>} |-> transports[k]]

\* The transports of a table: one with the same fingerprint is adopted.
Transports(gen, cfg, previous) ==
    LET backends == BackendsOf({BuildRule(cfg, rule) :
                        rule \in UNION {ToSet(r.rules) : r \in ToSet(cfg.routes)}})
        Params(k) == TLSParams(cfg, (CHOOSE b \in backends : b.key = k).policy)
    IN  [k \in {b.key : b \in backends} \ {<<>>} |->
            IF k \in DOMAIN previous THEN previous[k] ELSE [built |-> gen, tls |-> Params(k)]]
=============================================================================
