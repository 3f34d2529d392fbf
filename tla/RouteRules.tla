----------------------------- MODULE RouteRules -----------------------------
(***************************************************************************)
(* What a route's rules compile to (compile.go, extensions.go and          *)
(* backendtls.go of gatewayapi, and the documents of internal/extensions): *)
(* which values reject the whole route, which references only degrade its  *)
(* ResolvedRefs condition, and under which TLS policy each backend is      *)
(* published.  w is the snapshot of Attachment with the Services           *)
(* w.services, the BackendTLSPolicies w.policies and the extension         *)
(* documents w.documents besides.                                          *)
(***************************************************************************)
EXTENDS Attachment, TLC

\* Returned for a value that makes the compilation return an error.
Reject == "UnsupportedValue!"

InvalidExtension == "InvalidExtensionRef"

-----------------------------------------------------------------------------
\* resolvePolicyValidation: the reasons of the two conditions of a policy.
PolicyValidation(w, p) ==
    LET Check(ref) ==
            CASE ref.kind # "ConfigMap" -> "InvalidKind"
              [] OTHER -> IF ref \in w.objects THEN Resolved ELSE "InvalidCACertificateRef"
        cas == FirstReason(p.spec.cas, Check)
        refs == IF cas = Resolved /\ ToSet(p.spec.cas) \cap w.wellFormed = {}
                THEN "InvalidCACertificateRef" ELSE cas
    IN  IF p.spec.options \/ "" \in p.spec.sans THEN [accepted |-> "Invalid", refs |-> Resolved]
        ELSE IF p.spec.wellKnown THEN [accepted |-> "Accepted", refs |-> Resolved]
        ELSE IF refs # Resolved THEN [accepted |-> "NoValidCACertificate", refs |-> refs]
        ELSE [accepted |-> "Accepted", refs |-> Resolved]

\* The targets of all policies in the order in which they are claimed: the
\* oldest policy first.
PolicyTargets(w) ==
    LET ordered == SetToSortSeq(w.policies, Precedes)
    IN  FlattenSeq([i \in DOMAIN ordered |->
            [j \in DOMAIN ordered[i].spec.targets |->
                [policy |-> ordered[i], target |-> ordered[i].spec.targets[j]]]])

OfService(t) == t.target.kind = "Service"

\* resolveBackendTLSPolicies: a target claimed by an earlier one.
Conflicted(ts, i) ==
    \E j \in 1 .. i - 1 :
        /\ OfService(ts[j])
        /\ ts[j].policy.ns = ts[i].policy.ns
        /\ ts[j].target = ts[i].target

\* The Accepted reason of a policy after its targets: the last one judged
\* decides.
PolicyReason(w, p) ==
    LET ts == PolicyTargets(w)
        Failed(i) == ts[i].policy = p /\ (~OfService(ts[i]) \/ Conflicted(ts, i))
        last == SelectLastInSeq([i \in DOMAIN ts |-> i], Failed)
    IN  IF last = 0 THEN PolicyValidation(w, p).accepted
        ELSE IF OfService(ts[last]) THEN "Conflicted" ELSE "Invalid"

\* The verification parameters of a policy, which fail closed.
PolicyTLS(w, p) ==
    IF /\ PolicyValidation(w, p).accepted = "Accepted"
       /\ \A t \in ToSet(p.spec.targets) : t.kind = "Service"
    THEN p.name ELSE "invalid"

\* backendTLSFor: the policy of the port, or the one of the whole Service.
BackendTLSFor(w, ns, name, portName) ==
    LET ts == PolicyTargets(w)
        Bound(section) ==
            {i \in DOMAIN ts :
                /\ OfService(ts[i]) /\ ~Conflicted(ts, i)
                /\ ts[i].policy.ns = ns
                /\ ts[i].target.name = name /\ ts[i].target.section = section}
        chosen == IF Bound(portName) # {} THEN Bound(portName) ELSE Bound("")
    IN  IF chosen = {} THEN "none" ELSE PolicyTLS(w, ts[CHOOSE i \in chosen : TRUE].policy)

-----------------------------------------------------------------------------
Service(w, ref) == CHOOSE s \in w.services : s.ns = ref.ns /\ s.name = ref.name

\* compileBackend: the first check that fails.
BackendReason(w, kind, ns, ref) ==
    IF ref.kind # "Service" THEN "InvalidKind"
    ELSE IF ref.port = 0 THEN "UnsupportedValue"
    ELSE IF ref.ns # ns /\ ~ReferenceGrantAllows(w, kind, ns, ref) THEN "RefNotPermitted"
    ELSE IF \E s \in w.services : s.ns = ref.ns /\ s.name = ref.name
         THEN Resolved ELSE "BackendNotFound"

\* servicePortName
ServicePortName(w, ref) ==
    LET ports == Service(w, ref).ports
    IN  IF ref.port \in DOMAIN ports THEN ports[ref.port] ELSE ""

\* compileBackend: a backend that does not resolve keeps its share.
CompileBackend(w, kind, ns, ref) ==
    LET valid == BackendReason(w, kind, ns, ref) = Resolved
    IN  [ns |-> ref.ns, name |-> ref.name, valid |-> valid,
         tls |-> IF valid THEN BackendTLSFor(w, ref.ns, ref.name, ServicePortName(w, ref))
                 ELSE "none"]

-----------------------------------------------------------------------------
\* compileHTTPMatch, and the match of compileGRPCRule.
MatchReason(kind, m) ==
    IF /\ m.path \in IF kind = "HTTPRoute" THEN {"", "Exact", "PathPrefix"} ELSE {"", "Exact"}
       /\ m.others \subseteq {"Exact"}
       /\ kind = "GRPCRoute" /\ m.path # "" => m.service
    THEN Resolved ELSE Reject

HeaderModifiers == {"RequestHeaderModifier", "ResponseHeaderModifier"}

\* compileMirror: a mirror that does not resolve is dropped.
MirrorReason(w, kind, ns, f) ==
    LET backend == BackendReason(w, kind, ns, f.backend)
    IN  IF backend # Resolved THEN backend
        ELSE IF f.denominator <= 0 THEN Reject
        ELSE Resolved

\* compileHTTPFilter and compileGRPCFilter; ExtensionRefs are set aside.
FilterReason(w, kind, ns, f) ==
    CASE f.type \in HeaderModifiers \cup {"ExtensionRef"} -> Resolved
      [] f.type = "RequestMirror" -> MirrorReason(w, kind, ns, f)
      [] f.type = "CORS" /\ kind = "HTTPRoute" -> Resolved
      [] f.type \in {"RequestRedirect", "URLRewrite"} /\ kind = "HTTPRoute" ->
             IF f.path \in {"", "ReplaceFullPath", "ReplacePrefixMatch"} THEN Resolved ELSE Reject
      [] OTHER -> Reject

-----------------------------------------------------------------------------
\* A document sets some attributes, a function from their names; a block of
\* auth.hcl is there when the attribute <<block, "">> is.  Documents merge in
\* the order of the filters and later ones win.
Merged(docs) == FoldLeft(LAMBDA merged, doc : doc @@ merged, <<>>, docs)

\* ratelimiting.Merge
RateLimitComplete(docs) == {"requests", "window"} \subseteq DOMAIN Merged(docs)

CookieProviders == {"oidc", "saml", "ldap"}

Providers == CookieProviders \cup {"jwt"}

Blocks(attributes) == {b \in Providers \cup {"session"} : <<b, "">> \in attributes}

\* validateOIDC, validateSAML, validateLDAP and validateJWT: what each
\* provider must define.
ProviderComplete(attributes, b) ==
    LET Has(names) == \A n \in names : <<b, n>> \in attributes
    IN  CASE b = "oidc" -> Has({"issuer", "client_id"})
          [] b = "saml" -> /\ Has({"entity_id", "sp_key", "sp_certificate"})
                           /\ Has({"idp_metadata_url"}) # Has({"idp_metadata"})
          [] b = "ldap" -> Has({"url", "bind_dn", "bind_password", "user_base_dn", "user_filter"})
          [] OTHER -> Has({"issuer", "audiences"})

\* validate and validateSession of the merged document: a session block
\* exactly with a cookie provider.
AuthComplete(docs) ==
    LET attributes == DOMAIN Merged(docs)
        providers == Blocks(attributes) \cap Providers
    IN  /\ providers # {}
        /\ \A b \in providers : ProviderComplete(attributes, b)
        /\ ("session" \in Blocks(attributes)) <=> (providers \cap CookieProviders # {})
        /\ "session" \in Blocks(attributes) => <<"session", "secret">> \in attributes

\* What compileExtensions finds under one reference, in the route's own
\* namespace: enforcement lives in ConfigMaps, authentication in Secrets.
DocumentReason(w, ns, ref) ==
    LET found == {d \in w.documents : d.kind = ref.kind /\ d.ns = ns /\ d.name = ref.name}
        keys == UNION {DOMAIN d.keys : d \in found}
    IN  IF ref.kind \notin {"ConfigMap", "Secret"} THEN Reject
        ELSE IF found = {} THEN InvalidExtension
        ELSE IF ref.kind = "Secret" /\ keys # {"auth"} THEN InvalidExtension
        ELSE IF ref.kind = "ConfigMap" /\ ("auth" \in keys \/ keys = {}) THEN InvalidExtension
        ELSE IF \A d \in found : d.parses THEN Resolved ELSE InvalidExtension

\* The documents of one key that the references of a rule reach, in order.
Documents(w, ns, refs, key) ==
    LET Of(ref) == {d \in w.documents : /\ d.kind = ref.kind /\ d.ns = ns /\ d.name = ref.name
                                         /\ key \in DOMAIN d.keys}
        reached == SelectSeq(refs, LAMBDA ref : Of(ref) # {})
    IN  [i \in DOMAIN reached |-> (CHOOSE d \in Of(reached[i]) : TRUE).keys[key]]

\* The program a rule's WAF documents make up is built once: rules of the
\* same number do not go together.
ProgramBuilds(programs) ==
    \A i, j \in DOMAIN programs : i # j => DOMAIN programs[i] \cap DOMAIN programs[j] = {}

\* What compileExtensions requires of the merged documents; cookies are not
\* for gRPC.
Usable(kind, limits, programs, auths) ==
    /\ limits # <<>> => RateLimitComplete(limits)
    /\ ProgramBuilds(programs)
    /\ auths # <<>> => AuthComplete(auths)
    /\ kind = "GRPCRoute" => Blocks(DOMAIN Merged(auths)) \cap CookieProviders = {}

\* compileExtensions: every reference, then each merged result.
ExtensionsReason(w, kind, ns, refs) ==
    LET read == FirstReason(refs, LAMBDA ref : DocumentReason(w, ns, ref))
        Docs(key) == Documents(w, ns, refs, key)
    IN  IF read # Resolved THEN read
        ELSE IF Usable(kind, Docs("ratelimit"), Docs("waf"), Docs("auth")) THEN Resolved
        ELSE InvalidExtension

\* compileTimeouts: zero is no timeout.
TimeoutReason(t) ==
    IF t.request > 0 /\ t.backend > t.request THEN Reject ELSE Resolved

-----------------------------------------------------------------------------
ExtensionRefs(rule) == SelectSeq(rule.filters, LAMBDA f : f.type = "ExtensionRef")

\* The checks of compileRoute and compileGRPCRule on one rule, in order.
RuleReasons(w, route, rule) ==
    LET kind == route.spec.kind
        Backend(b) == <<BackendReason(w, kind, route.ns, b)>>
                        \o [i \in DOMAIN b.filters |->
                               IF b.filters[i] \in HeaderModifiers THEN Resolved ELSE Reject]
    IN  [i \in DOMAIN rule.matches |-> MatchReason(kind, rule.matches[i])]
          \o [i \in DOMAIN rule.filters |-> FilterReason(w, kind, route.ns, rule.filters[i])]
          \o <<ExtensionsReason(w, kind, route.ns, ExtensionRefs(rule))>>
          \o <<IF kind = "HTTPRoute" THEN TimeoutReason(rule.timeouts) ELSE Resolved>>
          \o FlattenSeq([i \in DOMAIN rule.backends |-> Backend(rule.backends[i])])

\* All checks of a route; those of attachL4Route are on its one rule.
RouteReasons(w, route) ==
    LET rules == route.spec.rules
    IN  IF route.spec.kind \in {"HTTPRoute", "GRPCRoute"}
        THEN FlattenSeq([i \in DOMAIN rules |-> RuleReasons(w, route, rules[i])])
        ELSE IF Len(rules) # 1 THEN <<Reject>>
        ELSE [i \in DOMAIN rules[1].backends |->
                 BackendReason(w, route.spec.kind, route.ns, rules[1].backends[i])]

\* The ResolvedRefs reason: the first backend that failed, unless an
\* extension did; what follows a rejected value is not looked at.
RefsReason(reasons) ==
    LET cut == SelectInSeq(reasons, LAMBDA r : r = Reject)
        seen == IF cut = 0 THEN reasons ELSE SubSeq(reasons, 1, cut - 1)
    IN  IF Contains(seen, InvalidExtension) THEN InvalidExtension
        ELSE FirstReason(seen, LAMBDA r : r)

\* One published rule: its backends, and whether it answers nothing but
\* errors because an extension is not usable.
CompileRule(w, route, rule) ==
    [backends |-> [i \in DOMAIN rule.backends |->
                      CompileBackend(w, route.spec.kind, route.ns, rule.backends[i])],
     closed |-> /\ route.spec.kind \in {"HTTPRoute", "GRPCRoute"}
                /\ ExtensionsReason(w, route.spec.kind, route.ns, ExtensionRefs(rule)) # Resolved]

\* The outcome of a parent reference that admits nothing.
Refusal(route, ref, accepted, refs) ==
    [parent |-> ref, route |-> route.name, accepted |-> accepted, refs |-> refs,
     admitted |-> {}, listeners |-> {}, rules |-> <<>>]

\* An admitted route: compiled, or rejected as a whole.
Attached(w, ls, route, ref, reasons) ==
    IF Contains(reasons, Reject)
    THEN Refusal(route, ref, "UnsupportedValue", RefsReason(reasons))
    ELSE LET admitted == Admitted(w, ls, ref, route)
         IN  [Refusal(route, ref, "Accepted", RefsReason(reasons)) EXCEPT
                !.admitted = admitted,
                !.listeners = {EffectiveName(ls[i].owner, ls[i].spec) :
                                  i \in {j \in admitted : Valid(ls[j])}},
                !.rules = [i \in DOMAIN route.spec.rules |->
                              CompileRule(w, route, route.spec.rules[i])]]

\* attachRoute, attachGRPCRoute and attachL4Route: the outcome of one
\* parent reference of a route.
Outcome(w, ls, route, ref) ==
    LET refused == AdmissionReason(w, ls, ref, route)
    IN  IF refused # "" THEN Refusal(route, ref, refused, Resolved)
        ELSE Attached(w, ls, route, ref, RouteReasons(w, route))

\* attachAll, for the routes of all kinds in the order they are listed.
Outcomes(w, ls) ==
    LET routes == SetToSortSeq(w.routes, LAMBDA a, b : a.rank < b.rank)
        Of(route) ==
            LET refs == SelectSeq(route.spec.parents, LAMBDA ref : ResolvesParent(w, ref))
            IN  [i \in DOMAIN refs |-> Outcome(w, ls, route, refs[i])]
    IN  FlattenSeq([i \in DOMAIN routes |-> Of(routes[i])])
=============================================================================
