----------------------------- MODULE MCStatuses -----------------------------
(***************************************************************************)
(* A small cluster for Statuses: one Gateway, two ListenerSets and a route *)
(* in a namespace of their own, a second route across namespaces, and two  *)
(* policies for the Service behind them.                                   *)
(***************************************************************************)
EXTENDS Statuses

MCSets == {"setA", "setB"}
MCRoutes == {"web", "wire"}
MCPolicies == {"policyA", "policyB"}

MCNamespace ==
    [o \in {"gateway"} \cup MCSets \cup MCRoutes \cup MCPolicies |->
        IF o = "gateway" THEN "infra" ELSE IF o = "wire" THEN "lab" ELSE "team"]

\* Names in alphabetical order.
MCRank ==
    [gateway |-> 1, policyA |-> 2, policyB |-> 3, setA |-> 4, setB |-> 5, web |-> 6, wire |-> 7]

Ref(kind, ns, name) == [kind |-> kind, ns |-> ns, name |-> name]

Listener(name, port, protocol, hostname) ==
    [name |-> <<name>>, port |-> port, protocol |-> protocol, mode |-> "", hostname |-> hostname,
     kinds |-> {}, from |-> "All", certs |-> <<>>]

Shop == <<"test", "shop">>
AnyTest == <<"test", "*">>

Plain == Listener("plain", 80, "HTTP", AnyTest)

Secure(cert) ==
    [Listener("secure", 443, "HTTPS", Shop) EXCEPT !.certs = <<Ref("Secret", "infra", cert)>>]

Clients(ca, mode) == [cas |-> <<Ref("ConfigMap", "infra", ca)>>, mode |-> mode]

GatewaySpec(listeners) ==
    [params |-> "ok", listeners |-> listeners, allowedListeners |-> "All", clientCert |-> <<>>,
     perPort |-> [p \in {} |-> NoValidation], default |-> NoValidation]

Open == GatewaySpec(<<Plain>>)
Broken == GatewaySpec(<<Plain, Secure("missing")>>)
Relaxed == [GatewaySpec(<<Secure("cert")>>) EXCEPT
                !.default = Clients("ca", "AllowInsecureFallback")]
Misset == [Open EXCEPT !.params = "invalid"]

SetSpec(listeners) == [parent |-> "gateway", listeners |-> listeners]

ShopSet == SetSpec(<<Listener("shop", 80, "HTTP", Shop)>>)
RawSet == SetSpec(<<Listener("raw", 443, "TCP", <<>>), Listener("shop", 80, "HTTP", Shop)>>)

Backend(ns, name) ==
    [kind |-> "Service", ns |-> ns, name |-> name, port |-> 8080, filters |-> <<>>]

Rule(backends) ==
    [matches |-> <<>>, filters |-> <<>>, timeouts |-> [request |-> 0, backend |-> 0],
     backends |-> backends]

Parent(kind, ns, name) == [kind |-> kind, ns |-> ns, name |-> name, section |-> <<>>, port |-> 0]

RouteSpec(kind, parents, rules) ==
    [kind |-> kind, parents |-> parents, hostnames |-> <<Shop>>, rules |-> rules]

ToGateway == Parent("Gateway", "infra", "gateway")
ToSetA == Parent("ListenerSet", "team", "setA")

Extended(kind, name) ==
    [Rule(<<Backend("team", "api")>>) EXCEPT
        !.filters = <<[type |-> "ExtensionRef", kind |-> kind, name |-> name]>>]

PlainRoute == RouteSpec("HTTPRoute", <<ToGateway>>, <<Rule(<<Backend("team", "api")>>)>>)
LoginRoute == RouteSpec("HTTPRoute", <<ToSetA, ToGateway>>, <<Extended("Secret", "login")>>)

MCMenu ==
    [gateway |-> {Open, Broken, Relaxed, Misset},
     setA |-> {ShopSet}, setB |-> {ShopSet, RawSet},
     web |-> {PlainRoute, LoginRoute},
     wire |-> {PlainRoute},
     policyA |-> {[options |-> FALSE, sans |-> {}, wellKnown |-> TRUE, cas |-> <<>>,
                   targets |-> <<[kind |-> "Service", name |-> "api", section |-> ""]>>]},
     policyB |-> {[options |-> FALSE, sans |-> {}, wellKnown |-> FALSE,
                   cas |-> <<Ref("ConfigMap", "team", "missing")>>,
                   targets |-> <<[kind |-> "Service", name |-> "api", section |-> ""]>>]}]

MCStart ==
    {[gateway |-> Open, web |-> LoginRoute, setA |-> ShopSet],
     [gateway |-> Broken, setB |-> RawSet]}

MCGrants ==
    {[ns |-> "team", from |-> {[kind |-> "HTTPRoute", ns |-> "lab"]},
      to |-> {[kind |-> "Service", name |-> ""]}]}

MCFixed ==
    [labelled |-> {"team"},
     objects |-> {Ref("Secret", "infra", "cert"), Ref("ConfigMap", "infra", "ca")},
     wellFormed |-> {Ref("Secret", "infra", "cert"), Ref("ConfigMap", "infra", "ca")},
     exhausted |-> {},
     services |-> {[ns |-> "team", name |-> "api", ports |-> [p \in {8080} |-> "http"]]},
     documents |-> {[kind |-> "Secret", ns |-> "team", name |-> "login", parses |-> TRUE,
                     keys |-> [auth |-> (<<"jwt", "">> :> 1)]]}]
=============================================================================
