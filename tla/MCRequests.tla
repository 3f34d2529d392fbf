----------------------------- MODULE MCRequests -----------------------------
(***************************************************************************)
(* Three configurations of one Gateway with an HTTPS, a TCP and a TLS      *)
(* port, two sets of EndpointSlices and two requests at a time.            *)
(***************************************************************************)
EXTENDS Requests

Shop == <<"com", "shop">>
Blog == <<"com", "blog">>
AnyCom == <<"com", "*">>

\* Listeners, the wildcard before the exact name.
Listener(name, hostname, port, protocol, cert) ==
    [name |-> name, hostname |-> hostname, port |-> port, protocol |-> protocol,
     cert |-> cert, clientCA |-> ""]

Wild == Listener("wild", AnyCom, 443, "HTTPS", "certWild")
Exact == Listener("shop", Shop, 443, "HTTPS", "certShop")
Rest == Listener("rest", <<>>, 443, "HTTPS", "certRest")
Stream == Listener("tcp", <<>>, 9000, "TCP", "")
Pass == Listener("pass", AnyCom, 8443, "TLS", "")

\* Backends, some with a policy.
Backend1(name, weight, policy, valid) ==
    [name |-> name, ns |-> "apps", port |-> 80, weight |-> weight, valid |-> valid,
     policy |-> policy]

Policy(hostname, invalid) ==
    [hostname |-> hostname, ca |-> "ca", sans |-> {}, invalid |-> invalid]

Secured == Backend1("api", 2, Policy("api", FALSE), TRUE)
Plain == Backend1("web", 1, Nothing, TRUE)
Refused == Backend1("web", 1, Policy("web", TRUE), TRUE)
Missing == Backend1("none", 1, Nothing, FALSE)
Off == Backend1("web", 0, Nothing, TRUE)
Audit == [backend |-> [Plain EXCEPT !.ns = "audit"], percent |-> 100]

\* Rules.
Prefix(path) ==
    [type |-> "PathPrefix", path |-> path, method |-> "", headers |-> {}, params |-> {}]

Rule(id, matches, backends) ==
    [id |-> id, matches |-> matches, grpc |-> FALSE, invalid |-> FALSE, auth |-> Nothing,
     limit |-> FALSE, waf |-> FALSE, cors |-> FALSE, redirect |-> FALSE, mirrors |-> <<>>,
     backends |-> backends, timeouts |-> [request |-> 0, backend |-> 0]]

Cart == [Rule("cart", <<Prefix(<<"cart">>)>>, <<Secured, Off, Plain>>) EXCEPT
            !.mirrors = <<Audit>>, !.timeouts = [request |-> 0, backend |-> 5]]
Copy == Rule("copy", <<Prefix(<<"cart">>)>>, <<Plain>>)
Home == Rule("home", <<Prefix(<<>>)>>, <<Missing, Refused>>)
Old == [Rule("old", <<[Prefix(<<"old">>) EXCEPT !.type = "Exact", !.method = "GET"]>>, <<>>)
            EXCEPT !.redirect = TRUE]
Member == [Rule("member", <<Prefix(<<"app">>)>>, <<Plain>>) EXCEPT
              !.auth = [id |-> "sso", prefix |-> <<"_auth">>, cookie |-> TRUE],
              !.cors = TRUE, !.waf = TRUE, !.limit = TRUE]
Call == [Rule("call", <<>>, <<>>) EXCEPT !.grpc = TRUE]
Database == Rule("db", <<>>, <<Secured, Missing>>)
Tunnel == Rule("tunnel", <<>>, <<Plain>>)

Route(name, rank, created, hostnames, listeners, rules) ==
    [name |-> name, rank |-> rank, created |-> created, hostnames |-> hostnames,
     listeners |-> listeners, rules |-> rules]

Routes == <<
    Route("copy", 2, 1, <<Shop>>, {"shop", "wild"}, <<Copy>>),
    Route("cart", 1, 1, <<Shop>>, {"shop", "wild"}, <<Cart>>),
    Route("rpc", 3, 2, <<>>, {"shop"}, <<Call>>),
    Route("home", 4, 2, <<>>, {"wild"}, <<Home, Old>>),
    Route("member", 5, 3, <<>>, {"rest"}, <<Member>>),
    Route("db", 6, 1, <<>>, {"tcp"}, <<Database>>),
    Route("tunnel", 7, 1, <<Blog>>, {"pass"}, <<Tunnel>>)>>

\* The first configuration; one with another client certificate; one
\* without the exact listener and the authentication document.
First == [listeners |-> <<Wild, Exact, Rest, Stream, Pass>>, routes |-> Routes,
          trusted |-> {"lb", "cdn"}, clientCert |-> "client1",
          secret |-> {"certWild", "certShop", "certRest", "client1", "client2", "sso"}]
Rotated == [First EXCEPT !.clientCert = "client2"]
Reduced == [First EXCEPT !.listeners = <<Wild, Rest, Stream, Pass>>,
                         !.secret = @ \ {"sso"}]
MCConfigs == <<First, Rotated, Reduced>>

\* EndpointSlices.
Slice(ns, service, addresses) ==
    [ns |-> ns, service |-> service, ipv4 |-> TRUE, ports |-> {80},
     endpoints |-> {[address |-> a, ready |-> "yes", terminating |-> "no"] : a \in addresses}]

Full == {Slice("apps", "api", {1, 2}), Slice("apps", "web", {3}), Slice("audit", "web", {4})}
Drained == {Slice("apps", "api", {2}), Slice("apps", "web", {}), Slice("audit", "web", {4})}
MCWorlds == {Full, Drained}

\* Requests; those of the first slot share a rule with those of the second.
In(sni, host, path, peer, chain) ==
    [port |-> 443, sni |-> sni, host |-> host, path |-> path, method |-> "GET", headers |-> {},
     params |-> {}, grpc |-> FALSE, peer |-> peer, chain |-> chain, body |-> 0,
     credentials |-> FALSE, clean |-> TRUE]

Visit == In(Blog, Blog, <<"home">>, "lb", <<"ann", "malformed", "cdn">>)

MCInputs == <<{Visit}, {
    Visit,
    [In(Shop, Shop, <<"cart">>, "lb", <<"eve", "ann">>) EXCEPT !.body = 2, !.method = "POST"],
    In(Shop, Shop, <<"home">>, "ann", <<"eve">>),
    In(Blog, Blog, <<"old">>, "lb", <<>>),
    In(Blog, Shop, <<"cart">>, "ann", <<>>),
    [In(Shop, Shop, <<"Svc", "Get">>, "lb", <<>>) EXCEPT !.grpc = TRUE],
    In(<<>>, <<"org">>, <<"app">>, "lb", <<"cdn">>),
    [In(<<>>, <<"org">>, <<"app">>, "ann", <<>>) EXCEPT
        !.method = "OPTIONS", !.headers = {"Origin"}],
    [In(<<>>, <<"org">>, <<"app", "a">>, "lb", <<>>) EXCEPT !.credentials = TRUE],
    [In(<<>>, <<"org">>, <<"app">>, "ann", <<>>) EXCEPT !.credentials = TRUE, !.clean = FALSE],
    In(<<>>, <<"org">>, <<"_auth", "login">>, "ann", <<>>)}>>
=============================================================================
