----------------------------- MODULE Attachment -----------------------------
(***************************************************************************)
(* Which listeners a Gateway has and which of them admit a route           *)
(* (gatewayapi/compile.go, listenersets.go and types.go).  Everything here *)
(* is a function of the snapshot w that a pass gathered: the Gateway       *)
(* w.gateway, the ListenerSets w.sets, the ReferenceGrants w.grants, the   *)
(* namespaces w.labelled that the selectors select, the objects w.objects  *)
(* that exist and those of them w.wellFormed with usable content, and the  *)
(* port groups w.exhausted for which no internal port is left.  An object  *)
(* is a record of its ns, name, place in the order of names, creation time *)
(* and spec.                                                               *)
(*                                                                         *)
(* A hostname is the sequence of its labels from the last to the first, so *)
(* that "*.shop.test" is <<"test", "shop", "*">>; none is <<>>.  A name    *)
(* made of parts joined by "--" is the sequence of its parts.              *)
(***************************************************************************)
EXTENDS Naturals, SequencesExt

Resolved == "ResolvedRefs"

\* The first reason Check gives for the items of a list, in their order.
FirstReason(items, Check(_)) ==
    LET i == SelectInSeq(items, LAMBDA x : Check(x) # Resolved)
    IN  IF i = 0 THEN Resolved ELSE Check(items[i])

\* referenceGrantAllows
ReferenceGrantAllows(w, kind, ns, ref) ==
    \E g \in w.grants :
        /\ g.ns = ref.ns
        /\ [kind |-> kind, ns |-> ns] \in g.from
        /\ \E to \in g.to : to.kind = ref.kind /\ to.name \in {"", ref.name}

-----------------------------------------------------------------------------
\* wildcardMatches
WildcardMatches(pattern, host) ==
    IF pattern # <<>> /\ Last(pattern) = "*"
    THEN IsStrictPrefix(Front(pattern), host)
    ELSE pattern = host

\* hostnamesIntersect
HostnamesIntersect(listenerHostname, routeHostnames) ==
    \/ listenerHostname = <<>>
    \/ routeHostnames = <<>>
    \/ \E h \in ToSet(routeHostnames) :
           \/ WildcardMatches(listenerHostname, h)
           \/ WildcardMatches(h, listenerHostname)

-----------------------------------------------------------------------------
\* protocolRouteKinds
ProtocolRouteKinds(protocol) ==
    CASE protocol \in {"HTTP", "HTTPS"} -> {"HTTPRoute", "GRPCRoute"}
      [] protocol = "TCP" -> {"TCPRoute"}
      [] protocol = "UDP" -> {"UDPRoute"}
      [] protocol = "TLS" -> {"TLSRoute"}
      [] OTHER -> {}

\* The protocol switch of validateListener.
ProtocolReason(spec) ==
    CASE spec.protocol \in {"HTTP", "HTTPS", "TCP", "UDP"} -> "Accepted"
      [] spec.protocol = "TLS" ->
             IF spec.mode \in {"Passthrough", "Terminate"} THEN "Accepted" ELSE "UnsupportedValue"
      [] OTHER -> "UnsupportedProtocol"

\* listenerTerminatesTLS
TerminatesTLS(spec) == spec.protocol = "TLS" /\ spec.mode = "Terminate"

\* resolveRouteKinds: the kinds a listener admits.
AllowedKinds(spec) ==
    IF spec.kinds = {} THEN ProtocolRouteKinds(spec.protocol)
    ELSE spec.kinds \cap ProtocolRouteKinds(spec.protocol)

\* resolveRouteKinds: whether it was asked for more than it can serve.
RouteKindsReason(spec) ==
    IF spec.kinds \subseteq ProtocolRouteKinds(spec.protocol) THEN Resolved
    ELSE "InvalidRouteKinds"

\* resolveCertificates: references resolve in the namespace of the owner,
\* and a grant must name the owner's kind.
CertificatesReason(w, owner, spec) ==
    LET Check(ref) ==
            IF ref.kind # "Secret" THEN "InvalidCertificateRef"
            ELSE IF ref.ns # owner.ns /\ ~ReferenceGrantAllows(w, owner.kind, owner.ns, ref)
                 THEN "RefNotPermitted"
            ELSE IF ref \in w.wellFormed THEN Resolved ELSE "InvalidCertificateRef"
    IN  IF spec.certs = <<>> THEN "InvalidCertificateRef" ELSE FirstReason(spec.certs, Check)

\* frontendValidationFor: the entry of the port, or the default.
FrontendValidationFor(gateway, port) ==
    IF port \in DOMAIN gateway.spec.perPort THEN gateway.spec.perPort[port]
    ELSE gateway.spec.default

NoValidation == [cas |-> <<>>, mode |-> ""]

\* resolveFrontendValidation: the CAs belong to the Gateway whoever owns the
\* listener, and one usable certificate among them is enough.
FrontendReason(w, validation) ==
    LET Check(ref) ==
            IF ref.kind # "ConfigMap" THEN "InvalidCACertificateKind"
            ELSE IF ref.ns # w.gateway.ns /\ ~ReferenceGrantAllows(w, "Gateway", w.gateway.ns, ref)
                 THEN "RefNotPermitted"
            ELSE IF ref \in w.objects THEN Resolved ELSE "InvalidCACertificateRef"
        found == FirstReason(validation.cas, Check)
    IN  IF validation = NoValidation THEN Resolved
        ELSE IF found # Resolved THEN found
        ELSE IF ToSet(validation.cas) \cap w.wellFormed # {} THEN Resolved
             ELSE "InvalidCACertificateRef"

\* effectiveName: unique only as long as no part holds the separator.
EffectiveName(owner, spec) ==
    IF owner.kind = "Gateway" THEN spec.name ELSE owner.name \o spec.name

\* validateListener, without its allocation of a port.
ResolvedListener(w, owner, spec) ==
    LET protocol == ProtocolReason(spec)
        kinds == IF protocol = "Accepted" THEN RouteKindsReason(spec) ELSE Resolved
        certs == IF kinds = Resolved /\ (spec.protocol = "HTTPS" \/ TerminatesTLS(spec))
                 THEN CertificatesReason(w, owner, spec) ELSE kinds
        validation == FrontendValidationFor(w.gateway, spec.port)
        validated == certs = Resolved /\ spec.protocol = "HTTPS"
        refs == IF validated THEN FrontendReason(w, validation) ELSE certs
    IN  [owner |-> owner, spec |-> spec,
         reason |-> IF validated /\ refs # Resolved THEN "NoValidCACertificate" ELSE protocol,
         refs |-> refs,
         kinds |-> IF protocol = "Accepted" THEN AllowedKinds(spec) ELSE {},
         mode |-> IF validated /\ refs = Resolved THEN validation.mode ELSE "",
         conflicted |-> FALSE]

\* validateListener: a listener without an internal port is refused last,
\* and keeps what was resolved for it.
ValidateListener(w, owner, spec) ==
    LET l == ResolvedListener(w, owner, spec)
    IN  IF <<spec.port, spec.protocol>> \in w.exhausted
        THEN [l EXCEPT !.reason = "PortUnavailable"] ELSE l

Accepted(l) == l.reason = "Accepted"

\* listenerState.valid
Valid(l) == Accepted(l) /\ l.refs = Resolved

\* The conflict of rejectConflictingListeners between a listener and one
\* that holds its port.
ConflictReason(held, l) ==
    IF held.spec.port # l.spec.port THEN ""
    ELSE IF held.spec.protocol # l.spec.protocol THEN "ProtocolConflict"
    ELSE IF held.spec.hostname = l.spec.hostname THEN "HostnameConflict"
    ELSE ""

\* rejectConflictingListeners: in order of precedence, a listener in
\* conflict with an accepted one before it is refused and serves nothing.
RejectConflictingListeners(ls) ==
    LET Judge(done, l) ==
            LET i == SelectInSeq(done, LAMBDA h : Accepted(h) /\ ConflictReason(h, l) # "")
            IN  IF Accepted(l) /\ i # 0
                THEN Append(done, [l EXCEPT !.reason = ConflictReason(done[i], l),
                                            !.kinds = {}, !.conflicted = TRUE])
                ELSE Append(done, l)
    IN  FoldLeft(Judge, <<>>, ls)

-----------------------------------------------------------------------------
\* The namespaces a policy of a Gateway or a listener selects.
NamespaceSelected(w, from, ns, ownerNs) ==
    CASE from = "All" -> TRUE
      [] from = "Same" -> ns = ownerNs
      [] from = "Selector" -> ns \in w.labelled
      [] OTHER -> FALSE

\* listenerSetAllowed: without allowedListeners ("") no set is allowed.
ListenerSetAllowed(w, set) ==
    NamespaceSelected(w, w.gateway.spec.allowedListeners, set.ns, w.gateway.ns)

\* (mutant) Sets take precedence by name alone.
PrecedesByName(a, b) == a.rank < b.rank

\* Precedence among objects: creation time, then name.
Precedes(a, b) ==
    \/ a.created < b.created
    \/ a.created = b.created /\ a.rank < b.rank

\* selectListenerSets: the sets whose parent is the Gateway.
SelectListenerSets(w) ==
    SetToSortSeq({s \in w.sets : s.spec.parent = w.gateway.name}, Precedes)

GatewayOwner(w) == [kind |-> "Gateway", ns |-> w.gateway.ns, name |-> <<w.gateway.name>>]

SetOwner(set) == [kind |-> "ListenerSet", ns |-> set.ns, name |-> <<set.ns, set.name>>]

\* validateListeners before the conflicts are settled: the Gateway's own
\* listeners, then those of the allowed sets in precedence order.
MergedListeners(w) ==
    LET Validated(owner, specs) ==
            [i \in DOMAIN specs |-> ValidateListener(w, owner, specs[i])]
        allowed == SelectSeq(SelectListenerSets(w), LAMBDA s : ListenerSetAllowed(w, s))
    IN  Validated(GatewayOwner(w), w.gateway.spec.listeners)
          \o FlattenSeq([i \in DOMAIN allowed |->
                 Validated(SetOwner(allowed[i]), allowed[i].spec.listeners)])

\* validateListeners
ValidateListeners(w) == RejectConflictingListeners(MergedListeners(w))

-----------------------------------------------------------------------------
\* resolveRouteParent: the owner a parent reference of a route names, if it
\* is the Gateway or a set that targets it, allowed or not.
ResolvesParent(w, ref) ==
    \/ ref.kind = "Gateway" /\ ref.ns = w.gateway.ns /\ ref.name = w.gateway.name
    \/ /\ ref.kind = "ListenerSet"
       /\ \E s \in ToSet(SelectListenerSets(w)) : s.ns = ref.ns /\ s.name = ref.name

\* listenersOwnedBy, of the owner a reference names.
OwnedBy(l, ref) ==
    /\ l.owner.kind = ref.kind
    /\ l.owner.name = IF ref.kind = "Gateway" THEN <<ref.name>> ELSE <<ref.ns, ref.name>>

\* The narrowing of admitListeners by section and port.
Targets(l, ref) ==
    /\ OwnedBy(l, ref)
    /\ ref.section \in {<<>>, l.spec.name}
    /\ ref.port \in {0, l.spec.port}

\* admitListeners and admitByHostname: the rungs of the admission ladder,
\* each a set of indices into the listeners.
Candidates(ls, ref) == {i \in DOMAIN ls : Targets(ls[i], ref)}

KindAdmitted(ls, ref, kind) == {i \in Candidates(ls, ref) : kind \in ls[i].kinds}

NamespaceAdmitted(w, ls, ref, route) ==
    {i \in KindAdmitted(ls, ref, route.spec.kind) :
        NamespaceSelected(w, ls[i].spec.from, route.ns, ls[i].owner.ns)}

\* Hostnames are compared for the kinds that have them.
Admitted(w, ls, ref, route) ==
    {i \in NamespaceAdmitted(w, ls, ref, route) :
        \/ route.spec.kind \in {"TCPRoute", "UDPRoute"}
        \/ HostnamesIntersect(ls[i].spec.hostname, route.spec.hostnames)}

\* Why a route is not admitted, "" if it is.
AdmissionReason(w, ls, ref, route) ==
    IF Candidates(ls, ref) = {} THEN "NoMatchingParent"
    ELSE IF NamespaceAdmitted(w, ls, ref, route) = {} THEN "NotAllowedByListeners"
    ELSE IF Admitted(w, ls, ref, route) = {} THEN "NoMatchingListenerHostname"
    ELSE ""
=============================================================================
