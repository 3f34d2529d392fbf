------------------------------ MODULE Statuses ------------------------------
(***************************************************************************)
(* Reconciliation passes seen from the objects they read and report on     *)
(* (engine.go, status.go, listenersets.go and backendtls.go of             *)
(* gatewayapi).  A pass lists one kind of object after the other while     *)
(* users edit them, compiles what it saw, publishes it, and writes a       *)
(* status to each object: a fresh read, a merge, and an update the API     *)
(* server refuses when the object changed in between.  Another controller  *)
(* keeps entries of its own in the statuses of routes and policies.        *)
(***************************************************************************)
EXTENDS RouteRules, FiniteSets

CONSTANTS
    Sets, Routes, Policies,  \* names of ListenerSets, routes and policies
    Namespace,               \* the namespace of each object
    Rank,                    \* the place of each object in the order of names
    Menu,                    \* the specs each object may be given
    Start,                   \* the clusters to start from: specs of some objects
    Grants,                  \* the ReferenceGrants users may create
    Fixed,                   \* the rest of the snapshot, which stays as it is
    MaxTries,                \* attempts at a status update
    MaxAncestors,            \* ancestors in the status of a policy
    MaxEdits,                \* edits by users, the first one included
    MaxMishaps               \* failed calls and entries of the other controller

Gateway == "gateway"

Objects == {Gateway} \cup Sets \cup Routes \cup Policies

Absent == [uid |-> 0]

VARIABLES
    object,     \* the objects: creation time, generation, stamps and spec
    grants,     \* the ReferenceGrants there are
    acked,      \* every pod acknowledged the published generation
    status,     \* the status of each object
    config,     \* the configuration last published
    stage,      \* where the pass stands
    seen,       \* what it has listed so far
    plan,       \* what it compiled
    queue,      \* objects whose status it has still to write
    draft,      \* the status it is about to write to the first of them
    touched,    \* someone wrote to that object since it was read
    tries,      \* attempts at that object
    settled,    \* (auxiliary) the last pass left nothing to report
    now,        \* the clock of creation times, in seconds
    edits, mishaps

worldVars == <<object, grants, acked, now, edits>>

passVars == <<stage, seen, plan, queue, draft, touched, tries, settled>>

vars == <<worldVars, status, config, passVars, mishaps>>

Exists(o) == object[o] # Absent

-----------------------------------------------------------------------------
\* What a pass compiles from its snapshot.

NoGateway(w) == w.gateway.spec.params = "absent"

\* The early return of reconcileGateway: parameters or address types that
\* are refused.
Refused(w) == w.gateway.spec.params \in {"invalid", "unsupportedAddress"}

Compiled(w, ls) == [w |-> w, listeners |-> ls, outcomes |-> Outcomes(w, ls)]

\* reconcileGateway up to the publication.
Compile(w) ==
    IF NoGateway(w) \/ Refused(w) THEN [w |-> w, listeners |-> <<>>, outcomes |-> <<>>]
    ELSE Compiled(w, ValidateListeners(w))

\* publishGeneration: the valid listeners, and one attachment per route
\* that merges the listeners of its parents.
Published(p) ==
    LET reached == {i \in DOMAIN p.outcomes : p.outcomes[i].listeners # {}}
        Of(r) == {i \in reached : p.outcomes[i].route = r}
        First(r) == CHOOSE i \in Of(r) : \A j \in Of(r) : i <= j
        names == {p.outcomes[i].route : i \in reached}
    IN  [listeners |-> {EffectiveName(l.owner, l.spec) : l \in {k \in ToSet(p.listeners) : Valid(k)}},
         routes |-> {[uid |-> (CHOOSE x \in p.w.routes : x.name = r).uid,
                      listeners |-> UNION {p.outcomes[i].listeners : i \in Of(r)},
                      rules |-> p.outcomes[First(r)].rules] : r \in names}]

SelectedSets(p) ==
    IF NoGateway(p.w) \/ Refused(p.w) THEN <<>>
    ELSE [i \in DOMAIN SelectListenerSets(p.w) |-> SelectListenerSets(p.w)[i].name]

\* The statuses sync writes, in its order; a failed publication leaves out
\* those of the Gateway and its sets.
StatusQueue(p, published) ==
    LET routes == SetToSortSeq(p.w.routes, LAMBDA a, b : a.rank < b.rank)
        policies == SetToSortSeq(p.w.policies, Precedes)
    IN  (IF NoGateway(p.w) \/ ~published THEN <<>> ELSE SelectedSets(p) \o <<Gateway>>)
          \o [i \in DOMAIN routes |-> routes[i].name]
          \o [i \in DOMAIN policies |-> policies[i].name]

-----------------------------------------------------------------------------
\* The statuses.

Cond(ok, reason, obs) == [ok |-> ok, reason |-> reason, obs |-> obs]

\* mergeConditions: exactly the desired types remain.  Transition times are
\* left out.
MergeConditions(existing, desired) == desired

OwnListeners(p, owner) == SelectSeq(p.listeners, LAMBDA l : l.owner = owner)

AttachedRoutes(p, l) ==
    Cardinality({k \in DOMAIN p.outcomes : \E i \in p.outcomes[k].admitted : p.listeners[i] = l})

\* One entry of status.listeners: judged from the snapshot, stamped with
\* the generation of the object as it is now.
ListenerEntry(p, l, gen) ==
    [name |-> l.spec.name, accepted |-> l.reason, refs |-> l.refs, kinds |-> l.kinds,
     attached |-> AttachedRoutes(p, l), programmed |-> Valid(l) /\ p.w.acked, obs |-> gen]

Entries(p, owner, gen) ==
    LET own == OwnListeners(p, owner)
    IN  [i \in DOMAIN own |-> ListenerEntry(p, own[i], gen)]

\* Those of a ListenerSet also say which listeners lost a conflict.
SetEntries(p, owner, gen) ==
    LET own == OwnListeners(p, owner)
    IN  [i \in DOMAIN own |->
            [conflicted |-> own[i].conflicted] @@ ListenerEntry(p, own[i], gen)]

AnyValid(ls) == \E l \in ToSet(ls) : Valid(l)

\* resolveBackendClientCert, in every path of reconcileGateway.
ClientCertReason(w) ==
    LET Check(ref) ==
            IF ref.kind # "Secret" THEN "InvalidClientCertificateRef"
            ELSE IF ref.ns # w.gateway.ns /\ ~ReferenceGrantAllows(w, "Gateway", w.gateway.ns, ref)
                 THEN "RefNotPermitted"
            ELSE IF ref \in w.wellFormed THEN Resolved ELSE "InvalidClientCertificateRef"
    IN  FirstReason(w.gateway.spec.clientCert, Check)

\* gatewayConditions
GatewayConditions(p) ==
    LET obs == p.w.gateway.gen
        params == p.w.gateway.spec.params
        own == OwnListeners(p, GatewayOwner(p.w))
        accepted == IF params = "invalid" THEN Cond(FALSE, "InvalidParameters", obs)
                    ELSE IF params = "unsupportedAddress"
                         THEN Cond(FALSE, "UnsupportedAddress", obs)
                    ELSE IF ~AnyValid(p.listeners) THEN Cond(FALSE, "ListenersNotValid", obs)
                    ELSE IF \E l \in ToSet(own) : ~Valid(l)
                         THEN Cond(TRUE, "ListenersNotValid", obs)
                    ELSE Cond(TRUE, "Accepted", obs)
        programmed == IF Refused(p.w) THEN accepted
                      ELSE IF params = "unusableAddress" THEN Cond(FALSE, "AddressNotUsable", obs)
                      ELSE IF ~AnyValid(p.listeners) THEN Cond(FALSE, "Invalid", obs)
                      ELSE IF p.w.acked THEN Cond(TRUE, "Programmed", obs)
                      ELSE Cond(FALSE, "Pending", obs)
    IN  [Accepted |-> accepted, Programmed |-> programmed,
         ResolvedRefs |-> Cond(ClientCertReason(p.w) = Resolved, ClientCertReason(p.w), obs)]

InsecureFallback(p) == \E l \in ToSet(p.listeners) : l.mode = "AllowInsecureFallback"

AttachedSets(p) ==
    Cardinality({i \in DOMAIN SelectedSets(p) :
        LET set == SelectListenerSets(p.w)[i]
        IN  ListenerSetAllowed(p.w, set) /\ AnyValid(OwnListeners(p, SetOwner(set)))})

\* writeGatewayStatus
GatewayStatus(p, old, gen) ==
    LET conds == MergeConditions(old.conds, GatewayConditions(p))
        insecure == [InsecureFrontendValidationMode |-> Cond(TRUE, "ConfigurationChanged", gen)]
    IN  [conds |-> IF InsecureFallback(p) THEN MergeConditions(conds, insecure) ELSE conds,
         listeners |-> Entries(p, GatewayOwner(p.w), gen),
         sets |-> IF Refused(p.w) \/ p.w.gateway.spec.allowedListeners = "" THEN old.sets
                  ELSE AttachedSets(p)]

\* writeListenerSetStatuses
SetStatus(p, set, old, gen) ==
    LET allowed == ListenerSetAllowed(p.w, set)
        valid == AnyValid(OwnListeners(p, SetOwner(set)))
        reason == IF ~allowed THEN "NotAllowed"
                  ELSE IF ~valid THEN "ListenersNotValid"
                  ELSE "Accepted"
        programmed == IF reason # "Accepted" THEN Cond(FALSE, reason, set.gen)
                      ELSE Cond(p.w.acked, IF p.w.acked THEN "Programmed" ELSE "Pending", set.gen)
    IN  [conds |-> MergeConditions(old.conds,
                       [Accepted |-> Cond(reason = "Accepted", reason, set.gen),
                        Programmed |-> programmed]),
         listeners |-> SetEntries(p, SetOwner(set), gen)]

\* (mutant) A parent's entry carries the generation the route has now.
ParentsAsOfNow(p, route, gen) ==
    LET own == SelectSeq(p.outcomes, LAMBDA x : x.route = route.name)
    IN  [i \in DOMAIN own |-> [parent |-> own[i].parent, accepted |-> own[i].accepted,
                               refs |-> own[i].refs, uid |-> route.uid, obs |-> gen]]

\* parentStatuses: the entries carry the generation the pass saw.  uid is
\* not part of an entry; it tells for which object it was computed.
ParentStatuses(p, route, gen) ==
    LET own == SelectSeq(p.outcomes, LAMBDA x : x.route = route.name)
    IN  [i \in DOMAIN own |-> [parent |-> own[i].parent, accepted |-> own[i].accepted,
                               refs |-> own[i].refs, uid |-> route.uid, obs |-> route.gen]]

\* collectBackendTLSAncestors: every parent, taken for a Gateway, of a route
\* that has a backend under the policy.
Ancestors(p, policy) ==
    LET Under(b) == \E t \in ToSet(policy.spec.targets) :
                       t.kind = "Service" /\ b.ns = policy.ns /\ b.name = t.name
        Reaches(x) == \E r \in ToSet(x.rules) : \E b \in ToSet(r.backends) : Under(b)
    IN  {[ns |-> x.parent.ns, name |-> x.parent.name] : x \in {y \in ToSet(p.outcomes) : Reaches(y)}}

\* writeBackendTLSPolicyStatuses: what room the entries of others leave is
\* for the first ancestors in the order of names.
AncestorStatuses(p, policy, old) ==
    LET ancestors == SetToSortSeq(Ancestors(p, policy), LAMBDA a, b : Rank[a.name] < Rank[b.name])
        room == MaxAncestors - old.others
    IN  [i \in 1 .. (IF Len(ancestors) < room THEN Len(ancestors) ELSE room) |->
            [ancestor |-> ancestors[i], accepted |-> PolicyReason(p.w, policy),
             refs |-> PolicyValidation(p.w, policy).refs, obs |-> policy.gen]]

NoConditions == [t \in {} |-> Cond(FALSE, "", 0)]

EmptyStatus(o) ==
    CASE o = Gateway -> [conds |-> NoConditions, listeners |-> <<>>, sets |-> 0]
      [] o \in Sets -> [conds |-> NoConditions, listeners |-> <<>>]
      [] OTHER -> [ours |-> <<>>, others |-> 0]

ByName(objects, o) == CHOOSE x \in objects : x.name = o

\* The status the pass gives an object of which it reads the status old and
\* the generation gen.  mergeParentStatuses keeps the others' entries.
Desired(p, o, old, gen) ==
    CASE o = Gateway -> GatewayStatus(p, old, gen)
      [] o \in Sets -> SetStatus(p, ByName(p.w.sets, o), old, gen)
      [] o \in Routes -> [ours |-> ParentStatuses(p, ByName(p.w.routes, o), gen),
                          others |-> old.others]
      [] OTHER -> [ours |-> AncestorStatuses(p, ByName(p.w.policies, o), old),
                   others |-> old.others]

-----------------------------------------------------------------------------
\* The objects as a list call returns them.
Listed(names) ==
    {[name |-> o, ns |-> Namespace[o], rank |-> Rank[o], uid |-> object[o].uid,
      created |-> object[o].created, gen |-> object[o].gen, spec |-> object[o].spec] :
        o \in {x \in names : Exists(x)}}

AbsentGateway ==
    [name |-> Gateway, ns |-> Namespace[Gateway], gen |-> 0, spec |-> [params |-> "absent"]]

ListedGateway ==
    IF Exists(Gateway) THEN CHOOSE g \in Listed({Gateway}) : TRUE ELSE AbsentGateway

NoSnapshot == [stage |-> "none"]

\* A snapshot taken at one moment.
Snapshot ==
    [gateway |-> ListedGateway, routes |-> Listed(Routes), policies |-> Listed(Policies),
     sets |-> Listed(Sets), grants |-> grants, acked |-> acked] @@ Fixed

Init ==
    /\ \E specs \in Start :
          object = [o \in Objects |->
                       IF o \in DOMAIN specs
                       THEN [uid |-> 1, at |-> 1, created |-> 1, gen |-> 1, spec |-> specs[o]]
                       ELSE Absent]
    /\ grants = {} /\ acked = FALSE
    /\ status = [o \in Objects |-> EmptyStatus(o)]
    /\ config = [listeners |-> {}, routes |-> {}]
    /\ stage = "idle" /\ seen = NoSnapshot /\ plan = NoSnapshot
    /\ queue = <<>> /\ draft = NoSnapshot /\ touched = FALSE /\ tries = 0 /\ settled = FALSE
    /\ now = 1 /\ edits = 1 /\ mishaps = 0

-----------------------------------------------------------------------------
\* Users.  Every edit has a number; an object keeps those of its creation
\* (uid) and of its last change of spec (at).

Edit ==
    /\ edits < MaxEdits
    /\ edits' = edits + 1

\* A write to an object the pass has read but not yet updated.
Touch(o) == touched' = (touched \/ (draft # NoSnapshot /\ Head(queue) = o))

Untouched == <<stage, seen, plan, queue, draft, tries, settled>>

Create(o, spec, t) ==
    /\ Edit
    /\ ~Exists(o)
    /\ object' = [object EXCEPT ![o] = [uid |-> edits', at |-> edits', created |-> t,
                                        gen |-> 1, spec |-> spec]]
    /\ now' = t
    /\ Touch(o)
    /\ UNCHANGED <<grants, acked, status, config, Untouched, mishaps>>

Change(o, spec) ==
    /\ Edit
    /\ Exists(o) /\ object[o].spec # spec
    /\ object' = [object EXCEPT ![o].spec = spec, ![o].gen = @ + 1, ![o].at = edits']
    /\ Touch(o)
    /\ UNCHANGED <<grants, acked, now, status, config, Untouched, mishaps>>

Delete(o) ==
    /\ Edit
    /\ Exists(o)
    /\ object' = [object EXCEPT ![o] = Absent]
    /\ status' = [status EXCEPT ![o] = EmptyStatus(o)]
    /\ Touch(o)
    /\ UNCHANGED <<grants, acked, now, config, Untouched, mishaps>>

ToggleGrant(g) ==
    /\ Edit
    /\ grants' = IF g \in grants THEN grants \ {g} ELSE grants \cup {g}
    /\ UNCHANGED <<object, acked, now, status, config, passVars, mishaps>>

\* The data planes acknowledge, or no longer do.
Acknowledge ==
    /\ Edit
    /\ acked' = ~acked
    /\ UNCHANGED <<object, grants, now, status, config, passVars, mishaps>>

Mishap ==
    /\ mishaps < MaxMishaps
    /\ mishaps' = mishaps + 1

\* The other controller adds an entry of its own.
ForeignEntry(o) ==
    /\ Mishap
    /\ o \in Routes \cup Policies /\ Exists(o)
    /\ Len(status[o].ours) + status[o].others < MaxAncestors
    /\ status' = [status EXCEPT ![o].others = @ + 1]
    /\ Touch(o)
    /\ UNCHANGED <<worldVars, config, Untouched>>

-----------------------------------------------------------------------------
\* The pass.  gatherWorld lists the kinds one after the other.

outsidePass == <<worldVars, status, config>>

List(from, to, part) ==
    /\ stage = from
    /\ stage' = to
    /\ seen' = IF from = "idle" THEN part ELSE part @@ seen
    /\ UNCHANGED <<outsidePass, plan, queue, draft, touched, tries, settled, mishaps>>

\* (mutant) Policies are listed before routes.
GatherPoliciesFirst ==
    \/ List("idle", "routes", [gateway |-> ListedGateway, policies |-> Listed(Policies)])
    \/ List("routes", "sets", [routes |-> Listed(Routes)])
    \/ List("sets", "refs", [sets |-> Listed(Sets)])
    \/ List("refs", "compile", [grants |-> grants, acked |-> acked])

\* gatherWorld: Gateways, routes, policies, ListenerSets, the rest.
GatherWorld ==
    \/ List("idle", "routes", [gateway |-> ListedGateway])
    \/ List("routes", "policies", [routes |-> Listed(Routes)])
    \/ List("policies", "sets", [policies |-> Listed(Policies)])
    \/ List("sets", "refs", [sets |-> Listed(Sets)])
    \/ List("refs", "compile", [grants |-> grants, acked |-> acked])

Lists == {"routes", "policies", "sets", "refs"}

\* A list call fails: the pass ends.
GatherFails ==
    /\ stage \in Lists
    /\ Mishap
    /\ stage' = "idle" /\ seen' = NoSnapshot
    /\ UNCHANGED <<outsidePass, plan, queue, draft, touched, tries, settled>>

StartWriting(p, published) ==
    /\ stage' = "write"
    /\ plan' = p /\ seen' = NoSnapshot
    /\ queue' = StatusQueue(p, published)
    /\ UNCHANGED <<worldVars, status, draft, touched, tries, settled>>

\* reconcileGateway: compile and publish.
Publish ==
    /\ stage = "compile"
    /\ \E p \in {Compile(seen @@ Fixed)} :
          /\ config' = IF NoGateway(p.w) \/ Refused(p.w) THEN config ELSE Published(p)
          /\ StartWriting(p, TRUE)
    /\ UNCHANGED mishaps

\* The publication fails: neither the Gateway nor its sets are reported on.
PublishFails ==
    /\ stage = "compile"
    /\ Mishap
    /\ \E p \in {Compile(seen @@ Fixed)} :
          ~NoGateway(p.w) /\ ~Refused(p.w) /\ StartWriting(p, FALSE)
    /\ UNCHANGED config

\* On to the next object, or to the next pass.
NextStatus ==
    /\ queue' = Tail(queue)
    /\ draft' = NoSnapshot /\ touched' = FALSE /\ tries' = 0
    /\ UNCHANGED <<stage, seen, plan, settled>>

EndPass ==
    /\ stage = "write" /\ queue = <<>>
    /\ stage' = "idle" /\ plan' = NoSnapshot
    /\ settled' = /\ plan.w = Snapshot
                  /\ \A o \in ToSet(StatusQueue(plan, TRUE)) :
                        Desired(plan, o, status[o], object[o].gen) = status[o]
    /\ UNCHANGED <<outsidePass, seen, queue, draft, touched, tries, mishaps>>

\* (mutant) Only objects without a status are reported on.
ReadOnce ==
    /\ stage = "write" /\ queue # <<>> /\ draft = NoSnapshot
    /\ LET o == Head(queue)
       IN  IF Exists(o) /\ status[o] = EmptyStatus(o)
           THEN /\ draft' = Desired(plan, o, status[o], object[o].gen) /\ touched' = FALSE
                /\ UNCHANGED <<stage, seen, plan, queue, tries, settled>>
           ELSE NextStatus
    /\ UNCHANGED <<outsidePass, mishaps>>

\* RetryOnConflict, first half: read the object, merge, and leave it alone
\* when it is gone or nothing changes.
ReadStatus ==
    /\ stage = "write" /\ queue # <<>> /\ draft = NoSnapshot
    /\ LET o == Head(queue)
           desired == Desired(plan, o, status[o], object[o].gen)
       IN  IF Exists(o) /\ desired # status[o]
           THEN /\ draft' = desired /\ touched' = FALSE
                /\ UNCHANGED <<stage, seen, plan, queue, tries, settled>>
           ELSE NextStatus
    /\ UNCHANGED <<outsidePass, mishaps>>

\* (mutant) The update does not carry the version that was read.
UpdateBlindly ==
    /\ stage = "write" /\ draft # NoSnapshot
    /\ status' = IF Exists(Head(queue)) THEN [status EXCEPT ![Head(queue)] = draft] ELSE status
    /\ NextStatus
    /\ UNCHANGED <<worldVars, config, mishaps>>

\* Second half: the update is refused when the object was written to, and
\* tried again a bounded number of times.
UpdateStatus ==
    /\ stage = "write" /\ draft # NoSnapshot
    /\ IF touched /\ Exists(Head(queue))
       THEN /\ status' = status
            /\ IF tries + 1 < MaxTries
               THEN /\ draft' = NoSnapshot /\ touched' = FALSE /\ tries' = tries + 1
                    /\ UNCHANGED <<stage, seen, plan, queue, settled>>
               ELSE NextStatus
       ELSE /\ status' = IF Exists(Head(queue)) THEN [status EXCEPT ![Head(queue)] = draft]
                         ELSE status
            /\ NextStatus
    /\ UNCHANGED <<worldVars, config, mishaps>>

\* The API server fails an update: it is logged and the pass goes on.
UpdateFails ==
    /\ stage = "write" /\ draft # NoSnapshot
    /\ Mishap
    /\ NextStatus
    /\ UNCHANGED outsidePass

Pass == GatherWorld \/ Publish \/ ReadStatus \/ UpdateStatus \/ EndPass

User ==
    \/ \E o \in Objects : \E spec \in Menu[o] : \E t \in {now, now + 1} : Create(o, spec, t)
    \/ \E o \in Objects : \E spec \in Menu[o] : Change(o, spec)
    \/ \E o \in Objects : Delete(o)
    \/ \E g \in Grants : ToggleGrant(g)
    \/ Acknowledge
    \/ \E o \in Objects : ForeignEntry(o)

Next == Pass \/ GatherFails \/ PublishFails \/ UpdateFails \/ User

\* Every step of a pass changes these, and no step of a user does.
progress == <<stage, queue, draft>>

\* A pass can always take its next step, and faults are bounded, so that
\* weak fairness of Pass is that there are always further steps of a pass.
Spec == Init /\ [][Next]_vars /\ []<><<TRUE>>_progress

-----------------------------------------------------------------------------
\* Properties.

AcceptedNames(w) ==
    IF NoGateway(w) \/ Refused(w) THEN {}
    ELSE {EffectiveName(l.owner, l.spec) : l \in {k \in ToSet(ValidateListeners(w)) : Accepted(k)}}

\* A ListenerSet created later than all others takes no listener away from
\* the Gateway or from another set (selectListenerSets, validateListeners).
SeniorsKeepListeners ==
    [][\A s \in Sets :
          ~Exists(s) /\ object'[s] # Absent
            /\ (\A r \in Sets : Exists(r) => object[r].created < object'[s].created)
          => AcceptedNames(Snapshot) \subseteq AcceptedNames(Snapshot')]_vars

\* The entries another controller keeps in a status are never lost or
\* altered, however its writes fall between the reads and updates of a pass
\* (mergeParentStatuses, writeBackendTLSPolicyStatuses, RetryOnConflict).
OthersKept ==
    [][\A o \in Routes \cup Policies :
          Exists(o) /\ object'[o] # Absent => status'[o].others >= status[o].others]_vars

\* An entry in the status of a route that claims to have observed the
\* present generation of that very object is about a parent its present
\* spec names (parentStatuses).
RoutesCurrent ==
    \A r \in Routes : Exists(r) =>
        \A e \in ToSet(status[r].ours) :
            e.uid = object[r].uid /\ e.obs = object[r].gen =>
                e.parent \in ToSet(object[r].spec.parents)

\* A backend is never published in the clear when a policy for its Service
\* was there, as it is now, before its route was created: gatherWorld lists
\* policies after routes (gatherWorld, backendTLSFor).
PoliciesPrecedeRoutes ==
    \A x \in config.routes : \A r \in ToSet(x.rules) : \A b \in ToSet(r.backends) :
        \A q \in Policies :
            /\ b.valid
            /\ Exists(q) /\ object[q].at < x.uid
            /\ Namespace[q] = b.ns
            /\ \E t \in ToSet(object[q].spec.targets) :
                   t.kind = "Service" /\ t.name = b.name /\ t.section = ""
            => b.tls # "none"

\* Once users leave the objects alone, every pass finds the statuses as it
\* would write them, so that none writes again (Sync, a level-triggered pass
\* which makes up for failed and refused updates).
Settles == <>[]settled

\* A Gateway that has been reported on has its Accepted and Programmed
\* conditions (writeGatewayStatus).
GatewayReported ==
    DOMAIN status[Gateway].conds # {} => {"Accepted", "Programmed"} \subseteq DOMAIN status[Gateway].conds
=============================================================================
