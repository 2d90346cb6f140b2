----------------------- MODULE RequestPipelineProofs -----------------------
(* Proofs about RequestPipeline, for any set of API keys and any assignment *)
(* of scopes to them.                                                       *)
EXTENDS RequestPipeline, TLAPS

\* What a request that has passed CheckAuth carries: it is public, or comes from
\* a local developer and has the admin scope, or has the scopes of its key.
Identified ==
    \/ req.route \in Public
    \/ Tier = "local dev" /\ scopes = {"admin"}
    \/ Tier = "full auth" /\ req.token \in config.keys /\ scopes = ScopesOf[req.token]

IInv ==
    /\ TypeOK
    /\ stage = "route" => Identified
    /\ ServedIsEntitled
    /\ EntitledNotDenied


---------------------------------------------------------------------------
(* Type correctness.                                                        *)

\* Before the first request (LoadFromEnv has read the configuration).
LEMMA TypeInit == Init => TypeOK
BY DEF Init, TypeOK

\* Every step of the middleware, the routes and a restart keeps the types.
LEMMA TypeNext == TypeOK /\ [Next]_vars => TypeOK'
<1> SUFFICES ASSUME TypeOK, [Next]_vars PROVE TypeOK'
  OBVIOUS
<1> USE DEF TypeOK
<1>1. ASSUME NEW r \in Requests, Receive(r) PROVE TypeOK'
  BY <1>1 DEF Receive
<1>2. CASE RateLimit
  BY <1>2 DEF RateLimit, Refuse, Reply
<1>3. CASE CheckAuth
  <2>1. ValidKey => ScopesOf[req.token] \in SUBSET {"sessions.read", "sessions.write", "admin"}
    BY PipelineAssumption DEF ValidKey
  <2>2. scopes' \in SUBSET {"sessions.read", "sessions.write", "admin"}
    BY <1>3, <2>1 DEF CheckAuth, LocalScopes
  <2> QED BY <1>3, <2>2 DEF CheckAuth, Reply
<1>4. CASE Route
  BY <1>4 DEF Route, RouteInfo, RouteCollection, RouteByID, RouteDelete, Scoped, Manager, Create,
                Resume, Delete, Refuse, Reply
<1>5. CASE Restart
  BY <1>5 DEF Restart
<1>6. CASE UNCHANGED vars
  BY <1>6 DEF vars
<1> QED BY <1>1, <1>2, <1>3, <1>4, <1>5, <1>6 DEF Next

---------------------------------------------------------------------------
(* The decisions.                                                           *)

\* What CheckAuth lets through is identified (check.go:29-70).
LEMMA CheckAuthIdentifies ==
    ASSUME TypeOK, CheckAuth, stage' = "route" PROVE Identified'
BY DEF TypeOK, CheckAuth, Reply, Identified, Tier, Local, IsEnabled, IsLocalConnection,
       ValidKey, LocalScopes

\* What CheckAuth turns away is not recognised, so it was entitled to nothing but
\* what the documentation lists as public and publicPaths does not.
LEMMA CheckAuthRefuses ==
    ASSUME TypeOK, CheckAuth, stage' # "route"
    PROVE /\ answer' = "unauthorized" /\ ~Recognised'
          /\ Entitled' => req'.route = "serverInfo"
<1>1. answer' = "unauthorized" /\ ~Recognised' /\ UNCHANGED <<config, req>> /\ req.route \notin Public
  BY DEF TypeOK, CheckAuth, Reply, Recognised, Tier, Local, IsEnabled, IsLocalConnection, ValidKey
<1>2. Entitled' => req'.route \in DocumentedPublic
  BY <1>1 DEF Entitled, Recognised
<1> QED BY <1>1, <1>2 DEF DocumentedPublic, Public

\* A scope held by an identified request is one its key or tier grants, and a
\* scope it does not hold is not granted (requireScope, HasScope).
LEMMA ScopeDecides ==
    ASSUME TypeOK, Identified, req.route \in Reads \cup Writes
    PROVE HasScope(ScopeFor(req.route)) <=> Entitled
<1>1. req.route \notin Public \cup DocumentedPublic \cup Info \cup Other
  BY DEF Reads, Writes, Public, DocumentedPublic, Info, Other
<1>2. CASE Tier = "local dev" /\ scopes = {"admin"}
  BY <1>2 DEF HasScope, Entitled
<1>3. CASE Tier = "full auth" /\ req.token \in config.keys /\ scopes = ScopesOf[req.token]
  <2>1. Entitled <=> Grants(req.token, req.route)
    BY <1>1, <1>3 DEF Entitled
  <2>2. CASE req.route \in Reads
    BY <1>1, <1>3, <2>1, <2>2 DEF Grants, HasScope, ScopeFor, Reads, Writes
  <2>3. CASE req.route \in Writes
    BY <1>1, <1>3, <2>1, <2>3 DEF Grants, HasScope, ScopeFor, Reads, Writes
  <2> QED BY <2>2, <2>3
<1> QED BY <1>1, <1>2, <1>3 DEF Identified

\* Routes that check no scope are open to every identified request.
LEMMA UnscopedRoutes ==
    ASSUME Identified, req.route \in Public \cup Info \cup Other PROVE Entitled
BY DEF Identified, Entitled, Grants, Public, DocumentedPublic

\* What OnlyEntitledChange admits: an answer of ok to a writing route, or the
\* delete of a live session.
MayChange ==
    /\ Entitled /\ req.route \in Writes
    /\ answer' = "ok" \/ (answer' = "failed" /\ req.route = "delete" /\ session = "live")

\* A handler that checks a scope serves, and changes a session for, the entitled
\* only, and refuses as forbidden the others only.
LEMMA ScopedDecides ==
    ASSUME TypeOK, Identified, req.route \in Reads \cup Writes, Scoped(ScopeFor(req.route))
    PROVE /\ answer' = "ok" => Entitled
          /\ answer' = "forbidden" => ~Entitled
          /\ answer' # "unauthorized"
          /\ answer' # "limited"
          /\ session' # session => MayChange
<1>1. CASE ~HasScope(ScopeFor(req.route)) /\ Refuse("forbidden")
  BY <1>1, ScopeDecides DEF Refuse, Reply
<1>2. CASE HasScope(ScopeFor(req.route)) /\ ~req.valid /\ Refuse("bad_request")
  BY <1>2 DEF Refuse, Reply
<1>3. CASE HasScope(ScopeFor(req.route)) /\ req.valid /\ Manager
  <2>1. Entitled
    BY <1>3, ScopeDecides
  <2>2. answer' \in {"ok", "failed", "not_found"}
    BY <1>3 DEF Manager, Create, Resume, Delete, Refuse, Reply
  <2>3. session' # session => MayChange
    BY <1>3, <2>1 DEF MayChange, Manager, Create, Resume, Delete, Refuse, Reply, Writes
  <2> QED BY <2>1, <2>2, <2>3
<1> QED BY <1>1, <1>2, <1>3 DEF Scoped

\* The same of every route (handleSessions, handleSessionByID).
LEMMA RouteDecides ==
    ASSUME TypeOK, Identified, Route
    PROVE /\ answer' = "ok" => Entitled
          /\ answer' = "forbidden" => ~Entitled
          /\ answer' # "unauthorized"
          /\ answer' # "limited"
          /\ session' # session => MayChange
<1>1. CASE RouteInfo
  BY <1>1, UnscopedRoutes DEF RouteInfo, Refuse, Reply
<1>2. CASE RouteCollection
  BY <1>2, ScopedDecides DEF RouteCollection, Refuse, Reply, Reads, Writes
<1>3. CASE RouteByID
  <2>1. CASE RouteDelete
    BY <2>1, ScopedDecides DEF RouteDelete, Writes
  <2>2. CASE req.route = "resume" /\ Scoped(ScopeFor(req.route))
    BY <2>2, ScopedDecides DEF Writes
  <2>3. CASE req.route \in NeedsHandle /\ session = "live" /\ Scoped(ScopeFor(req.route))
    BY <2>3, ScopedDecides DEF NeedsHandle, Reads, Writes
  <2>4. CASE Refuse("not_found") \/ Refuse("not_allowed")
    BY <2>4 DEF Refuse, Reply
  <2> QED BY <1>3, <2>1, <2>2, <2>3, <2>4 DEF RouteByID
<1> QED BY <1>1, <1>2, <1>3 DEF Route

---------------------------------------------------------------------------
(* The invariant.                                                           *)

\* A request in progress has not been answered: every step that answers one
\* leaves the pipeline idle.
LEMMA EntitledStable ==
    ASSUME UNCHANGED <<config, req>> PROVE (Entitled' <=> Entitled) /\ (Recognised' <=> Recognised) /\ Tier' = Tier
BY DEF Entitled, Recognised, Tier, Local, Grants

\* Before the first request the invariant holds.
LEMMA InvInit == Init => IInv
BY TypeInit DEF Init, IInv, ServedIsEntitled, EntitledNotDenied

\* And every step keeps it.
LEMMA InvNext == IInv /\ [Next]_vars => IInv'
<1> SUFFICES ASSUME IInv, [Next]_vars PROVE IInv'
  OBVIOUS
<1>0. TypeOK /\ TypeOK'
  BY TypeNext DEF IInv
<1>1. ASSUME NEW r \in Requests, Receive(r) PROVE IInv'
  BY <1>0, <1>1 DEF Receive, IInv, ServedIsEntitled, EntitledNotDenied
<1>2. CASE RateLimit
  <2>1. /\ stage' # "route" /\ UNCHANGED <<config, req>>
        /\ answer' = answer \/ (answer' = "limited" /\ Tier = "full auth")
    BY <1>2 DEF RateLimit, Refuse, Reply, IsEnabled, Tier
  <2> QED BY <1>0, <2>1, EntitledStable DEF IInv, ServedIsEntitled, EntitledNotDenied
<1>3. CASE CheckAuth
  <2>1. CASE stage' = "route"
    <3>1. answer' = answer /\ UNCHANGED <<config, req>>
      BY <1>3, <2>1 DEF CheckAuth, Reply
    <3> QED BY <1>0, <1>3, <2>1, <3>1, CheckAuthIdentifies, EntitledStable
            DEF IInv, ServedIsEntitled, EntitledNotDenied
  <2>2. CASE stage' # "route"
    BY <1>0, <1>3, <2>2, CheckAuthRefuses DEF IInv, ServedIsEntitled, EntitledNotDenied
  <2> QED BY <2>1, <2>2
<1>4. CASE Route
  <2>1. Identified
    BY <1>4 DEF Route, IInv
  <2>2. stage' = "idle" /\ UNCHANGED <<config, req>>
    BY <1>4 DEF Route, RouteInfo, RouteCollection, RouteByID, RouteDelete, Scoped, Manager,
                Create, Resume, Delete, Refuse, Reply
  <2> QED BY <1>0, <1>4, <2>1, <2>2, RouteDecides, EntitledStable
          DEF IInv, ServedIsEntitled, EntitledNotDenied
<1>5. CASE Restart
  BY <1>0, <1>5 DEF Restart, IInv, ServedIsEntitled, EntitledNotDenied
<1>6. CASE UNCHANGED vars
  BY <1>0, <1>6 DEF vars, IInv, ServedIsEntitled, EntitledNotDenied, Identified, Entitled, Recognised,
                    Tier, Local, Grants
<1> QED BY <1>1, <1>2, <1>3, <1>4, <1>5, <1>6 DEF Next

\* The inductive invariant holds of every reachable state.
THEOREM Inductive == Spec => []IInv
<1>1. Init => IInv
  BY InvInit
<1>2. IInv /\ [Next]_vars => IInv'
  BY InvNext
<1> QED BY <1>1, <1>2, PTL DEF Spec

\* The state keeps its types through every request and restart.
THEOREM TypeCorrect == Spec => []TypeOK
<1>1. IInv => TypeOK
  BY DEF IInv
<1> QED BY <1>1, Inductive, PTL

\* Whoever is served is entitled to it by the tiers and scopes of the
\* documentation, under every configuration (CheckAuth, requireScope).
THEOREM ServedEntitled == Spec => []ServedIsEntitled
<1>1. IInv => ServedIsEntitled
  BY DEF IInv
<1> QED BY <1>1, Inductive, PTL

\* Whoever is entitled is turned away by the limiter of a server with credentials
\* or, of the documented endpoints, as a stranger at /v1/server-info only.
THEOREM NotDenied == Spec => []EntitledNotDenied
<1>1. IInv => EntitledNotDenied
  BY DEF IInv
<1> QED BY <1>1, Inductive, PTL

\* A request changes a session only when it is entitled to, and without being
\* answered ok only when it deletes a live one.
THEOREM OnlyEntitled == Spec => OnlyEntitledChange
<1> DEFINE Change == session' # session /\ stage # "idle" => MayChange
<1>1. IInv /\ [Next]_vars => [Change]_vars
  <2> SUFFICES ASSUME IInv, Next, session' # session, stage # "idle"
               PROVE MayChange
    BY DEF vars
  <2>1. Route
    BY DEF Next, Receive, RateLimit, Refuse, CheckAuth, Restart
  <2>2. Identified /\ TypeOK
    BY <2>1 DEF IInv, Route
  <2> QED BY <2>1, <2>2, RouteDecides
<1> QED BY <1>1, Inductive, PTL DEF Spec, OnlyEntitledChange, MayChange
=============================================================================
