--------------------------- MODULE RequestPipeline ---------------------------
(* The way of an HTTP request through the server, as main chains it: the     *)
(* rate limit, auth.Middleware with CheckAuth, the routes of the API handler *)
(* with their scopes, and the session manager, here one session that is      *)
(* absent, only stored, or live. RateLimiter says when the limiter refuses,  *)
(* SessionManager what the manager does; here each may answer either way.    *)
(*                                                                           *)
(* Definitions marked "Mutated form" are not part of the model: each is a    *)
(* plausible bug in the definition after it, which a property below catches. *)
EXTENDS FiniteSets

CONSTANTS
    Keys,      \* the API keys there may be
    ScopesOf,  \* the scopes of each
    NoToken    \* a request without a bearer token

ASSUME PipelineAssumption ==
    /\ ScopesOf \in [Keys -> SUBSET {"sessions.read", "sessions.write", "admin"}]
    /\ NoToken \notin Keys

VARIABLES
    config,   \* AuthConfig: the keys configured, JWKSUrl, BehindProxy
    stage, req, scopes, \* the request being served and its identity's scopes
    session,  \* the session, and answer: what the last request was told
    answer
vars == <<config, stage, req, scopes, session, answer>>

Public == {"healthz", "readyz"}
Info == {"serverInfo", "config"}
Reads == {"list", "state", "getMessages", "stream", "artifacts"}
Writes == {"create", "prompt", "abort", "resume", "delete"}
Other == {"wrongMethod", "wrongAction"}   \* of a path known, of a session
Routes == Public \cup Info \cup Reads \cup Writes \cup Other
Checked == {"list", "getMessages", "artifacts", "create", "prompt"}
Requests == {r \in [
    route: Routes,
    token: Keys \cup {NoToken},
    loopback: BOOLEAN,     \* the TCP peer
    forwarded: BOOLEAN,    \* whether there are proxy headers
    valid: BOOLEAN] :      \* the body, the query, the artifact's name
        r.route \in Checked \/ r.valid}

TypeOK ==
    /\ config \in [keys: SUBSET Keys, jwks: BOOLEAN, behindProxy: BOOLEAN]
    /\ stage \in {"idle", "limit", "auth", "route"}
    /\ req \in Requests
    /\ scopes \in SUBSET {"sessions.read", "sessions.write", "admin"}
    /\ session \in {"absent", "stored", "live"}
    /\ answer \in {"none", "ok", "bad_request", "unauthorized", "forbidden",
                   "not_found", "not_allowed", "limited", "failed"}

Init ==
    /\ config \in [keys: SUBSET Keys, jwks: BOOLEAN, behindProxy: BOOLEAN]
    /\ stage = "idle" /\ scopes = {} /\ session = "absent" /\ answer = "none"
    /\ req \in {r \in Requests : r.route = "wrongMethod" /\ r.token = NoToken
                                 /\ r.loopback /\ ~r.forwarded /\ r.valid}

Reply(a) == stage' = "idle" /\ answer' = a
Refuse(a) == Reply(a) /\ UNCHANGED session

---------------------------------------------------------------------------
(* The middleware.                                                           *)

Receive(r) ==
    /\ stage = "idle"
    /\ stage' = "limit" /\ req' = r /\ scopes' = {} /\ answer' = "none"
    /\ UNCHANGED <<config, session>>

IsEnabled == config.keys # {} \/ config.jwks

RateLimit ==
    /\ stage = "limit"
    /\ \/ stage' = "auth" /\ UNCHANGED <<answer, session>>
       \/ IsEnabled /\ Refuse("limited")
    /\ UNCHANGED <<config, req, scopes>>

\* Mutated form of IsLocalConnection: the peer alone decides.
IsLoopback == req.loopback
IsLocalConnection == ~config.behindProxy /\ ~req.forwarded /\ req.loopback

\* Mutated form of ValidKey: no key matches once a JWKS is configured.
ValidKeyWithoutJWKS == req.token \in config.keys /\ ~config.jwks
ValidKey == req.token \in config.keys

LocalScopes == {"admin"}

\* Public paths and local development pass without a token.
CheckAuth ==
    /\ stage = "auth"
    /\ \/ /\ req.route \in Public
          /\ scopes' = {} /\ stage' = "route" /\ UNCHANGED answer
       \/ /\ req.route \notin Public /\ ~IsEnabled /\ IsLocalConnection
          /\ scopes' = LocalScopes /\ stage' = "route" /\ UNCHANGED answer
       \/ /\ req.route \notin Public /\ IsEnabled /\ ValidKey
          /\ scopes' = ScopesOf[req.token] /\ stage' = "route" /\ UNCHANGED answer
       \/ /\ req.route \notin Public
          /\ IF IsEnabled THEN ~ValidKey ELSE ~IsLocalConnection
          /\ UNCHANGED scopes /\ Reply("unauthorized")
    /\ UNCHANGED <<config, req, session>>

---------------------------------------------------------------------------
(* The routes.                                                               *)

HasScope(required) == scopes \cap {"admin", required} # {}

Create ==
    \/ Refuse("failed")
    \/ session' = "live" /\ Reply("ok")
Resume ==
    \/ Refuse("failed")
    \/ session = "absent" /\ Refuse("not_found")
    \/ session # "absent" /\ session' = "live" /\ Reply("ok")

\* With a handle the answer is that of closing it, whatever became of the row;
\* without one it is the store's, every failure of which reads as not found.
Delete ==
    \/ /\ session = "live" /\ session' \in {"absent", "stored"}
       /\ \E a \in {"ok", "failed"} : Reply(a)
    \/ session = "stored" /\ session' = "absent" /\ Reply("ok")
    \/ session # "live" /\ Refuse("not_found")

\* What the manager does for a request let through to it.
Manager ==
    \/ req.route = "create" /\ Create
    \/ req.route = "resume" /\ Resume
    \/ req.route = "delete" /\ Delete
    \/ req.route \notin {"create", "resume", "delete"} /\ (Refuse("ok") \/ Refuse("failed"))

\* requireScope, then what the request itself has to be, then the manager.
Scoped(required) ==
    \/ ~HasScope(required) /\ Refuse("forbidden")
    \/ HasScope(required) /\ ~req.valid /\ Refuse("bad_request")
    \/ HasScope(required) /\ req.valid /\ Manager

ScopeFor(route) == IF route \in Writes THEN "sessions.write" ELSE "sessions.read"

\* Health, readiness, defaults and the snapshot of introspection.
RouteInfo == req.route \in Public \cup Info /\ Refuse("ok")

RouteCollection ==
    \/ req.route \in {"list", "create"} /\ Scoped(ScopeFor(req.route))
    \/ req.route = "wrongMethod" /\ Refuse("not_allowed")

\* Mutated form of RouteDelete: the manager is called before the scope is checked.
RouteDeleteFirst == req.route = "delete" /\ Manager
RouteDelete == req.route = "delete" /\ Scoped(ScopeFor(req.route))

\* Delete and resume apart, a session without a handle is not found, whatever
\* the route asked of it.
NeedsHandle == {"state", "getMessages", "prompt", "abort", "stream", "artifacts"}
RouteByID ==
    \/ RouteDelete
    \/ req.route = "resume" /\ Scoped(ScopeFor(req.route))
    \/ req.route \in NeedsHandle /\ session = "live" /\ Scoped(ScopeFor(req.route))
    \/ req.route \in NeedsHandle \cup {"wrongAction"} /\ session # "live" /\ Refuse("not_found")
    \/ req.route = "wrongAction" /\ session = "live" /\ Refuse("not_allowed")

Route ==
    /\ stage = "route"
    /\ RouteInfo \/ RouteCollection \/ RouteByID
    /\ UNCHANGED <<config, req, scopes>>

\* The server restarts, perhaps with other credentials: handles are gone.
Restart ==
    /\ stage = "idle"
    /\ config' \in [keys: SUBSET Keys, jwks: BOOLEAN, behindProxy: BOOLEAN]
    /\ session' = IF session = "live" THEN "stored" ELSE session
    /\ answer' = "none" /\ scopes' = {}
    /\ UNCHANGED <<stage, req>>

Next ==
    \/ \E r \in Requests : Receive(r)
    \/ RateLimit \/ CheckAuth \/ Route
    \/ Restart

Spec == Init /\ [][Next]_vars

---------------------------------------------------------------------------
(* Properties. Entitled is the documentation's account: the public endpoints *)
(* of docs/endpoints.md, the three tiers of docs/authentication.md and the   *)
(* scope it names for every endpoint.                                        *)

DocumentedPublic == {"healthz", "readyz", "serverInfo"}
Local == req.loopback /\ ~req.forwarded /\ ~config.behindProxy
Tier ==
    IF config.keys # {} \/ config.jwks THEN "full auth"
    ELSE IF Local THEN "local dev" ELSE "remote lockout"
Grants(k, route) ==
    \/ "admin" \in ScopesOf[k]
    \/ route \in Reads /\ "sessions.read" \in ScopesOf[k]
    \/ route \in Writes /\ "sessions.write" \in ScopesOf[k]
    \/ route \in Info \cup Other
Recognised == Tier = "local dev" \/ (Tier = "full auth" /\ req.token \in config.keys)
Entitled ==
    \/ req.route \in DocumentedPublic
    \/ Tier = "local dev"
    \/ Tier = "full auth" /\ req.token \in config.keys /\ Grants(req.token, req.route)

\* Whoever is served is entitled to it by the documentation, in whatever tier
\* the server runs and whatever the session's state (CheckAuth, requireScope).
ServedIsEntitled == answer = "ok" => Entitled

\* Whoever is entitled is turned away in two cases only, both against the docs:
\* the limiter, which runs before CheckAuth, also counts requests with a valid
\* key ("Authenticated requests are not rate limited", docs/authentication.md:124),
\* and /v1/server-info, listed with the endpoints that "never require
\* authentication" (docs/endpoints.md:7, 27), is no public path of
\* check.go:15-18, so a caller who is neither local nor has a key gets a 401.
EntitledNotDenied ==
    Entitled /\ answer \in {"limited", "unauthorized", "forbidden"} =>
        \/ answer = "limited" /\ Tier = "full auth"
        \/ answer = "unauthorized" /\ req.route = "serverInfo" /\ ~Recognised

\* A request changes a session only when it is entitled to (requireScope comes
\* before the manager) and is answered ok, or when it deletes a live session:
\* handle and row may be gone although closing Pi failed and the answer is 500
\* (manager.go:235-255).
OnlyEntitledChange ==
    [][session' # session /\ stage # "idle" =>
        /\ Entitled /\ req.route \in Writes
        /\ answer' = "ok" \/ (answer' = "failed" /\ req.route = "delete" /\ session = "live")]_vars
=============================================================================
