--------------------------- MODULE AccessControl ---------------------------
(***************************************************************************)
(* Who may call the API: the users table (security/users.py), the tokens   *)
(* exchanged for API keys, the sliding-window rate limiter and the role    *)
(* check (api/auth.py).                                                    *)
(*                                                                         *)
(* Time passes in whole units; Window stands for the 60 s of the limiter   *)
(* and Life for jwt_expire_min.  A request is one step: get_auth awaits    *)
(* only the read of the users table, and what follows reads no table.      *)
(***************************************************************************)
EXTENDS NoValue, Lists, FiniteSets

CONSTANTS
    Users,      \* usernames
    Limit,      \* api.rate_limit_per_min
    Window,
    Life,
    Required,   \* the roles the endpoints ask for (require_role)
    MaxNow,     \* bound: the time the model runs to
    MaxKeys,    \* bound: API keys ever generated
    MaxTokens   \* bound: tokens ever issued

ROLES == {"viewer", "analyst", "admin"}
Level == [viewer |-> 1, analyst |-> 2, admin |-> 3]

ASSUME AccessAssumption ==
    /\ Limit \in Nat
    /\ Window \in Nat \ {0}
    /\ Life \in Nat
    /\ MaxNow \in Nat
    /\ MaxKeys \in Nat
    /\ MaxTokens \in Nat
    /\ Required \subseteq ROLES
    /\ None \notin Nat /\ None \notin [role : ROLES, key : Nat]

Account == [role : ROLES, key : 1..MaxKeys]
Token == [sub : Users, role : ROLES, exp : 0..(MaxNow + Life)]
Decision == [user : Users, role : ROLES, required : Required, code : {200, 403, 429}]

VARIABLES
    now,
    users,   \* the rows of the users table, by username
    keys,    \* how many API keys have been generated
    tokens,  \* the tokens ever issued
    hits,    \* RateLimiter._hits
    answer,  \* history: what the request of the last step was told, if it was one
    grants,  \* history: when the limiter of this process let a user pass
    held     \* history: when a user last had a role

accessVars == <<now, users, keys, tokens, hits, answer, grants, held>>

AccessTypeOK ==
    /\ now \in 0..MaxNow
    /\ users \in [Users -> Account \cup {None}]
    /\ keys \in 0..MaxKeys
    /\ tokens \in SUBSET Token
    /\ \A u \in Users : /\ hits[u] \in Seq(0..now)
                        /\ Len(hits[u]) <= Limit
    /\ answer \in Decision \cup {None}

AccessInit ==
    /\ now = 0
    /\ users = [u \in Users |-> None]
    /\ keys = 0
    /\ tokens = {}
    /\ hits = [u \in Users |-> <<>>]
    /\ answer = None
    /\ grants = [u \in Users |-> <<>>]
    /\ held = [u \in Users |-> [r \in ROLES |-> None]]

Has(u) == users[u] # None

----------------------------------------------------------------------------
(* The users table *)

\* a username is unique; every account gets a key of its own
create(u, role) ==
    /\ ~Has(u)
    /\ keys < MaxKeys
    /\ keys' = keys + 1
    /\ users' = [users EXCEPT ![u] = [role |-> role, key |-> keys + 1]]
    /\ held' = [held EXCEPT ![u][role] = now]
    /\ answer' = None
    /\ UNCHANGED <<now, tokens, hits, grants>>

delete(u) ==
    /\ Has(u)
    /\ users' = [users EXCEPT ![u] = None]
    /\ answer' = None
    /\ UNCHANGED <<now, keys, tokens, hits, grants, held>>

verify(key) == {u \in Users : Has(u) /\ users[u].key = key}

----------------------------------------------------------------------------
(* Tokens *)

\* exchange_api_key: no rate limit here
exchange_api_key(key) ==
    /\ Cardinality(tokens) < MaxTokens
    /\ \E u \in verify(key) :
          tokens' = tokens \cup {[sub |-> u, role |-> users[u].role, exp |-> now + Life]}
    /\ answer' = None
    /\ UNCHANGED <<now, users, keys, hits, grants, held>>

\* Mutant: the expiry of a token is not checked.
decode_jwt_forever(token) == {[user |-> token.sub, role |-> token.role]}

\* PyJWT refuses a token from its expiry on
decode_jwt(token) == IF token.exp > now THEN {[user |-> token.sub, role |-> token.role]} ELSE {}

----------------------------------------------------------------------------
(* Requests *)

\* Mutant: the window is one unit short.
RecentTooShort(u) == Kept(hits[u], {h \in 0..now : h + Window > now + 1})

\* the hits still in the window
Recent(u) == Kept(hits[u], {h \in 0..now : h + Window > now})

allow(u) == Len(Recent(u)) < Limit

role_sufficient(role, required) == Level[role] >= Level[required]

\* Mutant: a throttled request uses up a hit too.
DecidedCountingRefusals(id, required) ==
    /\ hits' = [hits EXCEPT ![id.user] = Append(Recent(id.user), now)]
    /\ grants' = [grants EXCEPT ![id.user] =
                     IF allow(id.user) THEN Append(@, now) ELSE @]
    /\ answer' = [user |-> id.user, role |-> id.role, required |-> required,
                  code |-> IF ~allow(id.user) THEN 429
                           ELSE IF role_sufficient(id.role, required) THEN 200 ELSE 403]
    /\ UNCHANGED <<now, users, keys, tokens, held>>

\* get_auth and require_role for an authenticated identity: the limiter comes
\* first, so a request refused for its role has used up a hit
Decided(id, required) ==
    /\ hits' = [hits EXCEPT ![id.user] =
                   IF allow(id.user) THEN Append(Recent(id.user), now) ELSE Recent(id.user)]
    /\ grants' = [grants EXCEPT ![id.user] =
                     IF allow(id.user) THEN Append(@, now) ELSE @]
    /\ answer' = [user |-> id.user, role |-> id.role, required |-> required,
                  code |-> IF ~allow(id.user) THEN 429
                           ELSE IF role_sufficient(id.role, required) THEN 200 ELSE 403]
    /\ UNCHANGED <<now, users, keys, tokens, held>>

WithToken(token, required) == \E id \in decode_jwt(token) : Decided(id, required)

WithKey(key, required) ==
    \E u \in verify(key) : Decided([user |-> u, role |-> users[u].role], required)

----------------------------------------------------------------------------
(* Environment *)

Tick ==
    /\ now < MaxNow
    /\ now' = now + 1
    /\ held' = [u \in Users |-> [r \in ROLES |->
                   IF Has(u) /\ users[u].role = r THEN now + 1 ELSE held[u][r]]]
    /\ answer' = None
    /\ UNCHANGED <<users, keys, tokens, hits, grants>>

\* _init_state: the limiter starts empty; users and tokens survive
RestartServer ==
    /\ hits' = [u \in Users |-> <<>>]
    /\ grants' = [u \in Users |-> <<>>]
    /\ answer' = None
    /\ UNCHANGED <<now, users, keys, tokens, held>>

AccessNext ==
    \/ \E u \in Users : delete(u) \/ \E role \in ROLES : create(u, role)
    \/ \E key \in 1..MaxKeys :
          exchange_api_key(key) \/ \E required \in Required : WithKey(key, required)
    \/ \E token \in tokens, required \in Required : WithToken(token, required)
    \/ Tick
    \/ RestartServer

AccessSpec == AccessInit /\ [][AccessNext]_accessVars

----------------------------------------------------------------------------
(* Safety *)

\* In no interval of Window time units does one process let a user pass more than
\* Limit times, through keys and tokens together (api/auth.py, RateLimiter.allow).
WindowNeverExceeded ==
    \A u \in Users : \A i \in 1..Len(grants[u]) :
       i + Limit <= Len(grants[u]) => grants[u][i + Limit] - grants[u][i] >= Window

\* A request is throttled only when the user really passed Limit times within the
\* window: requests that were throttled do not count (RateLimiter.allow appends
\* only the hits it allows).
ThrottledOnlyAtLimit ==
    answer # None /\ answer.code = 429 =>
       \A u \in {answer.user} : LET n == Len(grants[u]) IN
          Limit > 0 => n >= Limit /\ grants[u][n - Limit + 1] + Window > now

\* Whoever was let in had a sufficient role within the life of a token: a deleted
\* or demoted user keeps it no longer, whatever keys and tokens were handed out
\* before (create_jwt, _decode_jwt, UserStore.delete).
ServedRoleWasHeld ==
    answer # None /\ answer.code = 200 =>
       \E r \in ROLES : /\ Level[r] >= Level[answer.required]
                        /\ held[answer.user][r] # None
                        /\ held[answer.user][r] + Life >= now
=============================================================================
