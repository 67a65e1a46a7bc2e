------------------------------- MODULE Access -------------------------------
(***************************************************************************)
(* engine/auth and the routes of engine/api and engine/wshub it guards:    *)
(* accounts, API tokens and sessions, and the way of a request through     *)
(* Authenticate (JWT first, then API token), RequireRole, datasetRBAC and  *)
(* RequireDatasetScope to its handler.                                     *)
(*                                                                         *)
(* Requests overlap, with one another and with tokens that expire or are   *)
(* revoked; credentials are looked at once, in the middle of a request.    *)
(* The per-address rate limit in front of the routes is SlidingWindow.      *)
(* Tokens and accounts other than the first admin are made and revoked     *)
(* through Store itself: no route does it yet, so the server may be down.  *)
(* A session is the set of its claims, a token what its hash finds in the  *)
(* database.  Nobody presents what was never issued, except Unknown.       *)
(***************************************************************************)
EXTENDS Integers, FiniteSets

CONSTANTS
    User,
    Admin,        \* HERMINAS_BOOTSTRAP_ADMIN_USER
    Password,
    Granted,      \* bound: the roles that accounts and tokens are given
    ScopeLists,   \* bound: the scopes that tokens are given
    Token,        \* API tokens that can be created
    Dataset,
    Request,
    Ephemeral,    \* HERMINAS_JWT_SECRET is not set
    SessionTTL,   \* an hour
    TokenTTL,     \* of the tokens that have one
    Second,       \* the precision of a NumericDate
    MaxTime,      \* bound: the clock
    MaxStarts,    \* bound: starts of the server
    MaxSessions   \* bound: JWTs that are issued

Rank == [viewer |-> 0, analyst |-> 1, engineer |-> 2, admin |-> 3]
Role == DOMAIN Rank

ASSUME ConstantsAssumption ==
    /\ Admin \in User
    /\ Granted \subseteq Role
    /\ Ephemeral \in BOOLEAN
    /\ SessionTTL \in Nat /\ TokenTTL \in Nat \ {0} /\ Second \in Nat \ {0}
    /\ ScopeLists \subseteq SUBSET (Dataset \cup {"*"})
    /\ MaxTime \in Nat /\ MaxStarts \in Nat /\ MaxSessions \in Nat

VARIABLES
    now,
    up,        \* the server runs
    starts,    \* how often it was started
    secret,    \* JWTManager.secret
    users,     \* table users
    tokens,    \* table api_tokens
    sessions,  \* JWTs that were issued
    req,       \* the request: route, dataset, credential
    pc,        \* where it is
    identity,  \* what Authenticate put into its context
    status,    \* its HTTP status
    arrival,   \* history: time, secret and revoked tokens when it arrived
    unread     \* history: requests whose look at api_tokens failed

server == <<up, starts, secret>>
store  == <<users, tokens>>
calls  == <<req, pc, identity, status, arrival, unread>>
vars   == <<now, server, store, sessions, calls>>

NoUser  == [exists |-> FALSE]
NoToken == [exists |-> FALSE]
Never   == -1                       \* expires_at IS NULL
AllDatasets == "*"
Missing == [kind |-> "missing"]     \* no Authorization header, or not a Bearer one
Unknown == [kind |-> "unknown"]     \* neither a JWT nor a token of the database
Jwt(s)  == [kind |-> "jwt", session |-> s]
Opaque(t) == [kind |-> "token", token |-> t]

AtLeast(r, min) == Rank[r] >= Rank[min]

\* The role a route asks for.  Ingest asks for a scope, the WebSocket for a session.
MinRole == [query |-> "viewer", read |-> "viewer", write |-> "engineer"]
Route == DOMAIN MinRole \cup {"ingest", "ws"}

Anonymous == [role |-> "viewer", scopes |-> {}, viaToken |-> FALSE]

Init ==
    /\ now = 0
    /\ up = FALSE /\ starts = 0 /\ secret = 0
    /\ users = [u \in User |-> NoUser]
    /\ tokens = [t \in Token |-> NoToken]
    /\ sessions = {}
    /\ req = [r \in Request |-> [route |-> "query", dataset |-> AllDatasets, cred |-> Missing]]
    /\ pc = [r \in Request |-> "idle"]
    /\ identity = [r \in Request |-> Anonymous]
    /\ status = [r \in Request |-> 0]
    /\ arrival = [r \in Request |-> [at |-> 0, secret |-> 0, revoked |-> {}]]
    /\ unread = {}

Tick ==
    /\ now < MaxTime
    /\ now' = now + 1
    /\ UNCHANGED <<server, store, sessions, calls>>

----------------------------------------------------------------------------
(* Accounts, tokens and sessions. *)

\* INSERT INTO users: the primary key refuses a second account of a name.
Inserted(u, password, role) ==
    IF users[u].exists THEN users
    ELSE [users EXCEPT ![u] = [exists |-> TRUE, password |-> password, role |-> role]]

Verifies(u, password) == users[u].exists /\ users[u].password = password

\* Store.CreateUser
CreateUser(u, password, role) ==
    /\ users' = Inserted(u, password, role)
    /\ users' # users
    /\ UNCHANGED <<now, server, tokens, sessions, calls>>

\* Store.CreateAPIToken
CreateAPIToken(t, scopes, role, ttl) ==
    /\ ~tokens[t].exists
    /\ scopes # {}
    /\ tokens' = [tokens EXCEPT ![t] =
            [exists |-> TRUE, scopes |-> scopes, role |-> role, revoked |-> FALSE,
             expiresAt |-> IF ttl > 0 THEN now + ttl ELSE Never]]
    /\ UNCHANGED <<now, server, users, sessions, calls>>

\* Store.RevokeAPIToken
RevokeAPIToken(t) ==
    /\ tokens[t].exists /\ ~tokens[t].revoked
    /\ tokens' = [tokens EXCEPT ![t].revoked = TRUE]
    /\ UNCHANGED <<now, server, users, sessions, calls>>

\* serveAPI: a secret from the environment or a new one, and bootstrapAdminUser
\* with the password that the environment has this time, if any.
Start(passwords) ==
    /\ ~up /\ starts < MaxStarts
    /\ up' = TRUE /\ starts' = starts + 1
    /\ secret' = IF Ephemeral THEN starts + 1 ELSE 1
    /\ IF passwords = {} THEN UNCHANGED users
       ELSE \E p \in passwords : users' = Inserted(Admin, p, "admin")
    /\ UNCHANGED <<now, tokens, sessions, calls>>

\* The requests under way end without an answer.
Stop ==
    /\ up /\ up' = FALSE
    /\ pc' = [r \in Request |-> IF pc[r] \in {"idle", "done"} THEN pc[r] ELSE "gone"]
    /\ UNCHANGED <<now, starts, secret, store, sessions, req, identity, status, arrival, unread>>

\* Mutation: the expiry is rounded up.
NumericDate_RoundsUp(t) == ((t + Second - 1) \div Second) * Second

\* jwt.NewNumericDate
NumericDate(t) == (t \div Second) * Second

\* loginHandler: VerifyPassword, then JWTManager.Issue.  A wrong password changes nothing.
Login(u, password) ==
    /\ up
    /\ Verifies(u, password)
    /\ Cardinality(sessions) < MaxSessions
    /\ sessions' = sessions \cup
            {[user |-> u, role |-> users[u].role, secret |-> secret,
              issuedAt |-> now, expiresAt |-> NumericDate(now + SessionTTL)]}
    /\ UNCHANGED <<now, server, store, calls>>

----------------------------------------------------------------------------
(* Requests. *)

Arrive(r, route, dataset, cred) ==
    /\ up /\ pc[r] = "idle"
    /\ req' = [req EXCEPT ![r] = [route |-> route, dataset |-> dataset, cred |-> cred]]
    /\ arrival' = [arrival EXCEPT ![r] =
            [at |-> now, secret |-> secret,
             revoked |-> {t \in Token : tokens[t].exists /\ tokens[t].revoked}]]
    /\ pc' = [pc EXCEPT ![r] = "jwt"]
    /\ UNCHANGED <<now, server, store, sessions, identity, status, unread>>

Answer(r, code) ==
    /\ status' = [status EXCEPT ![r] = code]
    /\ pc' = [pc EXCEPT ![r] = "done"]

\* JWTManager.Verify: signature and exp; a session ends when exp is reached.
SessionValid(s) == s.secret = secret /\ now < s.expiresAt

\* Mutation: revoked tokens are accepted.
TokenValid_Revoked(t) == tokens[t].expiresAt = Never \/ now <= tokens[t].expiresAt

\* VerifyAPIToken: a token is still good at the instant it expires.
TokenValid(t) ==
    /\ ~tokens[t].revoked
    /\ tokens[t].expiresAt = Never \/ now <= tokens[t].expiresAt

\* Mutation: what is not a valid session is not looked up as a token.
VerifyJWT_NoFallback(r) ==
    LET cred == req[r].cred
    IN  /\ pc[r] = "jwt"
        /\ IF cred.kind = "jwt" /\ SessionValid(cred.session)
           THEN /\ identity' = [identity EXCEPT ![r] =
                        [role |-> cred.session.role, scopes |-> {}, viaToken |-> FALSE]]
                /\ pc' = [pc EXCEPT ![r] = "authorize"]
                /\ UNCHANGED status
           ELSE Answer(r, 401) /\ UNCHANGED identity
        /\ UNCHANGED <<now, server, store, sessions, req, arrival, unread>>

\* Authenticate, first half, and ServeWS, which takes nothing but a session.
VerifyJWT(r) ==
    LET cred == req[r].cred
    IN  /\ pc[r] = "jwt"
        /\ IF cred.kind = "jwt" /\ SessionValid(cred.session)
           THEN /\ identity' = [identity EXCEPT ![r] =
                        [role |-> cred.session.role, scopes |-> {}, viaToken |-> FALSE]]
                /\ pc' = [pc EXCEPT ![r] = "authorize"]
                /\ UNCHANGED status
           ELSE /\ UNCHANGED identity
                /\ IF cred.kind = "missing" \/ req[r].route = "ws" THEN Answer(r, 401)
                   ELSE pc' = [pc EXCEPT ![r] = "token"] /\ UNCHANGED status
        /\ UNCHANGED <<now, server, store, sessions, req, arrival, unread>>

\* Authenticate, second half.
VerifyAPIToken(r) ==
    LET cred == req[r].cred
    IN  /\ pc[r] = "token"
        /\ IF cred.kind = "token" /\ TokenValid(cred.token)
           THEN /\ identity' = [identity EXCEPT ![r] =
                        [role |-> tokens[cred.token].role, scopes |-> tokens[cred.token].scopes,
                         viaToken |-> TRUE]]
                /\ pc' = [pc EXCEPT ![r] = "authorize"]
                /\ UNCHANGED status
           ELSE Answer(r, 401) /\ UNCHANGED identity
        /\ UNCHANGED <<now, server, store, sessions, req, arrival, unread>>

\* The SELECT fails, or the scopes it finds are not readable: the caller is not told
\* from one whose token is not in the table.
VerifyAPITokenFails(r) ==
    /\ pc[r] = "token"
    /\ unread' = unread \cup {r}
    /\ Answer(r, 401)
    /\ UNCHANGED <<now, server, store, sessions, req, identity, arrival>>

AllowsDataset(id, d) == ~id.viaToken \/ id.scopes \cap {AllDatasets, d} # {}

\* RequireRole, datasetRBAC, RequireDatasetScope; a WebSocket needs no more.
Allowed(id, q) ==
    /\ q.route \in DOMAIN MinRole => AtLeast(id.role, MinRole[q.route])
    /\ q.route = "ingest" => AllowsDataset(id, q.dataset)

Authorize(r) ==
    /\ pc[r] = "authorize"
    /\ IF Allowed(identity[r], req[r])
       THEN pc' = [pc EXCEPT ![r] = "handler"] /\ UNCHANGED status
       ELSE Answer(r, 403)
    /\ UNCHANGED <<now, server, store, sessions, req, identity, arrival, unread>>

\* The handler behind the checks runs.
Serve(r) ==
    /\ pc[r] = "handler"
    /\ Answer(r, 200)
    /\ UNCHANGED <<now, server, store, sessions, req, identity, arrival, unread>>

Presented ==
    {Missing, Unknown} \cup {Jwt(s) : s \in sessions}
        \cup {Opaque(t) : t \in {x \in Token : tokens[x].exists}}

Next ==
    \/ Tick \/ Stop
    \/ \E p \in SUBSET Password : Cardinality(p) <= 1 /\ Start(p)
    \/ \E u \in User, p \in Password : Login(u, p)
    \/ \E u \in User, p \in Password, role \in Granted : CreateUser(u, p, role)
    \/ \E t \in Token, scopes \in ScopeLists, role \in Granted,
          ttl \in {0, TokenTTL} : CreateAPIToken(t, scopes, role, ttl)
    \/ \E t \in Token : RevokeAPIToken(t)
    \/ \E r \in Request :
        \/ \E route \in Route, cred \in Presented :
              \E d \in (IF route = "ingest" THEN Dataset ELSE {AllDatasets}) :
                  Arrive(r, route, d, cred)
        \/ VerifyJWT(r) \/ VerifyAPIToken(r) \/ VerifyAPITokenFails(r)
        \/ Authorize(r) \/ Serve(r)

Spec == Init /\ [][Next]_vars

----------------------------------------------------------------------------
(* Properties. *)

Account == [exists : {TRUE}, password : Password, role : Role]
APIToken == [exists : {TRUE}, scopes : SUBSET (Dataset \cup {AllDatasets}), role : Role,
             revoked : BOOLEAN, expiresAt : {Never} \cup 0..(MaxTime + TokenTTL)]
Session == [user : User, role : Role, secret : 1..MaxStarts,
            issuedAt : 0..MaxTime, expiresAt : 0..(MaxTime + SessionTTL)]

(* Every variable keeps its type; no session is given more than its hour.      *)
TypeOK ==
    /\ now \in 0..MaxTime /\ up \in BOOLEAN /\ starts \in 0..MaxStarts /\ secret \in 0..MaxStarts
    /\ users \in [User -> Account \cup {NoUser}]
    /\ tokens \in [Token -> APIToken \cup {NoToken}]
    /\ sessions \subseteq Session
    /\ \A s \in sessions : s.expiresAt <= s.issuedAt + SessionTTL
    /\ \A r \in Request :
        /\ req[r].route \in Route
        /\ req[r].dataset \in Dataset \cup {AllDatasets}
        /\ \/ req[r].cred \in {Missing, Unknown}
           \/ \E s \in sessions : req[r].cred = Jwt(s)
           \/ \E t \in Token : tokens[t].exists /\ req[r].cred = Opaque(t)
    /\ pc \in [Request -> {"idle", "jwt", "token", "authorize", "handler", "done", "gone"}]
    /\ identity \in [Request -> [role : Role, scopes : SUBSET (Dataset \cup {AllDatasets}),
                                 viaToken : BOOLEAN]]
    /\ status \in [Request -> {0, 200, 401, 403}]
    /\ arrival \in [Request -> [at : 0..MaxTime, secret : 0..MaxStarts, revoked : SUBSET Token]]
    /\ unread \subseteq Request

(* What a session entitled its owner to when the request arrived: it was       *)
(* signed by the running server and not over, and its owner has the role.      *)
EntitledBySession(s, r) ==
    /\ s \in sessions /\ s.secret = arrival[r].secret
    /\ arrival[r].at < s.issuedAt + SessionTTL
    /\ users[s.user].exists
    /\ req[r].route \in DOMAIN MinRole => AtLeast(users[s.user].role, MinRole[req[r].route])

(* What a token entitled its bearer to when the request arrived.               *)
EntitledByToken(t, r) ==
    /\ t \notin arrival[r].revoked
    /\ tokens[t].expiresAt = Never \/ arrival[r].at <= tokens[t].expiresAt
    /\ req[r].route # "ws"
    /\ req[r].route \in DOMAIN MinRole => AtLeast(tokens[t].role, MinRole[req[r].route])
    /\ req[r].route = "ingest" => tokens[t].scopes \cap {AllDatasets, req[r].dataset} # {}

(* A request that reached its handler was entitled to it when it arrived, by   *)
(* what the database says of its credential, although the credential is looked *)
(* at later and once: no request that comes behind a revocation, the end of a  *)
(* session or token, or a restart with another secret gets through.            *)
ServedWasEntitled ==
    \A r \in Request : pc[r] = "handler" \/ status[r] = 200 =>
        \/ \E s \in sessions : req[r].cred = Jwt(s) /\ EntitledBySession(s, r)
        \/ \E t \in Token : req[r].cred = Opaque(t) /\ EntitledByToken(t, r)

(* A refusal has a reason: a request answered 401 has a credential that is not *)
(* valid now either, or that its route does not take, or it has a token and    *)
(* the database could not be read; one answered 403 lacks the role or the      *)
(* scope.  A valid session is never turned away, a valid token by nothing but  *)
(* a failed read, and but for that trying again with the same is of no use.    *)
RefusedHasReason ==
    \A r \in Request :
        /\ status[r] = 401 =>
            \/ req[r].cred \in {Missing, Unknown}
            \/ \E s \in sessions : req[r].cred = Jwt(s) /\ ~SessionValid(s)
            \/ \E t \in Token : /\ req[r].cred = Opaque(t)
                                /\ ~TokenValid(t) \/ req[r].route = "ws" \/ r \in unread
        /\ status[r] = 403 =>
            \/ \E s \in sessions : req[r].cred = Jwt(s) /\ ~EntitledBySession(s, r)
            \/ \E t \in Token : req[r].cred = Opaque(t) /\ ~EntitledByToken(t, r)
=============================================================================
