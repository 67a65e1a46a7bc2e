---------------------------- MODULE AccessProofs ----------------------------
(***************************************************************************)
(* Proofs about Access, for every set of users, tokens, datasets and       *)
(* requests, every lifetime of sessions and tokens, and with a secret from *)
(* the environment as well as with a new one for every start.              *)
(*                                                                         *)
(* The argument: what a credential stands for only ever gets worse.  The   *)
(* clock and the secrets go on, accounts and tokens keep their role and    *)
(* scopes, and a revocation is for good.  So what Authenticate finds valid *)
(* in the middle of a request was valid when the request came, and what it *)
(* finds invalid stays so.                                                 *)
(***************************************************************************)
EXTENDS Access, TLAPS

Credential == {Missing, Unknown} \cup {Jwt(s) : s \in Session} \cup {Opaque(t) : t \in Token}

RequestType == [route : Route, dataset : Dataset \cup {AllDatasets}, cred : Credential]

\* The secrets of the server: a new one for every start, or always the same.
Secrets ==
    /\ secret = (IF starts = 0 THEN 0 ELSE IF Ephemeral THEN starts ELSE 1)
    /\ up => starts > 0
    /\ \A s \in sessions : s.secret <= secret

\* The claims of a session are still what the database says of its user.
Claims == \A s \in sessions : users[s.user].exists /\ users[s.user].role = s.role

\* A request under way runs in the server it arrived at.
SameServer(r) ==
    pc[r] \in {"jwt", "token", "authorize", "handler"} => up /\ arrival[r].secret = secret

\* What was recorded when the request arrived is in the past.
Arrived(r) ==
    /\ arrival[r].at <= now
    /\ \A t \in arrival[r].revoked : tokens[t].exists /\ tokens[t].revoked

\* Only a request that is done has a status.
Unanswered(r) == pc[r] # "done" => status[r] = 0

\* The second half of Authenticate comes after the first.
TriedAsSession(r) ==
    pc[r] = "token" =>
        /\ req[r].route # "ws"
        /\ \A s \in sessions : req[r].cred = Jwt(s) => ~SessionValid(s)

SessionIdentity(s) == [role |-> s.role, scopes |-> {}, viaToken |-> FALSE]
TokenIdentity(t) == [role |-> tokens[t].role, scopes |-> tokens[t].scopes, viaToken |-> TRUE]

\* The identity comes from a credential that was valid when the request arrived.
BySession(s, r) ==
    /\ req[r].cred = Jwt(s) /\ identity[r] = SessionIdentity(s)
    /\ s.secret = arrival[r].secret /\ arrival[r].at < s.expiresAt

ByToken(t, r) ==
    /\ tokens[t].exists /\ req[r].cred = Opaque(t) /\ identity[r] = TokenIdentity(t)
    /\ t \notin arrival[r].revoked
    /\ tokens[t].expiresAt = Never \/ arrival[r].at <= tokens[t].expiresAt
    /\ req[r].route # "ws"

Identified(r) ==
    pc[r] \in {"authorize", "handler"} \/ status[r] \in {200, 403} =>
        (\E s \in sessions : BySession(s, r)) \/ (\E t \in Token : ByToken(t, r))

\* What Authorize decided.
Decided(r) ==
    /\ pc[r] = "handler" \/ status[r] = 200 => Allowed(identity[r], req[r])
    /\ status[r] = 403 => ~Allowed(identity[r], req[r])

\* A 401 has a reason that is still there, or the database could not be read.
Unauthorized(r) ==
    status[r] = 401 =>
        \/ req[r].cred \in {Missing, Unknown}
        \/ \E s \in sessions : req[r].cred = Jwt(s) /\ ~SessionValid(s)
        \/ \E t \in Token : /\ req[r].cred = Opaque(t)
                            /\ tokens[t].exists
                            /\ ~TokenValid(t) \/ req[r].route = "ws" \/ r \in unread

RequestInv(r) ==
    /\ SameServer(r) /\ Arrived(r) /\ Unanswered(r) /\ TriedAsSession(r)
    /\ Identified(r) /\ Decided(r) /\ Unauthorized(r)

\* The inductive invariant.
IInv ==
    /\ TypeOK /\ req \in [Request -> RequestType]
    /\ Secrets /\ Claims
    /\ \A r \in Request : RequestInv(r)

----------------------------------------------------------------------------
(* jwt.NewNumericDate rounds down.                                             *)
LEMMA NumericDateIsEarlier ==
    ASSUME NEW t \in Nat
    PROVE  NumericDate(t) \in 0..t
<1>1. PICK d \in Nat : d = Second
  BY ConstantsAssumption
<1>2. d > 0
  BY <1>1, ConstantsAssumption
<1>3. (t \div d) * d \in 0..t
  BY <1>2, SMT
<1> QED BY <1>1, <1>3 DEF NumericDate

(* A JWT stands for one session, an opaque token for one row of api_tokens, and *)
(* neither is mistaken for the other or for nothing.                           *)
LEMMA CredentialsDiffer ==
    /\ \A s, u : Jwt(s) = Jwt(u) => s = u
    /\ \A t, u : Opaque(t) = Opaque(u) => t = u
    /\ \A s : Jwt(s).kind = "jwt" /\ Jwt(s).session = s
    /\ \A t : Opaque(t).kind = "token" /\ Opaque(t).token = t
    /\ Missing.kind = "missing" /\ Unknown.kind = "unknown"
    /\ \A s, t : Jwt(s) # Opaque(t)
    /\ \A s : Jwt(s) # Missing /\ Jwt(s) # Unknown
    /\ \A t : Opaque(t) # Missing /\ Opaque(t) # Unknown
<1>1. \A s : Jwt(s).kind = "jwt" /\ Jwt(s).session = s
  BY DEF Jwt
<1>2. \A t : Opaque(t).kind = "token" /\ Opaque(t).token = t
  BY DEF Opaque
<1>3. Missing.kind = "missing" /\ Unknown.kind = "unknown"
  BY DEF Missing, Unknown
<1>4. \A s, t : Jwt(s).kind # Opaque(t).kind
  BY <1>1, <1>2
<1>5. \A s : Jwt(s).kind # Missing.kind /\ Jwt(s).kind # Unknown.kind
  BY <1>1, <1>3
<1>6. \A t : Opaque(t).kind # Missing.kind /\ Opaque(t).kind # Unknown.kind
  BY <1>2, <1>3
<1>7. \A s, t : Jwt(s) # Opaque(t)
  BY <1>4, Zenon
<1>8. \A s : Jwt(s) # Missing /\ Jwt(s) # Unknown
  BY <1>5, Zenon
<1>9. \A t : Opaque(t) # Missing /\ Opaque(t) # Unknown
  BY <1>6, Zenon
<1>10. ASSUME NEW s, NEW u, Jwt(s) = Jwt(u) PROVE s = u
  BY <1>1, <1>10
<1>11. ASSUME NEW t, NEW u, Opaque(t) = Opaque(u) PROVE t = u
  BY <1>2, <1>11
<1> QED BY <1>1, <1>2, <1>3, <1>7, <1>8, <1>9, <1>10, <1>11, Zenon

(* The routes that ask for a role.                                             *)
LEMMA RoutesWithRole == DOMAIN MinRole = {"query", "read", "write"}
BY DEF MinRole

----------------------------------------------------------------------------
(* Time, restarts and the database only make credentials worse. *)

\* What no step undoes.
Grows ==
    /\ now <= now' /\ sessions \subseteq sessions' /\ secret <= secret'
    /\ \A u \in User : users[u].exists => users'[u] = users[u]
    /\ \A t \in Token : tokens[t].exists =>
        /\ tokens'[t].exists
        /\ tokens'[t].role = tokens[t].role /\ tokens'[t].scopes = tokens[t].scopes
        /\ tokens'[t].expiresAt = tokens[t].expiresAt
        /\ tokens[t].revoked => tokens'[t].revoked

(* A session that is not valid will not be valid again, after a restart with   *)
(* another secret neither.                                                     *)
LEMMA SessionStaysInvalid ==
    ASSUME TypeOK, TypeOK', Secrets, Grows, NEW s \in sessions, ~SessionValid(s)
    PROVE  ~SessionValid(s)'
<1>1. s.secret \in Nat /\ s.expiresAt \in Nat /\ s.secret <= secret
  BY DEF TypeOK, Session, Secrets
<1>2. /\ now \in Nat /\ now' \in Nat /\ secret \in Nat /\ secret' \in Nat
      /\ now <= now' /\ secret <= secret'
  BY ConstantsAssumption DEF TypeOK, Grows
<1> QED BY <1>1, <1>2 DEF SessionValid

(* Nor will a token.                                                           *)
LEMMA TokenStaysInvalid ==
    ASSUME TypeOK, TypeOK', Grows, NEW t \in Token, tokens[t].exists, ~TokenValid(t)
    PROVE  ~TokenValid(t)'
<1>1. tokens[t].expiresAt \in Int /\ tokens'[t].expiresAt = tokens[t].expiresAt
  <2>1. tokens[t] \in APIToken
    BY DEF TypeOK, NoToken
  <2>2. tokens[t].expiresAt \in {Never} \cup 0..(MaxTime + TokenTTL)
    BY <2>1 DEF APIToken
  <2>3. tokens[t].expiresAt \in Int
    BY <2>2, ConstantsAssumption DEF Never
  <2>4. tokens'[t].expiresAt = tokens[t].expiresAt
    BY DEF Grows
  <2> QED BY <2>3, <2>4
<1>2. now \in Nat /\ now' \in Nat /\ now <= now'
  BY ConstantsAssumption DEF TypeOK, Grows
<1>3. tokens[t].revoked => tokens'[t].revoked
  BY DEF Grows
<1>4. CASE tokens[t].revoked
  BY <1>3, <1>4 DEF TokenValid
<1>5. CASE ~tokens[t].revoked
  <2>1. tokens[t].expiresAt # Never /\ ~(now <= tokens[t].expiresAt)
    BY <1>5 DEF TokenValid
  <2> QED BY <2>1, <1>1, <1>2 DEF TokenValid
<1> QED BY <1>4, <1>5

(* A step that does not touch a request, or ends it with the server, keeps     *)
(* what is known of it.                                                        *)
LEMMA RequestKept ==
    ASSUME IInv, TypeOK', Grows, NEW r \in Request, unread \subseteq unread',
           req'[r] = req[r], identity'[r] = identity[r],
           status'[r] = status[r], arrival'[r] = arrival[r],
           pc'[r] = pc[r] \/ (pc'[r] = "gone" /\ pc[r] # "done"),
           pc'[r] \in {"jwt", "token", "authorize", "handler"} => up' /\ secret' = secret
    PROVE  RequestInv(r)'
<1>1. TypeOK /\ Secrets /\ RequestInv(r)
  BY DEF IInv
<1>2. SameServer(r)'
  BY <1>1 DEF RequestInv, SameServer
<1>3. Arrived(r)'
  <2>1. arrival[r].at \in Nat /\ arrival[r].revoked \subseteq Token
    BY <1>1, ConstantsAssumption DEF TypeOK
  <2>2. now \in Nat /\ now' \in Nat /\ now <= now'
    BY <1>1, ConstantsAssumption DEF TypeOK, Grows
  <2> QED BY <2>1, <2>2, <1>1 DEF RequestInv, Arrived, Grows
<1>4. Unanswered(r)'
  BY <1>1 DEF RequestInv, Unanswered
<1>5. TriedAsSession(r)'
  <2> SUFFICES ASSUME pc[r] = "token" 
               PROVE  /\ req[r].route # "ws"
                      /\ \A s \in sessions' : req[r].cred = Jwt(s) => ~SessionValid(s)'
    BY DEF TriedAsSession
  <2>1. ASSUME NEW s \in sessions', req[r].cred = Jwt(s) PROVE ~SessionValid(s)'
    <3>1. s \in sessions
      <4>1. \/ req[r].cred \in {Missing, Unknown}
            \/ \E u \in sessions : req[r].cred = Jwt(u)
            \/ \E t \in Token : req[r].cred = Opaque(t)
        BY <1>1 DEF TypeOK
      <4> QED BY <4>1, <2>1, CredentialsDiffer, Zenon
    <3>2. ~SessionValid(s)
      BY <3>1, <2>1, <1>1 DEF RequestInv, TriedAsSession
    <3> QED BY <3>1, <3>2, <1>1, SessionStaysInvalid
  <2> QED BY <2>1, <1>1 DEF RequestInv, TriedAsSession
<1>6. Identified(r)'
  <2> SUFFICES ASSUME pc[r] \in {"authorize", "handler"} \/ status[r] \in {200, 403}
               PROVE  (\E s \in sessions' : BySession(s, r)') \/ (\E t \in Token : ByToken(t, r)')
    BY DEF Identified
  <2>1. CASE \E s \in sessions : BySession(s, r)
    BY <2>1 DEF BySession, Grows
  <2>2. ASSUME NEW t \in Token, ByToken(t, r) PROVE ByToken(t, r)'
    <3>1. /\ tokens'[t].exists
          /\ tokens'[t].role = tokens[t].role /\ tokens'[t].scopes = tokens[t].scopes
          /\ tokens'[t].expiresAt = tokens[t].expiresAt
      BY <2>2 DEF ByToken, Grows
    <3>2. TokenIdentity(t)' = TokenIdentity(t)
      BY <3>1 DEF TokenIdentity
    <3>3. /\ req[r].cred = Opaque(t) /\ identity[r] = TokenIdentity(t)
          /\ t \notin arrival[r].revoked /\ req[r].route # "ws"
      BY <2>2, Zenon DEF ByToken
    <3>4. tokens'[t].expiresAt = Never \/ arrival[r].at <= tokens'[t].expiresAt
      BY <2>2, <3>1, Zenon DEF ByToken
    <3> QED BY <3>1, <3>2, <3>3, <3>4 DEF ByToken
  <2> QED BY <2>1, <2>2, <1>1 DEF RequestInv, Identified
<1>7. Decided(r)'
  BY <1>1 DEF RequestInv, Decided
<1>8. Unauthorized(r)'
  <2> SUFFICES ASSUME status[r] = 401, req[r].cred \notin {Missing, Unknown}
               PROVE  \/ \E s \in sessions' : req[r].cred = Jwt(s) /\ ~SessionValid(s)'
                      \/ \E t \in Token : /\ req[r].cred = Opaque(t)
                                          /\ tokens'[t].exists
                                          /\ ~TokenValid(t)' \/ req[r].route = "ws" \/ r \in unread'
    BY DEF Unauthorized
  <2>1. ASSUME NEW s \in sessions, req[r].cred = Jwt(s), ~SessionValid(s)
        PROVE  s \in sessions' /\ ~SessionValid(s)'
    BY <2>1, <1>1, SessionStaysInvalid DEF Grows
  <2>2. ASSUME NEW t \in Token, req[r].cred = Opaque(t), tokens[t].exists,
               ~TokenValid(t) \/ req[r].route = "ws" \/ r \in unread
        PROVE  tokens'[t].exists /\ (~TokenValid(t)' \/ req[r].route = "ws" \/ r \in unread')
    BY <2>2, <1>1, TokenStaysInvalid DEF Grows
  <2> QED BY <2>1, <2>2, <1>1 DEF RequestInv, Unauthorized
<1> QED BY <1>2, <1>3, <1>4, <1>5, <1>6, <1>7, <1>8 DEF RequestInv

----------------------------------------------------------------------------
(* The steps of the database, the clock and the server. *)

\* The part of the type invariant that is not about requests.
StoreTyped ==
    /\ now \in 0..MaxTime /\ up \in BOOLEAN /\ starts \in 0..MaxStarts /\ secret \in 0..MaxStarts
    /\ users \in [User -> Account \cup {NoUser}]
    /\ tokens \in [Token -> APIToken \cup {NoToken}]
    /\ sessions \subseteq Session
    /\ \A s \in sessions : s.expiresAt <= s.issuedAt + SessionTTL

(* Requests that nobody touches stay what they are, and presented credentials  *)
(* stay issued.                                                                *)
LEMMA RequestsTyped ==
    ASSUME TypeOK, StoreTyped', Grows, req' = req, identity' = identity, status' = status,
           arrival' = arrival, unread' = unread,
           pc' \in [Request -> {"idle", "jwt", "token", "authorize", "handler", "done", "gone"}]
    PROVE  TypeOK'
<1>1. ASSUME NEW r \in Request
      PROVE  \/ req[r].cred \in {Missing, Unknown}
             \/ \E s \in sessions' : req[r].cred = Jwt(s)
             \/ \E t \in Token : tokens'[t].exists /\ req[r].cred = Opaque(t)
  BY DEF TypeOK, Grows
<1> QED BY <1>1 DEF TypeOK, StoreTyped

(* A step that leaves the requests alone, and changes neither the secret nor   *)
(* the state of a server that is up, keeps the invariant.                      *)
LEMMA EnvStep ==
    ASSUME IInv, StoreTyped', Secrets', Claims', Grows, UNCHANGED calls,
           ~up \/ (up' = up /\ secret' = secret)
    PROVE  IInv'
<1>1. UNCHANGED <<req, pc, identity, status, arrival, unread>>
  BY DEF calls
<1>2. TypeOK'
  BY <1>1, RequestsTyped DEF IInv, TypeOK
<1>3. ASSUME NEW r \in Request PROVE RequestInv(r)'
  <2>1. pc[r] \in {"jwt", "token", "authorize", "handler"} => up' /\ secret' = secret
    BY DEF IInv, RequestInv, SameServer
  <2> QED BY <1>1, <1>2, <2>1, RequestKept
<1> QED BY <1>1, <1>2, <1>3 DEF IInv

(* Accounts that exist are what they were, as INSERT refuses to change one.    *)
LEMMA InsertKeepsAccounts ==
    ASSUME TypeOK, NEW u \in User, NEW password \in Password, NEW role \in Role,
           users' = Inserted(u, password, role)
    PROVE  /\ users' \in [User -> Account \cup {NoUser}]
           /\ \A v \in User : users[v].exists => users'[v] = users[v]
<1>1. CASE users[u].exists
  BY <1>1 DEF Inserted, TypeOK
<1>2. CASE ~users[u].exists
  <2>1. users' = [users EXCEPT ![u] = [exists |-> TRUE, password |-> password, role |-> role]]
    BY <1>2 DEF Inserted
  <2>2. [exists |-> TRUE, password |-> password, role |-> role] \in Account
    BY DEF Account
  <2> QED BY <2>1, <2>2, <1>2 DEF TypeOK
<1> QED BY <1>1, <1>2

(* Time passes.                                                                *)
LEMMA TickStep == ASSUME IInv, Tick PROVE IInv' /\ Grows
<1>1. TypeOK /\ Secrets /\ Claims
  BY DEF IInv
<1>2. now' = now + 1 /\ now < MaxTime /\ UNCHANGED <<server, store, sessions, calls>>
  BY DEF Tick
<1>3. StoreTyped'
  BY <1>1, <1>2, ConstantsAssumption DEF TypeOK, StoreTyped, server, store
<1>4. Grows
  BY <1>1, <1>2, ConstantsAssumption DEF TypeOK, Grows, server, store
<1>5. Secrets' /\ Claims'
  BY <1>1, <1>2 DEF Secrets, Claims, server, store
<1> QED BY <1>2, <1>3, <1>4, <1>5, EnvStep DEF server

(* Store.CreateUser adds an account and changes none.                          *)
LEMMA CreateUserStep ==
    ASSUME IInv, NEW u \in User, NEW password \in Password, NEW role \in Granted,
           CreateUser(u, password, role)
    PROVE  IInv' /\ Grows
<1>1. TypeOK /\ Secrets /\ Claims /\ role \in Role
  BY ConstantsAssumption DEF IInv
<1>2. /\ users' = Inserted(u, password, role)
      /\ UNCHANGED <<now, up, starts, secret, tokens, sessions, calls>>
  BY DEF CreateUser, server
<1>3. /\ users' \in [User -> Account \cup {NoUser}]
      /\ \A v \in User : users[v].exists => users'[v] = users[v]
  BY <1>1, <1>2, InsertKeepsAccounts
<1>4. StoreTyped'
  BY <1>1, <1>2, <1>3 DEF TypeOK, StoreTyped
<1>5. Grows
  BY <1>1, <1>2, <1>3, ConstantsAssumption DEF TypeOK, Grows
<1>6. Secrets' /\ Claims'
  <2>1. \A s \in sessions : s.user \in User
    BY <1>1 DEF TypeOK, Session
  <2> QED BY <1>1, <1>2, <1>3, <2>1 DEF Secrets, Claims
<1> QED BY <1>2, <1>4, <1>5, <1>6, EnvStep

(* Store.CreateAPIToken adds a token and changes none.                         *)
LEMMA CreateAPITokenStep ==
    ASSUME IInv, NEW t \in Token, NEW scopes \in ScopeLists, NEW role \in Granted,
           NEW ttl \in {0, TokenTTL}, CreateAPIToken(t, scopes, role, ttl)
    PROVE  IInv' /\ Grows
<1>1. TypeOK /\ Secrets /\ Claims /\ role \in Role
  BY ConstantsAssumption DEF IInv
<1> DEFINE token == [exists |-> TRUE, scopes |-> scopes, role |-> role, revoked |-> FALSE,
                     expiresAt |-> IF ttl > 0 THEN now + ttl ELSE Never]
<1>2. /\ ~tokens[t].exists /\ tokens' = [tokens EXCEPT ![t] = token]
      /\ UNCHANGED <<now, up, starts, secret, users, sessions, calls>>
  BY DEF CreateAPIToken, server
<1>3. token \in APIToken
  <2>1. (IF ttl > 0 THEN now + ttl ELSE Never) \in {Never} \cup 0..(MaxTime + TokenTTL)
    BY <1>1, ConstantsAssumption DEF TypeOK, Never
  <2>2. scopes \in SUBSET (Dataset \cup {AllDatasets})
    BY ConstantsAssumption DEF AllDatasets
  <2> QED BY <2>1, <2>2, <1>1 DEF APIToken
<1> HIDE DEF token
<1>4. tokens' \in [Token -> APIToken \cup {NoToken}]
  BY <1>1, <1>2, <1>3 DEF TypeOK
<1>5. StoreTyped'
  BY <1>1, <1>2, <1>4 DEF TypeOK, StoreTyped
<1>6. \A x \in Token : tokens[x].exists => tokens'[x] = tokens[x]
  BY <1>1, <1>2 DEF TypeOK
<1>7. Grows
  <2>1. now <= now' /\ secret <= secret'
    BY <1>1, <1>2, ConstantsAssumption DEF TypeOK
  <2> QED BY <1>2, <1>6, <2>1 DEF Grows
<1>8. Secrets' /\ Claims'
  BY <1>1, <1>2 DEF Secrets, Claims
<1> QED BY <1>2, <1>5, <1>7, <1>8, EnvStep

(* Store.RevokeAPIToken revokes and changes nothing else of the token.         *)
LEMMA RevokeAPITokenStep ==
    ASSUME IInv, NEW t \in Token, RevokeAPIToken(t)
    PROVE  IInv' /\ Grows
<1>1. TypeOK /\ Secrets /\ Claims
  BY DEF IInv
<1>2. /\ tokens[t].exists /\ tokens' = [tokens EXCEPT ![t].revoked = TRUE]
      /\ UNCHANGED <<now, up, starts, secret, users, sessions, calls>>
  BY DEF RevokeAPIToken, server
<1>3. tokens[t] \in APIToken
  BY <1>1, <1>2 DEF TypeOK, NoToken
<1>4. /\ tokens' = [tokens EXCEPT ![t] = [tokens[t] EXCEPT !.revoked = TRUE]]
      /\ [tokens[t] EXCEPT !.revoked = TRUE] \in APIToken
  BY <1>2, <1>3 DEF APIToken
<1>5. StoreTyped'
  <2>1. tokens' \in [Token -> APIToken \cup {NoToken}]
    BY <1>1, <1>4 DEF TypeOK
  <2> QED BY <1>1, <1>2, <2>1 DEF TypeOK, StoreTyped
<1>6. Grows
  <2>1. now <= now' /\ secret <= secret'
    BY <1>1, <1>2, ConstantsAssumption DEF TypeOK
  <2>2. ASSUME NEW x \in Token, tokens[x].exists
        PROVE  /\ tokens'[x].exists
               /\ tokens'[x].role = tokens[x].role /\ tokens'[x].scopes = tokens[x].scopes
               /\ tokens'[x].expiresAt = tokens[x].expiresAt
               /\ tokens[x].revoked => tokens'[x].revoked
    <3>1. CASE x = t
      <4>1. tokens'[t] = [tokens[t] EXCEPT !.revoked = TRUE]
        BY <1>1, <1>4 DEF TypeOK
      <4> QED BY <4>1, <3>1, <1>3, <1>2 DEF APIToken
    <3>2. CASE x # t
      BY <3>2, <2>2, <1>1, <1>4 DEF TypeOK
    <3> QED BY <3>1, <3>2
  <2> QED BY <1>2, <2>1, <2>2 DEF Grows
<1>7. Secrets' /\ Claims'
  BY <1>1, <1>2 DEF Secrets, Claims
<1> QED BY <1>2, <1>5, <1>6, <1>7, EnvStep

(* loginHandler issues a session with the claims of its account.               *)
LEMMA LoginStep ==
    ASSUME IInv, NEW u \in User, NEW password \in Password, Login(u, password)
    PROVE  IInv' /\ Grows
<1>1. TypeOK /\ Secrets /\ Claims
  BY DEF IInv
<1> DEFINE session == [user |-> u, role |-> users[u].role, secret |-> secret,
                       issuedAt |-> now, expiresAt |-> NumericDate(now + SessionTTL)]
<1>2. /\ up /\ users[u].exists /\ sessions' = sessions \cup {session}
      /\ UNCHANGED <<now, up, starts, secret, users, tokens, calls>>
  BY DEF Login, Verifies, server, store
<1>3. session \in Session /\ session.expiresAt <= session.issuedAt + SessionTTL
  <2>1. now \in 0..MaxTime /\ now + SessionTTL \in Nat /\ now + SessionTTL <= MaxTime + SessionTTL
    BY <1>1, ConstantsAssumption DEF TypeOK
  <2>2. NumericDate(now + SessionTTL) \in 0..(now + SessionTTL)
    BY <2>1, NumericDateIsEarlier
  <2>3. NumericDate(now + SessionTTL) \in 0..(MaxTime + SessionTTL)
    BY <2>1, <2>2, ConstantsAssumption
  <2>4. users[u].role \in Role
    <3>1. users[u] \in Account
      BY <1>1, <1>2 DEF TypeOK, NoUser
    <3> QED BY <3>1 DEF Account
  <2>5. secret \in 1..MaxStarts
    BY <1>1, <1>2, ConstantsAssumption DEF Secrets, TypeOK
  <2> QED BY <2>1, <2>2, <2>3, <2>4, <2>5 DEF Session
<1>4. session.user = u /\ session.role = users[u].role /\ session.secret = secret
  OBVIOUS
<1> HIDE DEF session
<1>5. StoreTyped'
  BY <1>1, <1>2, <1>3 DEF TypeOK, StoreTyped
<1>6. Grows
  <2>1. now <= now' /\ secret <= secret'
    BY <1>1, <1>2, ConstantsAssumption DEF TypeOK
  <2> QED BY <1>2, <2>1 DEF Grows
<1>7. Secrets'
  <2>1. secret <= secret
    BY <1>1, ConstantsAssumption DEF TypeOK
  <2> QED BY <1>1, <1>2, <1>4, <2>1 DEF Secrets
<1>8. Claims'
  BY <1>1, <1>2, <1>4 DEF Claims
<1> QED BY <1>2, <1>5, <1>6, <1>7, <1>8, EnvStep

(* serveAPI begins with a secret that no older session has, or with the one    *)
(* they all have.                                                              *)
LEMMA StartStep ==
    ASSUME IInv, NEW p \in SUBSET Password, Start(p)
    PROVE  IInv' /\ Grows
<1>1. TypeOK /\ Secrets /\ Claims
  BY DEF IInv
<1>2. /\ ~up /\ starts < MaxStarts /\ up' = TRUE /\ starts' = starts + 1
      /\ secret' = (IF Ephemeral THEN starts + 1 ELSE 1)
      /\ UNCHANGED <<now, tokens, sessions, calls>>
  BY DEF Start
<1>3. /\ users' \in [User -> Account \cup {NoUser}]
      /\ \A v \in User : users[v].exists => users'[v] = users[v]
  <2>1. CASE p = {}
    BY <2>1, <1>1 DEF Start, TypeOK
  <2>2. CASE p # {}
    <3>1. PICK x \in p : users' = Inserted(Admin, x, "admin")
      BY <2>2 DEF Start
    <3>2. Admin \in User /\ x \in Password /\ "admin" \in Role
      BY ConstantsAssumption DEF Role, Rank
    <3> QED BY <3>1, <3>2, <1>1, InsertKeepsAccounts
  <2> QED BY <2>1, <2>2
<1>4. starts \in Nat /\ starts' \in 1..MaxStarts /\ secret' \in 1..MaxStarts
  BY <1>1, <1>2, ConstantsAssumption DEF TypeOK
<1>5. StoreTyped'
  BY <1>1, <1>2, <1>3, <1>4 DEF TypeOK, StoreTyped
<1>6. secret <= secret'
  BY <1>1, <1>2, <1>4 DEF Secrets
<1>7. Grows
  BY <1>1, <1>2, <1>3, <1>6, ConstantsAssumption DEF TypeOK, Grows
<1>8. Secrets'
  <2>1. \A s \in sessions : s.secret \in Nat /\ s.secret <= secret
    BY <1>1 DEF TypeOK, Session, Secrets
  <2>2. secret \in Nat /\ secret' \in Nat
    BY <1>1, <1>4 DEF TypeOK
  <2>3. \A s \in sessions' : s.secret <= secret'
    BY <2>1, <2>2, <1>2, <1>6
  <2> QED BY <2>3, <1>2, <1>4 DEF Secrets
<1>9. Claims'
  <2>1. \A s \in sessions : s.user \in User
    BY <1>1 DEF TypeOK, Session
  <2> QED BY <1>1, <1>2, <1>3, <2>1 DEF Claims
<1> QED BY <1>2, <1>5, <1>7, <1>8, <1>9, EnvStep

(* The server stops: what is under way ends without an answer.                 *)
LEMMA StopStep == ASSUME IInv, Stop PROVE IInv' /\ Grows
<1>1. TypeOK /\ Secrets /\ Claims
  BY DEF IInv
<1>2. /\ up' = FALSE
      /\ pc' = [r \in Request |-> IF pc[r] \in {"idle", "done"} THEN pc[r] ELSE "gone"]
      /\ UNCHANGED <<now, starts, secret, users, tokens, sessions>>
      /\ UNCHANGED <<req, identity, status, arrival, unread>>
  BY DEF Stop, store
<1>3. StoreTyped'
  BY <1>1, <1>2 DEF TypeOK, StoreTyped
<1>4. Grows
  BY <1>1, <1>2, ConstantsAssumption DEF TypeOK, Grows
<1>5. pc' \in [Request -> {"idle", "jwt", "token", "authorize", "handler", "done", "gone"}]
  BY <1>1, <1>2 DEF TypeOK
<1>6. TypeOK'
  BY <1>1, <1>2, <1>3, <1>4, <1>5, RequestsTyped
<1>7. Secrets' /\ Claims'
  BY <1>1, <1>2 DEF Secrets, Claims
<1>8. ASSUME NEW r \in Request PROVE RequestInv(r)'
  <2>1. pc'[r] = pc[r] \/ (pc'[r] = "gone" /\ pc[r] # "done")
    BY <1>2
  <2>2. pc'[r] \notin {"jwt", "token", "authorize", "handler"}
    BY <1>2
  <2> QED BY <1>2, <1>4, <1>6, <2>1, <2>2, RequestKept
<1>9. IInv'
  BY <1>2, <1>6, <1>7, <1>8 DEF IInv
<1> QED BY <1>4, <1>9

----------------------------------------------------------------------------
(* The steps of a request. *)

\* Nothing but the request moves.
Still == UNCHANGED <<now, up, starts, secret, users, tokens, sessions>>

(* A step of one request keeps the invariant if it keeps that of the request.  *)
LEMMA RequestStep ==
    ASSUME IInv, Still, NEW r \in Request, TypeOK', req' \in [Request -> RequestType],
           RequestInv(r)', unread \subseteq unread',
           \A q \in Request \ {r} :
               /\ req'[q] = req[q] /\ identity'[q] = identity[q] /\ status'[q] = status[q]
               /\ arrival'[q] = arrival[q] /\ pc'[q] = pc[q]
    PROVE  IInv'
<1>1. Secrets' /\ Claims'
  BY DEF IInv, Secrets, Claims, Still
<1>2. Grows
  BY ConstantsAssumption DEF IInv, TypeOK, Grows, Still
<1>3. ASSUME NEW q \in Request, q # r PROVE RequestInv(q)'
  <2>1. pc'[q] \in {"jwt", "token", "authorize", "handler"} => up' /\ secret' = secret
    BY <1>3 DEF IInv, RequestInv, SameServer, Still
  <2> QED BY <1>2, <1>3, <2>1, RequestKept
<1> QED BY <1>1, <1>3 DEF IInv

(* A request arrives with a credential that was issued, or with none.          *)
LEMMA ArriveStep ==
    ASSUME IInv, NEW r \in Request, NEW route \in Route, NEW cred \in Presented,
           NEW d \in Dataset \cup {AllDatasets}, Arrive(r, route, d, cred)
    PROVE  IInv'
<1>1. TypeOK /\ RequestInv(r) /\ req \in [Request -> RequestType]
  BY DEF IInv
<1> DEFINE q == [route |-> route, dataset |-> d, cred |-> cred]
           a == [at |-> now, secret |-> secret,
                 revoked |-> {t \in Token : tokens[t].exists /\ tokens[t].revoked}]
<1>2. /\ up /\ pc[r] = "idle" /\ Still
      /\ req' = [req EXCEPT ![r] = q] /\ arrival' = [arrival EXCEPT ![r] = a]
      /\ pc' = [pc EXCEPT ![r] = "jwt"] /\ identity' = identity /\ status' = status
      /\ unread' = unread
  BY DEF Arrive, Still, server, store
<1>3. /\ \/ cred \in {Missing, Unknown}
         \/ \E s \in sessions : cred = Jwt(s)
         \/ \E t \in Token : tokens[t].exists /\ cred = Opaque(t)
      /\ cred \in Credential
  <2>1. \/ cred \in {Missing, Unknown}
        \/ \E s \in sessions : cred = Jwt(s)
        \/ \E t \in Token : tokens[t].exists /\ cred = Opaque(t)
    BY DEF Presented
  <2>2. sessions \subseteq Session
    BY <1>1 DEF TypeOK
  <2> QED BY <2>1, <2>2 DEF Credential
<1>4. req' \in [Request -> RequestType]
  <2>1. q \in RequestType
    BY <1>3 DEF RequestType
  <2> QED BY <2>1, <1>1, <1>2
<1>5. TypeOK'
  <2>1. a \in [at : 0..MaxTime, secret : 0..MaxStarts, revoked : SUBSET Token]
    BY <1>1 DEF TypeOK
  <2>2. /\ arrival' \in [Request -> [at : 0..MaxTime, secret : 0..MaxStarts, revoked : SUBSET Token]]
        /\ pc' \in [Request -> {"idle", "jwt", "token", "authorize", "handler", "done", "gone"}]
    BY <2>1, <1>1, <1>2 DEF TypeOK
  <2>3. ASSUME NEW x \in Request
        PROVE  /\ req'[x].route \in Route
               /\ req'[x].dataset \in Dataset \cup {AllDatasets}
               /\ \/ req'[x].cred \in {Missing, Unknown}
                  \/ \E s \in sessions : req'[x].cred = Jwt(s)
                  \/ \E t \in Token : tokens[t].exists /\ req'[x].cred = Opaque(t)
    <3>1. CASE x = r
      <4>1. req'[x] = q
        BY <3>1, <1>1, <1>2
      <4>2. q.route = route /\ q.dataset = d /\ q.cred = cred
        OBVIOUS
      <4> QED BY <4>1, <4>2, <1>3, Zenon
    <3>2. CASE x # r
      <4>1. req'[x] = req[x]
        BY <3>2, <1>1, <1>2
      <4> QED BY <4>1, <1>1 DEF TypeOK
    <3> QED BY <3>1, <3>2
  <2> HIDE DEF q, a
  <2> QED BY <2>2, <2>3, <1>1, <1>2 DEF TypeOK, Still
<1>6. RequestInv(r)'
  <2>1. pc'[r] = "jwt" /\ arrival'[r] = a /\ status'[r] = 0
    BY <1>1, <1>2 DEF TypeOK, RequestInv, Unanswered
  <2>2. a.at = now /\ a.secret = secret
        /\ a.revoked = {t \in Token : tokens[t].exists /\ tokens[t].revoked}
    OBVIOUS
  <2> HIDE DEF a, q
  <2>3. SameServer(r)'
    BY <2>1, <2>2, <1>2 DEF SameServer, Still
  <2>4. Arrived(r)'
    BY <2>1, <2>2, <1>1, <1>2, ConstantsAssumption DEF Arrived, Still, TypeOK
  <2> QED BY <2>1, <2>3, <2>4
        DEF RequestInv, Unanswered, TriedAsSession, Identified, Decided, Unauthorized
<1>7. \A x \in Request \ {r} :
          /\ req'[x] = req[x] /\ identity'[x] = identity[x] /\ status'[x] = status[x]
          /\ arrival'[x] = arrival[x] /\ pc'[x] = pc[x]
  BY <1>1, <1>2 DEF TypeOK
<1> QED BY <1>2, <1>4, <1>5, <1>6, <1>7, RequestStep

\* The types of what the middleware changes of a request.
Place == {"idle", "jwt", "token", "authorize", "handler", "done", "gone"}
Identity == [role : Role, scopes : SUBSET (Dataset \cup {AllDatasets}), viaToken : BOOLEAN]
Status == {0, 200, 401, 403}

(* A step of the middleware changes the place, the identity and the status of  *)
(* its request, and keeps the invariant if it keeps that of the request.       *)
LEMMA MiddlewareStep ==
    ASSUME IInv, Still, UNCHANGED <<req, arrival>>, NEW r \in Request,
           unread' = unread \/ unread' = unread \cup {r},
           pc' \in [Request -> Place], identity' \in [Request -> Identity],
           status' \in [Request -> Status],
           \A q \in Request \ {r} :
               pc'[q] = pc[q] /\ identity'[q] = identity[q] /\ status'[q] = status[q],
           RequestInv(r)'
    PROVE  IInv'
<1>1. TypeOK /\ req \in [Request -> RequestType]
  BY DEF IInv
<1>2. unread' \subseteq Request /\ unread \subseteq unread'
  BY <1>1 DEF TypeOK
<1>3. TypeOK'
  BY <1>1, <1>2 DEF TypeOK, Still, Place, Identity, Status
<1> QED BY <1>1, <1>2, <1>3, RequestStep

(* What the middleware writes into a request, and into no other.               *)
LEMMA MiddlewareTyped ==
    ASSUME TypeOK, NEW r \in Request,
           NEW where \in Place, pc' = [pc EXCEPT ![r] = where],
           NEW id \in Identity, identity' = identity \/ identity' = [identity EXCEPT ![r] = id],
           NEW code \in Status, status' = status \/ status' = [status EXCEPT ![r] = code]
    PROVE  /\ pc' \in [Request -> Place] /\ identity' \in [Request -> Identity]
           /\ status' \in [Request -> Status]
           /\ \A q \in Request \ {r} :
                pc'[q] = pc[q] /\ identity'[q] = identity[q] /\ status'[q] = status[q]
<1>1. /\ pc \in [Request -> Place] /\ identity \in [Request -> Identity]
      /\ status \in [Request -> Status]
  BY Zenon DEF TypeOK, Place, Identity, Status
<1>2. pc' \in [Request -> Place]
  BY <1>1
<1>3. identity' \in [Request -> Identity]
  BY <1>1
<1>4. status' \in [Request -> Status]
  BY <1>1
<1>5. \A q \in Request \ {r} :
          pc'[q] = pc[q] /\ identity'[q] = identity[q] /\ status'[q] = status[q]
  BY <1>1
<1> QED BY <1>2, <1>3, <1>4, <1>5

(* What a request can have presented, by kind.                                 *)
LEMMA CredentialOf ==
    ASSUME TypeOK, NEW r \in Request
    PROVE  /\ req[r].cred.kind = "missing" => req[r].cred \in {Missing, Unknown}
           /\ req[r].cred.kind = "jwt" =>
                req[r].cred.session \in sessions /\ req[r].cred = Jwt(req[r].cred.session)
           /\ req[r].cred.kind = "token" =>
                /\ req[r].cred.token \in Token /\ tokens[req[r].cred.token].exists
                /\ req[r].cred = Opaque(req[r].cred.token)
           /\ \/ req[r].cred \in {Missing, Unknown}
              \/ req[r].cred.kind \in {"jwt", "token"}
<1> DEFINE c == req[r].cred
<1>1. \/ c \in {Missing, Unknown}
      \/ \E s \in sessions : c = Jwt(s)
      \/ \E t \in Token : tokens[t].exists /\ c = Opaque(t)
  BY DEF TypeOK
<1> HIDE DEF c
<1>2. CASE c \in {Missing, Unknown}
  <2>1. c.kind \in {"missing", "unknown"}
    BY <1>2, CredentialsDiffer
  <2> QED BY <1>2, <2>1 DEF c
<1>3. CASE \E s \in sessions : c = Jwt(s)
  <2>1. PICK s \in sessions : c = Jwt(s)
    BY <1>3
  <2>2. c.kind = "jwt" /\ c.session = s
    BY <2>1, CredentialsDiffer
  <2> QED BY <2>1, <2>2 DEF c
<1>4. CASE \E t \in Token : tokens[t].exists /\ c = Opaque(t)
  <2>1. PICK t \in Token : tokens[t].exists /\ c = Opaque(t)
    BY <1>4
  <2>2. c.kind = "token" /\ c.token = t
    BY <2>1, CredentialsDiffer
  <2> QED BY <2>1, <2>2 DEF c
<1> QED BY <1>1, <1>2, <1>3, <1>4

(* The first half of Authenticate.                                             *)
LEMMA VerifyJWTStep == ASSUME IInv, NEW r \in Request, VerifyJWT(r) PROVE IInv'
<1> DEFINE c == req[r].cred
<1>1. TypeOK /\ Secrets /\ RequestInv(r)
  BY DEF IInv
<1>2. /\ pc[r] = "jwt" /\ Still /\ UNCHANGED <<req, arrival, unread>>
      /\ up /\ arrival[r].secret = secret /\ status[r] = 0 /\ Arrived(r)
  BY <1>1 DEF VerifyJWT, Still, server, store, RequestInv, SameServer, Unanswered
<1>3. Arrived(r)' /\ (up /\ arrival[r].secret = secret)'
  BY <1>2 DEF Arrived, Still
<1>4. CASE c.kind = "jwt" /\ SessionValid(c.session)
  <2> DEFINE s == c.session
  <2>1. s \in sessions /\ c = Jwt(s)
    BY <1>1, <1>4, CredentialOf
  <2>2. /\ identity' = [identity EXCEPT ![r] = SessionIdentity(s)]
        /\ pc' = [pc EXCEPT ![r] = "authorize"] /\ status' = status
    BY <1>4 DEF VerifyJWT, SessionIdentity
  <2>3. SessionIdentity(s) \in Identity
    <3>1. s.role \in Role
      BY <2>1, <1>1 DEF TypeOK, Session
    <3> QED BY <3>1 DEF SessionIdentity, Identity
  <2>4. pc'[r] = "authorize" /\ identity'[r] = SessionIdentity(s) /\ status'[r] = 0
    BY <2>2, <1>1, <1>2 DEF TypeOK
  <2>5. BySession(s, r)'
    <3>1. s.secret = secret /\ now < s.expiresAt
      BY <1>4 DEF SessionValid
    <3>2. arrival[r].at <= now /\ arrival[r].at \in Nat /\ now \in Nat /\ s.expiresAt \in Nat
      BY <1>1, <1>2, <2>1, ConstantsAssumption DEF Arrived, TypeOK, Session
    <3>3. arrival[r].at < s.expiresAt
      BY <3>1, <3>2
    <3> QED BY <3>1, <3>3, <2>1, <2>4, <1>2 DEF BySession
  <2>6. Identified(r)'
    BY <2>1, <2>5, <1>2 DEF Identified, Still
  <2> HIDE DEF s, c
  <2>7. RequestInv(r)'
    BY <2>4, <2>6, <1>3
      DEF RequestInv, SameServer, Unanswered, TriedAsSession, Decided, Unauthorized
  <2>8. "authorize" \in Place /\ 0 \in Status
    BY DEF Place, Status
  <2>9. /\ pc' \in [Request -> Place] /\ identity' \in [Request -> Identity]
        /\ status' \in [Request -> Status]
        /\ \A q \in Request \ {r} :
             pc'[q] = pc[q] /\ identity'[q] = identity[q] /\ status'[q] = status[q]
    BY <1>1, <2>2, <2>3, <2>8, MiddlewareTyped
  <2> QED BY <1>2, <2>7, <2>9, MiddlewareStep
<1>5. CASE ~(c.kind = "jwt" /\ SessionValid(c.session))
  <2>0. ASSUME NEW s \in sessions, c = Jwt(s) PROVE ~SessionValid(s)'
    <3>1. c.kind = "jwt" /\ c.session = s
      BY <2>0, CredentialsDiffer
    <3> QED BY <3>1, <1>5, <1>2 DEF SessionValid, Still
  <2>1. CASE c.kind = "missing" \/ req[r].route = "ws"
    <3>1. /\ identity' = identity /\ pc' = [pc EXCEPT ![r] = "done"]
          /\ status' = [status EXCEPT ![r] = 401]
      BY <1>5, <2>1 DEF VerifyJWT, Answer
    <3>2. pc'[r] = "done" /\ status'[r] = 401
      BY <3>1, <1>1 DEF TypeOK
    <3>3. Unauthorized(r)'
      <4>1. CASE c \in {Missing, Unknown}
        BY <4>1, <1>2 DEF Unauthorized
      <4>2. CASE c.kind = "jwt"
        <5>1. c.session \in sessions /\ c = Jwt(c.session)
          BY <4>2, <1>1, CredentialOf
        <5> QED BY <5>1, <2>0, <1>2 DEF Unauthorized, Still
      <4>3. CASE c.kind = "token"
        <5>1. c.token \in Token /\ tokens[c.token].exists /\ c = Opaque(c.token)
          BY <4>3, <1>1, CredentialOf
        <5>2. req[r].route = "ws"
          BY <4>3, <2>1
        <5> QED BY <5>1, <5>2, <1>2 DEF Unauthorized, Still
      <4> QED BY <4>1, <4>2, <4>3, <1>1, CredentialOf
    <3> HIDE DEF c
    <3>4. RequestInv(r)'
      BY <3>2, <3>3, <1>3
        DEF RequestInv, SameServer, Unanswered, TriedAsSession, Identified, Decided
    <3>5. "done" \in Place /\ 401 \in Status /\ identity[r] \in Identity
      BY <1>1 DEF Place, Status, Identity, TypeOK
    <3>6. /\ pc' \in [Request -> Place] /\ identity' \in [Request -> Identity]
          /\ status' \in [Request -> Status]
          /\ \A q \in Request \ {r} :
               pc'[q] = pc[q] /\ identity'[q] = identity[q] /\ status'[q] = status[q]
      BY <1>1, <3>1, <3>5, MiddlewareTyped
    <3> QED BY <1>2, <3>4, <3>6, MiddlewareStep
  <2>2. CASE ~(c.kind = "missing" \/ req[r].route = "ws")
    <3>1. identity' = identity /\ pc' = [pc EXCEPT ![r] = "token"] /\ status' = status
      BY <1>5, <2>2 DEF VerifyJWT
    <3>2. pc'[r] = "token" /\ status'[r] = 0
      BY <3>1, <1>1, <1>2 DEF TypeOK
    <3>3. TriedAsSession(r)'
      BY <2>0, <2>2, <1>2 DEF TriedAsSession, Still
    <3> HIDE DEF c
    <3>4. RequestInv(r)'
      BY <3>2, <3>3, <1>3
        DEF RequestInv, SameServer, Unanswered, Identified, Decided, Unauthorized
    <3>5. "token" \in Place /\ 0 \in Status /\ identity[r] \in Identity
      BY <1>1 DEF Place, Status, Identity, TypeOK
    <3>6. /\ pc' \in [Request -> Place] /\ identity' \in [Request -> Identity]
          /\ status' \in [Request -> Status]
          /\ \A q \in Request \ {r} :
               pc'[q] = pc[q] /\ identity'[q] = identity[q] /\ status'[q] = status[q]
      BY <1>1, <3>1, <3>5, MiddlewareTyped
    <3> QED BY <1>2, <3>4, <3>6, MiddlewareStep
  <2> QED BY <2>1, <2>2
<1> QED BY <1>4, <1>5

(* The second half of Authenticate.                                            *)
LEMMA VerifyAPITokenStep == ASSUME IInv, NEW r \in Request, VerifyAPIToken(r) PROVE IInv'
<1> DEFINE c == req[r].cred
<1>1. TypeOK /\ RequestInv(r)
  BY DEF IInv
<1>2. /\ pc[r] = "token" /\ Still /\ UNCHANGED <<req, arrival, unread>>
      /\ up /\ arrival[r].secret = secret /\ status[r] = 0 /\ Arrived(r)
      /\ req[r].route # "ws"
      /\ \A s \in sessions : c = Jwt(s) => ~SessionValid(s)
  BY <1>1 DEF VerifyAPIToken, Still, server, store, RequestInv, SameServer, Unanswered,
             TriedAsSession
<1>3. Arrived(r)' /\ (up /\ arrival[r].secret = secret)'
  BY <1>2 DEF Arrived, Still
<1>4. CASE c.kind = "token" /\ TokenValid(c.token)
  <2>0. c.token \in Token /\ tokens[c.token].exists /\ c = Opaque(c.token)
    BY <1>1, <1>4, CredentialOf
  <2>1. PICK t \in Token : t = c.token /\ tokens[t].exists /\ c = Opaque(t)
    BY <2>0
  <2>2. /\ identity' = [identity EXCEPT ![r] = TokenIdentity(t)]
        /\ pc' = [pc EXCEPT ![r] = "authorize"] /\ status' = status
    BY <1>4, <2>1 DEF VerifyAPIToken, TokenIdentity
  <2>3. tokens[t] \in APIToken
    BY <2>1, <1>1 DEF TypeOK, NoToken
  <2>4. TokenIdentity(t) \in Identity
    <3>1. tokens[t].role \in Role /\ tokens[t].scopes \in SUBSET (Dataset \cup {AllDatasets})
      BY <2>3 DEF APIToken
    <3> QED BY <3>1 DEF TokenIdentity, Identity
  <2>5. pc'[r] = "authorize" /\ identity'[r] = TokenIdentity(t) /\ status'[r] = 0
    BY <2>2, <1>1, <1>2 DEF TypeOK
  <2>6. ByToken(t, r)'
    <3>1. ~tokens[t].revoked /\ (tokens[t].expiresAt = Never \/ now <= tokens[t].expiresAt)
      BY <1>4, <2>1 DEF TokenValid
    <3>2. t \notin arrival[r].revoked
      BY <3>1, <1>2 DEF Arrived
    <3>3. tokens[t].expiresAt \in Int
      <4>1. tokens[t].expiresAt \in {Never} \cup 0..(MaxTime + TokenTTL)
        BY <2>3 DEF APIToken
      <4> QED BY <4>1, ConstantsAssumption DEF Never
    <3>4. arrival[r].at <= now /\ arrival[r].at \in Nat /\ now \in Nat
      BY <1>1, <1>2, ConstantsAssumption DEF Arrived, TypeOK
    <3>5. tokens[t].expiresAt = Never \/ arrival[r].at <= tokens[t].expiresAt
      BY <3>1, <3>3, <3>4
    <3>6. TokenIdentity(t)' = TokenIdentity(t)
      BY <1>2 DEF TokenIdentity, Still
    <3>7. tokens' = tokens /\ req' = req /\ arrival' = arrival
      BY <1>2 DEF Still
    <3> QED BY <3>2, <3>5, <3>6, <3>7, <2>1, <2>5, <1>2 DEF ByToken
  <2>7. Identified(r)'
    BY <2>1, <2>6 DEF Identified
  <2> HIDE DEF c
  <2>8. RequestInv(r)'
    BY <2>5, <2>7, <1>3
      DEF RequestInv, SameServer, Unanswered, TriedAsSession, Decided, Unauthorized
  <2>9. "authorize" \in Place /\ 0 \in Status
    BY DEF Place, Status
  <2>10. /\ pc' \in [Request -> Place] /\ identity' \in [Request -> Identity]
         /\ status' \in [Request -> Status]
         /\ \A q \in Request \ {r} :
              pc'[q] = pc[q] /\ identity'[q] = identity[q] /\ status'[q] = status[q]
    BY <1>1, <2>2, <2>4, <2>9, MiddlewareTyped
  <2> QED BY <1>2, <2>8, <2>10, MiddlewareStep
<1>5. CASE ~(c.kind = "token" /\ TokenValid(c.token))
  <2>1. /\ identity' = identity /\ pc' = [pc EXCEPT ![r] = "done"]
        /\ status' = [status EXCEPT ![r] = 401]
    BY <1>5 DEF VerifyAPIToken, Answer
  <2>2. pc'[r] = "done" /\ status'[r] = 401
    BY <2>1, <1>1 DEF TypeOK
  <2>3. Unauthorized(r)'
    <3>1. CASE c \in {Missing, Unknown}
      BY <3>1, <1>2 DEF Unauthorized
    <3>2. CASE c.kind = "jwt"
      <4>1. c.session \in sessions /\ c = Jwt(c.session)
        BY <3>2, <1>1, CredentialOf
      <4>2. ~SessionValid(c.session)'
        BY <4>1, <1>2 DEF SessionValid, Still
      <4> QED BY <4>1, <4>2, <1>2 DEF Unauthorized, Still
    <3>3. CASE c.kind = "token"
      <4>1. c.token \in Token /\ tokens[c.token].exists /\ c = Opaque(c.token)
        BY <3>3, <1>1, CredentialOf
      <4>2. ~TokenValid(c.token)'
        BY <3>3, <1>5, <1>2 DEF TokenValid, Still
      <4> QED BY <4>1, <4>2, <1>2 DEF Unauthorized, Still
    <3> QED BY <3>1, <3>2, <3>3, <1>1, CredentialOf
  <2> HIDE DEF c
  <2>4. RequestInv(r)'
    BY <2>2, <2>3, <1>3
      DEF RequestInv, SameServer, Unanswered, TriedAsSession, Identified, Decided
  <2>5. "done" \in Place /\ 401 \in Status /\ identity[r] \in Identity
    BY <1>1 DEF Place, Status, Identity, TypeOK
  <2>6. /\ pc' \in [Request -> Place] /\ identity' \in [Request -> Identity]
        /\ status' \in [Request -> Status]
        /\ \A q \in Request \ {r} :
             pc'[q] = pc[q] /\ identity'[q] = identity[q] /\ status'[q] = status[q]
    BY <1>1, <2>1, <2>5, MiddlewareTyped
  <2> QED BY <1>2, <2>4, <2>6, MiddlewareStep
<1> QED BY <1>4, <1>5

(* The database cannot be read: the request is answered 401 whatever it has.   *)
LEMMA VerifyAPITokenFailsStep ==
    ASSUME IInv, NEW r \in Request, VerifyAPITokenFails(r) PROVE IInv'
<1> DEFINE c == req[r].cred
<1>1. TypeOK /\ RequestInv(r)
  BY DEF IInv
<1>2. /\ pc[r] = "token" /\ Still /\ UNCHANGED <<req, arrival, identity>> /\ Arrived(r)
      /\ unread' = unread \cup {r}
      /\ pc' = [pc EXCEPT ![r] = "done"] /\ status' = [status EXCEPT ![r] = 401]
  BY <1>1 DEF VerifyAPITokenFails, Answer, Still, server, store, RequestInv
<1>3. Arrived(r)'
  BY <1>2 DEF Arrived, Still
<1>4. pc'[r] = "done" /\ status'[r] = 401
  BY <1>2, <1>1 DEF TypeOK
<1>5. \A s \in sessions : c = Jwt(s) => ~SessionValid(s)
  BY <1>1, <1>2 DEF RequestInv, TriedAsSession
<1>6. Unauthorized(r)'
  <2>1. CASE c \in {Missing, Unknown}
    BY <2>1, <1>2 DEF Unauthorized
  <2>2. CASE c.kind = "jwt"
    <3>1. c.session \in sessions /\ c = Jwt(c.session)
      BY <2>2, <1>1, CredentialOf
    <3>2. ~SessionValid(c.session)'
      BY <3>1, <1>2, <1>5 DEF SessionValid, Still
    <3> QED BY <3>1, <3>2, <1>2 DEF Unauthorized, Still
  <2>3. CASE c.kind = "token"
    <3>1. c.token \in Token /\ tokens[c.token].exists /\ c = Opaque(c.token)
      BY <2>3, <1>1, CredentialOf
    <3>2. r \in unread'
      BY <1>2
    <3> QED BY <3>1, <3>2, <1>2 DEF Unauthorized, Still
  <2> QED BY <2>1, <2>2, <2>3, <1>1, CredentialOf
<1> HIDE DEF c
<1>7. RequestInv(r)'
  BY <1>3, <1>4, <1>6
    DEF RequestInv, SameServer, Unanswered, TriedAsSession, Identified, Decided
<1>8. "done" \in Place /\ 401 \in Status /\ identity[r] \in Identity
  BY <1>1 DEF Place, Status, Identity, TypeOK
<1>9. /\ pc' \in [Request -> Place] /\ identity' \in [Request -> Identity]
      /\ status' \in [Request -> Status]
      /\ \A q \in Request \ {r} :
           pc'[q] = pc[q] /\ identity'[q] = identity[q] /\ status'[q] = status[q]
  BY <1>1, <1>2, <1>8, MiddlewareTyped
<1> QED BY <1>2, <1>7, <1>9, MiddlewareStep

(* An identity that is left alone still comes from the same credential.        *)
LEMMA StillIdentified ==
    ASSUME Still, UNCHANGED <<req, arrival, identity>>, NEW r \in Request,
           Identified(r), pc[r] \in {"authorize", "handler"}
    PROVE  Identified(r)'
<1>1. UNCHANGED <<now, up, starts, secret, users, tokens, sessions>>
  BY DEF Still
<1>2. (\E s \in sessions : BySession(s, r)) \/ (\E t \in Token : ByToken(t, r))
  BY DEF Identified
<1>3. ASSUME NEW s \in sessions, BySession(s, r) PROVE BySession(s, r)' /\ s \in sessions'
  BY <1>1, <1>3 DEF BySession
<1>4. ASSUME NEW t \in Token, ByToken(t, r) PROVE ByToken(t, r)'
  <2>1. TokenIdentity(t)' = TokenIdentity(t)
    BY <1>1 DEF TokenIdentity
  <2> QED BY <1>1, <1>4, <2>1, Zenon DEF ByToken
<1> QED BY <1>2, <1>3, <1>4, Zenon DEF Identified

(* RequireRole, datasetRBAC and RequireDatasetScope.                           *)
LEMMA AuthorizeStep == ASSUME IInv, NEW r \in Request, Authorize(r) PROVE IInv'
<1>1. TypeOK /\ RequestInv(r)
  BY DEF IInv
<1>2. /\ pc[r] = "authorize" /\ Still /\ UNCHANGED <<req, arrival, identity, unread>>
      /\ up /\ arrival[r].secret = secret /\ status[r] = 0 /\ Arrived(r)
  BY <1>1 DEF Authorize, Still, server, store, RequestInv, SameServer, Unanswered
<1>3. Arrived(r)' /\ (up /\ arrival[r].secret = secret)'
  BY <1>2 DEF Arrived, Still
<1>4. Identified(r)'
  BY <1>1, <1>2, StillIdentified DEF RequestInv
<1>5. Allowed(identity[r], req[r])' <=> Allowed(identity[r], req[r])
  BY <1>2 DEF Allowed, AtLeast, AllowsDataset
<1>6. identity[r] \in Identity
  BY <1>1 DEF Identity, TypeOK
<1>7. CASE Allowed(identity[r], req[r])
  <2>1. pc' = [pc EXCEPT ![r] = "handler"] /\ status' = status
    BY <1>7 DEF Authorize
  <2>2. pc'[r] = "handler" /\ status'[r] = 0
    BY <2>1, <1>1, <1>2 DEF TypeOK
  <2>3. Decided(r)'
    BY <2>2, <1>5, <1>7 DEF Decided
  <2>4. RequestInv(r)'
    BY <2>2, <2>3, <1>3, <1>4
      DEF RequestInv, SameServer, Unanswered, TriedAsSession, Unauthorized
  <2>5. "handler" \in Place /\ 0 \in Status
    BY DEF Place, Status
  <2>6. /\ pc' \in [Request -> Place] /\ identity' \in [Request -> Identity]
        /\ status' \in [Request -> Status]
        /\ \A q \in Request \ {r} :
             pc'[q] = pc[q] /\ identity'[q] = identity[q] /\ status'[q] = status[q]
    BY <1>1, <1>2, <1>6, <2>1, <2>5, MiddlewareTyped
  <2> QED BY <1>2, <2>4, <2>6, MiddlewareStep
<1>8. CASE ~Allowed(identity[r], req[r])
  <2>1. pc' = [pc EXCEPT ![r] = "done"] /\ status' = [status EXCEPT ![r] = 403]
    BY <1>8 DEF Authorize, Answer
  <2>2. pc'[r] = "done" /\ status'[r] = 403
    BY <2>1, <1>1 DEF TypeOK
  <2>3. Decided(r)'
    BY <2>2, <1>5, <1>8 DEF Decided
  <2>4. RequestInv(r)'
    BY <2>2, <2>3, <1>3, <1>4
      DEF RequestInv, SameServer, Unanswered, TriedAsSession, Unauthorized
  <2>5. "done" \in Place /\ 403 \in Status
    BY DEF Place, Status
  <2>6. /\ pc' \in [Request -> Place] /\ identity' \in [Request -> Identity]
        /\ status' \in [Request -> Status]
        /\ \A q \in Request \ {r} :
             pc'[q] = pc[q] /\ identity'[q] = identity[q] /\ status'[q] = status[q]
    BY <1>1, <1>2, <1>6, <2>1, <2>5, MiddlewareTyped
  <2> QED BY <1>2, <2>4, <2>6, MiddlewareStep
<1> QED BY <1>7, <1>8

(* The handler answers.                                                        *)
LEMMA ServeStep == ASSUME IInv, NEW r \in Request, Serve(r) PROVE IInv'
<1>1. TypeOK /\ RequestInv(r)
  BY DEF IInv
<1>2. /\ pc[r] = "handler" /\ Still /\ UNCHANGED <<req, arrival, identity, unread>>
      /\ Arrived(r)
      /\ pc' = [pc EXCEPT ![r] = "done"] /\ status' = [status EXCEPT ![r] = 200]
  BY <1>1 DEF Serve, Answer, Still, server, store, RequestInv
<1>3. Arrived(r)'
  BY <1>2 DEF Arrived, Still
<1>4. Identified(r)'
  BY <1>1, <1>2, StillIdentified DEF RequestInv
<1>5. pc'[r] = "done" /\ status'[r] = 200
  BY <1>2, <1>1 DEF TypeOK
<1>6. Decided(r)'
  <2>1. Allowed(identity[r], req[r])
    BY <1>1, <1>2 DEF RequestInv, Decided
  <2>2. Allowed(identity[r], req[r])'
    BY <2>1, <1>2 DEF Allowed, AtLeast, AllowsDataset
  <2> QED BY <2>2, <1>5 DEF Decided
<1>7. RequestInv(r)'
  BY <1>3, <1>4, <1>5, <1>6
    DEF RequestInv, SameServer, Unanswered, TriedAsSession, Unauthorized
<1>8. "done" \in Place /\ 200 \in Status /\ identity[r] \in Identity
  BY <1>1 DEF Place, Status, Identity, TypeOK
<1>9. /\ pc' \in [Request -> Place] /\ identity' \in [Request -> Identity]
      /\ status' \in [Request -> Status]
      /\ \A q \in Request \ {r} :
           pc'[q] = pc[q] /\ identity'[q] = identity[q] /\ status'[q] = status[q]
  BY <1>1, <1>2, <1>8, MiddlewareTyped
<1> QED BY <1>2, <1>7, <1>9, MiddlewareStep

----------------------------------------------------------------------------
(* The theorems. *)

(* The invariant holds when nothing was ever started.                          *)
LEMMA InitIInv == Init => IInv
<1> SUFFICES ASSUME Init PROVE IInv
  OBVIOUS
<1>1. req \in [Request -> RequestType]
  <2>1. [route |-> "query", dataset |-> AllDatasets, cred |-> Missing] \in RequestType
    BY DEF RequestType, Route, MinRole, Credential
  <2> QED BY <2>1 DEF Init
<1>2. TypeOK
  <2>1. Anonymous \in [role : Role, scopes : SUBSET (Dataset \cup {AllDatasets}),
                       viaToken : BOOLEAN]
    BY DEF Anonymous, Role, Rank
  <2>2. ASSUME NEW r \in Request
        PROVE  /\ req[r].route \in Route
               /\ req[r].dataset \in Dataset \cup {AllDatasets}
               /\ req[r].cred \in {Missing, Unknown}
    BY DEF Init, Route, MinRole
  <2>3. identity \in [Request -> [role : Role, scopes : SUBSET (Dataset \cup {AllDatasets}),
                                  viaToken : BOOLEAN]]
    BY <2>1 DEF Init
  <2>4. arrival \in [Request -> [at : 0..MaxTime, secret : 0..MaxStarts, revoked : SUBSET Token]]
    BY ConstantsAssumption DEF Init
  <2>5. /\ users \in [User -> Account \cup {NoUser}]
        /\ tokens \in [Token -> APIToken \cup {NoToken}]
        /\ pc \in [Request -> {"idle", "jwt", "token", "authorize", "handler", "done", "gone"}]
        /\ status \in [Request -> {0, 200, 401, 403}]
    BY Zenon DEF Init
  <2>6. now \in 0..MaxTime /\ up \in BOOLEAN /\ starts \in 0..MaxStarts /\ secret \in 0..MaxStarts
    <3>1. now = 0 /\ starts = 0 /\ secret = 0 /\ up = FALSE
      BY DEF Init
    <3>2. 0 \in 0..MaxTime /\ 0 \in 0..MaxStarts
      BY ConstantsAssumption
    <3> QED BY <3>1, <3>2
  <2>7. sessions = {} /\ unread = {}
    BY DEF Init
  <2> QED BY <2>2, <2>3, <2>4, <2>5, <2>6, <2>7 DEF TypeOK
<1>3. Secrets /\ Claims
  BY DEF Init, Secrets, Claims
<1>4. ASSUME NEW r \in Request PROVE RequestInv(r)
  <2>1. /\ pc[r] = "idle" /\ status[r] = 0 /\ now = 0
        /\ arrival[r].at = 0 /\ arrival[r].revoked = {}
    BY DEF Init
  <2> QED BY <2>1 DEF RequestInv, SameServer, Arrived, Unanswered, TriedAsSession,
                      Identified, Decided, Unauthorized
<1> QED BY <1>1, <1>2, <1>3, <1>4 DEF IInv

(* The invariant holds whatever interleaves: logins, revocations, restarts,    *)
(* the clock and the steps of any number of requests.                          *)
THEOREM Invariance == Spec => []IInv
<1>1. IInv /\ [Next]_vars => IInv'
  <2> SUFFICES ASSUME IInv, [Next]_vars PROVE IInv'
    OBVIOUS
  <2>1. CASE Tick
    BY <2>1, TickStep
  <2>2. CASE Stop
    BY <2>2, StopStep
  <2>3. CASE \E p \in SUBSET Password : Cardinality(p) <= 1 /\ Start(p)
    BY <2>3, StartStep
  <2>4. CASE \E u \in User, p \in Password : Login(u, p)
    BY <2>4, LoginStep
  <2>5. CASE \E u \in User, p \in Password, role \in Granted : CreateUser(u, p, role)
    BY <2>5, CreateUserStep
  <2>6. CASE \E t \in Token, scopes \in ScopeLists, role \in Granted,
                ttl \in {0, TokenTTL} : CreateAPIToken(t, scopes, role, ttl)
    BY <2>6, CreateAPITokenStep
  <2>7. CASE \E t \in Token : RevokeAPIToken(t)
    BY <2>7, RevokeAPITokenStep
  <2>8. ASSUME NEW r \in Request, NEW route \in Route, NEW cred \in Presented,
               NEW d \in (IF route = "ingest" THEN Dataset ELSE {AllDatasets}),
               Arrive(r, route, d, cred)
        PROVE  IInv'
    <3>1. d \in Dataset \cup {AllDatasets}
      OBVIOUS
    <3> QED BY <2>8, <3>1, ArriveStep
  <2>9. ASSUME NEW r \in Request,
               \/ VerifyJWT(r) \/ VerifyAPIToken(r) \/ VerifyAPITokenFails(r)
               \/ Authorize(r) \/ Serve(r)
        PROVE  IInv'
    BY <2>9, VerifyJWTStep, VerifyAPITokenStep, VerifyAPITokenFailsStep, AuthorizeStep, ServeStep
  <2>10. CASE UNCHANGED vars
    <3>1. StoreTyped' /\ Secrets' /\ Claims' /\ Grows /\ UNCHANGED <<up, secret, calls>>
      <4>1. UNCHANGED <<now, up, starts, secret, users, tokens, sessions, calls>>
        BY <2>10 DEF vars, server, store
      <4> QED BY <4>1, ConstantsAssumption DEF IInv, TypeOK, StoreTyped, Secrets, Claims, Grows
    <3> QED BY <3>1, EnvStep
  <2> QED BY <2>1, <2>2, <2>3, <2>4, <2>5, <2>6, <2>7, <2>8, <2>9, <2>10 DEF Next
<1> QED BY <1>1, InitIInv, PTL DEF Spec

(* Every variable keeps its type and no session lasts longer than its hour.    *)
THEOREM TypeCorrect == Spec => []TypeOK
<1>1. IInv => TypeOK
  BY DEF IInv
<1> QED BY <1>1, Invariance, PTL

(* No step undoes what Grows says: of all the steps, only those of the clock,  *)
(* the server and the database touch it at all.                                *)
LEMMA NextGrows == ASSUME IInv, [Next]_vars PROVE Grows
<1>1. ASSUME Still PROVE Grows
  BY <1>1, ConstantsAssumption DEF IInv, TypeOK, Grows, Still
<1>2. CASE Tick
  BY <1>2, TickStep
<1>3. CASE Stop
  BY <1>3, StopStep
<1>4. CASE \E p \in SUBSET Password : Cardinality(p) <= 1 /\ Start(p)
  BY <1>4, StartStep
<1>5. CASE \E u \in User, p \in Password : Login(u, p)
  BY <1>5, LoginStep
<1>6. CASE \E u \in User, p \in Password, role \in Granted : CreateUser(u, p, role)
  BY <1>6, CreateUserStep
<1>7. CASE \E t \in Token, scopes \in ScopeLists, role \in Granted,
              ttl \in {0, TokenTTL} : CreateAPIToken(t, scopes, role, ttl)
  BY <1>7, CreateAPITokenStep
<1>8. CASE \E t \in Token : RevokeAPIToken(t)
  BY <1>8, RevokeAPITokenStep
<1>9. ASSUME NEW r \in Request, NEW route, NEW cred, NEW d, Arrive(r, route, d, cred)
      PROVE  Grows
  BY <1>1, <1>9 DEF Arrive, Still, server, store
<1>10. ASSUME NEW r \in Request,
              \/ VerifyJWT(r) \/ VerifyAPIToken(r) \/ VerifyAPITokenFails(r)
              \/ Authorize(r) \/ Serve(r)
       PROVE  Grows
  <2>1. Still
    BY <1>10 DEF VerifyJWT, VerifyAPIToken, VerifyAPITokenFails, Authorize, Serve, Still, server, store
  <2> QED BY <1>1, <2>1
<1>11. CASE UNCHANGED vars
  BY <1>1, <1>11 DEF vars, Still, server, store
<1> QED BY <1>2, <1>3, <1>4, <1>5, <1>6, <1>7, <1>8, <1>9, <1>10, <1>11 DEF Next

\* No session and no token that was not valid is valid after the step.
NothingComesBack ==
    /\ \A s \in sessions : SessionValid(s)' => SessionValid(s)
    /\ \A t \in Token : tokens[t].exists /\ TokenValid(t)' => TokenValid(t)

(* A revocation, the end of a session or token, and the secret of a session    *)
(* that a restart replaced are for good: no restart, login, token or tick of   *)
(* the clock makes a credential valid again.  This is what a lookup in the     *)
(* middle of a request may rely on, and a client that is answered 401.         *)
THEOREM InvalidStaysInvalid == Spec => [][NothingComesBack]_vars
<1>1. IInv /\ IInv' /\ [Next]_vars => [NothingComesBack]_vars
  <2> SUFFICES ASSUME IInv, IInv', [Next]_vars PROVE NothingComesBack
    OBVIOUS
  <2>1. Grows /\ TypeOK /\ TypeOK' /\ Secrets
    BY NextGrows DEF IInv
  <2>2. ASSUME NEW s \in sessions, SessionValid(s)' PROVE SessionValid(s)
    BY <2>1, <2>2, SessionStaysInvalid
  <2>3. ASSUME NEW t \in Token, tokens[t].exists, TokenValid(t)' PROVE TokenValid(t)
    BY <2>1, <2>3, TokenStaysInvalid
  <2> QED BY <2>2, <2>3 DEF NothingComesBack
<1> QED BY <1>1, Invariance, PTL DEF Spec

(* What Allowed asks of an identity, for the two kinds of it: the identity of  *)
(* a session passes every scope, that of a token only its own.                 *)
LEMMA AllowedMeans ==
    ASSUME NEW q
    PROVE  /\ \A s : Allowed(SessionIdentity(s), q) <=>
                 (q.route \in DOMAIN MinRole => AtLeast(s.role, MinRole[q.route]))
           /\ \A t : Allowed(TokenIdentity(t), q) <=>
                 /\ q.route \in DOMAIN MinRole => AtLeast(tokens[t].role, MinRole[q.route])
                 /\ q.route = "ingest" => tokens[t].scopes \cap {AllDatasets, q.dataset} # {}
<1>1. ASSUME NEW s
      PROVE  SessionIdentity(s).role = s.role /\ ~SessionIdentity(s).viaToken
  BY DEF SessionIdentity
<1>2. ASSUME NEW t
      PROVE  /\ TokenIdentity(t).role = tokens[t].role
             /\ TokenIdentity(t).scopes = tokens[t].scopes /\ TokenIdentity(t).viaToken
  BY DEF TokenIdentity
<1>3. \A s : Allowed(SessionIdentity(s), q) <=>
         (q.route \in DOMAIN MinRole => AtLeast(s.role, MinRole[q.route]))
  BY <1>1, Zenon DEF Allowed, AllowsDataset
<1>4. \A t : Allowed(TokenIdentity(t), q) <=>
         /\ q.route \in DOMAIN MinRole => AtLeast(tokens[t].role, MinRole[q.route])
         /\ q.route = "ingest" => tokens[t].scopes \cap {AllDatasets, q.dataset} # {}
  BY <1>2, Zenon DEF Allowed, AllowsDataset
<1> QED BY <1>3, <1>4, Zenon

(* Authenticate, RequireRole, datasetRBAC and RequireDatasetScope let nobody   *)
(* through who was not entitled when the request came, whatever happens to the *)
(* credential in between.                                                      *)
THEOREM OnlyEntitledServed == Spec => []ServedWasEntitled
<1>1. ASSUME IInv PROVE ServedWasEntitled
  <2> SUFFICES ASSUME NEW r \in Request, pc[r] = "handler" \/ status[r] = 200
               PROVE  \/ \E s \in sessions : req[r].cred = Jwt(s) /\ EntitledBySession(s, r)
                      \/ \E t \in Token : req[r].cred = Opaque(t) /\ EntitledByToken(t, r)
    BY DEF ServedWasEntitled
  <2>1. TypeOK /\ Claims /\ RequestInv(r)
    BY <1>1 DEF IInv
  <2>2. Allowed(identity[r], req[r])
    BY <2>1 DEF RequestInv, Decided
  <2>3. (\E s \in sessions : BySession(s, r)) \/ (\E t \in Token : ByToken(t, r))
    BY <2>1 DEF RequestInv, Identified
  <2>4. ASSUME NEW s \in sessions, BySession(s, r)
        PROVE  req[r].cred = Jwt(s) /\ EntitledBySession(s, r)
    <3>1. /\ req[r].cred = Jwt(s) /\ identity[r] = SessionIdentity(s)
          /\ s.secret = arrival[r].secret /\ arrival[r].at < s.expiresAt
      BY <2>4 DEF BySession
    <3>2. arrival[r].at < s.issuedAt + SessionTTL
      <4>1. /\ s.expiresAt <= s.issuedAt + SessionTTL /\ s.expiresAt \in Nat
            /\ s.issuedAt \in Nat /\ arrival[r].at \in Nat
        BY <2>1 DEF TypeOK, Session
      <4> QED BY <4>1, <3>1, ConstantsAssumption
    <3>3. users[s.user].exists /\ users[s.user].role = s.role
      BY <2>1 DEF Claims
    <3>4. req[r].route \in DOMAIN MinRole => AtLeast(s.role, MinRole[req[r].route])
      <4>1. Allowed(SessionIdentity(s), req[r])
        BY <2>2, <3>1
      <4> QED BY <4>1, AllowedMeans
    <3> QED BY <3>1, <3>2, <3>3, <3>4 DEF EntitledBySession
  <2>5. ASSUME NEW t \in Token, ByToken(t, r)
        PROVE  req[r].cred = Opaque(t) /\ EntitledByToken(t, r)
    <3>1. identity[r] = TokenIdentity(t)
      BY <2>5, Zenon DEF ByToken
    <3>2. /\ req[r].route \in DOMAIN MinRole => AtLeast(tokens[t].role, MinRole[req[r].route])
          /\ req[r].route = "ingest" => tokens[t].scopes \cap {AllDatasets, req[r].dataset} # {}
      <4>1. Allowed(TokenIdentity(t), req[r])
        BY <2>2, <3>1
      <4> QED BY <4>1, AllowedMeans
    <3> QED BY <2>5, <3>2, Zenon DEF ByToken, EntitledByToken
  <2> QED BY <2>3, <2>4, <2>5
<1> QED BY <1>1, Invariance, PTL

(* A valid session is turned away by no 401 of Authenticate and ServeWS, and a *)
(* valid token only by a read of api_tokens that failed: any other credential  *)
(* that is answered 401 would not do later either.  No 403 of RequireRole or   *)
(* RequireDatasetScope is for a credential with the role and the scope.        *)
THEOREM NoWrongRefusal == Spec => []RefusedHasReason
<1>1. ASSUME IInv PROVE RefusedHasReason
  <2>1. ASSUME NEW r \in Request, status[r] = 401
        PROVE  \/ req[r].cred \in {Missing, Unknown}
               \/ \E s \in sessions : req[r].cred = Jwt(s) /\ ~SessionValid(s)
               \/ \E t \in Token : /\ req[r].cred = Opaque(t)
                                   /\ ~TokenValid(t) \/ req[r].route = "ws" \/ r \in unread
    BY <1>1, <2>1 DEF IInv, RequestInv, Unauthorized
  <2>2. ASSUME NEW r \in Request, status[r] = 403
        PROVE  \/ \E s \in sessions : req[r].cred = Jwt(s) /\ ~EntitledBySession(s, r)
               \/ \E t \in Token : req[r].cred = Opaque(t) /\ ~EntitledByToken(t, r)
    <3>1. Claims /\ RequestInv(r)
      BY <1>1 DEF IInv
    <3>2. ~Allowed(identity[r], req[r])
      BY <2>2, <3>1 DEF RequestInv, Decided
    <3>3. (\E s \in sessions : BySession(s, r)) \/ (\E t \in Token : ByToken(t, r))
      BY <2>2, <3>1 DEF RequestInv, Identified
    <3>4. ASSUME NEW s \in sessions, BySession(s, r)
          PROVE  req[r].cred = Jwt(s) /\ ~EntitledBySession(s, r)
      <4>1. req[r].cred = Jwt(s) /\ identity[r] = SessionIdentity(s)
        BY <3>4 DEF BySession
      <4>2. users[s.user].role = s.role
        BY <3>1 DEF Claims
      <4>3. ~(req[r].route \in DOMAIN MinRole => AtLeast(s.role, MinRole[req[r].route]))
        BY <3>2, <4>1, AllowedMeans, Zenon
      <4> QED BY <4>1, <4>2, <4>3 DEF EntitledBySession
    <3>5. ASSUME NEW t \in Token, ByToken(t, r)
          PROVE  req[r].cred = Opaque(t) /\ ~EntitledByToken(t, r)
      <4>1. req[r].cred = Opaque(t) /\ identity[r] = TokenIdentity(t)
        BY <3>5, Zenon DEF ByToken
      <4>2. ~(/\ req[r].route \in DOMAIN MinRole => AtLeast(tokens[t].role, MinRole[req[r].route])
              /\ req[r].route = "ingest" => tokens[t].scopes \cap {AllDatasets, req[r].dataset} # {})
        BY <3>2, <4>1, AllowedMeans, Zenon
      <4> QED BY <4>1, <4>2, Zenon DEF EntitledByToken
    <3> QED BY <3>3, <3>4, <3>5
  <2> QED BY <2>1, <2>2 DEF RefusedHasReason
<1> QED BY <1>1, Invariance, PTL
=============================================================================
