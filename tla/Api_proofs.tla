------------------------------ MODULE Api_proofs ------------------------------
(* Proofs about Api, for any environments, requests, states and bounds.       *)
EXTENDS Api, TLAPS

-----------------------------------------------------------------------------
(* The routes: what their records say, and what follows for all of them.     *)

Field == {"auth", "limited", "prefix", "limit", "ttl", "dto", "success", "documented"}

Reads(R, auth, limited, prefix, limit, ttl, dto, success, documented) ==
  /\ DOMAIN R = Field
  /\ R.auth = auth /\ R.limited = limited /\ R.prefix = prefix /\ R.limit = limit
  /\ R.ttl = ttl /\ R.dto = dto /\ R.success = success /\ R.documented = documented

LEMMA PublicReads == Reads(Public, FALSE, TRUE, None, 0, 0, TRUE, 201, {400, 429, 500})
BY SMT DEF Public, Reads, Field

LEMMA GuardedReads ==
  Reads(Guarded, TRUE, TRUE, None, 0, 0, FALSE, 200, {400, 429, 500})
BY SMT, PublicReads DEF Guarded, Reads, Field

LEMMA RegisterReads ==
  Reads(Register, FALSE, TRUE, "auth:register", 0, 0, TRUE, 201, {201, 400, 409, 429, 500})
BY SMT, PublicReads DEF Register, Reads, Field

LEMMA LoginReads ==
  Reads(Login, FALSE, TRUE, "auth:login", 0, 0, TRUE, 201, {201, 400, 429, 500})
BY SMT, PublicReads DEF Login, Reads, Field

LEMMA LogoutReads ==
  Reads(Logout, FALSE, TRUE, "auth:logout", 0, 0, TRUE, 201, {201, 400, 401, 429, 500})
BY SMT, PublicReads DEF Logout, Reads, Field

LEMMA RefreshReads ==
  Reads(Refresh, FALSE, TRUE, "auth:refresh", 10, 60000, TRUE, 201, {201, 400, 401, 429, 500})
BY SMT, PublicReads DEF Refresh, Reads, Field

LEMMA MeReads ==
  Reads(Me, TRUE, TRUE, "auth:me", 3, 300000, FALSE, 200, {200, 401, 404, 429, 500})
BY SMT, GuardedReads DEF Me, Reads, Field

LEMMA ChangePasswordReads ==
  Reads(ChangePassword, TRUE, TRUE, "auth:change-password", 0, 0, TRUE, 200, {200, 400, 401, 404, 429, 500})
BY SMT, GuardedReads DEF ChangePassword, Reads, Field

LEMMA ForgotPasswordReads ==
  Reads(ForgotPassword, FALSE, TRUE, "auth:forgot-password", 3, 3600000, TRUE, 200, {200, 400, 429, 500})
BY SMT, PublicReads DEF ForgotPassword, Reads, Field

LEMMA ResetPasswordReads ==
  Reads(ResetPassword, FALSE, TRUE, "auth:reset-password", 5, 900000, TRUE, 200, {200, 400, 429, 500})
BY SMT, PublicReads DEF ResetPassword, Reads, Field

LEMMA ListSessionsReads ==
  Reads(ListSessions, TRUE, TRUE, "sessions:list", 30, 60000, FALSE, 200, {200, 400, 401, 429, 500})
BY SMT, GuardedReads DEF ListSessions, Reads, Field

LEMMA RevokeOthersReads ==
  Reads(RevokeOthers, TRUE, TRUE, "sessions:delete", 10, 60000, FALSE, 200, {200, 400, 401, 429, 500})
BY SMT, GuardedReads DEF RevokeOthers, Reads, Field

LEMMA RevokeAllReads ==
  Reads(RevokeAll, TRUE, TRUE, "sessions:delete", 10, 60000, FALSE, 200, {200, 400, 401, 429, 500})
BY SMT, GuardedReads DEF RevokeAll, Reads, Field

LEMMA RevokeOneReads ==
  Reads(RevokeOne, TRUE, TRUE, "sessions:delete", 10, 60000, TRUE, 200, {200, 400, 401, 404, 429, 500})
BY SMT, GuardedReads DEF RevokeOne, Reads, Field

LEMMA GoogleStartReads ==
  Reads(GoogleStart, FALSE, TRUE, "auth:google", 0, 0, TRUE, 302, {302, 400, 429, 500, 503})
BY SMT, PublicReads DEF GoogleStart, Reads, Field

LEMMA GoogleCallbackReads ==
  Reads(GoogleCallback, FALSE, TRUE, "auth:google-callback", 0, 0, TRUE, 200, {200, 302, 400, 401, 429, 500, 503})
BY SMT, PublicReads DEF GoogleCallback, Reads, Field

LEMMA HealthReads ==
  Reads(Health, FALSE, FALSE, None, 0, 0, FALSE, 200, {200, 500, 503})
BY SMT, PublicReads DEF Health, Reads, Field

LEMMA LiveReads ==
  Reads(Live, FALSE, FALSE, None, 0, 0, FALSE, 200, {200, 500})
BY SMT, HealthReads DEF Live, Reads, Field

LEMMA ReadyReads ==
  Reads(Ready, FALSE, FALSE, None, 0, 0, FALSE, 200, {200, 500, 503})
BY SMT, HealthReads DEF Ready, Reads, Field

LEMMA RouteNames ==
  Route = {"register", "login", "logout", "refresh", "me", "changePassword", "forgotPassword",
           "resetPassword", "list", "revokeOthers", "revokeAll", "revokeOne", "start",
           "callback", "health", "live", "ready"}
BY DEF Route, Routes

LEMMA RouteRecords ==
  /\ Routes["register"] = Register
  /\ Routes["login"] = Login
  /\ Routes["logout"] = Logout
  /\ Routes["refresh"] = Refresh
  /\ Routes["me"] = Me
  /\ Routes["changePassword"] = ChangePassword
  /\ Routes["forgotPassword"] = ForgotPassword
  /\ Routes["resetPassword"] = ResetPassword
  /\ Routes["list"] = ListSessions
  /\ Routes["revokeOthers"] = RevokeOthers
  /\ Routes["revokeAll"] = RevokeAll
  /\ Routes["revokeOne"] = RevokeOne
  /\ Routes["start"] = GoogleStart
  /\ Routes["callback"] = GoogleCallback
  /\ Routes["health"] = Health
  /\ Routes["live"] = Live
  /\ Routes["ready"] = Ready
BY SMT DEF Routes

LEMMA RouteFacts ==
  ASSUME NEW n \in Route
  PROVE  LET R == Routes[n]
         IN  /\ R.auth => R.limited /\ 401 \in R.documented
             /\ R.limited => 429 \in R.documented
             /\ R.dto => 400 \in R.documented
             /\ 500 \in R.documented
             /\ R.success \in R.documented
             /\ R.success \in {200, 201, 302}
             /\ R.limit \in Nat /\ R.ttl \in Nat
             /\ n \in {"health", "live", "ready"} => ~R.limited
BY SMT, RouteNames, RouteRecords, RegisterReads, LoginReads, LogoutReads,
   RefreshReads, MeReads, ChangePasswordReads, ForgotPasswordReads,
   ResetPasswordReads, ListSessionsReads, RevokeOthersReads, RevokeAllReads,
   RevokeOneReads, GoogleStartReads, GoogleCallbackReads, HealthReads,
   LiveReads, ReadyReads DEF Reads

\* Routes that share a counter share its limit and its window.
LEMMA SamePrefix ==
  ASSUME NEW m \in Route, NEW n \in Route, Routes[m].limited, Routes[n].limited,
         Routes[m].prefix = Routes[n].prefix
  PROVE  Routes[m].limit = Routes[n].limit /\ Routes[m].ttl = Routes[n].ttl
<1> DEFINE D == {"revokeOthers", "revokeAll", "revokeOne"}
<1>1. CASE m \in D /\ n \in D
  BY SMT, <1>1, RouteRecords, RevokeOthersReads, RevokeAllReads, RevokeOneReads DEF Reads
<1>2. CASE ~(m \in D /\ n \in D)
  <2>1. m = n
    BY SMTT(30), <1>2, RouteNames, RouteRecords, RegisterReads, LoginReads,
       LogoutReads, RefreshReads, MeReads, ChangePasswordReads,
       ForgotPasswordReads, ResetPasswordReads, ListSessionsReads,
       RevokeOthersReads, RevokeAllReads, RevokeOneReads, GoogleStartReads,
       GoogleCallbackReads, HealthReads, LiveReads, ReadyReads DEF Reads
  <2> QED
    BY <2>1
<1> QED
  BY <1>1, <1>2

-----------------------------------------------------------------------------
(* The errors of the use cases.                                             *)

LEMMA ErrorStatuses ==
  /\ StatusOf("Authentication") = 401 /\ StatusOf("Unauthorized") = 401
  /\ StatusOf("InvalidAuthRequest") = 400 /\ StatusOf("Validation") = 400
  /\ StatusOf("BadRequest") = 400 /\ StatusOf("NotFound") = 404
  /\ StatusOf("Conflict") = 409 /\ StatusOf("TooManyRequests") = 429
  /\ StatusOf("ServiceUnavailable") = 503
  /\ StatusOf("Dependency") = 500 /\ StatusOf("Duplicate") = 500
  /\ StatusOf("MalformedBody") = 400
  /\ StatusOf("OriginNotAllowed") = 500 /\ StatusOf("UnreadableBody") = 500
BY SMT DEF StatusOf, ErrorStatus

\* An error a route documents, which is neither a success nor unexpected.
Documents(n, error) ==
  StatusOf(error) \in Routes[n].documented /\ StatusOf(error) \notin {200, 500}

\* Every error of a use case is documented by the route that runs it, whatever
\* drivers are wired.
LEMMA OutcomesDocumented ==
  ASSUME NEW n \in Route \ {"start", "callback", "health", "live", "ready"},
         NEW w, NEW c, w.sessions \in {"unsupported", "redis"},
         NEW error \in Outcomes(n, w, c) \ {"ok"}
  PROVE  Documents(n, error)
<1>1. CASE n = "register"
  <2>1. error \in {"Validation", "Conflict"}
    BY <1>1 DEF Outcomes, RegisterOutcomes, SessionRoute
  <2> QED
    BY SMT, <1>1, <2>1, ErrorStatuses, RouteRecords, RegisterReads DEF Reads, Documents
<1>2. CASE n = "login"
  <2>1. error \in {"Validation"}
    BY <1>2 DEF Outcomes, LoginOutcomes, SessionRoute
  <2> QED
    BY SMT, <1>2, <2>1, ErrorStatuses, RouteRecords, LoginReads DEF Reads, Documents
<1>3. CASE n = "logout"
  <2>1. error \in {"InvalidAuthRequest", "Authentication"}
    BY <1>3 DEF Outcomes, LogoutOutcomes, SessionRoute
  <2> QED
    BY SMT, <1>3, <2>1, ErrorStatuses, RouteRecords, LogoutReads DEF Reads, Documents
<1>4. CASE n = "refresh"
  <2>1. error \in {"Authentication"}
    BY <1>4 DEF Outcomes, RefreshOutcomes, SessionRoute
  <2> QED
    BY SMT, <1>4, <2>1, ErrorStatuses, RouteRecords, RefreshReads DEF Reads, Documents
<1>5. CASE n = "me"
  <2>1. error \in {"NotFound"}
    BY <1>5 DEF Outcomes, CurrentUserOutcomes, SessionRoute
  <2> QED
    BY SMT, <1>5, <2>1, ErrorStatuses, RouteRecords, MeReads DEF Reads, Documents
<1>6. CASE n = "changePassword"
  <2>1. error \in {"Validation", "NotFound"}
    BY <1>6 DEF Outcomes, ChangePasswordOutcomes, SessionRoute
  <2> QED
    BY SMT, <1>6, <2>1, ErrorStatuses, RouteRecords, ChangePasswordReads DEF Reads, Documents
<1>7. CASE n = "forgotPassword"
  <2>1. error \in {"Validation"}
    BY <1>7 DEF Outcomes, ForgotPasswordOutcomes, SessionRoute
  <2> QED
    BY SMT, <1>7, <2>1, ErrorStatuses, RouteRecords, ForgotPasswordReads DEF Reads, Documents
<1>8. CASE n = "resetPassword"
  <2>1. error \in {"Validation"}
    BY <1>8 DEF Outcomes, ResetPasswordOutcomes, SessionRoute
  <2> QED
    BY SMT, <1>8, <2>1, ErrorStatuses, RouteRecords, ResetPasswordReads DEF Reads, Documents
<1>9. CASE n \in SessionRoute
  <2>1. error \in SessionOutcomes(n, w, c)
    BY <1>9 DEF Outcomes, SessionRoute
  <2>2. error \in {"Unauthorized", "Validation"} \/ (n = "revokeOne" /\ error = "NotFound")
    BY <2>1 DEF SessionOutcomes, ManagementOutcomes
  <2> QED
    BY SMT, <1>9, <2>2, ErrorStatuses, RouteRecords, ListSessionsReads, RevokeOthersReads,
       RevokeAllReads, RevokeOneReads DEF Reads, Documents, SessionRoute
<1> QED
  BY <1>1, <1>2, <1>3, <1>4, <1>5, <1>6, <1>7, <1>8, <1>9, RouteNames DEF SessionRoute

\* A session route answers only where the session management is Redis's.
LEMMA SessionsManaged ==
  ASSUME NEW n \in SessionRoute, NEW w, NEW c, w.sessions \in {"unsupported", "redis"},
         "ok" \in Outcomes(n, w, c)
  PROVE  w.sessions = "redis"
<1>1. "ok" \in SessionOutcomes(n, w, c)
  BY DEF Outcomes, SessionRoute
<1> QED
  BY <1>1 DEF SessionOutcomes, ManagementOutcomes

-----------------------------------------------------------------------------
(* What the validation of an environment leaves.                             *)

Typed(env) == \A f \in DOMAIN Least \cap DOMAIN env : env[f] \in Int

LEMMA LeastHasDefault ==
  /\ DOMAIN Least \subseteq DOMAIN Defaults
  /\ \A f \in DOMAIN Least : Defaults[f] \in Int /\ Least[f] \in Nat
BY SMT DEF Least, Defaults

LEMMA ParsedNumber ==
  ASSUME NEW env, Typed(env), FieldIssues(env) = {}, NEW f \in DOMAIN Least
  PROVE  Parsed(env)[f] \in Nat /\ Least[f] <= Parsed(env)[f]
<1>1. \A g \in DOMAIN Defaults :
        Parsed(env)[g] = IF g \in DOMAIN env THEN env[g] ELSE Defaults[g]
  BY Zenon DEF Parsed
<1>2. Parsed(env)[f] \in Int
  BY <1>1, LeastHasDefault DEF Typed
<1>3. ~(Parsed(env)[f] < Least[f])
  BY Zenon DEF FieldIssues
<1> QED
  BY <1>2, <1>3, LeastHasDefault

LEMMA ParsedDriver ==
  ASSUME NEW env, FieldIssues(env) = {}
  PROVE  Parsed(env).AUTH_DRIVER \in {"jwt", "session"}
<1>1. "AUTH_DRIVER" \in DOMAIN Enumerated /\ Enumerated["AUTH_DRIVER"] = {"jwt", "session"}
  BY SMT DEF Enumerated
<1>2. \A f \in DOMAIN Enumerated : Parsed(env)[f] \in Enumerated[f]
  BY Zenon DEF FieldIssues
<1> QED
  BY <1>1, <1>2

\* The drivers that are wired, in an environment that was accepted.
LEMMA Drivers ==
  ASSUME NEW env, FieldIssues(env) = {}, NEW c, c = Config(env), NEW w, w = Wiring(c)
  PROVE  /\ c.auth.driver \in {"jwt", "session"}
         /\ w.tokens = c.auth.driver
         /\ w.sessions = IF c.auth.driver = "session" THEN "redis" ELSE "unsupported"
<1> DEFINE a == ComposedAuthOptions(c)
<1>1. c.auth.driver \in {"jwt", "session"}
  BY ParsedDriver DEF Config
<1>2. w.tokens = AuthTokenService(a) /\ w.sessions = SessionManagement(c, a)
  BY Zenon DEF Wiring
<1>3. a.driver = c.auth.driver
  BY SMT DEF ComposedAuthOptions, AuthOptions
<1> HIDE DEF a
<1>4. CASE c.auth.driver = "jwt"
  <2>1. AuthTokenService(a) = "jwt"
    BY <1>3, <1>4 DEF AuthTokenService
  <2>2. SessionManagement(c, a) = "unsupported"
    BY <1>4 DEF SessionManagement
  <2> QED
    BY <1>2, <1>4, <2>1, <2>2
<1>5. CASE c.auth.driver = "session"
  <2>1. SessionStore(a) # None
    BY <1>3, <1>5 DEF SessionStore, None
  <2>2. AuthTokenService(a) = "session"
    BY <1>3, <1>5, <2>1 DEF AuthTokenService
  <2>3. SessionManagement(c, a) = "redis"
    BY <1>5, <2>1 DEF SessionManagement
  <2> QED
    BY <1>2, <1>5, <2>2, <2>3
<1> QED
  BY <1>1, <1>4, <1>5

\* The rules between the timing variables.
LEMMA Timing ==
  ASSUME NEW env, Issues(env) = {}
  PROVE  LET e == Parsed(env)
         IN  /\ FieldIssues(env) = {}
             /\ ~(e.OUTBOX_CRON_LOCK_TTL_MS >= e.OUTBOX_POLL_INTERVAL_MS)
             /\ ~(e.OUTBOX_RETRY_MAX_DELAY_SECONDS < e.OUTBOX_RETRY_BASE_DELAY_SECONDS)
             /\ ~(e.OUTBOX_HEARTBEAT_INTERVAL_MS > e.OUTBOX_LOCK_TTL_MS \div 2)
             /\ ~(/\ e.OUTBOX_HANDLER_TIMEOUT_MS > 0
                  /\ e.OUTBOX_HANDLER_TIMEOUT_MS < e.OUTBOX_LOCK_TTL_MS)
             /\ ~(e.JOB_EXECUTION_HEARTBEAT_INTERVAL_SECONDS
                    > e.JOB_EXECUTION_LEASE_TTL_SECONDS \div 2)
<1> DEFINE e == Parsed(env)
<1>1. FieldIssues(env) = {} /\ TimingIssues(e) = {}
  BY Zenon DEF Issues
<1> HIDE DEF e
<1> QED
  BY <1>1, SMT DEF TimingIssues, e

-----------------------------------------------------------------------------
(* The arithmetic of heartbeats and retries.                                 *)

LEMMA Half ==
  ASSUME NEW x \in Nat, NEW y \in Nat, ~(x > y \div 2)
  PROVE  2 * x <= y
BY SMT

LEMMA CronHeartbeat ==
  ASSUME NEW o, o.cronLockTtlMs \in Nat, o.cronLockTtlMs >= 2000
  PROVE  2 * CronHeartbeatMs(o) <= o.cronLockTtlMs
BY SMT DEF CronHeartbeatMs

\* The powers of two of the attempts the property speaks of.
Doubling(a, p) ==
  \/ a = 1 /\ p = 2
  \/ a = 2 /\ p = 4
  \/ a = 3 /\ p = 8
  \/ a = 4 /\ p = 16
  \/ a = 5 /\ p = 32
  \/ a = 6 /\ p = 64
  \/ a = 7 /\ p = 128

LEMMA PowerTable ==
  ASSUME NEW a \in 1 .. 7
  PROVE  Doubling(a, 2 ^ a)
<1>1. CASE a = 1
  BY <1>1, SMT DEF Doubling
<1>2. CASE a = 2
  BY <1>2, SMT DEF Doubling
<1>3. CASE a = 3
  BY <1>3, SMT DEF Doubling
<1>4. CASE a = 4
  BY <1>4, SMT DEF Doubling
<1>5. CASE a = 5
  BY <1>5, SMT DEF Doubling
<1>6. CASE a = 6
  BY <1>6, SMT DEF Doubling
<1>7. CASE a = 7
  BY <1>7, SMT DEF Doubling
<1> QED
  BY <1>1, <1>2, <1>3, <1>4, <1>5, <1>6, <1>7, SMT

LEMMA Powers ==
  ASSUME NEW a \in 1 .. 6
  PROVE  2 ^ a \in Nat /\ 2 ^ a >= 1 /\ 2 ^ (a + 1) = 2 * 2 ^ a
<1> DEFINE p == 2 ^ a
           q == 2 ^ (a + 1)
<1>1. a \in 1 .. 7 /\ a + 1 \in 1 .. 7
  BY SMT
<1>2. Doubling(a, p) /\ Doubling(a + 1, q)
  BY <1>1, PowerTable, Zenon
<1> HIDE DEF p, q
<1>3. p \in Nat /\ p >= 1 /\ q = 2 * p
  BY <1>2, SMT DEF Doubling
<1> QED
  BY <1>3 DEF p, q

LEMMA Multiple ==
  ASSUME NEW p \in Nat, NEW b \in Nat, p >= 1
  PROVE  /\ p * b \in Nat /\ (2 * p) * b \in Nat
         /\ b <= p * b /\ p * b <= (2 * p) * b
<1>1. PICK k \in Nat : p = k + 1
  <2>1. p - 1 \in Nat /\ p = (p - 1) + 1
    BY SMT
  <2> QED
    BY <2>1
<1>2. k * b \in Nat
  BY SMT
<1>3. p * b = k * b + b /\ (2 * p) * b = 2 * (k * b) + 2 * b
  BY <1>1, SMT
<1> QED
  BY <1>2, <1>3, SMT

\* The delay of a retry is at least the base, and never less than the one before.
LEMMA RetryDelays ==
  ASSUME NEW o, NEW a \in 1 .. 6, o.retryBaseSeconds \in Nat, o.retryMaxSeconds \in Nat,
         o.retryBaseSeconds <= o.retryMaxSeconds
  PROVE  /\ o.retryBaseSeconds <= RetryDelaySeconds(o, a)
         /\ RetryDelaySeconds(o, a) <= RetryDelaySeconds(o, a + 1)
<1> DEFINE p == 2 ^ a
           q == 2 ^ (a + 1)
           b == o.retryBaseSeconds
           d == p * b
           g == q * b
<1>1. p \in Nat /\ p >= 1 /\ q = 2 * p
  BY Powers
<1>2. /\ RetryDelaySeconds(o, a) = (IF d < o.retryMaxSeconds THEN d ELSE o.retryMaxSeconds)
      /\ RetryDelaySeconds(o, a + 1) = (IF g < o.retryMaxSeconds THEN g ELSE o.retryMaxSeconds)
  BY Zenon DEF RetryDelaySeconds
<1> HIDE DEF p, q
<1>3. b <= d /\ d <= g /\ d \in Nat /\ g \in Nat
  BY <1>1, Multiple, SMT
<1> HIDE DEF b, d, g
<1> QED
  BY <1>2, <1>3, SMT DEF b

-----------------------------------------------------------------------------
(* The states of the Google flow.                                            *)

\* What the deployed environment allows a browser to be sent to.
Origins == Config(deployed.env).app.allowedOrigins
Url == Origins \cup {None}

Open == [pc : {"arriving", "authenticating", "limiting", "handling", "consuming",
               "exchanging", "completing"},
         route : Route, bearer : BOOLEAN, cookie : BOOLEAN, valid : BOOLEAN,
         state : State \cup {None}, stateCookie : State \cup {None}, returnUrl : Url]

\* A serving process has the options of its environment.
Configured ==
  /\ deployed \in Deployment
  /\ process.phase = "probing" => process = [phase |-> "probing", attempt |-> process.attempt]
  /\ Serving => config = Config(deployed.env)

\* A request is where its record says, with what the guards found; an answer
\* leads nowhere but to Google or an allowed origin.
Placed(q) ==
  \/ q = Idle
  \/ q.pc = "answered" /\ q.location \in {"google"} \cup Url
  \/ /\ q \in Open
     /\ q.pc = "consuming" => q.state \in State /\ q.returnUrl \notin {Unissued, Gone}

Requests == /\ \E S : req \in [Req -> S]
            /\ \A r \in Req : Placed(req[r])

\* A state that let a callback through is gone, and its record never returns.
States == /\ stored \in [State -> Url \cup {Unissued, Gone}]
          /\ spent \in [State -> {0, 1}]
          /\ \A s \in State : spent[s] = 1 => stored[s] = Gone

IInv == Configured /\ Requests /\ States

LEMMA InitIInv == Init => IInv
<1> SUFFICES ASSUME Init PROVE IInv
  OBVIOUS
<1>1. Configured
  BY DEF Init, Configured, Down, Serving
<1>2. Requests
  <2>1. req \in [Req -> {Idle}]
    BY DEF Init
  <2> QED
    BY <2>1 DEF Requests, Placed
<1>3. States
  BY DEF Init, States
<1> QED
  BY <1>1, <1>2, <1>3 DEF IInv

\* A request moves to a record of the right shape; nothing else matters.
LEMMA MoveStep ==
  ASSUME Requests, NEW r \in Req, NEW v, req' = [req EXCEPT ![r] = v], Placed(v),
         UNCHANGED deployed
  PROVE  Requests'
<1>1. PICK S : req \in [Req -> S]
  BY DEF Requests
<1>2. req' \in [Req -> S \cup {v}] /\ req'[r] = v /\ \A q \in Req : q # r => req'[q] = req[q]
  BY <1>1
<1>3. \A q \in Req : Placed(req'[q])
  BY <1>2 DEF Requests
<1>4. \A q \in Req : Placed(req[q])'
  BY <1>3 DEF Placed, Open, Url, Origins
<1> QED
  BY <1>2, <1>4 DEF Requests

\* Every response of a handler or of the filter but those of the Google flow.
LEMMA AnswerPlaced ==
  ASSUME Requests, NEW r \in Req, NEW status, NEW thrown, NEW cookie,
         NEW location \in {"google"} \cup Url,
         Answer(r, status, thrown, cookie, location), UNCHANGED deployed
  PROVE  Requests'
<1> DEFINE v == [pc |-> "answered", route |-> req[r].route, status |-> status,
                 thrown |-> thrown, cookie |-> cookie, location |-> location]
<1>1. Placed(v)
  BY DEF Placed
<1>2. req' = [req EXCEPT ![r] = v]
  BY DEF Answer
<1> QED
  BY <1>1, <1>2, MoveStep

LEMMA ThrowPlaced ==
  ASSUME Requests, NEW r \in Req, NEW error, Throw(r, error), UNCHANGED deployed
  PROVE  Requests'
BY AnswerPlaced DEF Throw, Url

LEMMA SucceedPlaced ==
  ASSUME Requests, NEW r \in Req, NEW current, Succeed(r, current), UNCHANGED deployed
  PROVE  Requests'
BY AnswerPlaced DEF Succeed, Url

\* A request past the guards goes on.
LEMMA GotoPlaced ==
  ASSUME Requests, NEW r \in Req, req[r] \in Open, UNCHANGED deployed,
         NEW pc \in {"authenticating", "limiting", "handling", "exchanging", "completing"},
         Goto(r, pc)
  PROVE  Requests'
<1> DEFINE v == [req[r] EXCEPT !.pc = pc]
<1>1. PICK S : req \in [Req -> S]
  BY DEF Requests
<1>2. req' = [req EXCEPT ![r] = v]
  BY <1>1 DEF Goto
<1>3. v \in Open /\ v.pc = pc
  BY DEF Open
<1>4. Placed(v)
  BY <1>3 DEF Placed
<1> QED
  BY <1>2, <1>4, MoveStep

LEMMA OpenAt ==
  ASSUME IInv, NEW r \in Req, NEW pc, req[r].pc = pc, pc \notin {"idle", "answered"}
  PROVE  req[r] \in Open
BY DEF IInv, Requests, Placed, Idle

-----------------------------------------------------------------------------
(* The steps of the process.                                                *)

LEMMA ProcessStep ==
  ASSUME IInv, Start \/ ProbeFails \/ Boot \/ Crash
  PROVE  IInv'
<1>1. UNCHANGED <<deployed, stored, spent>> /\ (req' = req \/ req' = [r \in Req |-> Idle])
  BY DEF Start, ProbeFails, Boot, Crash, redis, history
<1>2. Configured'
  <2>1. CASE Start
    BY <1>1, <2>1 DEF IInv, Start, Configured, Serving, config
  <2>2. CASE ProbeFails
    <3>1. process = [phase |-> "probing", attempt |-> process.attempt]
      BY <2>2 DEF ProbeFails, IInv, Configured
    <3>2. process.attempt + 1 = process.attempt + 1
      OBVIOUS
    <3>3. \/ process' = [phase |-> "probing", attempt |-> process.attempt + 1]
          \/ process' = [phase |-> "exited"]
      <4> DEFINE a == process.attempt
      <4>1. process' = [process EXCEPT !.attempt = a + 1] \/ process' = [phase |-> "exited"]
        BY <2>2 DEF ProbeFails
      <4> HIDE DEF a
      <4>2. process = [phase |-> "probing", attempt |-> a]
        BY <3>1 DEF a
      <4>3. [process EXCEPT !.attempt = a + 1] = [phase |-> "probing", attempt |-> a + 1]
        BY <4>2
      <4> QED
        BY <4>1, <4>3 DEF a
    <3> QED
      BY <1>1, <3>3 DEF IInv, Configured, Serving, config
  <2>3. CASE Boot
    BY <1>1, <2>3 DEF IInv, Boot, Configured, Serving, config
  <2>4. CASE Crash
    BY <1>1, <2>4 DEF IInv, Crash, Down, Configured, Serving, config
  <2> QED
    BY <2>1, <2>2, <2>3, <2>4
<1>3. Requests'
  <2>1. CASE req' = req
    BY <1>1, <2>1 DEF IInv, Requests, Placed, Open, Url, Origins
  <2>2. CASE req' = [r \in Req |-> Idle]
    <3>1. req' \in [Req -> {Idle}]
      BY <2>2
    <3> QED
      BY <3>1 DEF Requests, Placed
  <2> QED
    BY <1>1, <2>1, <2>2
<1>4. States'
  BY <1>1 DEF IInv, States, Url, Origins
<1> QED
  BY <1>2, <1>3, <1>4 DEF IInv

-----------------------------------------------------------------------------
(* The steps of the requests.                                               *)

\* A step of a request or of Redis that leaves the environment and the process.
LEMMA Assemble ==
  ASSUME IInv, UNCHANGED <<deployed, process>>, Requests', States'
  PROVE  IInv'
BY DEF IInv, Configured, Serving, config

LEMMA StatesKept ==
  ASSUME IInv, UNCHANGED <<deployed, stored, spent>>
  PROVE  States'
BY DEF IInv, States, Url, Origins

LEMMA GuardStep ==
  ASSUME IInv, NEW r \in Req, Receive(r) \/ Screen(r) \/ Authenticate(r) \/ Limit(r)
  PROVE  IInv'
<1>0. UNCHANGED <<deployed, process, stored, spent>> /\ Requests
  BY DEF Receive, Screen, Authenticate, Limit, redis, history, IInv
<1>1. CASE Receive(r)
  <2> DEFINE V(n, b, c, d, s, k) ==
               [pc |-> "arriving", route |-> n, bearer |-> b, cookie |-> c, valid |-> d,
                state |-> s, stateCookie |-> k, returnUrl |-> None]
  <2>1. PICK n \in deployed.traffic :
          \E b \in IF Routes[n].auth THEN BOOLEAN ELSE {FALSE},
             c \in IF Routes[n].auth THEN BOOLEAN ELSE {FALSE},
             d \in IF Routes[n].dto THEN BOOLEAN ELSE {TRUE} :
            \E s \in IF n = "callback" /\ d THEN State \cup {None} ELSE {None} :
              \E k \in IF n = "callback" /\ d THEN {s, None} ELSE {None} :
                req' = [req EXCEPT ![r] = V(n, b, c, d, s, k)]
    BY <1>1 DEF Receive
  <2>2. n \in Route
    BY DeploymentAssumption DEF IInv, Configured
  <2>3. PICK b \in BOOLEAN, c \in BOOLEAN, d \in BOOLEAN,
             s \in State \cup {None}, k \in State \cup {None} :
                req' = [req EXCEPT ![r] = V(n, b, c, d, s, k)]
    <3> DEFINE Sent(b, c, d, s, k) == req' = [req EXCEPT ![r] = V(n, b, c, d, s, k)]
               States0(d) == IF n = "callback" /\ d THEN State \cup {None} ELSE {None}
               Cookies(d, s) == IF n = "callback" /\ d THEN {s, None} ELSE {None}
    <3>1. \E b \in BOOLEAN, c \in BOOLEAN, d \in BOOLEAN :
            \E s \in States0(d) : \E k \in Cookies(d, s) : Sent(b, c, d, s, k)
      <4> HIDE DEF V, States0, Cookies
      <4>1. \E b \in IF Routes[n].auth THEN BOOLEAN ELSE {FALSE},
               c \in IF Routes[n].auth THEN BOOLEAN ELSE {FALSE},
               d \in IF Routes[n].dto THEN BOOLEAN ELSE {TRUE} :
              \E s \in States0(d) : \E k \in Cookies(d, s) : Sent(b, c, d, s, k)
        BY <2>1 DEF States0, Cookies
      <4> HIDE DEF Sent
      <4> QED
        BY <4>1
    <3> HIDE DEF Sent
    <3>2. \A d \in BOOLEAN : \A s \in States0(d) :
            s \in State \cup {None} /\ Cookies(d, s) \subseteq State \cup {None}
      OBVIOUS
    <3> HIDE DEF States0, Cookies
    <3>3. \E b \in BOOLEAN, c \in BOOLEAN, d \in BOOLEAN,
             s \in State \cup {None}, k \in State \cup {None} : Sent(b, c, d, s, k)
      BY <3>1, <3>2
    <3> QED
      BY <3>3 DEF Sent
  <2>4. Placed(V(n, b, c, d, s, k))
    BY <2>2, <2>3 DEF Placed, Open, Url
  <2> HIDE DEF V
  <2>5. Requests'
    BY <1>0, <2>3, <2>4, MoveStep
  <2> QED
    BY <1>0, <2>5, StatesKept, Assemble
<1>2. CASE Authenticate(r)
  <2>1. Throw(r, "Unauthorized") \/ Throw(r, "Dependency") \/ Goto(r, "limiting")
    BY <1>2 DEF Authenticate
  <2>2. req[r] \in Open
    BY <1>2, OpenAt DEF Authenticate, At
  <2>3. Requests'
    BY <1>0, <2>1, <2>2, ThrowPlaced, GotoPlaced
  <2> QED
    BY <1>0, <2>3, StatesKept, Assemble
<1>3. CASE Limit(r)
  <2>1. Throw(r, "Dependency") \/ Throw(r, "TooManyRequests") \/ Goto(r, "handling")
    BY <1>3 DEF Limit
  <2>2. req[r] \in Open
    BY <1>3, OpenAt DEF Limit, At
  <2>3. Requests'
    BY <1>0, <2>1, <2>2, ThrowPlaced, GotoPlaced
  <2> QED
    BY <1>0, <2>3, StatesKept, Assemble
<1>4. CASE Screen(r)
  <2>1. (\E error : Throw(r, error)) \/ Goto(r, FirstStep(req[r].route))
    BY <1>4 DEF Screen
  <2>2. req[r] \in Open
    BY <1>4, OpenAt DEF Screen, At
  <2>3. FirstStep(req[r].route) \in {"authenticating", "limiting", "handling"}
    BY DEF FirstStep
  <2>4. Requests'
    BY <1>0, <2>1, <2>2, <2>3, ThrowPlaced, GotoPlaced
  <2> QED
    BY <1>0, <2>4, StatesKept, Assemble
<1> QED
  BY <1>1, <1>2, <1>3, <1>4

LEMMA HandleStep ==
  ASSUME IInv, NEW r \in Req, Refuse(r) \/ Handle(r) \/ CheckHealth(r) \/ ExchangeCode(r)
  PROVE  IInv'
<1>0. UNCHANGED <<deployed, process, stored, spent>> /\ Requests
  BY DEF Refuse, Handle, CheckHealth, ExchangeCode, redis, history, IInv
<1>1. Requests'
  <2>1. CASE Refuse(r)
    BY <1>0, <2>1, ThrowPlaced DEF Refuse
  <2>2. CASE Handle(r)
    <3>1. (\E current : Succeed(r, current)) \/ \E error : Throw(r, error)
      BY <2>2 DEF Handle
    <3> QED
      BY <1>0, <3>1, ThrowPlaced, SucceedPlaced
  <2>3. CASE CheckHealth(r)
    <3>1. Succeed(r, FALSE) \/ \E error : Throw(r, error)
      BY <2>3 DEF CheckHealth
    <3> QED
      BY <1>0, <3>1, ThrowPlaced, SucceedPlaced
  <2>4. CASE ExchangeCode(r)
    <3>1. req[r] \in Open
      BY <2>4, OpenAt DEF ExchangeCode, At
    <3> QED
      BY <1>0, <2>4, <3>1, ThrowPlaced, GotoPlaced DEF ExchangeCode
  <2> QED
    BY <2>1, <2>2, <2>3, <2>4
<1> QED
  BY <1>0, <1>1, StatesKept, Assemble

\* Where the start route sends a browser after the sign-in: nowhere in
\* particular, or to an allowed origin.
LEMMA UrlResolved ==
  ASSUME IInv, Serving, NEW requested, requested = None \/ Allowlisted(requested)
  PROVE  ResolvedReturnUrl(requested) \in Url
BY DEF IInv, Configured, ResolvedReturnUrl, Allowlisted, Url, Origins

LEMMA StartSignInStep ==
  ASSUME IInv, NEW r \in Req, StartSignIn(r)
  PROVE  IInv'
<1>0. UNCHANGED <<deployed, process, spent>> /\ Requests /\ Serving
  BY DEF StartSignIn, Handling, At, history, IInv
<1>1. \/ stored' = stored
      \/ \E s \in State, u \in Url : stored[s] = Unissued /\ stored' = [stored EXCEPT ![s] = u]
  <2>1. \/ stored' = stored
        \/ \E requested \in Site \cup {None} : \E s \in State :
             /\ requested = None \/ Allowlisted(requested)
             /\ stored[s] = Unissued
             /\ stored' = [stored EXCEPT ![s] = ResolvedReturnUrl(requested)]
    BY DEF StartSignIn
  <2> QED
    BY <1>0, <2>1, UrlResolved
<1>2. (\E error : Throw(r, error)) \/ Answer(r, 302, None, "kept", "google")
  BY DEF StartSignIn
<1>3. Requests'
  BY <1>0, <1>2, ThrowPlaced, AnswerPlaced
<1>4. States'
  <2>1. Url' = Url
    BY <1>0 DEF Url, Origins
  <2>2. CASE stored' = stored
    BY <1>0, <2>2, StatesKept
  <2>3. CASE \E s \in State, u \in Url : stored[s] = Unissued /\ stored' = [stored EXCEPT ![s] = u]
    <3>1. PICK s \in State, u \in Url : stored[s] = Unissued /\ stored' = [stored EXCEPT ![s] = u]
      BY <2>3
    <3>2. spent[s] # 1
      BY <3>1 DEF IInv, States, Unissued, Gone
    <3>3. stored' \in [State -> Url \cup {Unissued, Gone}]
      BY <3>1 DEF IInv, States
    <3>4. \A t \in State : spent[t] = 1 => stored'[t] = Gone
      BY <3>1, <3>2 DEF IInv, States
    <3> QED
      BY <1>0, <2>1, <3>3, <3>4 DEF IInv, States
  <2> QED
    BY <1>1, <2>2, <2>3
<1> QED
  BY <1>0, <1>3, <1>4, Assemble

LEMMA LookUpStateStep ==
  ASSUME IInv, NEW r \in Req, LookUpState(r)
  PROVE  IInv'
<1>0. /\ UNCHANGED <<deployed, process, stored, spent>> /\ Requests
      /\ req[r] \in Open
  BY OpenAt DEF LookUpState, Handling, At, redis, history, IInv
<1>1. CASE \E error : Throw(r, error)
  <2>1. Requests'
    BY <1>0, <1>1, ThrowPlaced
  <2> QED
    BY <1>0, <2>1, StatesKept, Assemble
<1>2. CASE ~\E error : Throw(r, error)
  <2> DEFINE s == req[r].state
             v == [req[r] EXCEPT !.pc = "consuming", !.returnUrl = stored[s]]
  <2>1. /\ s # None /\ stored[s] \notin {Unissued, Gone}
        /\ req' = [req EXCEPT ![r].pc = "consuming", ![r].returnUrl = stored[s]]
    BY <1>2 DEF LookUpState
  <2>2. s \in State /\ stored[s] \in Url
    BY <1>0, <2>1 DEF Open, IInv, States
  <2>3. PICK S : req \in [Req -> S]
    BY <1>0 DEF Requests
  <2>4. req' = [req EXCEPT ![r] = v]
    BY <2>1, <2>3, <1>0 DEF Open
  <2>5. v \in Open /\ v.state = s /\ v.returnUrl = stored[s]
    BY <1>0, <2>2 DEF Open
  <2>6. Placed(v)
    BY <2>1, <2>2, <2>5 DEF Placed
  <2> HIDE DEF v
  <2>7. Requests'
    BY <1>0, <2>4, <2>6, MoveStep
  <2> QED
    BY <1>0, <2>7, StatesKept, Assemble
<1> QED
  BY <1>1, <1>2

\* Of the callbacks that read one record, whoever deletes it is let through;
\* the record is gone for the others.
LEMMA ConsumeStateStep ==
  ASSUME IInv, NEW r \in Req, ConsumeState(r)
  PROVE  IInv'
<1> DEFINE s == req[r].state
<1>0. UNCHANGED <<deployed, process>> /\ Requests /\ States
  BY DEF ConsumeState, IInv
<1>1. /\ req[r] \in Open /\ s \in State /\ req[r].returnUrl # Gone
  <2>1. req[r].pc = "consuming"
    BY DEF ConsumeState, At
  <2> QED
    BY <2>1, OpenAt DEF IInv, Requests, Placed, Idle
<1>2. Requests'
  <2>1. (\E error : Throw(r, error)) \/ Goto(r, "exchanging")
    BY DEF ConsumeState
  <2> QED
    BY <1>0, <1>1, <2>1, ThrowPlaced, GotoPlaced
<1>3. Url' = Url
  BY <1>0 DEF Url, Origins
<1>4. \/ stored' = stored /\ spent' = spent
      \/ stored' = [stored EXCEPT ![s] = Gone] /\ spent' = spent
      \/ /\ Consumable(r)
         /\ stored' = [stored EXCEPT ![s] = Gone] /\ spent' = [spent EXCEPT ![s] = @ + 1]
  BY DEF ConsumeState
<1>5. States'
  <2>1. CASE stored' = stored /\ spent' = spent
    BY <1>0, <2>1, StatesKept
  <2>2. CASE stored' = [stored EXCEPT ![s] = Gone] /\ spent' = spent
    BY <1>0, <1>1, <1>3, <2>2 DEF States
  <2>3. CASE /\ Consumable(r)
             /\ stored' = [stored EXCEPT ![s] = Gone] /\ spent' = [spent EXCEPT ![s] = @ + 1]
    <3>1. spent[s] = 0
      BY <1>0, <1>1, <2>3 DEF Consumable, States
    <3>2. spent' \in [State -> {0, 1}]
      <4>1. spent' = [spent EXCEPT ![s] = 1]
        BY <1>0, <1>1, <2>3, <3>1 DEF States
      <4> QED
        BY <1>0, <4>1 DEF States
    <3>3. stored' \in [State -> Url \cup {Unissued, Gone}]
      BY <1>0, <2>3 DEF States
    <3>4. \A t \in State : spent'[t] = 1 => stored'[t] = Gone
      BY <1>0, <1>1, <2>3 DEF States
    <3> QED
      BY <1>3, <3>2, <3>3, <3>4 DEF States
  <2> QED
    BY <1>4, <2>1, <2>2, <2>3
<1> QED
  BY <1>0, <1>2, <1>5, Assemble

LEMMA CompleteSignInStep ==
  ASSUME IInv, NEW r \in Req, CompleteSignIn(r)
  PROVE  IInv'
<1>0. /\ UNCHANGED <<deployed, process, stored, spent>> /\ Requests
      /\ req[r].returnUrl \in Url
  <2>1. req[r] \in Open
    BY OpenAt DEF CompleteSignIn, At
  <2> QED
    BY <2>1 DEF CompleteSignIn, redis, history, IInv, Open
<1>1. \/ \E error : Throw(r, error)
      \/ \E status, cookie : Answer(r, status, None, cookie, req[r].returnUrl)
      \/ \E cookie : Answer(r, 200, None, cookie, None)
  BY DEF CompleteSignIn
<1>2. Requests'
  BY <1>0, <1>1, ThrowPlaced, AnswerPlaced DEF Url
<1> QED
  BY <1>0, <1>2, StatesKept, Assemble

\* Keys that expire.
LEMMA ExpiryStep ==
  ASSUME IInv, (\E k \in Prefix : WindowEnds(k)) \/ (\E s \in State : StateExpires(s))
  PROVE  IInv'
<1>1. UNCHANGED <<deployed, process, req, spent>>
  BY DEF WindowEnds, StateExpires, history
<1>2. Requests'
  BY <1>1 DEF IInv, Requests, Placed, Open, Url, Origins
<1>3. Url' = Url
  BY <1>1 DEF Url, Origins
<1>4. stored' = stored \/ \E s \in State : stored' = [stored EXCEPT ![s] = Gone]
  BY DEF WindowEnds, StateExpires
<1>5. States'
  BY <1>1, <1>3, <1>4 DEF IInv, States
<1> QED
  BY <1>1, <1>2, <1>5, Assemble

-----------------------------------------------------------------------------
LEMMA NextIInv == IInv /\ [Next]_vars => IInv'
<1> SUFFICES ASSUME IInv, [Next]_vars PROVE IInv'
  OBVIOUS
<1>1. CASE UNCHANGED vars
  <2>1. UNCHANGED <<deployed, process, req, stored, spent>>
    BY <1>1 DEF vars, redis, history
  <2>2. Requests'
    BY <2>1 DEF IInv, Requests, Placed, Open, Url, Origins
  <2> QED
    BY <2>1, <2>2, StatesKept, Assemble
<1>2. ASSUME NEW r \in Req, Serve(r) PROVE IInv'
  BY <1>2, GuardStep, HandleStep, StartSignInStep, LookUpStateStep, ConsumeStateStep,
     CompleteSignInStep DEF Serve
<1> QED
  BY <1>1, <1>2, ProcessStep, ExpiryStep DEF Next

-----------------------------------------------------------------------------
(* The invariants of what a process serves with, counts and answers.         *)

Limits == Config(deployed.env).rateLimit

\* Only a validated environment is probed with and served from, by the drivers
\* its options choose.
Validated ==
  /\ process.phase \in {"probing", "serving"} => Issues(deployed.env) = {}
  /\ Serving => wiring = Wiring(config)

\* What a counter let through it counted, and it is within the limit of every
\* route that shares the counter; a counter of whole seconds that counted will
\* end. This needs no process that serves: the counters outlive it.
Windows ==
  /\ \E S : counter \in [Prefix -> S]
  /\ admitted \in [Prefix -> Nat]
  /\ \A k \in Prefix : counter[k].n \in Nat /\ admitted[k] <= counter[k].n
  /\ \A n \in Route : Routes[n].limited =>
       LET k == Routes[n].prefix
       IN  /\ admitted[k] = 0 \/ admitted[k] <= LimitOf(n, Limits)
           /\ (counter[k].n > 0 /\ WholeSeconds(WindowOf(n, Limits))) => counter[k].expires

\* What ResponsesDocumented says of an answer, in an environment and after a
\* number of faults.
Told(a, env, f) ==
  /\ a.route \in Route
  /\ \/ a.status \in Routes[a.route].documented
     \/ a.route = "callback" /\ a.thrown = "Conflict"
     \/ a.thrown = "MalformedBody"
  /\ a.status = 500 =>
       \/ f > 0
       \/ a.thrown \in {"OriginNotAllowed", "UnreadableBody"}
       \/ a.route = "callback" /\ a.thrown = "Duplicate"
       \/ Routes[a.route].limited /\ ~WholeSeconds(WindowOf(a.route, Config(env).rateLimit))
  /\ a.cookie = "set" => Config(env).auth.driver = "session" /\ a.status < 400
  /\ a.route \in SessionRoute /\ a.status = 200 => Config(env).auth.driver = "session"

\* A request is only where its route leads.
Led(q, env, f) ==
  /\ q.pc = "authenticating" => Routes[q.route].auth
  /\ q.pc = "limiting" => Routes[q.route].limited
  /\ q.pc \in {"consuming", "exchanging", "completing"} => q.route = "callback"
  /\ q.pc \in {"arriving", "authenticating", "limiting", "handling"}
       => Routes[q.route].dto \/ q.valid
  /\ q.pc = "answered" => Told(q, env, f)

Progress == faults \in Nat /\ \A r \in Req : Led(req[r], deployed.env, faults)

Inv == IInv /\ Validated /\ Windows /\ Progress

LEMMA InitInv == Init => Inv
<1> SUFFICES ASSUME Init PROVE Inv
  OBVIOUS
<1>1. Validated
  BY DEF Init, Validated, Down, Serving
<1>2. Windows
  <2>1. counter \in [Prefix -> {NoCount}] /\ admitted \in [Prefix -> {0}]
    BY DEF Init
  <2>2. NoCount.n = 0
    BY DEF NoCount
  <2>3. \A n \in Route : Routes[n].prefix \in Prefix
    BY DEF Prefix
  <2>4. \A k \in Prefix : counter[k].n = 0 /\ admitted[k] = 0
    BY <2>1, <2>2
  <2>5. \E S : counter \in [Prefix -> S]
    BY <2>1
  <2>6. admitted \in [Prefix -> Nat]
    BY <2>1
  <2>7. \A k \in Prefix : counter[k].n \in Nat /\ admitted[k] <= counter[k].n
    BY <2>4
  <2> QED
    BY <2>3, <2>4, <2>5, <2>6, <2>7 DEF Windows
<1>3. Progress
  <2>1. \A r \in Req : req[r].pc = "idle"
    BY DEF Init, Idle
  <2> QED
    BY <2>1 DEF Init, Progress, Led
<1> QED
  BY <1>1, <1>2, <1>3, InitIInv DEF Inv

-----------------------------------------------------------------------------
(* What the process serves with.                                            *)

LEMMA ServeKeeps ==
  ASSUME NEW r \in Req, Serve(r)
  PROVE  UNCHANGED <<deployed, process>>
BY DEF Serve, Receive, Screen, Authenticate, Limit, Refuse, Handle, CheckHealth, StartSignIn,
       LookUpState, ConsumeState, ExchangeCode, CompleteSignIn

LEMMA ValidatedStep ==
  ASSUME IInv, Validated, [Next]_vars
  PROVE  Validated'
<1>1. CASE Start
  BY <1>1, Zenon DEF Start, Validated, Serving
<1>2. CASE ProbeFails
  <2>1. deployed' = deployed /\ Issues(deployed.env) = {}
    BY <1>2 DEF ProbeFails, Validated
  <2>2. process'.phase \in {"probing", "exited"}
    <3>1. process = [phase |-> "probing", attempt |-> process.attempt]
      BY <1>2 DEF ProbeFails, IInv, Configured
    <3> DEFINE a == process.attempt
    <3>2. process' = [process EXCEPT !.attempt = a + 1] \/ process' = [phase |-> "exited"]
      BY <1>2 DEF ProbeFails
    <3>3. process = [phase |-> "probing", attempt |-> a]
      BY <3>1
    <3> HIDE DEF a
    <3> QED
      BY <3>2, <3>3
  <2> QED
    BY <2>1, <2>2 DEF Validated, Serving
<1>3. CASE Boot
  <2>1. deployed' = deployed /\ Issues(deployed.env) = {}
    BY <1>3 DEF Boot, Validated
  <2>2. \/ process' = [phase |-> "exited"]
        \/ process' = [phase |-> "serving", config |-> Config(deployed.env),
                       wiring |-> Wiring(Config(deployed.env))]
    BY <1>3, Zenon DEF Boot
  <2> QED
    BY <2>1, <2>2 DEF Validated, Serving, config, wiring
<1>4. CASE Crash
  BY <1>4 DEF Crash, Down, Validated, Serving
<1>5. CASE UNCHANGED <<deployed, process>>
  BY <1>5 DEF Validated, Serving, config, wiring
<1>6. (\E k \in Prefix : WindowEnds(k)) \/ (\E s \in State : StateExpires(s))
        => UNCHANGED <<deployed, process>>
  BY DEF WindowEnds, StateExpires
<1> QED
  BY <1>1, <1>2, <1>3, <1>4, <1>5, <1>6, ServeKeeps DEF Next, vars

\* What the options of a serving process are.
LEMMA Served ==
  ASSUME IInv, Validated, Serving
  PROVE  /\ deployed \in Deployment /\ FieldIssues(deployed.env) = {}
         /\ Typed(deployed.env)
         /\ config = Config(deployed.env) /\ wiring = Wiring(config)
         /\ config.auth.driver \in {"jwt", "session"}
         /\ wiring.tokens = config.auth.driver
         /\ wiring.sessions = IF config.auth.driver = "session" THEN "redis" ELSE "unsupported"
<1>1. deployed \in Deployment /\ config = Config(deployed.env) /\ wiring = Wiring(config)
  BY DEF IInv, Configured, Validated
<1>2. FieldIssues(deployed.env) = {}
  BY Timing DEF Validated, Serving
<1>3. Typed(deployed.env)
  BY <1>1, EnvironmentAssumption DEF Typed
<1> QED
  BY <1>1, <1>2, <1>3, Drivers

LEMMA LimitIsNat ==
  ASSUME IInv, Validated, Serving, NEW n \in Route
  PROVE  LimitOf(n, Limits) \in Nat
<1>1. Typed(deployed.env) /\ FieldIssues(deployed.env) = {}
  BY Served
<1>2. "RATE_LIMIT_MAX" \in DOMAIN Least /\ "RATE_LIMIT_AUTH_MAX" \in DOMAIN Least
  BY SMT DEF Least
<1>3. Limits.max \in Nat /\ Limits.authMax \in Nat
  BY <1>1, <1>2, ParsedNumber DEF Limits, Config
<1>4. Routes[n].limit \in Nat
  BY RouteFacts
<1> QED
  BY <1>3, <1>4, SMT DEF LimitOf

-----------------------------------------------------------------------------
(* The windows of the rate limiter.                                         *)

LEMMA WindowsKept ==
  ASSUME Windows, UNCHANGED <<deployed, counter, admitted>>
  PROVE  Windows'
BY DEF Windows, Limits

\* Routes that share a counter agree on its limit and its window.
LEMMA SameLimit ==
  ASSUME NEW m \in Route, NEW n \in Route, Routes[m].limited, Routes[n].limited,
         Routes[m].prefix = Routes[n].prefix, NEW o
  PROVE  LimitOf(m, o) = LimitOf(n, o) /\ WindowOf(m, o) = WindowOf(n, o)
BY SamePrefix, Zenon DEF LimitOf, WindowOf

LEMMA LimitWindows ==
  ASSUME Inv, NEW r \in Req, Limit(r)
  PROVE  Windows'
<1> DEFINE n == req[r].route
           k == Routes[n].prefix
           w == WindowOf(n, Limits)
           next == Increment(k, w)
           max == LimitOf(n, Limits)
<1>1. Serving /\ req[r].pc = "limiting" /\ UNCHANGED deployed
  BY DEF Limit, At
<1>2. n \in Route /\ Routes[n].limited /\ k \in Prefix
  <2>1. req[r] \in Open
    BY <1>1, OpenAt DEF Inv
  <2> QED
    BY <1>1, <2>1 DEF Open, Inv, Progress, Led, Prefix
<1>3. config.rateLimit = Limits
  BY <1>1, Served DEF Inv, Limits
<1>4. max \in Nat
  BY <1>1, <1>2, LimitIsNat DEF Inv
<1>5. next.n = counter[k].n + 1
  BY DEF Increment
<1>6. next.expires <=> (counter[k].expires \/ (counter[k].n = 0 /\ WholeSeconds(w)))
  BY DEF Increment
<1>7. \/ counter' = counter /\ admitted' = admitted
      \/ counter' = [counter EXCEPT ![k] = next] /\ admitted' = admitted
      \/ /\ counter' = [counter EXCEPT ![k] = next] /\ next.n <= max
         /\ admitted' = [admitted EXCEPT ![k] = @ + 1]
  BY <1>3, Zenon DEF Limit, Allowed
<1>8. \A m \in Route : Routes[m].limited /\ Routes[m].prefix = k
        => LimitOf(m, Limits) = max /\ WindowOf(m, Limits) = w
  BY <1>2, SameLimit
<1>9. /\ counter[k].n \in Nat /\ admitted[k] \in Nat /\ admitted[k] <= counter[k].n
      /\ counter[k].n > 0 /\ WholeSeconds(w) => counter[k].expires
  BY <1>2 DEF Inv, Windows
<1> HIDE DEF n, k, w, next, max
<1>10. Limits' = Limits
  BY <1>1 DEF Limits
<1>11. ASSUME counter' = [counter EXCEPT ![k] = next],
              \/ admitted' = admitted
              \/ next.n <= max /\ admitted' = [admitted EXCEPT ![k] = @ + 1]
       PROVE  Windows'
  <2>1. PICK S : counter \in [Prefix -> S]
    BY DEF Inv, Windows
  <2>2. counter' \in [Prefix -> S \cup {next}]
    BY <1>11, <2>1
  <2>3. /\ counter'[k] = next
        /\ \A j \in Prefix : j # k => counter'[j] = counter[j]
    BY <1>2, <1>11, <2>1
  <2>4. /\ admitted' \in [Prefix -> Nat]
        /\ \A j \in Prefix : j # k => admitted'[j] = admitted[j]
        /\ admitted'[k] = admitted[k] \/ (next.n <= max /\ admitted'[k] = admitted[k] + 1)
    BY <1>2, <1>9, <1>11 DEF Inv, Windows
  <2>5. \A j \in Prefix : counter'[j].n \in Nat /\ admitted'[j] <= counter'[j].n
    <3> SUFFICES ASSUME NEW j \in Prefix
                 PROVE  counter'[j].n \in Nat /\ admitted'[j] <= counter'[j].n
      OBVIOUS
    <3>1. CASE j = k
      BY <1>5, <1>9, <2>3, <2>4, <3>1
    <3>2. CASE j # k
      BY <2>3, <2>4, <3>2 DEF Inv, Windows
    <3> QED
      BY <3>1, <3>2
  <2>6. ASSUME NEW m \in Route, Routes[m].limited
        PROVE  LET j == Routes[m].prefix
               IN  /\ admitted'[j] = 0 \/ admitted'[j] <= LimitOf(m, Limits)
                   /\ (counter'[j].n > 0 /\ WholeSeconds(WindowOf(m, Limits)))
                        => counter'[j].expires
    <3> DEFINE j == Routes[m].prefix
    <3>1. j \in Prefix
      BY DEF Prefix
    <3>2. /\ admitted[j] = 0 \/ admitted[j] <= LimitOf(m, Limits)
          /\ (counter[j].n > 0 /\ WholeSeconds(WindowOf(m, Limits))) => counter[j].expires
      BY <2>6 DEF Inv, Windows
    <3>3. CASE j = k
      <4>1. LimitOf(m, Limits) = max /\ WindowOf(m, Limits) = w
        BY <1>8, <2>6, <3>3
      <4>2. admitted'[k] = 0 \/ admitted'[k] <= max
        BY <1>4, <1>5, <1>9, <2>4, <3>2, <3>3, <4>1
      <4>3. WholeSeconds(w) => counter'[k].expires
        BY <1>6, <1>9, <2>3
      <4> QED
        BY <3>3, <4>1, <4>2, <4>3
    <3>4. CASE j # k
      BY <2>3, <2>4, <3>1, <3>2, <3>4
    <3> QED
      BY <3>3, <3>4
  <2> QED
    BY <1>10, <2>2, <2>4, <2>5, <2>6 DEF Windows
<1>12. CASE counter' = counter /\ admitted' = admitted
  BY <1>1, <1>12, WindowsKept DEF Inv
<1> QED
  BY <1>7, <1>11, <1>12

LEMMA WindowEndsWindows ==
  ASSUME Inv, NEW k \in Prefix, WindowEnds(k)
  PROVE  Windows'
<1>1. PICK S : counter \in [Prefix -> S]
  BY DEF Inv, Windows
<1>2. /\ counter' \in [Prefix -> S \cup {NoCount}] /\ counter'[k] = NoCount
      /\ \A j \in Prefix : j # k => counter'[j] = counter[j]
  BY <1>1 DEF WindowEnds
<1>3. /\ admitted' \in [Prefix -> Nat] /\ admitted'[k] = 0
      /\ \A j \in Prefix : j # k => admitted'[j] = admitted[j]
  BY DEF WindowEnds, Inv, Windows
<1>4. NoCount.n = 0
  BY DEF NoCount
<1>5. Limits' = Limits
  BY DEF WindowEnds, Limits
<1>6. \A j \in Prefix : counter'[j].n \in Nat /\ admitted'[j] <= counter'[j].n
  BY <1>2, <1>3, <1>4 DEF Inv, Windows
<1>7. ASSUME NEW n \in Route, Routes[n].limited
      PROVE  LET j == Routes[n].prefix
             IN  /\ admitted'[j] = 0 \/ admitted'[j] <= LimitOf(n, Limits)
                 /\ (counter'[j].n > 0 /\ WholeSeconds(WindowOf(n, Limits)))
                      => counter'[j].expires
  <2>1. Routes[n].prefix \in Prefix
    BY DEF Prefix
  <2> QED
    BY <1>2, <1>3, <1>4, <1>7, <2>1 DEF Inv, Windows
<1> QED
  BY <1>2, <1>3, <1>5, <1>6, <1>7 DEF Windows

LEMMA WindowsStep ==
  ASSUME Inv, [Next]_vars
  PROVE  Windows'
<1>1. CASE UNCHANGED vars
  BY <1>1, WindowsKept DEF Inv, vars, redis, history
<1>2. CASE Start \/ ProbeFails \/ Boot \/ Crash \/ \E s \in State : StateExpires(s)
  <2>1. UNCHANGED <<deployed, counter, admitted>>
    BY <1>2 DEF Start, ProbeFails, Boot, Crash, StateExpires, redis, history
  <2> QED
    BY <2>1, WindowsKept DEF Inv
<1>3. ASSUME NEW r \in Req, Serve(r) PROVE Windows'
  <2>1. CASE Limit(r)
    BY <2>1, LimitWindows
  <2>2. CASE ~Limit(r)
    <3>1. UNCHANGED <<deployed, counter, admitted>>
      BY <1>3, <2>2 DEF Serve, Receive, Screen, Authenticate, Refuse, Handle, CheckHealth,
             StartSignIn, LookUpState, ConsumeState, ExchangeCode, CompleteSignIn,
             redis, history
    <3> QED
      BY <3>1, WindowsKept DEF Inv
  <2> QED
    BY <2>1, <2>2
<1> QED
  BY <1>1, <1>2, <1>3, WindowEndsWindows DEF Next

-----------------------------------------------------------------------------
(* The way of a request to its answer.                                      *)

\* More faults excuse no less.
LEMMA LedStill ==
  ASSUME NEW q, NEW env, NEW f \in Nat, NEW g \in {f, f + 1}, Led(q, env, f)
  PROVE  Led(q, env, g)
BY DEF Led, Told

LEMMA MoveLed ==
  ASSUME Inv, NEW r \in Req, NEW v, req' = [req EXCEPT ![r] = v],
         faults' \in {faults, faults + 1}, UNCHANGED deployed,
         Led(v, deployed.env, faults')
  PROVE  Progress'
<1>1. PICK S : req \in [Req -> S]
  BY DEF Inv, IInv, Requests
<1>2. req'[r] = v /\ \A q \in Req : q # r => req'[q] = req[q]
  BY <1>1
<1>3. faults \in Nat /\ \A q \in Req : Led(req[q], deployed.env, faults)
  BY DEF Inv, Progress
<1>4. \A q \in Req : Led(req'[q], deployed.env, faults')
  BY <1>2, <1>3, LedStill
<1> QED
  BY <1>3, <1>4 DEF Progress

LEMMA AnswerLed ==
  ASSUME Inv, NEW r \in Req, NEW status, NEW thrown, NEW cookie, NEW location,
         Answer(r, status, thrown, cookie, location),
         faults' \in {faults, faults + 1}, UNCHANGED deployed,
         Told([pc |-> "answered", route |-> req[r].route, status |-> status,
               thrown |-> thrown, cookie |-> cookie, location |-> location],
              deployed.env, faults')
  PROVE  Progress'
<1> DEFINE v == [pc |-> "answered", route |-> req[r].route, status |-> status,
                 thrown |-> thrown, cookie |-> cookie, location |-> location]
<1>1. Led(v, deployed.env, faults')
  BY DEF Led
<1>2. req' = [req EXCEPT ![r] = v]
  BY DEF Answer
<1> QED
  BY <1>1, <1>2, MoveLed

\* An error that its route documents, or that is excused.
LEMMA ThrowLed ==
  ASSUME Inv, NEW r \in Req, NEW error, Throw(r, error), req[r].route \in Route,
         faults' \in {faults, faults + 1}, UNCHANGED deployed,
         StatusOf(error) # 200,
         \/ StatusOf(error) \in Routes[req[r].route].documented
         \/ req[r].route = "callback" /\ error = "Conflict"
         \/ error = "MalformedBody",
         StatusOf(error) = 500 =>
           \/ faults' > 0
           \/ error \in {"OriginNotAllowed", "UnreadableBody"}
           \/ req[r].route = "callback" /\ error = "Duplicate"
           \/ /\ Routes[req[r].route].limited
              /\ ~WholeSeconds(WindowOf(req[r].route, Config(deployed.env).rateLimit))
  PROVE  Progress'
<1>1. Told([pc |-> "answered", route |-> req[r].route, status |-> StatusOf(error),
            thrown |-> error, cookie |-> "kept", location |-> None],
           deployed.env, faults')
  BY DEF Told
<1> QED
  BY <1>1, AnswerLed DEF Throw

LEMMA ThrowDocumented ==
  ASSUME Inv, NEW r \in Req, NEW error, Throw(r, error), req[r].route \in Route,
         faults' \in {faults, faults + 1}, UNCHANGED deployed,
         Documents(req[r].route, error)
  PROVE  Progress'
BY ThrowLed DEF Documents

\* A failing dependency is a fault, and every route documents a 500.
LEMMA ThrowDependency ==
  ASSUME Inv, NEW r \in Req, Throw(r, "Dependency"), req[r].route \in Route,
         Fault, UNCHANGED deployed
  PROVE  Progress'
<1>1. faults' = faults + 1 /\ faults' > 0
  BY DEF Fault, Inv, Progress
<1>2. StatusOf("Dependency") = 500 /\ 500 \in Routes[req[r].route].documented
  BY ErrorStatuses, RouteFacts
<1> QED
  BY <1>1, <1>2, ThrowLed

\* A success has the status its route documents; a session cookie is set, and a
\* session route succeeds, only under the session driver.
LEMMA SucceedLed ==
  ASSUME Inv, NEW r \in Req, NEW current, Succeed(r, current), req[r].route \in Route,
         faults' \in {faults, faults + 1}, UNCHANGED deployed, Serving,
         req[r].route \in SessionRoute => wiring.sessions = "redis"
  PROVE  Progress'
<1> DEFINE n == req[r].route
           c == SessionCookie(n, current)
<1>1. /\ config = Config(deployed.env) /\ wiring.tokens = config.auth.driver
      /\ config.auth.driver \in {"jwt", "session"}
      /\ wiring.sessions = IF config.auth.driver = "session" THEN "redis" ELSE "unsupported"
  BY Served DEF Inv
<1>2. Routes[n].success \in Routes[n].documented /\ Routes[n].success \in {200, 201, 302}
  BY RouteFacts
<1>3. c = "set" => wiring.tokens = "session"
  BY DEF SessionCookie
<1>4. Answer(r, Routes[n].success, None, c, None)
  BY DEF Succeed
<1>5. n \in SessionRoute => config.auth.driver = "session"
  BY <1>1
<1> HIDE DEF c
<1>6. Told([pc |-> "answered", route |-> n, status |-> Routes[n].success,
            thrown |-> None, cookie |-> c, location |-> None],
           deployed.env, faults')
  BY <1>1, <1>2, <1>3, <1>5 DEF Told
<1> QED
  BY <1>4, <1>6, AnswerLed

\* A request goes on along its route.
LEMMA GotoLed ==
  ASSUME Inv, NEW r \in Req, NEW pc, Goto(r, pc), req[r] \in Open,
         faults' \in {faults, faults + 1}, UNCHANGED deployed,
         \/ pc = FirstStep(req[r].route) /\ req[r].pc = "arriving"
         \/ pc = "limiting" /\ Routes[req[r].route].limited /\ req[r].pc = "authenticating"
         \/ pc = "handling" /\ req[r].pc = "limiting"
         \/ pc \in {"exchanging", "completing"} /\ req[r].route = "callback"
  PROVE  Progress'
<1> DEFINE q == req[r]
           v == [q EXCEPT !.pc = pc]
<1>1. PICK S : req \in [Req -> S]
  BY DEF Inv, IInv, Requests
<1>2. req' = [req EXCEPT ![r] = v]
  BY <1>1 DEF Goto
<1>3. v.pc = pc /\ v.route = q.route /\ v.valid = q.valid
  BY DEF Open
<1>4. Led(q, deployed.env, faults)
  BY DEF Inv, Progress
<1>5. /\ pc # "answered"
      /\ pc = "authenticating" => Routes[q.route].auth
      /\ pc = "limiting" => Routes[q.route].limited
      /\ pc \in {"consuming", "exchanging", "completing"} => q.route = "callback"
      /\ pc \in {"arriving", "authenticating", "limiting", "handling"}
           => Routes[q.route].dto \/ q.valid
  <2>1. FirstStep(q.route) \in {"authenticating", "limiting", "handling"}
        /\ (FirstStep(q.route) = "authenticating" => Routes[q.route].auth)
        /\ (FirstStep(q.route) = "limiting" => Routes[q.route].limited)
    BY DEF FirstStep
  <2> QED
    BY <1>4, <2>1 DEF Led
<1>6. Led(v, deployed.env, faults')
  BY <1>3, <1>5 DEF Led
<1> HIDE DEF v
<1> QED
  BY <1>2, <1>6, MoveLed

LEMMA OpenRoute ==
  ASSUME Inv, NEW r \in Req, NEW pc, req[r].pc = pc, pc \notin {"idle", "answered"}
  PROVE  req[r] \in Open /\ req[r].route \in Route /\ Led(req[r], deployed.env, faults)
BY OpenAt DEF Inv, Open, Progress

LEMMA ReceiveProgress ==
  ASSUME Inv, NEW r \in Req, Receive(r)
  PROVE  Progress'
<1> DEFINE V(n, b, c, d, s, k) ==
             [pc |-> "arriving", route |-> n, bearer |-> b, cookie |-> c, valid |-> d,
              state |-> s, stateCookie |-> k, returnUrl |-> None]
<1>1. PICK n \in deployed.traffic :
        \E b \in IF Routes[n].auth THEN BOOLEAN ELSE {FALSE},
           c \in IF Routes[n].auth THEN BOOLEAN ELSE {FALSE},
           d \in IF Routes[n].dto THEN BOOLEAN ELSE {TRUE} :
          \E s \in IF n = "callback" /\ d THEN State \cup {None} ELSE {None} :
            \E k \in IF n = "callback" /\ d THEN {s, None} ELSE {None} :
              req' = [req EXCEPT ![r] = V(n, b, c, d, s, k)]
  BY DEF Receive
<1> DEFINE Sent(b, c, d, s, k) == req' = [req EXCEPT ![r] = V(n, b, c, d, s, k)]
           Body == IF Routes[n].dto THEN BOOLEAN ELSE {TRUE}
<1>2. \E b, c, d, s, k : d \in Body /\ Sent(b, c, d, s, k)
  <2> HIDE DEF V
  <2>1. \E b \in IF Routes[n].auth THEN BOOLEAN ELSE {FALSE},
           c \in IF Routes[n].auth THEN BOOLEAN ELSE {FALSE},
           d \in Body :
          \E s \in IF n = "callback" /\ d THEN State \cup {None} ELSE {None} :
            \E k \in IF n = "callback" /\ d THEN {s, None} ELSE {None} : Sent(b, c, d, s, k)
    BY <1>1
  <2> HIDE DEF Sent, Body
  <2> QED
    BY <2>1
<1>3. PICK b, c, d, s, k : d \in Body /\ Sent(b, c, d, s, k)
  BY <1>2
<1>4. Led(V(n, b, c, d, s, k), deployed.env, faults)
  BY <1>3 DEF Led
<1> HIDE DEF V
<1>5. UNCHANGED <<deployed, faults>>
  BY DEF Receive
<1> QED
  BY <1>3, <1>4, <1>5, MoveLed DEF Inv, Progress

\* What Express refuses is answered with a 400 or, though nothing failed, a 500.
LEMMA ScreenProgress ==
  ASSUME Inv, NEW r \in Req, Screen(r)
  PROVE  Progress'
<1> DEFINE n == req[r].route
<1>1. /\ req[r] \in Open /\ n \in Route /\ req[r].pc = "arriving"
      /\ UNCHANGED <<deployed, faults>> /\ faults' \in {faults, faults + 1}
  BY OpenRoute DEF Screen, At
<1>2. \/ Throw(r, "OriginNotAllowed") \/ Throw(r, "UnreadableBody")
      \/ Throw(r, "MalformedBody") \/ Goto(r, FirstStep(n))
  BY Zenon DEF Screen
<1>3. CASE Throw(r, "OriginNotAllowed") \/ Throw(r, "UnreadableBody")
  <2>1. 500 \in Routes[n].documented
    BY <1>1, RouteFacts
  <2> QED
    BY <1>1, <1>3, <2>1, ErrorStatuses, ThrowLed
<1>4. CASE Throw(r, "MalformedBody")
  BY <1>1, <1>4, ErrorStatuses, ThrowLed
<1>5. CASE Goto(r, FirstStep(n))
  BY <1>1, <1>5, GotoLed
<1> QED
  BY <1>2, <1>3, <1>4, <1>5

LEMMA AuthenticateProgress ==
  ASSUME Inv, NEW r \in Req, Authenticate(r)
  PROVE  Progress'
<1>1. /\ req[r] \in Open /\ req[r].route \in Route /\ UNCHANGED deployed
      /\ req[r].pc = "authenticating" /\ Routes[req[r].route].auth
  BY OpenRoute DEF Authenticate, At, Led
<1>2. Routes[req[r].route].limited /\ 401 \in Routes[req[r].route].documented
  BY <1>1, RouteFacts
<1>3. Documents(req[r].route, "Unauthorized")
  BY <1>2, ErrorStatuses DEF Documents
<1>4. faults' = faults \/ Fault
  BY DEF Authenticate
<1>5. faults' \in {faults, faults + 1}
  BY <1>4 DEF Fault
<1>6. Throw(r, "Unauthorized") \/ Goto(r, "limiting") \/ (Fault /\ Throw(r, "Dependency"))
  BY DEF Authenticate
<1> QED
  BY <1>1, <1>2, <1>3, <1>5, <1>6, ThrowDocumented, ThrowDependency, GotoLed

LEMMA LimitProgress ==
  ASSUME Inv, NEW r \in Req, Limit(r)
  PROVE  Progress'
<1> DEFINE n == req[r].route
<1>1. /\ req[r] \in Open /\ n \in Route /\ UNCHANGED deployed /\ Serving
      /\ req[r].pc = "limiting" /\ Routes[n].limited
  BY OpenRoute DEF Limit, At, Led
<1>2. config.rateLimit = Config(deployed.env).rateLimit
  BY <1>1, Served DEF Inv
<1>3. \/ Fault /\ Throw(r, "Dependency")
      \/ Throw(r, "TooManyRequests") /\ UNCHANGED faults
      \/ Goto(r, "handling") /\ UNCHANGED faults
      \/ /\ Throw(r, "Dependency") /\ UNCHANGED faults
         /\ ~WholeSeconds(WindowOf(n, config.rateLimit))
  BY Zenon DEF Limit
<1>4. Documents(n, "TooManyRequests")
  BY <1>1, ErrorStatuses, RouteFacts DEF Documents
<1>5. StatusOf("Dependency") = 500 /\ 500 \in Routes[n].documented
  BY <1>1, ErrorStatuses, RouteFacts
<1>6. CASE Fault /\ Throw(r, "Dependency")
  BY <1>1, <1>6, ThrowDependency
<1>7. CASE Throw(r, "TooManyRequests") /\ UNCHANGED faults
  BY <1>1, <1>4, <1>7, ThrowDocumented
<1>8. CASE Goto(r, "handling") /\ UNCHANGED faults
  BY <1>1, <1>8, GotoLed
<1>9. CASE /\ Throw(r, "Dependency") /\ UNCHANGED faults
           /\ ~WholeSeconds(WindowOf(n, config.rateLimit))
  BY <1>1, <1>2, <1>5, <1>9, ThrowLed
<1> QED
  BY <1>3, <1>6, <1>7, <1>8, <1>9

LEMMA RefuseProgress ==
  ASSUME Inv, NEW r \in Req, Refuse(r)
  PROVE  Progress'
<1>1. /\ req[r].route \in Route /\ Routes[req[r].route].dto
      /\ UNCHANGED <<deployed, faults>> /\ Throw(r, "BadRequest")
  BY OpenRoute DEF Refuse, Handling, At, Led
<1>2. Documents(req[r].route, "BadRequest")
  BY <1>1, ErrorStatuses, RouteFacts DEF Documents
<1> QED
  BY <1>1, <1>2, ThrowDocumented DEF Inv, Progress

LEMMA HandleProgress ==
  ASSUME Inv, NEW r \in Req, Handle(r)
  PROVE  Progress'
<1> DEFINE n == req[r].route
           outcomes == Outcomes(n, wiring, req[r].cookie)
<1>1. /\ n \in Route \ {"start", "callback", "health", "live", "ready"} /\ Serving
      /\ UNCHANGED deployed
  BY DEF Handle, Handling, At
<1>2. wiring.sessions \in {"unsupported", "redis"}
  BY <1>1, Served DEF Inv
<1>3. \/ "ok" \in outcomes /\ UNCHANGED faults /\ \E current : Succeed(r, current)
      \/ UNCHANGED faults /\ \E error \in outcomes \ {"ok"} : Throw(r, error)
      \/ Fault /\ Throw(r, "Dependency")
  BY Zenon DEF Handle
<1>4. CASE "ok" \in outcomes /\ UNCHANGED faults /\ \E current : Succeed(r, current)
  <2>1. n \in SessionRoute => wiring.sessions = "redis"
    BY <1>2, <1>4, SessionsManaged
  <2> QED
    BY <1>1, <1>4, <2>1, SucceedLed
<1>5. CASE UNCHANGED faults /\ \E error \in outcomes \ {"ok"} : Throw(r, error)
  <2>1. PICK error \in outcomes \ {"ok"} : Throw(r, error)
    BY <1>5
  <2>2. Documents(n, error)
    BY <1>1, <1>2, <2>1, OutcomesDocumented
  <2> QED
    BY <1>1, <1>5, <2>1, <2>2, ThrowDocumented
<1>6. CASE Fault /\ Throw(r, "Dependency")
  BY <1>1, <1>6, ThrowDependency
<1> QED
  BY <1>3, <1>4, <1>5, <1>6

\* Only the checks of dependencies answer that one is down.
LEMMA CheckHealthProgress ==
  ASSUME Inv, NEW r \in Req, CheckHealth(r)
  PROVE  Progress'
<1> DEFINE n == req[r].route
<1>1. n \in {"health", "live", "ready"} /\ n \in Route /\ Serving /\ UNCHANGED deployed
  BY RouteNames DEF CheckHealth, Handling, At
<1>2. PICK down : /\ UNCHANGED faults \/ Fault
                  /\ \E outcome \in HealthOutcomes(n, down) :
                       IF outcome = "ok" THEN Succeed(r, FALSE) ELSE Throw(r, outcome)
  BY DEF CheckHealth
<1>3. faults' \in {faults, faults + 1}
  BY <1>2 DEF Fault
<1>4. Succeed(r, FALSE) \/ (n # "live" /\ Throw(r, "ServiceUnavailable"))
  BY <1>2 DEF HealthOutcomes
<1>5. n # "live" => Documents(n, "ServiceUnavailable")
  BY SMT, <1>1, ErrorStatuses, RouteRecords, HealthReads, ReadyReads DEF Reads, Documents
<1>6. n \notin SessionRoute
  BY <1>1 DEF SessionRoute
<1> QED
  BY <1>1, <1>3, <1>4, <1>5, <1>6, SucceedLed, ThrowDocumented

LEMMA GoogleStatuses ==
  /\ "start" \in Route /\ "callback" \in Route
  /\ Documents("start", "ServiceUnavailable") /\ Documents("start", "Validation")
  /\ 302 \in Routes["start"].documented
  /\ Documents("callback", "ServiceUnavailable") /\ Documents("callback", "Validation")
  /\ Documents("callback", "Authentication")
  /\ {200, 302} \subseteq Routes["callback"].documented
  /\ "start" \notin SessionRoute /\ "callback" \notin SessionRoute
BY SMT, ErrorStatuses, RouteNames, RouteRecords, GoogleStartReads, GoogleCallbackReads
   DEF Reads, Documents, SessionRoute

LEMMA StartSignInProgress ==
  ASSUME Inv, NEW r \in Req, StartSignIn(r)
  PROVE  Progress'
<1>1. req[r].route = "start" /\ UNCHANGED deployed
  BY DEF StartSignIn, Handling
<1>2. \/ UNCHANGED faults /\ (Throw(r, "ServiceUnavailable") \/ Throw(r, "Validation"))
      \/ UNCHANGED faults /\ Answer(r, 302, None, "kept", "google")
      \/ Fault /\ Throw(r, "Dependency")
  BY Zenon DEF StartSignIn
<1>3. CASE UNCHANGED faults /\ (Throw(r, "ServiceUnavailable") \/ Throw(r, "Validation"))
  BY <1>1, <1>3, GoogleStatuses, ThrowDocumented
<1>4. CASE UNCHANGED faults /\ Answer(r, 302, None, "kept", "google")
  <2>1. Told([pc |-> "answered", route |-> req[r].route, status |-> 302,
              thrown |-> None, cookie |-> "kept", location |-> "google"],
             deployed.env, faults')
    BY <1>1, GoogleStatuses DEF Told
  <2> QED
    BY <1>1, <1>4, <2>1, AnswerLed
<1>5. CASE Fault /\ Throw(r, "Dependency")
  BY <1>1, <1>5, GoogleStatuses, ThrowDependency
<1> QED
  BY <1>2, <1>3, <1>4, <1>5

LEMMA LookUpStateProgress ==
  ASSUME Inv, NEW r \in Req, LookUpState(r)
  PROVE  Progress'
<1>1. req[r].route = "callback" /\ UNCHANGED deployed /\ req[r] \in Open
  BY OpenRoute DEF LookUpState, Handling, At
<1>2. \/ UNCHANGED faults /\ (Throw(r, "ServiceUnavailable") \/ Throw(r, "Validation"))
      \/ /\ UNCHANGED faults
         /\ req' = [req EXCEPT ![r].pc = "consuming", ![r].returnUrl = stored[req[r].state]]
      \/ Fault /\ Throw(r, "Dependency")
  BY Zenon DEF LookUpState
<1>3. CASE UNCHANGED faults /\ (Throw(r, "ServiceUnavailable") \/ Throw(r, "Validation"))
  BY <1>1, <1>3, GoogleStatuses, ThrowDocumented
<1>4. CASE /\ UNCHANGED faults
           /\ req' = [req EXCEPT ![r].pc = "consuming", ![r].returnUrl = stored[req[r].state]]
  <2> DEFINE u == stored[req[r].state]
             v == [req[r] EXCEPT !.pc = "consuming", !.returnUrl = u]
  <2>1. PICK S : req \in [Req -> S]
    BY DEF Inv, IInv, Requests
  <2> HIDE DEF u
  <2>2. req' = [req EXCEPT ![r] = v]
    BY <1>1, <1>4, <2>1 DEF Open, u
  <2>3. v.pc = "consuming" /\ v.route = "callback"
    BY <1>1 DEF Open
  <2> HIDE DEF v
  <2>4. Led(v, deployed.env, faults')
    BY <2>3 DEF Led
  <2> QED
    BY <1>1, <1>4, <2>2, <2>4, MoveLed
<1>5. CASE Fault /\ Throw(r, "Dependency")
  BY <1>1, <1>5, GoogleStatuses, ThrowDependency
<1> QED
  BY <1>2, <1>3, <1>4, <1>5

LEMMA ConsumeStateProgress ==
  ASSUME Inv, NEW r \in Req, ConsumeState(r)
  PROVE  Progress'
<1>1. req[r].route = "callback" /\ UNCHANGED deployed /\ req[r] \in Open
  BY OpenRoute DEF ConsumeState, At, Led
<1>2. \/ UNCHANGED faults /\ (Throw(r, "Validation") \/ Throw(r, "Authentication"))
      \/ UNCHANGED faults /\ Goto(r, "exchanging")
      \/ Fault /\ Throw(r, "Dependency")
  BY Zenon DEF ConsumeState
<1>3. CASE UNCHANGED faults /\ (Throw(r, "Validation") \/ Throw(r, "Authentication"))
  BY <1>1, <1>3, GoogleStatuses, ThrowDocumented
<1>4. CASE UNCHANGED faults /\ Goto(r, "exchanging")
  BY <1>1, <1>4, GotoLed
<1>5. CASE Fault /\ Throw(r, "Dependency")
  BY <1>1, <1>5, GoogleStatuses, ThrowDependency
<1> QED
  BY <1>2, <1>3, <1>4, <1>5

LEMMA ExchangeCodeProgress ==
  ASSUME Inv, NEW r \in Req, ExchangeCode(r)
  PROVE  Progress'
<1>1. /\ req[r].route = "callback" /\ UNCHANGED <<deployed, faults>> /\ req[r] \in Open
      /\ Goto(r, "completing") \/ Throw(r, "Authentication")
  BY OpenRoute DEF ExchangeCode, At, Led
<1> QED
  BY <1>1, GoogleStatuses, GotoLed, ThrowDocumented DEF Inv, Progress

LEMMA CompleteSignInProgress ==
  ASSUME Inv, NEW r \in Req, CompleteSignIn(r)
  PROVE  Progress'
<1> DEFINE c == SessionCookie("callback", FALSE)
<1>1. req[r].route = "callback" /\ UNCHANGED deployed /\ Serving
  BY OpenRoute DEF CompleteSignIn, At, Led
<1>2. \/ UNCHANGED faults /\ (Throw(r, "Authentication") \/ Throw(r, "Validation"))
      \/ UNCHANGED faults /\ (Throw(r, "Conflict") \/ Throw(r, "Duplicate"))
      \/ Fault /\ Throw(r, "Dependency")
      \/ UNCHANGED faults /\ Answer(r, 302, None, c, req[r].returnUrl)
      \/ UNCHANGED faults /\ Answer(r, 200, None, c, None)
  BY DEF CompleteSignIn
<1>3. CASE UNCHANGED faults /\ (Throw(r, "Authentication") \/ Throw(r, "Validation"))
  BY <1>1, <1>3, GoogleStatuses, ThrowDocumented
<1>4. CASE UNCHANGED faults /\ (Throw(r, "Conflict") \/ Throw(r, "Duplicate"))
  <2>1. /\ StatusOf("Conflict") = 409 /\ StatusOf("Duplicate") = 500
        /\ 500 \in Routes["callback"].documented
    BY ErrorStatuses, GoogleStatuses, RouteFacts
  <2> QED
    BY <1>1, <1>4, <2>1, GoogleStatuses, ThrowLed
<1>5. CASE Fault /\ Throw(r, "Dependency")
  BY <1>1, <1>5, GoogleStatuses, ThrowDependency
<1>6. ASSUME UNCHANGED faults, NEW status \in {200, 302}, NEW location,
             Answer(r, status, None, c, location)
      PROVE  Progress'
  <2>1. /\ config = Config(deployed.env) /\ wiring.tokens = config.auth.driver
    BY <1>1, Served DEF Inv
  <2>2. c = "set" => wiring.tokens = "session"
    BY DEF SessionCookie
  <2> HIDE DEF c
  <2>3. Told([pc |-> "answered", route |-> req[r].route, status |-> status,
              thrown |-> None, cookie |-> c, location |-> location],
             deployed.env, faults')
    BY <1>1, <2>1, <2>2, GoogleStatuses DEF Told
  <2> QED
    BY <1>1, <1>6, <2>3, AnswerLed
<1>7. CASE UNCHANGED faults /\ Answer(r, 302, None, c, req[r].returnUrl)
  <2> HIDE DEF c
  <2> QED
    BY <1>6, <1>7
<1>8. CASE UNCHANGED faults /\ Answer(r, 200, None, c, None)
  <2> HIDE DEF c
  <2> QED
    BY <1>6, <1>8
<1> HIDE DEF c
<1> QED
  BY <1>2, <1>3, <1>4, <1>5, <1>7, <1>8

LEMMA ProgressStep ==
  ASSUME Inv, [Next]_vars
  PROVE  Progress'
<1>1. CASE UNCHANGED <<deployed, req, faults>>
  BY <1>1 DEF Inv, Progress
<1>2. CASE Crash
  <2>1. faults' = faults + 1 /\ req' = [r \in Req |-> Idle]
    BY <1>2 DEF Crash, Fault
  <2>2. \A r \in Req : req'[r].pc = "idle"
    BY <2>1 DEF Idle
  <2> QED
    BY <2>1, <2>2 DEF Inv, Progress, Led
<1>3. ASSUME NEW r \in Req, Serve(r) PROVE Progress'
  BY <1>3, ReceiveProgress, ScreenProgress, AuthenticateProgress, LimitProgress, RefuseProgress,
     HandleProgress, CheckHealthProgress, StartSignInProgress, LookUpStateProgress,
     ConsumeStateProgress, ExchangeCodeProgress, CompleteSignInProgress DEF Serve
<1>4. Start \/ ProbeFails \/ Boot \/ (\E k \in Prefix : WindowEnds(k))
        \/ (\E s \in State : StateExpires(s)) \/ UNCHANGED vars
          => UNCHANGED <<deployed, req, faults>>
  BY DEF Start, ProbeFails, Boot, WindowEnds, StateExpires, vars
<1> QED
  BY <1>1, <1>2, <1>3, <1>4 DEF Next

LEMMA NextInv == Inv /\ [Next]_vars => Inv'
BY NextIInv, ValidatedStep, WindowsStep, ProgressStep DEF Inv

-----------------------------------------------------------------------------
\* Every answer, from Express and the guards to the filter, has a status that
\* its route documents, but for the conflict of the callback and the body that
\* is no JSON; a 500 has a failure or one of four causes of the code behind it:
\* the refused origin, the body that is not read, the race of two links and the
\* window of a fraction of a second; a session cookie is set, and
\* a session route succeeds, only under the session driver. For any accepted
\* environments, any number of concurrent requests, crashes and failures.
THEOREM AnswersDocumented == Spec => []ResponsesDocumented
<1>1. Inv => ResponsesDocumented
  <2> SUFFICES ASSUME Inv, Serving, NEW r \in Answered
               PROVE  LET a == req[r]
                      IN  /\ \/ a.status \in Routes[a.route].documented
                             \/ a.route = "callback" /\ a.thrown = "Conflict"
                             \/ a.thrown = "MalformedBody"
                          /\ a.status = 500 =>
                               \/ faults > 0
                               \/ a.thrown \in {"OriginNotAllowed", "UnreadableBody"}
                               \/ a.route = "callback" /\ a.thrown = "Duplicate"
                               \/ /\ Routes[a.route].limited
                                  /\ ~WholeSeconds(WindowOf(a.route, config.rateLimit))
                          /\ a.cookie = "set" => config.auth.driver = "session" /\ a.status < 400
                          /\ a.route \in SessionRoute /\ a.status = 200
                               => config.auth.driver = "session"
    BY DEF ResponsesDocumented
  <2>1. config = Config(deployed.env)
    BY Served DEF Inv
  <2>2. Told(req[r], deployed.env, faults)
    BY DEF Inv, Progress, Led, Answered
  <2> QED
    BY <2>1, <2>2 DEF Told
<1> QED
  BY <1>1, InitInv, NextInv, PTL DEF Spec

\* The rate limiter never lets more than a limit through a window, over the
\* routes that share a counter and across crashes between two counts, and a
\* counter never gets stuck: it has an expiry from the moment it counts, unless
\* its window is configured as a fraction of a second.
THEOREM RateLimitHolds == Spec => []WindowHolds
<1>1. Inv => WindowHolds
  <2> SUFFICES ASSUME Inv, Serving, NEW n \in deployed.traffic, Routes[n].limited
               PROVE  LET k == Routes[n].prefix
                      IN  /\ admitted[k] <= LimitOf(n, config.rateLimit)
                          /\ (counter[k].n > 0 /\ WholeSeconds(WindowOf(n, config.rateLimit)))
                               => counter[k].expires
    BY DEF WindowHolds
  <2>1. n \in Route /\ config.rateLimit = Limits
    BY Served, DeploymentAssumption DEF Inv, Limits
  <2>2. LimitOf(n, Limits) \in Nat
    BY <2>1, LimitIsNat DEF Inv
  <2>3. LET k == Routes[n].prefix
        IN  /\ admitted[k] = 0 \/ admitted[k] <= LimitOf(n, Limits)
            /\ (counter[k].n > 0 /\ WholeSeconds(WindowOf(n, Limits))) => counter[k].expires
    BY <2>1 DEF Inv, Windows
  <2> QED
    BY <2>1, <2>2, <2>3
<1> QED
  BY <1>1, InitInv, NextInv, PTL DEF Spec

\* Whatever environment a process serves with, its leases outlive a missed
\* heartbeat, the lock of the cron job ends before the next run, and the delay
\* of a retry neither shrinks nor falls below its base.
THEOREM TimingHolds == Spec => []LeasesLeaveRoom
<1>1. Inv => LeasesLeaveRoom
  <2> SUFFICES ASSUME Inv, Serving PROVE LeasesLeaveRoom
    BY DEF LeasesLeaveRoom
  <2> DEFINE e == Parsed(deployed.env)
             o == config.outbox
             j == config.jobExecution
  <2>1. config = Config(deployed.env) /\ Typed(deployed.env)
    BY Served DEF Inv
  <2>2. Issues(deployed.env) = {}
    BY DEF Inv, Validated, Serving
  <2>3. /\ o = OutboxOptions(e) /\ j = JobExecutionOptions(e)
    BY <2>1, SMT DEF Config
  <2>4. \A f \in {"OUTBOX_LOCK_TTL_MS", "OUTBOX_HEARTBEAT_INTERVAL_MS",
                  "OUTBOX_HANDLER_TIMEOUT_MS", "OUTBOX_POLL_INTERVAL_MS",
                  "OUTBOX_CRON_LOCK_TTL_MS", "OUTBOX_RETRY_BASE_DELAY_SECONDS",
                  "OUTBOX_RETRY_MAX_DELAY_SECONDS", "JOB_EXECUTION_LEASE_TTL_SECONDS",
                  "JOB_EXECUTION_HEARTBEAT_INTERVAL_SECONDS"} : f \in DOMAIN Least
    BY SMT DEF Least
  <2>5. FieldIssues(deployed.env) = {}
    BY <2>2, Timing
  <2>6. /\ e.OUTBOX_LOCK_TTL_MS \in Nat /\ e.OUTBOX_HEARTBEAT_INTERVAL_MS \in Nat
        /\ e.OUTBOX_HANDLER_TIMEOUT_MS \in Nat /\ e.OUTBOX_POLL_INTERVAL_MS \in Nat
        /\ e.OUTBOX_CRON_LOCK_TTL_MS \in Nat
        /\ e.OUTBOX_RETRY_BASE_DELAY_SECONDS \in Nat
        /\ e.OUTBOX_RETRY_MAX_DELAY_SECONDS \in Nat
        /\ e.JOB_EXECUTION_LEASE_TTL_SECONDS \in Nat
        /\ e.JOB_EXECUTION_HEARTBEAT_INTERVAL_SECONDS \in Nat
    BY <2>1, <2>4, <2>5, ParsedNumber
  <2>7. /\ ~(e.OUTBOX_CRON_LOCK_TTL_MS >= e.OUTBOX_POLL_INTERVAL_MS)
        /\ ~(e.OUTBOX_RETRY_MAX_DELAY_SECONDS < e.OUTBOX_RETRY_BASE_DELAY_SECONDS)
        /\ ~(e.OUTBOX_HEARTBEAT_INTERVAL_MS > e.OUTBOX_LOCK_TTL_MS \div 2)
        /\ ~(/\ e.OUTBOX_HANDLER_TIMEOUT_MS > 0
             /\ e.OUTBOX_HANDLER_TIMEOUT_MS < e.OUTBOX_LOCK_TTL_MS)
        /\ ~(e.JOB_EXECUTION_HEARTBEAT_INTERVAL_SECONDS
               > e.JOB_EXECUTION_LEASE_TTL_SECONDS \div 2)
    BY <2>2, Timing
  <2> HIDE DEF e, o, j
  <2>8. /\ o.lockTtlMs = e.OUTBOX_LOCK_TTL_MS
        /\ o.heartbeatIntervalMs = e.OUTBOX_HEARTBEAT_INTERVAL_MS
        /\ o.handlerTimeoutMs = e.OUTBOX_HANDLER_TIMEOUT_MS
        /\ o.pollIntervalMs = e.OUTBOX_POLL_INTERVAL_MS
        /\ o.cronLockTtlMs = e.OUTBOX_CRON_LOCK_TTL_MS
        /\ o.retryBaseSeconds = e.OUTBOX_RETRY_BASE_DELAY_SECONDS
        /\ o.retryMaxSeconds = e.OUTBOX_RETRY_MAX_DELAY_SECONDS
        /\ j.leaseTtlSeconds = e.JOB_EXECUTION_LEASE_TTL_SECONDS
        /\ j.heartbeatIntervalSeconds = e.JOB_EXECUTION_HEARTBEAT_INTERVAL_SECONDS
    BY <2>3, SMT DEF OutboxOptions, JobExecutionOptions
  <2>9. 2 * o.heartbeatIntervalMs <= o.lockTtlMs
    BY <2>6, <2>7, <2>8, Half
  <2>10. 2 * j.heartbeatIntervalSeconds <= j.leaseTtlSeconds
    BY <2>6, <2>7, <2>8, Half
  <2>11. o.cronLockTtlMs >= 2000 => 2 * CronHeartbeatMs(o) <= o.cronLockTtlMs
    BY <2>6, <2>8, CronHeartbeat
  <2>12. /\ o.cronLockTtlMs < o.pollIntervalMs
         /\ o.handlerTimeoutMs > 0 => o.handlerTimeoutMs >= o.lockTtlMs
         /\ o.retryBaseSeconds <= o.retryMaxSeconds
    BY <2>6, <2>7, <2>8
  <2>13. \A a \in 1 .. 6 : /\ o.retryBaseSeconds <= RetryDelaySeconds(o, a)
                           /\ RetryDelaySeconds(o, a) <= RetryDelaySeconds(o, a + 1)
    BY <2>6, <2>8, <2>12, RetryDelays
  <2> QED
    BY <2>9, <2>10, <2>11, <2>12, <2>13, Zenon DEF LeasesLeaveRoom, o, j
<1> QED
  BY <1>1, InitInv, NextInv, PTL DEF Spec

-----------------------------------------------------------------------------
\* An OAuth state lets one callback through, however many requests, crashes and
\* restarts there are, and no sign-in sends a browser anywhere but to Google or
\* to an origin the environment allows.
THEOREM OneCallbackPerState == Spec => []StateSpentOnce
<1>1. IInv => StateSpentOnce
  <2> SUFFICES ASSUME IInv PROVE StateSpentOnce
    OBVIOUS
  <2>1. \A s \in State : spent[s] <= 1
    <3>1. \A s \in State : spent[s] \in {0, 1}
      BY DEF IInv, States
    <3> QED
      BY <3>1
  <2>2. ASSUME Serving, NEW r \in Answered
        PROVE  req[r].location \in {None, "google"} \cup config.app.allowedOrigins
    <3>1. req[r].pc = "answered" /\ Placed(req[r])
      BY <2>2 DEF Answered, IInv, Requests
    <3>2. req[r].location \in {"google"} \cup Url
      BY <3>1 DEF Placed, Open, Idle
    <3> QED
      BY <2>2, <3>2 DEF IInv, Configured, Url, Origins
  <2> QED
    BY <2>1, <2>2 DEF StateSpentOnce
<1> QED
  BY <1>1, InitIInv, NextIInv, PTL DEF Spec
=============================================================================
