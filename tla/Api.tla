-------------------------------- MODULE Api --------------------------------
(***************************************************************************)
(* The API process: it validates its environment, probes Redis and wires   *)
(* its modules, then serves concurrent requests through CORS and the body   *)
(* parser, guards, validation, handler and exception filter. Redis outlives the process: the counters   *)
(* of the rate limiter and the one-time states of the Google flow.          *)
(* All requests come from one address, so a counter is one key prefix.     *)
(***************************************************************************)
EXTENDS Endpoints

CONSTANTS
  Deployment,  \* pairs of an environment and the routes its clients use
  Req,         \* requests in flight at once
  State,       \* OAuth states the start route may issue
  MaxSent,     \* bound on the requests of a behaviour
  MaxFaults    \* bound on crashes and failing dependencies

ASSUME DeploymentAssumption ==
  \A d \in Deployment : d.traffic \subseteq Route

\* The schema coerces a variable with a lower bound to a number.
ASSUME EnvironmentAssumption ==
  \A d \in Deployment : \A f \in DOMAIN Least \cap DOMAIN d.env : d.env[f] \in Int

VARIABLES
  deployed,    \* the environment and clients of this behaviour
  process,     \* phase of the process, probe attempt, configuration and wiring
  counter,     \* Redis: prefix -> count and whether it will expire
  stored,      \* Redis: state -> returnUrl it was saved with, or Gone
  req,         \* where each request is
  admitted,    \* history: requests let through since the counter began
  spent,       \* history: callbacks that got past the check of a state
  sent, faults

vars == <<deployed, process, counter, stored, req, admitted, spent, sent, faults>>
redis == <<counter, stored>>
history == <<admitted, spent>>

Gone == "gone"
Unissued == "unissued"

\* Origins a client may name: the configured one and another.
Site == {"http://localhost:3000", "http://elsewhere"}
Prefix == {Routes[n].prefix : n \in Route}

Down == [phase |-> "down"]
Idle == [pc |-> "idle"]
NoCount == [n |-> 0, expires |-> FALSE]

config == process.config
wiring == process.wiring
Serving == process.phase = "serving"
At(r, pc) == Serving /\ req[r].pc = pc
Goto(r, pc) == req' = [req EXCEPT ![r].pc = pc]

Init ==
  /\ deployed \in Deployment
  /\ process = Down
  /\ counter = [k \in Prefix |-> NoCount]
  /\ stored = [s \in State |-> Unissued]
  /\ req = [r \in Req |-> Idle]
  /\ admitted = [k \in Prefix |-> 0]
  /\ spent = [s \in State |-> 0]
  /\ sent = 0
  /\ faults = 0

Fault == faults < MaxFaults /\ faults' = faults + 1

----------------------------------------------------------------------------
(* The process                                                             *)

\* ConfigModule validates as the module is loaded, before bootstrap() runs.
Start ==
  /\ process = Down
  /\ process' = IF Issues(deployed.env) # {} \/ StartupIssues(deployed.env) # {}
                THEN [phase |-> "exited"]
                ELSE [phase |-> "probing", attempt |-> 1]
  /\ UNCHANGED <<deployed, redis, req, history, sent, faults>>

ProbeFails ==
  /\ process.phase = "probing"
  /\ process' = IF process.attempt < Parsed(deployed.env).REDIS_STARTUP_MAX_ATTEMPTS
                THEN [process EXCEPT !.attempt = @ + 1]
                ELSE [phase |-> "exited"]
  /\ UNCHANGED <<deployed, redis, req, history, sent, faults>>

\* The probe answers; Nest builds the modules, and a factory that throws
\* ends the process.
Boot ==
  /\ process.phase = "probing"
  /\ LET c == Config(deployed.env)
         w == Wiring(c)
     IN  process' = IF "throws" \in {w.tokens, w.sessions}
                    THEN [phase |-> "exited"]
                    ELSE [phase |-> "serving", config |-> c, wiring |-> w]
  /\ UNCHANGED <<deployed, redis, req, history, sent, faults>>

\* The process dies with everything in flight.
Crash ==
  /\ Serving
  /\ Fault
  /\ process' = Down
  /\ req' = [r \in Req |-> Idle]
  /\ UNCHANGED <<deployed, redis, history, sent>>

----------------------------------------------------------------------------
(* Responses                                                               *)

Answer(r, status, thrown, cookie, location) ==
  req' = [req EXCEPT ![r] =
            [pc |-> "answered", route |-> req[r].route, status |-> status,
             thrown |-> thrown, cookie |-> cookie, location |-> location]]

\* An error reaches the filter, which touches no cookie. The callback clears the
\* cookie of its state before it looks anything up, so that an error of its
\* handler comes with that cookie cleared and one thrown earlier does not.
Throw(r, error) == Answer(r, StatusOf(error), error, "kept", None)

\* attachIfNeeded() and clear() of SessionCookieService.
SessionCookie(n, current) ==
  CASE n \in {"login", "changePassword", "resetPassword", "callback"}
         /\ wiring.tokens = "session" -> "set"
    [] n \in {"logout", "revokeAll"} \/ (n = "revokeOne" /\ current) -> "cleared"
    [] OTHER -> "kept"

Succeed(r, current) ==
  Answer(r, Routes[req[r].route].success, None,
         SessionCookie(req[r].route, current), None)

----------------------------------------------------------------------------
(* Before the handler                                                      *)

\* A client sends a request, perhaps with a bearer token or a session cookie
\* and with a body, query or parameter that is valid or not. A callback carries
\* a state and the state cookie of its browser; nobody reads them of one whose
\* query is not valid.
Receive(r) ==
  /\ Serving
  /\ req[r].pc \in {"idle", "answered"}
  /\ sent < MaxSent
  /\ sent' = sent + 1
  /\ \E n \in deployed.traffic :
       \E bearer \in IF Routes[n].auth THEN BOOLEAN ELSE {FALSE},
          cookie \in IF Routes[n].auth THEN BOOLEAN ELSE {FALSE},
          valid \in IF Routes[n].dto THEN BOOLEAN ELSE {TRUE} :
         \E state \in IF n = "callback" /\ valid THEN State \cup {None} ELSE {None} :
           \E stateCookie \in IF n = "callback" /\ valid THEN {state, None} ELSE {None} :
             req' = [req EXCEPT ![r] =
               [pc |-> "arriving", route |-> n, bearer |-> bearer, cookie |-> cookie,
                valid |-> valid, state |-> state, stateCookie |-> stateCookie,
                returnUrl |-> None]]
  /\ UNCHANGED <<deployed, process, redis, history, faults>>

Allowlisted(url) == url \in config.app.allowedOrigins

\* The callback given to enableCors(): a request without an origin passes.
OriginAllowed(origin) == origin = None \/ Allowlisted(origin)

FirstStep(n) ==
  CASE Routes[n].auth -> "authenticating"
    [] ~Routes[n].auth /\ Routes[n].limited -> "limiting"
    [] OTHER -> "handling"

\* Express, before any guard: CORS answers an origin that is not configured with
\* an Error, then the body parser may fail, on any route, for a body that is no
\* JSON or that it does not read at all (too large, an unknown encoding). The
\* Error and the latter are unknown to the filter.
Screen(r) ==
  /\ At(r, "arriving")
  /\ \E origin \in Site \cup {None} :
       \/ ~OriginAllowed(origin) /\ Throw(r, "OriginNotAllowed")
       \/ /\ OriginAllowed(origin)
          /\ \/ \E error \in {"MalformedBody", "UnreadableBody"} : Throw(r, error)
             \/ Goto(r, FirstStep(req[r].route))
  /\ UNCHANGED <<deployed, process, redis, history, sent, faults>>

\* AuthGuard. The JWT service answers null to whatever fails while it
\* verifies; the session service lets a failing store or resolver through.
Authenticate(r) ==
  /\ At(r, "authenticating")
  /\ \/ ~(req[r].bearer \/ req[r].cookie) /\ Throw(r, "Unauthorized") /\ UNCHANGED faults
     \/ /\ req[r].bearer \/ req[r].cookie
        /\ \/ Throw(r, "Unauthorized") /\ UNCHANGED faults
           \/ Goto(r, "limiting") /\ wiring.resolver = "fresh" /\ UNCHANGED faults
           \/ /\ wiring.tokens = "jwt"
              /\ Fault
              /\ Throw(r, "Unauthorized")
           \/ /\ wiring.tokens = "session"
              /\ Fault
              /\ Throw(r, "Dependency")
  /\ UNCHANGED <<deployed, process, redis, history, sent>>

\* The expiry set with the second count: a mutant.
Increment_Late(k, window) ==
  [n |-> counter[k].n + 1,
   expires |-> counter[k].expires \/ (counter[k].n = 1 /\ WholeSeconds(window))]

\* incrementWithTtl(): one script counts and, on the first count, sets the
\* expiry, which Redis refuses for a fraction of a second after it counted.
Increment(k, window) ==
  [n |-> counter[k].n + 1,
   expires |-> counter[k].expires \/ (counter[k].n = 0 /\ WholeSeconds(window))]

\* RedisRateLimiter.check()
Allowed(count, limit) == count <= limit

\* RateLimiterGuard.
Limit(r) ==
  /\ At(r, "limiting")
  /\ LET n == req[r].route
         k == Routes[n].prefix
         window == WindowOf(n, config.rateLimit)
         next == Increment(k, window)
     IN  \/ /\ counter' = [counter EXCEPT ![k] = next]
            /\ UNCHANGED faults
            /\ \/ /\ next.n = 1 /\ ~WholeSeconds(window)
                  /\ Throw(r, "Dependency")
                  /\ UNCHANGED admitted
               \/ /\ ~(next.n = 1 /\ ~WholeSeconds(window))
                  /\ ~Allowed(next.n, LimitOf(n, config.rateLimit))
                  /\ Throw(r, "TooManyRequests")
                  /\ UNCHANGED admitted
               \/ /\ ~(next.n = 1 /\ ~WholeSeconds(window))
                  /\ Allowed(next.n, LimitOf(n, config.rateLimit))
                  /\ Goto(r, "handling")
                  /\ admitted' = [admitted EXCEPT ![k] = @ + 1]
         \/ /\ Fault
            /\ Throw(r, "Dependency")
            /\ counter' \in {counter, [counter EXCEPT ![k] = next]}
            /\ UNCHANGED admitted
  /\ UNCHANGED <<deployed, process, stored, spent, sent>>

WindowEnds(k) ==
  /\ counter[k].expires
  /\ counter' = [counter EXCEPT ![k] = NoCount]
  /\ admitted' = [admitted EXCEPT ![k] = 0]
  /\ UNCHANGED <<deployed, process, stored, req, spent, sent, faults>>

----------------------------------------------------------------------------
(* Handlers                                                                *)

Handling(r, routes) == At(r, "handling") /\ req[r].route \in routes

\* ValidationPipe refuses the body, query or parameter. No route is marked idempotent,
\* so IdempotencyInterceptor passes every request on.
Refuse(r) ==
  /\ Handling(r, Route)
  /\ ~req[r].valid
  /\ Throw(r, "BadRequest")
  /\ UNCHANGED <<deployed, process, redis, history, sent, faults>>

\* The methods of AuthController and SessionsController: one use case, whose
\* own steps are those of the modules of accounts, tokens and sessions.
Handle(r) ==
  LET n == req[r].route
      outcomes == Outcomes(n, wiring, req[r].cookie)
  IN  /\ Handling(r, Route \ {"start", "callback", "health", "live", "ready"})
      /\ req[r].valid
      /\ \/ "ok" \in outcomes /\ UNCHANGED faults
            /\ \E current \in IF n = "revokeOne" THEN BOOLEAN ELSE {FALSE} :
                 Succeed(r, current)
         \/ \E error \in outcomes \ {"ok"} : Throw(r, error) /\ UNCHANGED faults
         \/ Fault /\ Throw(r, "Dependency")
      /\ UNCHANGED <<deployed, process, redis, history, sent>>

\* HealthController: each probe that fails or times out is a dependency down.
CheckHealth(r) ==
  /\ Handling(r, {"health", "live", "ready"})
  /\ \E down \in SUBSET {"postgres", "redis", "bullmq"} :
       /\ IF down = {} THEN UNCHANGED faults ELSE Fault
       /\ \E outcome \in HealthOutcomes(req[r].route, down) :
            IF outcome = "ok" THEN Succeed(r, FALSE) ELSE Throw(r, outcome)
  /\ UNCHANGED <<deployed, process, redis, history, sent>>

\* resolveReturnUrl(): a configured default that is not allowed is ignored.
ResolvedReturnUrl(requested) ==
  IF requested # None THEN requested
  ELSE IF Allowlisted(wiring.google.defaultReturnUrl)
       THEN wiring.google.defaultReturnUrl ELSE None

\* GET auth/google: a state is saved and the browser redirected to Google.
\* State bounds the states issued.
StartSignIn(r) ==
  /\ Handling(r, {"start"})
  /\ req[r].valid
  /\ \/ /\ ~wiring.google.enabled
        /\ Throw(r, "ServiceUnavailable")
        /\ UNCHANGED <<stored, faults>>
     \/ \E requested \in Site \cup {None} :
          /\ wiring.google.enabled
          /\ \/ /\ requested # None /\ ~Allowlisted(requested)
                /\ Throw(r, "Validation")
                /\ UNCHANGED <<stored, faults>>
             \/ /\ requested = None \/ Allowlisted(requested)
                /\ \E s \in {t \in State : stored[t] = Unissued} :
                     LET saved == [stored EXCEPT ![s] = ResolvedReturnUrl(requested)]
                     IN  \/ /\ stored' = saved
                            /\ Answer(r, 302, None, "kept", "google")
                            /\ UNCHANGED faults
                         \/ /\ stored' \in {stored, saved}
                            /\ Fault
                            /\ Throw(r, "Dependency")
  /\ UNCHANGED <<deployed, process, counter, history, sent>>

\* GET auth/google/callback up to the GET of the state's record. The state of
\* the query must be the one of the browser's cookie.
LookUpState(r) ==
  LET s == req[r].state
  IN  /\ Handling(r, {"callback"})
      /\ req[r].valid
      /\ \/ ~wiring.google.enabled /\ Throw(r, "ServiceUnavailable") /\ UNCHANGED faults
         \/ /\ wiring.google.enabled
            /\ s = None \/ req[r].stateCookie # s
            /\ Throw(r, "Validation")
            /\ UNCHANGED faults
         \/ /\ wiring.google.enabled
            /\ s # None /\ req[r].stateCookie = s
            /\ \/ /\ stored[s] \in {Unissued, Gone}
                  /\ Throw(r, "Validation")
                  /\ UNCHANGED faults
               \/ /\ stored[s] \notin {Unissued, Gone}
                  /\ req' = [req EXCEPT ![r].pc = "consuming", ![r].returnUrl = stored[s]]
                  /\ UNCHANGED faults
               \/ Fault /\ Throw(r, "Dependency")
      /\ UNCHANGED <<deployed, process, redis, history, sent>>

\* Read and deleted without a comparison: a mutant.
Consumable_AsRead(r) == req[r].state # None

\* Whether the record read is still there for this callback to delete.
Consumable(r) == stored[req[r].state] = req[r].returnUrl

\* compareAndDelete(), then what Google said.
ConsumeState(r) ==
  LET s == req[r].state
      delete == IF Consumable(r) THEN [stored EXCEPT ![s] = Gone] ELSE stored
  IN  /\ At(r, "consuming")
      /\ \/ /\ ~Consumable(r)
            /\ Throw(r, "Validation")
            /\ UNCHANGED <<stored, spent, faults>>
         \/ /\ Consumable(r)
            /\ stored' = delete
            /\ spent' = [spent EXCEPT ![s] = @ + 1]
            /\ \/ Throw(r, "Authentication")      \* Google reported an error
               \/ Throw(r, "Validation")          \* it sent no code
               \/ Goto(r, "exchanging")
            /\ UNCHANGED faults
         \/ /\ Fault
            /\ stored' \in {stored, delete}
            /\ Throw(r, "Dependency")
            /\ UNCHANGED spent
      /\ UNCHANGED <<deployed, process, counter, admitted, sent>>

\* Whatever fails between here and Google is an authentication error.
ExchangeCode(r) ==
  /\ At(r, "exchanging")
  /\ Goto(r, "completing") \/ Throw(r, "Authentication")
  /\ UNCHANGED <<deployed, process, redis, history, sent, faults>>

\* The use case: an unverified or malformed email, a race with a registration
\* (409), a race of two links of one Google subject, whose DuplicateRecordError
\* nothing maps, or a signed-in user.
CompleteSignIn(r) ==
  /\ At(r, "completing")
  /\ \/ /\ \E error \in {"Authentication", "Validation", "Conflict", "Duplicate"} :
             Throw(r, error)
        /\ UNCHANGED faults
     \/ Fault /\ Throw(r, "Dependency")
     \/ /\ IF req[r].returnUrl # None /\ config.auth.driver = "session"
           THEN Answer(r, 302, None, SessionCookie("callback", FALSE), req[r].returnUrl)
           ELSE Answer(r, 200, None, SessionCookie("callback", FALSE), None)
        /\ UNCHANGED faults
  /\ UNCHANGED <<deployed, process, redis, history, sent>>

StateExpires(s) ==
  /\ stored[s] \notin {Unissued, Gone}
  /\ stored' = [stored EXCEPT ![s] = Gone]
  /\ UNCHANGED <<deployed, process, counter, req, history, sent, faults>>

----------------------------------------------------------------------------

Serve(r) ==
  \/ Receive(r) \/ Screen(r) \/ Authenticate(r) \/ Limit(r) \/ Refuse(r)
  \/ Handle(r) \/ CheckHealth(r) \/ StartSignIn(r) \/ LookUpState(r) \/ ConsumeState(r)
  \/ ExchangeCode(r) \/ CompleteSignIn(r)

Next ==
  \/ Start \/ ProbeFails \/ Boot \/ Crash
  \/ \E r \in Req : Serve(r)
  \/ \E k \in Prefix : WindowEnds(k)
  \/ \E s \in State : StateExpires(s)

Spec == Init /\ [][Next]_vars

----------------------------------------------------------------------------
(* Properties                                                              *)

Answered == {r \in Req : req[r].pc = "answered"}

\* Through Express, guards, pipe, handler and filter a request ends in a status
\* its route documents, under every driver, with two exceptions of the code: the
\* callback answers 409 where it loses a race with a registration, and a body
\* that is no JSON is a 400 on the routes without input too. No route fails by
\* itself: a 500 means that a dependency failed, or comes from one of four
\* places that make one without a failure: CORS refuses the origin, the body
\* parser does not read the body, two links of one Google subject race, or a
\* rate limit window of a fraction of a second meets the first request of its
\* counter.
ResponsesDocumented ==
  Serving => \A r \in Answered :
    LET a == req[r]
    IN  /\ \/ a.status \in Routes[a.route].documented
           \/ a.route = "callback" /\ a.thrown = "Conflict"
           \/ a.thrown = "MalformedBody"
        /\ a.status = 500 =>
             \/ faults > 0
             \/ a.thrown \in {"OriginNotAllowed", "UnreadableBody"}
             \/ a.route = "callback" /\ a.thrown = "Duplicate"
             \/ Routes[a.route].limited /\ ~WholeSeconds(WindowOf(a.route, config.rateLimit))
        /\ a.cookie = "set" => config.auth.driver = "session" /\ a.status < 400
        /\ a.route \in SessionRoute /\ a.status = 200 => config.auth.driver = "session"

\* A counter that lives lets at most its limit through before it begins anew,
\* across crashes and over the routes that share it, and it does begin anew:
\* it has an expiry from the moment it counts, unless the window is configured
\* as a fraction of a second, when it never ends.
WindowHolds ==
  Serving => \A n \in deployed.traffic : Routes[n].limited =>
    LET k == Routes[n].prefix
    IN  /\ admitted[k] <= LimitOf(n, config.rateLimit)
        /\ (counter[k].n > 0 /\ WholeSeconds(WindowOf(n, config.rateLimit)))
             => counter[k].expires

\* An OAuth state lets one callback through, however many arrive together,
\* and a browser is sent on only to Google or to an allowed origin.
StateSpentOnce ==
  /\ \A s \in State : spent[s] <= 1
  /\ Serving => \A r \in Answered :
       req[r].location \in {None, "google"} \cup config.app.allowedOrigins

\* A process that serves runs with leases that outlive a missed heartbeat and
\* a cron lock shorter than its interval, and retries that neither shrink nor
\* leave their bounds: what the models of the processor, the job store and the
\* cron lock assume of the timing constants. The cron lock's heartbeat has a
\* floor of one second, which a lock of less than two does not outlive.
LeasesLeaveRoom ==
  Serving =>
    LET o == config.outbox
        j == config.jobExecution
    IN  /\ 2 * o.heartbeatIntervalMs <= o.lockTtlMs
        /\ o.handlerTimeoutMs > 0 => o.handlerTimeoutMs >= o.lockTtlMs
        /\ 2 * j.heartbeatIntervalSeconds <= j.leaseTtlSeconds
        /\ o.cronLockTtlMs < o.pollIntervalMs
        /\ o.cronLockTtlMs >= 2000 => 2 * CronHeartbeatMs(o) <= o.cronLockTtlMs
        /\ \A a \in 1..6 :
             /\ o.retryBaseSeconds <= RetryDelaySeconds(o, a)
             /\ RetryDelaySeconds(o, a) <= RetryDelaySeconds(o, a + 1)
=============================================================================
