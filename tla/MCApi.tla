------------------------------- MODULE MCApi -------------------------------
EXTENDS Api, TLC

\* The least environment that is accepted, and changes of one variable or of a
\* driver with what it needs.
Minimal == [DATABASE_URL |-> "postgres", JWT_SECRET |-> "dev", JWT_REFRESH_SECRET |-> "dev2"]
Google == [GOOGLE_SSO_ENABLED |-> TRUE, GOOGLE_CLIENT_ID |-> "id",
           GOOGLE_CLIENT_SECRET |-> "secret", GOOGLE_REDIRECT_URI |-> "uri"]
Session == [AUTH_DRIVER |-> "session"]
Tight == [RATE_LIMIT_AUTH_MAX |-> 1]
Fraction == [RATE_LIMIT_AUTH_TTL |-> 500, RATE_LIMIT_AUTH_MAX |-> 1]
Elsewhere == [GOOGLE_SSO_DEFAULT_RETURN_URL |-> "http://elsewhere"]
Production(a, b) == [NODE_ENV |-> "production", JWT_SECRET |-> a, JWT_REFRESH_SECRET |-> b]

With(change) == change @@ Minimal

\* Environments that only start, or fail to.
Starts ==
  {[DATABASE_URL |-> "postgres"], With([MAIL_DRIVER |-> "pigeon"]),
   With([MAIL_DRIVER |-> "smtp"]), With([STORAGE_DRIVER |-> "s3", S3_BUCKET |-> "spaces"]),
   With([GOOGLE_SSO_ENABLED |-> TRUE]), With([REDIS_HOST |-> Empty]),
   With([REDIS_STARTUP_MAX_ATTEMPTS |-> 2]),
   With([AUTH_SESSION_COOKIE_SAME_SITE |-> "none"]),
   With(Production("dev", "strong-b")), With(Production("strong-a", "strong-a")),
   With(Production("strong-a", "strong-b")
          @@ [AUTH_SESSION_COOKIE_SAME_SITE |-> "none"])}
  \cup {With([OUTBOX_CRON_LOCK_TTL_MS |-> v]) : v \in {999, 1000, 2000, 59999, 60000}}
  \cup {With([OUTBOX_HEARTBEAT_INTERVAL_MS |-> v]) : v \in {1000, 150000, 150001}}
  \cup {With([OUTBOX_LOCK_TTL_MS |-> v]) : v \in {1000, 200000}}
  \cup {With([OUTBOX_HANDLER_TIMEOUT_MS |-> v]) : v \in {-1, 299999, 300000}}
  \cup {With([OUTBOX_RETRY_MAX_DELAY_SECONDS |-> v]) : v \in {29, 30, 60}}
  \cup {With([JOB_EXECUTION_LEASE_TTL_SECONDS |-> v]) : v \in {1, 199, 200}}

\* Clients of one behaviour use one route, or two that share something.
Traffics == {{n} : n \in Route} \cup {{"revokeAll", "revokeOthers"}}

MCDeployment ==
  {[env |-> e, traffic |-> {}] : e \in Starts}
    \cup {[env |-> With(e), traffic |-> t] : e \in {Tight, Session @@ Tight}, t \in Traffics}
    \cup {[env |-> With(Fraction), traffic |-> {"login"}]}
    \cup {[env |-> With(e @@ Google), traffic |-> {"start", "callback"}] :
            e \in {Tight, Session, Session @@ Elsewhere}}

Interchangeable == Permutations(Req) \cup Permutations(State)
=============================================================================
