--------------------------- MODULE Configuration ---------------------------
(***************************************************************************)
(* From the environment to the options the modules run with: the schema   *)
(* and its cross-field rules (env.schema.ts), the options built from it,   *)
(* and the drivers AuthModule and the composition root choose by them.     *)
(* An environment is a partial function from variables to values. A text   *)
(* is empty, spaces or neither, a secret strong or not.                    *)
(* Durations are milliseconds where the variable is, seconds elsewhere,    *)
(* except the two rate limit windows, milliseconds here because the schema *)
(* lets a window be a fraction of a second.                                *)
(***************************************************************************)
EXTENDS Integers

None == "none"
Empty == "empty"
Blank == {Empty, "spaces"}
StrongSecret == {"strong-a", "strong-b"}      \* 43 characters, no placeholder

Required == {"DATABASE_URL", "JWT_SECRET", "JWT_REFRESH_SECRET"}

Enumerated ==
  [NODE_ENV |-> {"development", "test", "production"},
   MAIL_DRIVER |-> {"smtp", "null"},
   STORAGE_DRIVER |-> {"local", "s3"},
   AUTH_DRIVER |-> {"jwt", "session"},
   GOOGLE_SSO_ENABLED |-> BOOLEAN,
   AUTH_SESSION_COOKIE_SAME_SITE |-> {"lax", "strict", "none"}]

\* The variables with a lower bound, and that bound.
Least ==
  [REDIS_STARTUP_MAX_ATTEMPTS |-> 1, RATE_LIMIT_TTL |-> 1, RATE_LIMIT_MAX |-> 1,
   RATE_LIMIT_AUTH_TTL |-> 1, RATE_LIMIT_AUTH_MAX |-> 1,
   GOOGLE_SSO_STATE_TTL_SECONDS |-> 1, OUTBOX_BATCH_SIZE |-> 1,
   OUTBOX_MAX_ATTEMPTS |-> 1, OUTBOX_LOCK_TTL_MS |-> 1000,
   OUTBOX_HEARTBEAT_INTERVAL_MS |-> 1000, OUTBOX_HANDLER_TIMEOUT_MS |-> 0,
   OUTBOX_POLL_INTERVAL_MS |-> 1000, OUTBOX_CRON_LOCK_TTL_MS |-> 1000,
   OUTBOX_CONCURRENCY |-> 1,
   OUTBOX_RETRY_BASE_DELAY_SECONDS |-> 1, OUTBOX_RETRY_MAX_DELAY_SECONDS |-> 1,
   JOB_EXECUTION_LEASE_TTL_SECONDS |-> 1,
   JOB_EXECUTION_HEARTBEAT_INTERVAL_SECONDS |-> 1]

Defaults ==
  [NODE_ENV |-> "development", REDIS_HOST |-> "localhost", REDIS_PORT |-> 6379,
   REDIS_STARTUP_MAX_ATTEMPTS |-> 5, MAIL_DRIVER |-> "null", SMTP_HOST |-> Empty,
   SMTP_USER |-> Empty, SMTP_PASSWORD |-> Empty, SMTP_FROM |-> "no-reply",
   STORAGE_DRIVER |-> "local", S3_BUCKET |-> Empty, S3_ACCESS_KEY_ID |-> Empty,
   S3_SECRET_ACCESS_KEY |-> Empty, RATE_LIMIT_TTL |-> 60000, RATE_LIMIT_MAX |-> 100,
   RATE_LIMIT_AUTH_TTL |-> 60000, RATE_LIMIT_AUTH_MAX |-> 5,
   AUTH_DRIVER |-> "jwt", GOOGLE_SSO_ENABLED |-> FALSE, GOOGLE_CLIENT_ID |-> Empty,
   GOOGLE_CLIENT_SECRET |-> Empty, GOOGLE_REDIRECT_URI |-> Empty,
   GOOGLE_SSO_DEFAULT_RETURN_URL |-> Empty, GOOGLE_SSO_STATE_TTL_SECONDS |-> 600,
   CORS_ORIGINS |-> {"http://localhost:3000"},
   AUTH_SESSION_COOKIE_SAME_SITE |-> "lax", OUTBOX_BATCH_SIZE |-> 50,
   OUTBOX_MAX_ATTEMPTS |-> 10, OUTBOX_LOCK_TTL_MS |-> 300000,
   OUTBOX_HEARTBEAT_INTERVAL_MS |-> 100000, OUTBOX_HANDLER_TIMEOUT_MS |-> 0,
   OUTBOX_POLL_INTERVAL_MS |-> 60000, OUTBOX_CRON_LOCK_TTL_MS |-> 55000,
   OUTBOX_CONCURRENCY |-> 1, OUTBOX_RETRY_BASE_DELAY_SECONDS |-> 30,
   OUTBOX_RETRY_MAX_DELAY_SECONDS |-> 3600, JOB_EXECUTION_LEASE_TTL_SECONDS |-> 300,
   JOB_EXECUTION_HEARTBEAT_INTERVAL_SECONDS |-> 100]

Parsed(env) ==
  [f \in DOMAIN env \cup DOMAIN Defaults |->
     IF f \in DOMAIN env THEN env[f] ELSE Defaults[f]]

----------------------------------------------------------------------------
(* Validation                                                              *)

FieldIssues(env) ==
  LET e == Parsed(env)
  IN  {f \in Required : f \notin DOMAIN env \/ env[f] = Empty}
        \cup {f \in DOMAIN Enumerated : e[f] \notin Enumerated[f]}
        \cup {f \in DOMAIN Least : e[f] < Least[f]}

\* What a chosen driver needs must not be blank.
DriverIssues(e) ==
  LET needs == (IF e.MAIL_DRIVER = "smtp"
                THEN {"SMTP_HOST", "SMTP_USER", "SMTP_PASSWORD", "SMTP_FROM"} ELSE {})
          \cup (IF e.STORAGE_DRIVER = "s3"
                THEN {"S3_BUCKET", "S3_ACCESS_KEY_ID", "S3_SECRET_ACCESS_KEY"} ELSE {})
          \cup (IF e.GOOGLE_SSO_ENABLED
                THEN {"GOOGLE_CLIENT_ID", "GOOGLE_CLIENT_SECRET", "GOOGLE_REDIRECT_URI"}
                ELSE {})
  IN  {f \in needs : e[f] \in Blank}

CookieIssues(e) ==
  {f \in {"AUTH_SESSION_COOKIE_SAME_SITE"} : e[f] = "none" /\ e.NODE_ENV # "production"}

\* The next without its rules on heartbeats and retries: a mutant.
TimingIssues_CronOnly(e) ==
  {f \in {"OUTBOX_CRON_LOCK_TTL_MS"} : e[f] >= e.OUTBOX_POLL_INTERVAL_MS}

TimingIssues(e) ==
  {f \in {"OUTBOX_CRON_LOCK_TTL_MS"} : e[f] >= e.OUTBOX_POLL_INTERVAL_MS}
    \cup {f \in {"OUTBOX_RETRY_MAX_DELAY_SECONDS"} :
            e[f] < e.OUTBOX_RETRY_BASE_DELAY_SECONDS}
    \cup {f \in {"OUTBOX_HEARTBEAT_INTERVAL_MS"} : e[f] > e.OUTBOX_LOCK_TTL_MS \div 2}
    \cup {f \in {"OUTBOX_HANDLER_TIMEOUT_MS"} : e[f] > 0 /\ e[f] < e.OUTBOX_LOCK_TTL_MS}
    \cup {f \in {"JOB_EXECUTION_HEARTBEAT_INTERVAL_SECONDS"} :
            e[f] > e.JOB_EXECUTION_LEASE_TTL_SECONDS \div 2}

SecretIssues(e) ==
  {f \in {"JWT_SECRET", "JWT_REFRESH_SECRET"} :
     /\ e.NODE_ENV = "production"
     /\ \/ e[f] \notin StrongSecret
        \/ f = "JWT_REFRESH_SECRET" /\ e.JWT_SECRET = e.JWT_REFRESH_SECRET}

\* zod runs the cross-field rules only on an object whose fields all parsed.
Issues(env) ==
  IF FieldIssues(env) # {} THEN FieldIssues(env)
  ELSE LET e == Parsed(env)
       IN  DriverIssues(e) \cup CookieIssues(e) \cup TimingIssues(e) \cup SecretIssues(e)

\* The probe before the application parses the Redis variables once more and
\* more strictly: a blank host, accepted above, is refused here.
StartupIssues(env) ==
  LET e == Parsed(env)
  IN  {f \in {"REDIS_HOST"} : e[f] = Empty}
        \cup {f \in {"REDIS_PORT", "REDIS_STARTUP_MAX_ATTEMPTS"} : e[f] < 1}

----------------------------------------------------------------------------
(* Options                                                                 *)

OutboxOptions(e) ==
  [lockTtlMs |-> e.OUTBOX_LOCK_TTL_MS,
   heartbeatIntervalMs |-> e.OUTBOX_HEARTBEAT_INTERVAL_MS,
   handlerTimeoutMs |-> e.OUTBOX_HANDLER_TIMEOUT_MS,
   pollIntervalMs |-> e.OUTBOX_POLL_INTERVAL_MS,
   cronLockTtlMs |-> e.OUTBOX_CRON_LOCK_TTL_MS,
   retryBaseSeconds |-> e.OUTBOX_RETRY_BASE_DELAY_SECONDS,
   retryMaxSeconds |-> e.OUTBOX_RETRY_MAX_DELAY_SECONDS]

RetryDelaySeconds(outbox, attempt) ==
  LET delay == 2 ^ attempt * outbox.retryBaseSeconds
  IN  IF delay < outbox.retryMaxSeconds THEN delay ELSE outbox.retryMaxSeconds

JobExecutionOptions(e) ==
  [leaseTtlSeconds |-> e.JOB_EXECUTION_LEASE_TTL_SECONDS,
   heartbeatIntervalSeconds |-> e.JOB_EXECUTION_HEARTBEAT_INTERVAL_SECONDS]

\* The interval runWithLock() chooses for the cron lock.
CronHeartbeatMs(outbox) ==
  LET third == outbox.cronLockTtlMs \div 3
  IN  IF third > 1000 THEN third ELSE 1000

Config(env) ==
  LET e == Parsed(env)
  IN  [app |-> [env |-> e.NODE_ENV, allowedOrigins |-> e.CORS_ORIGINS],
       auth |-> [driver |-> e.AUTH_DRIVER,
                 sameSite |-> e.AUTH_SESSION_COOKIE_SAME_SITE],
       googleSso |-> [enabled |-> e.GOOGLE_SSO_ENABLED,
                      defaultReturnUrl |-> e.GOOGLE_SSO_DEFAULT_RETURN_URL],
       rateLimit |-> [ttl |-> e.RATE_LIMIT_TTL, max |-> e.RATE_LIMIT_MAX,
                      authTtl |-> e.RATE_LIMIT_AUTH_TTL, authMax |-> e.RATE_LIMIT_AUTH_MAX],
       outbox |-> OutboxOptions(e),
       jobExecution |-> JobExecutionOptions(e)]

AuthOptions(config) ==
  [driver |-> config.auth.driver,
   resolver |-> IF config.auth.driver = "session" THEN "unwired" ELSE None]

GoogleSsoOptions(config) ==
  IF config.googleSso.enabled
  THEN [enabled |-> TRUE, defaultReturnUrl |-> config.googleSso.defaultReturnUrl]
  ELSE [enabled |-> FALSE]

----------------------------------------------------------------------------
(* Drivers                                                                 *)

\* The composition root replaces the resolver that only rejects.
ComposedAuthOptions(config) == [AuthOptions(config) EXCEPT !.resolver = "fresh"]

SessionStore(options) == IF options.driver = "jwt" THEN None ELSE "redis"

AuthTokenService(options) ==
  CASE options.driver = "jwt" -> "jwt"
    [] options.driver # "jwt" /\ SessionStore(options) # None -> "session"
    [] OTHER -> "throws"

SessionManagement(config, options) ==
  CASE config.auth.driver # "session" -> "unsupported"
    [] config.auth.driver = "session" /\ SessionStore(options) # None -> "redis"
    [] OTHER -> "throws"

GoogleStateStore(options) == IF options.enabled THEN "redis" ELSE "disabled"

Wiring(config) ==
  LET auth == ComposedAuthOptions(config)
  IN  [tokens |-> AuthTokenService(auth), resolver |-> auth.resolver,
       sessions |-> SessionManagement(config, auth),
       google |-> GoogleSsoOptions(config),
       states |-> GoogleStateStore(GoogleSsoOptions(config))]
=============================================================================
