----------------------------- MODULE Endpoints -----------------------------
(***************************************************************************)
(* The HTTP routes: for each controller method its guards, its rate limit  *)
(* (0 where the decorator leaves it to the options), whether it takes a     *)
(* validated body, query or parameter, the status of its success and the   *)
(* statuses its decorators document; then what its use case can end in under the    *)
(* drivers wired, and the status the exception filter gives each error.     *)
(***************************************************************************)
EXTENDS Configuration, FiniteSets

Public == [auth |-> FALSE, limited |-> TRUE, prefix |-> None, limit |-> 0, ttl |-> 0,
           dto |-> TRUE, success |-> 201, documented |-> {400, 429, 500}]
Guarded == [Public EXCEPT !.auth = TRUE, !.dto = FALSE, !.success = 200]

Register == [Public EXCEPT !.prefix = "auth:register", !.documented = @ \cup {201, 409}]
Login == [Public EXCEPT !.prefix = "auth:login", !.documented = @ \cup {201}]
Logout == [Public EXCEPT !.prefix = "auth:logout", !.documented = @ \cup {201, 401}]
Refresh == [Public EXCEPT !.prefix = "auth:refresh", !.limit = 10, !.ttl = 60000,
                          !.documented = @ \cup {201, 401}]
Me == [Guarded EXCEPT !.prefix = "auth:me", !.limit = 3, !.ttl = 300000,
                      !.documented = {200, 401, 404, 429, 500}]
ChangePassword == [Guarded EXCEPT !.prefix = "auth:change-password", !.dto = TRUE,
                                  !.documented = @ \cup {200, 401, 404}]
ForgotPassword == [Public EXCEPT !.prefix = "auth:forgot-password", !.limit = 3,
                                 !.ttl = 3600000, !.success = 200,
                                 !.documented = @ \cup {200}]
ResetPassword == [Public EXCEPT !.prefix = "auth:reset-password", !.limit = 5,
                                !.ttl = 900000, !.success = 200,
                                !.documented = @ \cup {200}]
ListSessions == [Guarded EXCEPT !.prefix = "sessions:list", !.limit = 30, !.ttl = 60000,
                                !.documented = @ \cup {200, 401}]
RevokeOthers == [Guarded EXCEPT !.prefix = "sessions:delete", !.limit = 10,
                                !.ttl = 60000, !.documented = @ \cup {200, 401}]
RevokeAll == [Guarded EXCEPT !.prefix = "sessions:delete", !.limit = 10, !.ttl = 60000,
                             !.documented = @ \cup {200, 401}]
RevokeOne == [Guarded EXCEPT !.prefix = "sessions:delete", !.limit = 10, !.ttl = 60000,
                             !.dto = TRUE, !.documented = @ \cup {200, 401, 404}]
GoogleStart == [Public EXCEPT !.prefix = "auth:google", !.success = 302,
                              !.documented = @ \cup {302, 503}]
GoogleCallback == [Public EXCEPT !.prefix = "auth:google-callback", !.success = 200,
                                 !.documented = @ \cup {200, 302, 401, 503}]
Health == [Public EXCEPT !.limited = FALSE, !.dto = FALSE, !.success = 200,
                         !.documented = {200, 503, 500}]
Live == [Health EXCEPT !.documented = {200, 500}]
Ready == [Health EXCEPT !.documented = {200, 503, 500}]

Routes ==
  [register |-> Register, login |-> Login, logout |-> Logout, refresh |-> Refresh,
   me |-> Me, changePassword |-> ChangePassword, forgotPassword |-> ForgotPassword,
   resetPassword |-> ResetPassword, list |-> ListSessions, revokeOthers |-> RevokeOthers,
   revokeAll |-> RevokeAll, revokeOne |-> RevokeOne, start |-> GoogleStart,
   callback |-> GoogleCallback, health |-> Health, live |-> Live, ready |-> Ready]

Route == DOMAIN Routes
SessionRoute == {"list", "revokeOthers", "revokeAll", "revokeOne"}
AuthPrefix == {Routes[n].prefix : n \in Route \ SessionRoute}

\* RateLimiterGuard: the decorator's numbers, else the options'.
LimitOf(n, options) ==
  CASE Routes[n].limit > 0 -> Routes[n].limit
    [] Routes[n].limit = 0 /\ Routes[n].prefix \in AuthPrefix -> options.authMax
    [] OTHER -> options.max

WindowOf(n, options) ==
  CASE Routes[n].ttl > 0 -> Routes[n].ttl
    [] Routes[n].ttl = 0 /\ Routes[n].prefix \in AuthPrefix -> options.authTtl
    [] OTHER -> options.ttl

WholeSeconds(window) == window % 1000 = 0

----------------------------------------------------------------------------
(* What a handler can end in: "ok" or an error                             *)

LogoutOutcomes(wiring) ==
  IF wiring.tokens = "jwt" THEN {"ok", "InvalidAuthRequest", "Authentication"} ELSE {"ok"}

\* The session service has no refresh tokens to parse.
RefreshOutcomes(wiring) ==
  {"Authentication"} \cup (IF wiring.tokens = "jwt" THEN {"ok"} ELSE {})

RegisterOutcomes == {"ok", "Validation", "Conflict"}
LoginOutcomes == {"ok", "Validation"}
ChangePasswordOutcomes == {"ok", "Validation", "NotFound"}
ForgotPasswordOutcomes == {"ok", "Validation"}
ResetPasswordOutcomes == {"ok", "Validation"}
CurrentUserOutcomes == {"ok", "NotFound"}

\* The management service that is wired.
ManagementOutcomes(n, wiring) ==
  CASE wiring.sessions = "unsupported" -> {"Validation"}
    [] wiring.sessions = "redis" ->
         {"ok"} \cup (IF n = "revokeOne" THEN {"NotFound"} ELSE {})

\* requireSessionCookie() comes first.
SessionOutcomes(n, wiring, cookie) ==
  IF cookie THEN ManagementOutcomes(n, wiring) ELSE {"Unauthorized"}

Outcomes(n, wiring, cookie) ==
  CASE n = "register" -> RegisterOutcomes
    [] n = "login" -> LoginOutcomes
    [] n = "logout" -> LogoutOutcomes(wiring)
    [] n = "refresh" -> RefreshOutcomes(wiring)
    [] n = "me" -> CurrentUserOutcomes
    [] n = "changePassword" -> ChangePasswordOutcomes
    [] n = "forgotPassword" -> ForgotPasswordOutcomes
    [] n = "resetPassword" -> ResetPasswordOutcomes
    [] n \in SessionRoute -> SessionOutcomes(n, wiring, cookie)

HealthOutcomes(n, down) ==
  IF n = "live" \/ down = {} THEN {"ok"} ELSE {"ServiceUnavailable"}

\* GlobalExceptionFilter.status(): an error it does not name is unexpected.
\* BadRequest is the pipe's and MalformedBody the body parser's, whose syntax
\* error Nest hands to the filter as a BadRequestException.
ErrorStatus ==
  [Authentication |-> 401, InvalidAuthRequest |-> 400, Validation |-> 400,
   NotFound |-> 404, Conflict |-> 409, Business |-> 422, ServiceUnavailable |-> 503,
   Unauthorized |-> 401, BadRequest |-> 400, MalformedBody |-> 400,
   TooManyRequests |-> 429]

\* A filter that forgets one of its branches: a mutant.
StatusOf_NoNotFound(error) ==
  IF error \in DOMAIN ErrorStatus \ {"NotFound"} THEN ErrorStatus[error] ELSE 500

StatusOf(error) == IF error \in DOMAIN ErrorStatus THEN ErrorStatus[error] ELSE 500

=============================================================================
