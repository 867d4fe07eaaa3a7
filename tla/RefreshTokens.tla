--------------------------- MODULE RefreshTokens ---------------------------
(* The JWT driver for one user: JwtAuthTokenService over RedisJwtTokenStore *)
(* and the use cases that call it.  A script of the store is one action, a   *)
(* plain command another; the tokens themselves are what they claim, and a   *)
(* client has those it was answered.                                        *)
EXTENDS Naturals, FiniteSets

CONSTANTS
    Call,           \* requests, each running one use case once
    Old,            \* the pair and family of an earlier login
    None,
    MaxActive,      \* bound on the requests under way at one time
    MaxFaults       \* bound on the failures, and the families that expire

ASSUME IdAssumption == /\ Old \notin Call /\ None \notin Call \cup {Old}
                       /\ None \notin [family : Call \cup {Old}, version : Nat]

ASSUME BoundAssumption == MaxActive \in Nat /\ MaxFaults \in Nat

\* A call issues at most one pair, and opens at most one family: of its name.
Id == Call \cup {Old}

VARIABLES
    version,    \* users.auth_version
    record,     \* auth:refresh-token:<t> : the record is there
    family,     \* auth:refresh-family:<f> : its token or None
    index,      \* auth:refresh-families:user:<u>
    denied,     \* auth:revoked-access-token:<a>
    claims,     \* claims[t]: what the pair t was signed with, or None
    call,       \* call[c]: position and locals of request c
    settled,    \* history: the last version whose revokeAllForUser() is through
    orphaned,   \* history: families dropped from the index while they lived
    stale,      \* history: a version was replaced by one computed from an older
    exchanged,  \* history: rotations won with token t
    faults

history == <<settled, orphaned, stale, exchanged>>
store == <<record, family, index, denied>>
vars == <<version, store, claims, call, history, faults>>

Empty(pc) == [pc |-> pc, op |-> None, token |-> None, access |-> None,
              version |-> 0, todo |-> {}, late |-> FALSE]

Init == /\ version = 0
        /\ record = {Old} /\ index = {Old} /\ denied = {}
        /\ family = [f \in Id |-> IF f = Old THEN Old ELSE None]
        /\ claims = [t \in Id |-> IF t = Old THEN [family |-> Old, version |-> 0] ELSE None]
        /\ call = [c \in Call |-> Empty("idle")]
        /\ settled = 0 /\ orphaned = {} /\ stale = FALSE
        /\ exchanged = [t \in Id |-> 0]
        /\ faults = 0

At(c, pc) == call[c].pc = pc

Arrives(c) == /\ At(c, "idle")
              /\ Cardinality({d \in Call : call[d].pc \notin {"idle", "done", "failed"}})
                    < MaxActive

Goto(c, pc) == call' = [call EXCEPT ![c].pc = pc]

\* The request is answered: a pair issued for it is the client's.
Return(c) == call' = [call EXCEPT ![c] = Empty("done")]

Reject(c) == call' = [call EXCEPT ![c] = Empty("failed")]

\* Tokens a client can present.
Known == {t \in Id : claims[t] # None /\ (t # Old => At(t, "done"))}

Alive(f) == family[f] # None /\ family[f] \in record

-----------------------------------------------------------------------------
(* The store's scripts.                                                     *)

\* Mutant: a pair without a version, as pairs once were.
Sign_Legacy(t, f, v) == claims' = [claims EXCEPT ![t] = [family |-> f, version |-> None]]

\* issueTokenPair()
Sign(t, f, v) == claims' = [claims EXCEPT ![t] = [family |-> f, version |-> v]]

\* saveRefreshToken(): the token, its family and the index, whose TTL is only
\* ever extended and so outlasts its families.
Save(t, f) == /\ record' = record \cup {t}
              /\ family' = [family EXCEPT ![f] = t]
              /\ index' = index \cup {f}

\* Mutant: the signature is proof enough.
Rotatable_Signed(t) == claims[t] # None

\* The presented token is there, and its family's current one.
Rotatable(t) == t \in record /\ family[claims[t].family] = t

\* Mutant: the presented token stays.
Rotate_Keeps(t, next) == LET f == claims[t].family IN
    /\ record' = record \cup {next}
    /\ family' = [family EXCEPT ![f] = next]
    /\ index' = index \cup {f}

\* Mutant: the index is left to the login.
Rotate_NoIndex(t, next) == LET f == claims[t].family IN
    /\ record' = (record \ {t}) \cup {next}
    /\ family' = [family EXCEPT ![f] = next]
    /\ UNCHANGED index

Rotate(t, next) == LET f == claims[t].family IN
    /\ record' = (record \ {t}) \cup {next}
    /\ family' = [family EXCEPT ![f] = next]
    /\ index' = index \cup {f}

\* revokeRefreshTokenFamily(): the user is known only from the token's record.
RevokeFamily(f) ==
    /\ record' = record \ {family[f]}
    /\ family' = [family EXCEPT ![f] = None]
    /\ index' = IF Alive(f) THEN index \ {f} ELSE index

-----------------------------------------------------------------------------
(* Login, and the pair after a new password.                                *)

\* findByEmail() and the password: the pair carries the version read here.
Login(c) ==
    /\ Arrives(c)
    /\ call' = [call EXCEPT ![c].op = "login", ![c].pc = "save", ![c].version = version]
    /\ UNCHANGED <<version, store, claims, history, faults>>

CreateSession(c) == /\ At(c, "save")
                    /\ Sign(c, c, call[c].version)
                    /\ Save(c, c)
                    /\ Goto(c, "answer")
                    /\ UNCHANGED <<version, denied, history, faults>>

-----------------------------------------------------------------------------
(* A password changed or reset: bump, revoke all, sign in.                  *)

ReadUser(c) ==
    /\ Arrives(c)
    /\ call' = [call EXCEPT ![c].op = "change", ![c].pc = "update",
                            ![c].version = version + 1]
    /\ UNCHANGED <<version, store, claims, history, faults>>

UpdateUser(c) == /\ At(c, "update")
                 /\ version' = call[c].version
                 /\ stale' = (stale \/ version + 1 # call[c].version)
                 /\ Goto(c, "members")
                 /\ UNCHANGED <<store, claims, settled, orphaned, exchanged, faults>>

\* revokeAllRefreshTokenFamilies(): the families as indexed now, ...
ListFamilies(c) ==
    /\ At(c, "members")
    /\ call' = [call EXCEPT ![c].pc = "each", ![c].todo = index]
    /\ UNCHANGED <<version, store, claims, history, faults>>

\* ... each revoked by a script of its own, ...
RevokeEach(c) ==
    /\ At(c, "each")
    /\ \E f \in call[c].todo :
        /\ RevokeFamily(f)
        /\ call' = [call EXCEPT ![c].todo = @ \ {f}]
    /\ UNCHANGED <<version, denied, claims, history, faults>>

\* ... and the index deleted with whatever it holds by then.
DropIndex(c) ==
    /\ At(c, "each") /\ call[c].todo = {}
    /\ index' = {}
    /\ orphaned' = orphaned \cup {f \in index : Alive(f)}
    /\ settled' = IF call[c].version > settled THEN call[c].version ELSE settled
    /\ Goto(c, "save")
    /\ UNCHANGED <<version, record, family, denied, claims, stale, exchanged, faults>>

-----------------------------------------------------------------------------
(* Refresh.                                                                 *)

\* Mutant: the version is not compared.
LoadFreshUser_Any(c) ==
    /\ Arrives(c)
    /\ \E t \in Known :
        call' = [call EXCEPT ![c].op = "refresh", ![c].pc = "rotate",
                             ![c].token = t, ![c].version = version]
    /\ UNCHANGED <<version, store, claims, history, faults>>

\* parseRefreshToken() and the user as it is now; a superseded token is
\* refused without a trace.
LoadFreshUser(c) ==
    /\ Arrives(c)
    /\ \E t \in Known :
        /\ claims[t].version = version
        /\ call' = [call EXCEPT ![c].op = "refresh", ![c].pc = "rotate",
                                ![c].token = t, ![c].version = version]
    /\ UNCHANGED <<version, store, claims, history, faults>>

RotateToken(c) ==
    /\ At(c, "rotate")
    /\ LET t == call[c].token IN
       IF Rotatable(t)
         THEN /\ Rotate(t, c)
              /\ Sign(c, claims[t].family, call[c].version)
              /\ exchanged' = [exchanged EXCEPT ![t] = @ + 1]
              /\ orphaned' = orphaned \ {claims[t].family}
              /\ Goto(c, "answer")
         ELSE /\ Goto(c, "punish")
              /\ UNCHANGED <<record, family, index, claims, exchanged, orphaned>>
    /\ UNCHANGED <<version, denied, settled, stale, faults>>

\* Mutant: the loser is only refused.
Punish_Refuse(c) == /\ At(c, "punish")
                    /\ call' = [call EXCEPT ![c].pc = "failed"]
                    /\ UNCHANGED <<version, store, claims, history, faults>>

\* A token already used, or revoked: its family is revoked.
Punish(c) == /\ At(c, "punish")
             /\ RevokeFamily(claims[call[c].token].family)
             /\ call' = [call EXCEPT ![c].pc = "failed"]
             /\ UNCHANGED <<version, denied, claims, history, faults>>

-----------------------------------------------------------------------------
(* Logout, with an access token or without.                                 *)

Logout(c) ==
    /\ Arrives(c)
    /\ \E t \in Known, a \in Known \cup {None} :
        call' = [call EXCEPT ![c].op = "logout", ![c].pc = "revoke",
                             ![c].token = t, ![c].access = a]
    /\ UNCHANGED <<version, store, claims, history, faults>>

RevokeSession(c) == /\ At(c, "revoke")
                    /\ RevokeFamily(claims[call[c].token].family)
                    /\ IF call[c].access = None THEN Return(c) ELSE Goto(c, "deny")
                    /\ UNCHANGED <<version, denied, claims, history, faults>>

DenyAccess(c) == /\ At(c, "deny")
                 /\ denied' = denied \cup {call[c].access}
                 /\ Return(c)
                 /\ UNCHANGED <<version, record, family, index, claims, history, faults>>

-----------------------------------------------------------------------------
(* Access tokens on the guarded routes.                                     *)

\* Whether the token was logged out or superseded when it came in is history.
VerifyAccess(c) ==
    /\ Arrives(c)
    /\ \E a \in Known :
        call' = [call EXCEPT ![c].op = "verify", ![c].pc = "denylist", ![c].access = a,
                   ![c].late = a \in denied \/ claims[a].version < settled]
    /\ UNCHANGED <<version, store, claims, history, faults>>

CheckDenylist(c) ==
    /\ At(c, "denylist")
    /\ IF call[c].access \in denied THEN Reject(c) ELSE Goto(c, "resolve")
    /\ UNCHANGED <<version, store, claims, history, faults>>

\* Mutant: the claims are believed.
ResolveUser_Claims(c) == /\ At(c, "resolve")
                         /\ Goto(c, "accepted")
                         /\ UNCHANGED <<version, store, claims, history, faults>>

\* resolveAccessUser() of the composition root.
ResolveUser(c) ==
    /\ At(c, "resolve")
    /\ IF claims[call[c].access].version = version THEN Goto(c, "accepted") ELSE Reject(c)
    /\ UNCHANGED <<version, store, claims, history, faults>>

\* The answer reaches the client.
Answer(c) == /\ call[c].pc \in {"answer", "accepted"}
             /\ Return(c)
             /\ UNCHANGED <<version, store, claims, history, faults>>

-----------------------------------------------------------------------------
(* Failures and time.                                                       *)

\* A crash, a rejected command, or an answer that is lost.
Fail(c) == /\ call[c].pc \notin {"idle", "done", "failed"}
           /\ faults < MaxFaults /\ faults' = faults + 1
           /\ Reject(c)
           /\ UNCHANGED <<version, store, claims, history>>

\* A family's two keys were set together with one TTL, and expire together.
Expire == /\ faults < MaxFaults /\ faults' = faults + 1
          /\ \E f \in Id : /\ Alive(f)
                           /\ record' = record \ {family[f]}
                           /\ family' = [family EXCEPT ![f] = None]
          /\ UNCHANGED <<version, index, denied, claims, call, history>>

-----------------------------------------------------------------------------
Request(c) ==
    \/ Login(c) \/ CreateSession(c)
    \/ ReadUser(c) \/ UpdateUser(c) \/ ListFamilies(c) \/ RevokeEach(c) \/ DropIndex(c)
    \/ LoadFreshUser(c) \/ RotateToken(c) \/ Punish(c)
    \/ Logout(c) \/ RevokeSession(c) \/ DenyAccess(c)
    \/ VerifyAccess(c) \/ CheckDenylist(c) \/ ResolveUser(c)
    \/ Answer(c) \/ Fail(c)

Next == Expire \/ \E c \in Call : Request(c)

Spec == Init /\ [][Next]_vars

-----------------------------------------------------------------------------
(* Properties.                                                              *)

\* The types of the store, the signed pairs and the requests; only a pair that
\* was signed has a record.
TypeOK ==
    /\ version \in Nat /\ settled \in Nat /\ stale \in BOOLEAN
    /\ claims \in [Id -> [family : Id, version : Nat] \cup {None}]
    /\ record \subseteq {t \in Id : claims[t] # None}
    /\ family \in [Id -> Id \cup {None}]
    /\ index \subseteq Id /\ orphaned \subseteq Id /\ denied \subseteq Id
    /\ exchanged \in [Id -> Nat]
    /\ faults \in 0 .. MaxFaults
    /\ call \in [Call -> [
         pc : {"idle", "save", "answer", "update", "members", "each", "rotate", "punish",
               "revoke", "deny", "denylist", "resolve", "accepted", "done", "failed"},
         op : {None, "login", "change", "refresh", "logout", "verify"},
         token : Id \cup {None}, access : Id \cup {None},
         version : Nat, todo : SUBSET Id, late : BOOLEAN]]

\* The record of a token is there only while it is its family's current one: a
\* rotation and a revocation leave no second token behind.
OneLiveToken == \A t \in record : family[claims[t].family] = t

\* A token is exchanged at most once, whoever presents it together.
ExchangedOnce == \A t \in Id : exchanged[t] <= 1

\* A refresh refused as used or revoked has ended its family, the pair that the
\* winner of the race holds included.
LoserEndsFamily ==
    \A c \in Call : (At(c, "failed") /\ call[c].op = "refresh" /\ call[c].token # None)
        => ~Alive(claims[call[c].token].family)

\* revokeAllForUser() finds every live family, but for one saved while an
\* earlier revokeAllForUser() ran, and that only until it is rotated.
FamiliesIndexed == \A f \in Id : Alive(f) => f \in index \cup orphaned

\* An access token that was on the denylist when it was presented, or carries a
\* version from before a password change that was through, is not accepted.
AcceptedAccessIsFresh == \A c \in Call : At(c, "accepted") => (~call[c].late \/ stale)

\* A password change that is through ends every exchange: no rotation wins with
\* a token of a version before it.
NoStaleExchange ==
    [][\A t \in Id : exchanged'[t] # exchanged[t] =>
         (claims[t].version >= settled \/ claims[t].family \in orphaned \/ stale)]_vars

\* Each family's tokens come one from the other and end for good.
Contract == INSTANCE FamilyContract WITH
    Token <- Id,
    live <- [f \in Id |-> IF Alive(f) THEN family[f] ELSE None],
    of <- [t \in Id |-> IF claims[t] = None THEN None ELSE claims[t].family]

ContractSpec == Contract!Spec
=============================================================================
