------------------------------ MODULE Sessions ------------------------------
(* Cookie sessions: RedisSessionStore under SessionAuthTokenService and      *)
(* RedisSessionManagementService.  A session and its user's index are keys  *)
(* of their own, and every action is one Redis command of one call; the use *)
(* cases that issue and revoke sessions are in Accounts.                    *)
EXTENDS Naturals, FiniteSets

CONSTANTS
    Call,           \* requests, each running one use case once
    Old,            \* the account, session and event of an earlier request
    None,
    MaxActive,      \* bound on the requests under way at one time
    MaxFaults       \* bound on the failures, and the keys that expire early

ASSUME IdAssumption == Old \notin Call /\ None \notin Call \cup {Old}

\* A call makes at most one user, one session and one token: they bear its name.
Id == Call \cup {Old}

VARIABLES
    users,      \* the users table: users[i], a row or None
    sessions,   \* sessions:<s>, a record or None
    index,      \* sessions:user:<i>: its members, and those its TTL outlasts
    lapsed,     \* history: sessions whose index entry ran out before its EXPIRE
    call,       \* call[c] : position and locals of request c
    faults

svars == <<users, sessions, index, lapsed, call, faults>>

NoIndex == [members |-> {}, covered |-> {}]

\* A request that holds nothing.
Empty(pc) == [pc |-> pc, op |-> None, who |-> None, user |-> None, base |-> 0,
              target |-> None, todo |-> {}, entries |-> {}, owed |-> {}]

At(c, pc) == call[c].pc = pc

\* A request comes in, while few enough are under way.
Arrives(c) == /\ At(c, "idle")
              /\ Cardinality({d \in Call : call[d].pc \notin {"idle", "done", "failed"}})
                    < MaxActive

Goto(c, pc) == call' = [call EXCEPT ![c].pc = pc]

\* The call is over, answered or, after a rejected command, with an error.
Return(c) == call' = [call EXCEPT ![c] = Empty("done")]

Live(s) == sessions[s] # None

\* The session's id was handed out: its create() has returned.
Issued(s) == Live(s) /\ (s # Old => At(s, "done"))

\* verifyAccessToken(): the record is there and carries the row's authVersion.
Accepted(s) == /\ Live(s)
               /\ users[sessions[s].user] # None
               /\ users[sessions[s].user].version = sessions[s].version

-----------------------------------------------------------------------------
(* create().                                                                *)

\* The record; `password` is history: what the row held when it was read.
SaveSession(c) == /\ At(c, "set")
                  /\ sessions' = [sessions EXCEPT
                         ![c] = [user |-> call[c].who,
                                 version |-> call[c].user.version,
                                 password |-> call[c].user.password]]
                  /\ call' = [call EXCEPT ![c] = [Empty("sadd") EXCEPT !.who = call[c].who]]
                  /\ UNCHANGED <<users, index, lapsed, faults>>

IndexSession(c) ==
    /\ At(c, "sadd")
    /\ index' = [index EXCEPT ![call[c].who].members = @ \cup {c}]
    /\ Goto(c, "expire")
    /\ UNCHANGED <<users, sessions, lapsed, faults>>

\* TTL and EXPIRE: the index lives at least as long as the new session, and
\* with one sessionTtlSeconds everywhere as every one added before it.  On a
\* key that is gone EXPIRE does nothing.
ExtendIndex(c) ==
    /\ At(c, "expire")
    /\ index' = IF index[call[c].who].members = {} THEN index
                ELSE [index EXCEPT ![call[c].who].covered = @ \cup {c}]
    /\ Return(c)
    /\ UNCHANGED <<users, sessions, lapsed, faults>>

-----------------------------------------------------------------------------
(* listByUserId() and delete().                                             *)

\* SREM; a set without members is no key any more, and has no TTL.
Unindexed(u, s) ==
    IF index[u].members \ {s} = {} THEN [index EXCEPT ![u] = NoIndex]
    ELSE [index EXCEPT ![u].members = @ \ {s}]

\* History: the sessions a revocation that lists now must find.
Owed(u) == {s \in Id \ lapsed : Issued(s) /\ sessions[s].user = u}

ListMembers(c) ==
    /\ At(c, "list")
    /\ call' = [call EXCEPT ![c].pc = "load",
                            ![c].todo = index[call[c].who].members,
                            ![c].owed = IF call[c].op = "listSessions" THEN {}
                                        ELSE Owed(call[c].who) \ {call[c].target}]
    /\ UNCHANGED <<users, sessions, index, lapsed, faults>>

\* Mutant: the list ends at a member without a record.
LoadEntry_Return(c) ==
    /\ At(c, "load")
    /\ \E s \in call[c].todo :
        /\ call' = [call EXCEPT ![c].todo = IF Live(s) THEN @ \ {s} ELSE {},
                                ![c].entries = IF Live(s) THEN @ \cup {s} ELSE @]
        /\ index' = IF Live(s) THEN index ELSE Unindexed(call[c].who, s)
    /\ UNCHANGED <<users, sessions, lapsed, faults>>

\* A member without a record is pruned from the index.
LoadEntry(c) ==
    /\ At(c, "load")
    /\ \E s \in call[c].todo :
        /\ call' = [call EXCEPT ![c].todo = @ \ {s},
                                ![c].entries = IF Live(s) THEN @ \cup {s} ELSE @]
        /\ index' = IF Live(s) THEN index ELSE Unindexed(call[c].who, s)
    /\ UNCHANGED <<users, sessions, lapsed, faults>>

\* The list is complete: shown, or gone through by one of the revocations.
EndList(c) ==
    /\ At(c, "load") /\ call[c].todo = {}
    /\ IF call[c].op = "listSessions" THEN Return(c) ELSE Goto(c, "purge")
    /\ UNCHANGED <<users, sessions, index, lapsed, faults>>

\* revokeOthers() passes over the session it came with.
Doomed(c) == IF call[c].op = "revokeOthers" THEN call[c].entries \ {call[c].target}
             ELSE call[c].entries

\* delete(): the record is read and deleted; if it was there, its entry next.
DeleteSession(c) ==
    /\ At(c, "purge")
    /\ \E s \in Doomed(c) :
        /\ sessions' = [sessions EXCEPT ![s] = None]
        /\ IF Live(s)
             THEN call' = [call EXCEPT ![c].pc = "unindex", ![c].todo = {s},
                                       ![c].who = sessions[s].user]
             ELSE call' = [call EXCEPT ![c].entries = @ \ {s}]
    /\ UNCHANGED <<users, index, lapsed, faults>>

UnindexSession(c) ==
    /\ At(c, "unindex")
    /\ \E s \in call[c].todo :
        /\ index' = Unindexed(call[c].who, s)
        /\ call' = [call EXCEPT ![c].pc = "purge", ![c].todo = {},
                                ![c].entries = @ \ {s}]
    /\ UNCHANGED <<users, sessions, lapsed, faults>>

\* Mutant: the index goes with the sessions it listed.
EndPurge_DropsIndex(c) ==
    /\ At(c, "purge") /\ Doomed(c) = {}
    /\ index' = [index EXCEPT ![call[c].who] = NoIndex]
    /\ IF call[c].op \in {"change", "reset"} THEN Goto(c, "set") ELSE Return(c)
    /\ UNCHANGED <<users, sessions, lapsed, faults>>

\* After revokeAllForUser() a new password is given its session.
EndPurge(c) ==
    /\ At(c, "purge") /\ Doomed(c) = {}
    /\ IF call[c].op \in {"change", "reset"} THEN Goto(c, "set") ELSE Return(c)
    /\ UNCHANGED <<users, sessions, index, lapsed, faults>>

-----------------------------------------------------------------------------
(* Requests for the session routes.                                         *)

Guarded == {"change", "listSessions", "revokeOne", "revokeOthers", "revokeAll"}

\* AuthGuard: the cookie's session is accepted; the handler runs later.
Authenticate(c) ==
    /\ Arrives(c)
    /\ \E s \in Id, op \in Guarded :
        /\ Accepted(s)
        /\ call' = [call EXCEPT
             ![c].op = op, ![c].who = sessions[s].user,
             ![c].target = IF op = "revokeOthers" THEN s ELSE None,
             ![c].pc = CASE op = "change" -> "find" [] op = "revokeOne" -> "get"
                         [] OTHER -> "list"]
    /\ UNCHANGED <<users, sessions, index, lapsed, faults>>

\* Only a session of the caller's own can be revoked by its id.
RevokeOne(c) ==
    /\ At(c, "get")
    /\ \E s \in Id :
        IF Live(s) /\ sessions[s].user = call[c].who
          THEN call' = [call EXCEPT ![c].pc = "purge", ![c].entries = {s}]
          ELSE Return(c)
    /\ UNCHANGED <<users, sessions, index, lapsed, faults>>

\* The cookie's session goes, whether it is still accepted or not.
Logout(c) ==
    /\ Arrives(c)
    /\ \E s \in Id :
        call' = [call EXCEPT ![c].op = "logout", ![c].pc = "purge", ![c].entries = {s}]
    /\ UNCHANGED <<users, sessions, index, lapsed, faults>>

-----------------------------------------------------------------------------
(* Redis lets keys expire.                                                  *)

ExpireSession(s) == /\ Live(s) /\ faults < MaxFaults
                    /\ faults' = faults + 1
                    /\ sessions' = [sessions EXCEPT ![s] = None]
                    /\ UNCHANGED <<users, index, lapsed, call>>

\* The index had a TTL, and every session it was to outlast is gone.
ExpireIndex(u) ==
    /\ index[u].covered # {} /\ \A s \in index[u].covered : ~Live(s)
    /\ index' = [index EXCEPT ![u] = NoIndex]
    /\ lapsed' = lapsed \cup {s \in index[u].members : Live(s)}
    /\ UNCHANGED <<users, sessions, call, faults>>

SessionStep(c) ==
    \/ SaveSession(c) \/ IndexSession(c) \/ ExtendIndex(c)
    \/ ListMembers(c) \/ LoadEntry(c) \/ EndList(c)
    \/ DeleteSession(c) \/ UnindexSession(c) \/ EndPurge(c)
    \/ Authenticate(c) \/ RevokeOne(c) \/ Logout(c)

ExpireKey == \E i \in Id : ExpireSession(i) \/ ExpireIndex(i)
=============================================================================
