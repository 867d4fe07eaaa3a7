------------------------------ MODULE Accounts ------------------------------
(* The account use cases over the users table, the outbox, the reset tokens *)
(* and the cookie sessions, as concurrent requests: one action is one       *)
(* statement of PostgreSQL or one command of Redis.  A transaction's rows   *)
(* are its own until it commits, and a statement that could violate a       *)
(* unique index waits for the transactions that decide it.                  *)
EXTENDS Sessions

CONSTANTS Email, Subject, Password

VARIABLES
    events,     \* events[i]: UserRegistered events of user i in the outbox
    pending,    \* pending[c]: what c's transaction has written so far
    tokens,     \* password-reset:token:<t>, its user or None
    current,    \* password-reset:user:<i>, the token issued last or None
    redeemed,   \* history: consume() calls that won token t
    overwritten \* history: users one of whose versions an older row replaced

avars == <<events, pending, tokens, current, redeemed, overwritten>>
vars == <<svars, avars>>

NoTrx == [row |-> None, event |-> FALSE]

\* An earlier request registered an account, and one signed in to it.
Init ==
    /\ LET OnlyOld(x, y) == [i \in Id |-> IF i = Old THEN x ELSE y] IN
       \E e \in Email, pw \in Password :
         /\ users = OnlyOld([email |-> e, password |-> pw, subject |-> None,
                             version |-> 0], None)
         /\ sessions = OnlyOld([user |-> Old, version |-> 0, password |-> pw], None)
         /\ index = OnlyOld([members |-> {Old}, covered |-> {Old}], NoIndex)
         /\ events = OnlyOld(1, 0)
    /\ lapsed = {} /\ overwritten = {} /\ faults = 0
    /\ call = [c \in Call |-> Empty("idle")]
    /\ pending = [c \in Call |-> NoTrx]
    /\ tokens = [i \in Id |-> None] /\ current = [i \in Id |-> None]
    /\ redeemed = [i \in Id |-> 0]

-----------------------------------------------------------------------------
(* The user and its table.                                                  *)

Create(e, pw) == [email |-> e, password |-> pw, subject |-> None, version |-> 0]

CreateFromGoogle(e, g) == [email |-> e, password |-> None, subject |-> g, version |-> 0]

\* Mutant: the version stays.
ChangePassword_Quiet(row, pw) == [row EXCEPT !.password = pw]

ChangePassword(row, pw) == [row EXCEPT !.password = pw, !.version = @ + 1]

LinkGoogleSubject(row, g) == [row EXCEPT !.subject = g]

FindByEmail(e) == {i \in Id : users[i] # None /\ users[i].email = e}

FindByGoogleSub(g) == {i \in Id : users[i] # None /\ users[i].subject = g}

\* users_email_unique and users_google_sub_unique; null subjects do not collide.
Collide(row, other) ==
    /\ other # None
    /\ row.email = other.email \/ (row.subject # None /\ row.subject = other.subject)

\* Another transaction may still take the key.
Undecided(c, row) == \E d \in Call \ {c} : Collide(row, pending[d].row)

\* A statement with this row for user i is refused with a unique violation.
Duplicate(i, row) == \E j \in Id \ {i} : Collide(row, users[j])

\* The row a call read, with the user it was found for and its version then.
Take(c, op, pc, i, row) ==
    call' = [call EXCEPT ![c].op = op, ![c].pc = pc, ![c].who = i,
                         ![c].user = row, ![c].base = users[i].version]

\* A request refused at its first read has left no trace and may come again.
Refuse == UNCHANGED call

-----------------------------------------------------------------------------
(* Registration, by password or by Google: one transaction.                 *)

\* INSERT; the conflict it may meet ends the transaction and the request.
InsertUser(c, row) ==
    /\ ~Undecided(c, row)
    /\ IF Duplicate(c, row)
         THEN Return(c) /\ UNCHANGED pending
         ELSE /\ pending' = [pending EXCEPT ![c].row = row]
              /\ call' = [call EXCEPT ![c].pc = "append", ![c].who = c,
                                      ![c].user = row]
    /\ UNCHANGED <<users, sessions, index, lapsed, faults, events, tokens, current,
                   redeemed, overwritten>>

Register(c) == /\ Arrives(c)
               /\ \E e \in Email, pw \in Password : InsertUser(c, Create(e, pw))

\* Mutant: the event is written outside the transaction.
AppendEvent_NoTrx(c) ==
    /\ At(c, "append")
    /\ events' = [events EXCEPT ![c] = @ + 1]
    /\ Goto(c, "commit")
    /\ UNCHANGED <<users, sessions, index, lapsed, faults, pending, tokens, current,
                   redeemed, overwritten>>

AppendEvent(c) ==
    /\ At(c, "append")
    /\ pending' = [pending EXCEPT ![c].event = TRUE]
    /\ Goto(c, "commit")
    /\ UNCHANGED <<users, sessions, index, lapsed, faults, events, tokens, current,
                   redeemed, overwritten>>

\* Only Google's new user is signed in at once.
Commit(c) ==
    /\ At(c, "commit")
    /\ users' = [users EXCEPT ![c] = pending[c].row]
    /\ events' = [events EXCEPT ![c] = @ + IF pending[c].event THEN 1 ELSE 0]
    /\ pending' = [pending EXCEPT ![c] = NoTrx]
    /\ IF call[c].op = "google" THEN Goto(c, "set") ELSE Return(c)
    /\ UNCHANGED <<sessions, index, lapsed, faults, tokens, current, redeemed, overwritten>>

-----------------------------------------------------------------------------
(* Signing in.                                                              *)

Login(c) ==
    /\ Arrives(c)
    /\ \E e \in Email, pw \in Password :
        LET found == {i \in FindByEmail(e) : users[i].password = pw} IN
        \/ found = {} /\ Refuse
        \/ \E i \in found : Take(c, "login", "set", i, users[i])
    /\ UNCHANGED <<users, sessions, index, lapsed, faults, avars>>

\* resolveUser() by the durable subject; without it an unverified e-mail ends it.
GoogleBySub(c) ==
    /\ Arrives(c)
    /\ \E e \in Email, g \in Subject, verified \in BOOLEAN :
        \/ \E i \in FindByGoogleSub(g) : Take(c, "google", "set", i, users[i])
        \/ /\ FindByGoogleSub(g) = {} /\ ~verified
           /\ Refuse
        \/ /\ FindByGoogleSub(g) = {} /\ verified
           /\ call' = [call EXCEPT ![c].op = "google", ![c].pc = "byEmail",
                                   ![c].user = CreateFromGoogle(e, g)]
    /\ UNCHANGED <<users, sessions, index, lapsed, faults, avars>>

\* The account of that e-mail is linked, whatever subject it had before.
GoogleByEmail(c) ==
    /\ At(c, "byEmail")
    /\ LET wanted == call[c].user IN
       IF FindByEmail(wanted.email) = {} THEN Goto(c, "insert")
       ELSE \E i \in FindByEmail(wanted.email) :
              Take(c, "google", "update", i, LinkGoogleSubject(users[i], wanted.subject))
    /\ UNCHANGED <<users, sessions, index, lapsed, faults, avars>>

GoogleInsert(c) == At(c, "insert") /\ InsertUser(c, call[c].user)

-----------------------------------------------------------------------------
(* Passwords.                                                               *)

\* findById() and the checks of the current password.
CheckPassword(c) ==
    /\ At(c, "find") /\ call[c].op = "change"
    /\ \E cur, new \in Password :
        LET i == call[c].who IN
        IF users[i].password = cur /\ new # cur
          THEN Take(c, "change", "update", i, ChangePassword(users[i], new))
          ELSE Return(c)
    /\ UNCHANGED <<users, sessions, index, lapsed, faults, avars>>

\* update(): every column of the row as it was read, with the change made to it.
UpdateUser(c) ==
    /\ At(c, "update")
    /\ LET i == call[c].who
           row == call[c].user IN
       /\ ~Undecided(c, row)
       /\ IF Duplicate(i, row)
            THEN Return(c) /\ UNCHANGED <<users, overwritten>>
            ELSE /\ users' = [users EXCEPT ![i] = row]
                 /\ overwritten' = IF users[i].version = call[c].base
                                     THEN overwritten ELSE overwritten \cup {i}
                 /\ call' = [call EXCEPT ![c].base = 0, ![c].pc =
                              IF call[c].op = "google" THEN "set" ELSE "list"]
    /\ UNCHANGED <<sessions, index, lapsed, faults, events, pending, tokens, current, redeemed>>

\* consume(): the token is read, ...
ReadToken(c) ==
    /\ Arrives(c)
    /\ \E t \in Id :
        IF tokens[t] = None THEN Refuse
        ELSE call' = [call EXCEPT ![c].op = "reset", ![c].pc = "consume",
                                  ![c].who = tokens[t], ![c].target = t]
    /\ UNCHANGED <<users, sessions, index, lapsed, faults, avars>>

\* Mutant: deleted without comparing.
ConsumeToken_Delete(c) ==
    /\ At(c, "consume")
    /\ LET t == call[c].target IN
         /\ tokens' = [tokens EXCEPT ![t] = None]
         /\ redeemed' = [redeemed EXCEPT ![t] = @ + 1]
         /\ Goto(c, "forget")
    /\ UNCHANGED <<users, sessions, index, lapsed, faults, events, pending, current, overwritten>>

\* ... and only one of those that read it deletes it.
ConsumeToken(c) ==
    /\ At(c, "consume")
    /\ LET t == call[c].target IN
       IF tokens[t] = call[c].who
         THEN /\ tokens' = [tokens EXCEPT ![t] = None]
              /\ redeemed' = [redeemed EXCEPT ![t] = @ + 1]
              /\ Goto(c, "forget")
         ELSE Return(c) /\ UNCHANGED <<tokens, redeemed>>
    /\ UNCHANGED <<users, sessions, index, lapsed, faults, events, pending, current, overwritten>>

ForgetCurrent(c) ==
    /\ At(c, "forget")
    /\ current' = IF current[call[c].who] = call[c].target
                    THEN [current EXCEPT ![call[c].who] = None] ELSE current
    /\ Goto(c, "find")
    /\ UNCHANGED <<users, sessions, index, lapsed, faults, events, pending, tokens,
                   redeemed, overwritten>>

ResetPassword(c) ==
    /\ At(c, "find") /\ call[c].op = "reset"
    /\ \E new \in Password : LET i == call[c].who IN
         Take(c, "reset", "update", i, ChangePassword(users[i], new))
    /\ UNCHANGED <<users, sessions, index, lapsed, faults, avars>>

-----------------------------------------------------------------------------
(* A forgotten password; an unsent e-mail leaves the token unused.          *)

ForgotPassword(c) ==
    /\ Arrives(c)
    /\ \E e \in Email :
        \/ FindByEmail(e) = {} /\ Refuse
        \/ \E i \in FindByEmail(e) : Take(c, "forgot", "previous", i, users[i])
    /\ UNCHANGED <<users, sessions, index, lapsed, faults, avars>>

ReadPrevious(c) ==
    /\ At(c, "previous")
    /\ LET t == current[call[c].who] IN
       call' = [call EXCEPT ![c].target = t,
                            ![c].pc = IF t = None THEN "save" ELSE "drop"]
    /\ UNCHANGED <<users, sessions, index, lapsed, faults, avars>>

DropPrevious(c) ==
    /\ At(c, "drop")
    /\ tokens' = [tokens EXCEPT ![call[c].target] = None]
    /\ Goto(c, "save")
    /\ UNCHANGED <<users, sessions, index, lapsed, faults, events, pending, current,
                   redeemed, overwritten>>

\* Mutant: key and value are swapped.
SaveToken_Swapped(c) ==
    /\ At(c, "save")
    /\ tokens' = [tokens EXCEPT ![call[c].who] = c]
    /\ Goto(c, "point")
    /\ UNCHANGED <<users, sessions, index, lapsed, faults, events, pending, current,
                   redeemed, overwritten>>

SaveToken(c) ==
    /\ At(c, "save")
    /\ tokens' = [tokens EXCEPT ![c] = call[c].who]
    /\ Goto(c, "point")
    /\ UNCHANGED <<users, sessions, index, lapsed, faults, events, pending, current,
                   redeemed, overwritten>>

PointToToken(c) ==
    /\ At(c, "point")
    /\ current' = [current EXCEPT ![call[c].who] = c]
    /\ Return(c)
    /\ UNCHANGED <<users, sessions, index, lapsed, faults, events, pending, tokens,
                   redeemed, overwritten>>

-----------------------------------------------------------------------------
(* A downstream module's forced logout, expiry and failures.                *)

\* incrementAuthVersion() adds to the row in one statement.
IncrementAuthVersion(c) ==
    /\ Arrives(c)
    /\ \E i \in Id :
        /\ users[i] # None
        /\ users' = [users EXCEPT ![i].version = @ + 1]
    /\ Return(c)
    /\ UNCHANGED <<sessions, index, lapsed, faults, avars>>

ExpireToken == /\ \E t \in Id : /\ tokens[t] # None
                                /\ tokens' = [tokens EXCEPT ![t] = None]
               /\ faults < MaxFaults /\ faults' = faults + 1
               /\ UNCHANGED <<users, sessions, index, lapsed, call, events, pending, current, redeemed, overwritten>>

\* The process dies or a statement rejects: the transaction is rolled back and
\* what was written outside one stays.
Fail(c) == /\ call[c].pc \notin {"idle", "done", "failed"}
           /\ faults < MaxFaults /\ faults' = faults + 1
           /\ call' = [call EXCEPT ![c] = Empty(IF Live(c) THEN "failed" ELSE "done")]
           /\ pending' = [pending EXCEPT ![c] = NoTrx]
           /\ UNCHANGED <<users, sessions, index, lapsed, events, tokens, current,
                          redeemed, overwritten>>

-----------------------------------------------------------------------------
UseCase(c) ==
    \/ Register(c) \/ AppendEvent(c) \/ Commit(c)
    \/ Login(c) \/ GoogleBySub(c) \/ GoogleByEmail(c) \/ GoogleInsert(c)
    \/ CheckPassword(c) \/ UpdateUser(c)
    \/ ReadToken(c) \/ ConsumeToken(c) \/ ForgetCurrent(c) \/ ResetPassword(c)
    \/ ForgotPassword(c) \/ ReadPrevious(c) \/ DropPrevious(c) \/ SaveToken(c)
    \/ PointToToken(c) \/ IncrementAuthVersion(c) \/ Fail(c)

Next == \/ \E c \in Call : UseCase(c) \/ (SessionStep(c) /\ UNCHANGED avars)
        \/ ExpireKey /\ UNCHANGED avars
        \/ ExpireToken

Spec == Init /\ [][Next]_vars

-----------------------------------------------------------------------------
(* Properties.                                                              *)

Row == [email : Email, password : Password \cup {None},
        subject : Subject \cup {None}, version : Nat]

ASSUME RowAssumption == None \notin Row

\* The types of the tables, the keys and the requests; a key names a user only
\* if there is one.
TypeOK ==
    /\ users \in [Id -> Row \cup {None}]
    /\ sessions \in [Id -> [user : Id, version : Nat, password : Password \cup {None}]
                           \cup {None}]
    /\ index \in [Id -> [members : SUBSET Id, covered : SUBSET Id]]
    /\ \A c \in Call : /\ call[c].who \in Id \cup {None}
                       /\ call[c].user \in Row \cup {None}
                       /\ call[c].todo \cup call[c].entries \subseteq Id
    /\ pending \in [Call -> [row : Row \cup {None}, event : BOOLEAN]]
    /\ tokens \in [Id -> Id \cup {None}] /\ current \in [Id -> Id \cup {None}]
    /\ \A i \in Id : /\ tokens[i] # None => users[tokens[i]] # None
                     /\ sessions[i] # None => users[sessions[i].user] # None

\* A session that is accepted was issued against the password its account has
\* now: whatever revokeAllForUser() misses fails on the version.  The exception
\* is an account that a row read before a change was written back to.
AcceptedMeansCurrent ==
    \A s \in Id : Accepted(s) =>
        LET u == sessions[s].user IN
        u \in overwritten \/ sessions[s].password = users[u].password

\* A user and its UserRegistered event are there together, through lost races
\* for an e-mail or a subject, errors and crashes.
EventsMatchUsers == \A i \in Id : events[i] = IF users[i] = None THEN 0 ELSE 1

\* A reset token changes a password at most once, whoever else holds it.
ResetTokenOnce == \A t \in Id : redeemed[t] <= 1

\* Every live session whose id was handed out is in its user's index, but for
\* one whose index ran out between its SADD and its EXPIRE.
SessionsIndexed ==
    \A s \in Id : Issued(s) => s \in index[sessions[s].user].members \cup lapsed

\* When a revocation is through, no session it was to find is left, whatever
\* was issued, revoked or expired meanwhile.
RevocationReachesAll ==
    \A c \in Call : (At(c, "purge") /\ call[c].op \in {"revokeAll", "revokeOthers", "change", "reset"}
                     /\ Doomed(c) = {})
        => \A s \in call[c].owed : ~Live(s)
=============================================================================
