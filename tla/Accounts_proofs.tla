--------------------------- MODULE Accounts_proofs ---------------------------
(* Proofs about Accounts and Sessions, for any set of requests, e-mails,    *)
(* subjects and passwords, any number of requests under way together and    *)
(* any bound on failures.                                                   *)
EXTENDS Accounts, FiniteSetTheorems, TLAPS

Pc == {"idle", "append", "commit", "byEmail", "insert", "find", "update", "consume",
       "forget", "previous", "drop", "save", "point", "set", "sadd", "expire", "list",
       "load", "purge", "unindex", "get", "done", "failed"}

CallType == [pc : Pc,
             op : {None, "google", "login", "change", "reset", "forgot", "listSessions",
                   "revokeOne", "revokeOthers", "revokeAll", "logout"},
             who : Id \cup {None}, user : Row \cup {None}, base : Nat,
             target : Id \cup {None}, todo : SUBSET Id, entries : SUBSET Id,
             owed : SUBSET Id]

SessionType == [user : Id, version : Nat, password : Password \cup {None}]

StoreType == /\ users \in [Id -> Row \cup {None}]
             /\ sessions \in [Id -> SessionType \cup {None}]
             /\ index \in [Id -> [members : SUBSET Id, covered : SUBSET Id]]
             /\ events \in [Id -> Nat] /\ redeemed \in [Id -> Nat]
             /\ tokens \in [Id -> Id \cup {None}] /\ current \in [Id -> Id \cup {None}]

PendingType == pending \in [Call -> [row : Row \cup {None}, event : BOOLEAN]]

-----------------------------------------------------------------------------
(* The invariant: what the tables and keys say of each other, ...           *)

\* Whoever bears the name s has had its session, if it ever gets one.
Spent(s) == s = Old \/ call[s].pc \in {"sadd", "expire", "done", "failed"}

\* The version and password were read together from user u: a row with the
\* same version still has that password.
Fits(u, v, pw) == \/ u \in overwritten
                  \/ /\ v <= users[u].version
                     /\ v = users[u].version => pw = users[u].password

\* What names a user names one that is there.
Linked == \A i \in Id : /\ tokens[i] # None => users[tokens[i]] # None
                        /\ sessions[i] # None => users[sessions[i].user] # None

Redeemed == \A t \in Id : redeemed[t] <= 1 /\ (tokens[t] # None => redeemed[t] = 0)

SessionsFit == \A s \in Id : Live(s) =>
    Spent(s) /\ Fits(sessions[s].user, sessions[s].version, sessions[s].password)

\* An index holds sessions of its own user, and none that is still to come.
Members == \A u \in Id : \A s \in index[u].members :
    Spent(s) /\ (Live(s) => sessions[s].user = u)

StoreInv == /\ StoreType /\ Linked /\ EventsMatchUsers /\ Redeemed
            /\ SessionsFit /\ Members /\ SessionsIndexed

(* ... and what request d has in its hands.                                 *)

Early == {"idle", "byEmail", "insert", "append", "commit"}

Named == {"find", "update", "set", "sadd", "expire", "list", "load", "unindex", "get",
          "consume", "forget", "previous", "drop", "save", "point"}

Sweeping == {"load", "purge", "unindex"}

Shape(d) ==
    /\ call[d].pc = "idle" => call[d] = Empty("idle")
    /\ call[d].pc \in {"byEmail", "insert"} => call[d].who = None
    /\ call[d].pc \in Named => call[d].who # None
    /\ (call[d].pc = "purge" /\ call[d].op # "logout") => call[d].who # None
    /\ call[d].pc \in {"byEmail", "insert", "update"} => call[d].user # None
    /\ call[d].pc \in {"append", "commit"} =>
          /\ call[d].who = d /\ pending[d].row = call[d].user
          /\ pending[d].row # None
    /\ call[d].pc = "commit" => pending[d].event = TRUE
    /\ call[d].pc \in {"consume", "forget"} => call[d].target # None
    /\ call[d].pc = "get" => call[d].op = "revokeOne"
    /\ call[d].pc \notin Sweeping \cup {"set"} =>
          call[d].todo = {} /\ call[d].entries = {} /\ call[d].owed = {}

\* d's user is not there before d commits it; any other it names is there.
Newcomer(d) ==
    /\ call[d].pc \in Early => users[d] = None
    /\ (call[d].who # None /\ call[d].pc \notin {"append", "commit"}) =>
          users[call[d].who] # None

TokenUnsaved(d) == call[d].pc \in {"idle", "previous", "drop", "save"} =>
    tokens[d] = None /\ redeemed[d] = 0

\* The row it read or wrote, of which it will make a session.
Changing(d) == call[d].op \in {"change", "reset"} /\ call[d].pc \in Sweeping \cup {"list"}

Snapshot(d) ==
    /\ (call[d].pc = "set" \/ Changing(d)) =>
          /\ call[d].user # None
          /\ Fits(call[d].who, call[d].user.version, call[d].user.password)
    /\ call[d].pc = "update" =>
          \/ call[d].who \in overwritten
          \/ /\ call[d].base <= users[call[d].who].version
             /\ call[d].op # "google" => call[d].user.version = call[d].base + 1
             /\ call[d].op = "google" =>
                  /\ call[d].user.version = call[d].base
                  /\ Fits(call[d].who, call[d].user.version, call[d].user.password)

Creating(d) ==
    /\ (call[d].pc \in {"sadd", "expire"} /\ Live(d)) => sessions[d].user = call[d].who
    /\ (call[d].pc = "expire" /\ Live(d)) => d \in index[call[d].who].members \cup lapsed

\* What it lists or revokes is of one user, and what it owes still before it.
Sweep(d) ==
    /\ call[d].who # None => \A s \in call[d].todo \cup call[d].entries :
          Spent(s) /\ (Live(s) => sessions[s].user = call[d].who)
    /\ (call[d].who = None /\ call[d].pc = "purge") =>
          \A s, t \in call[d].entries : s = t
    /\ call[d].pc = "purge" => call[d].todo = {}
    /\ call[d].pc = "unindex" => \A s \in call[d].todo : ~Live(s)
    /\ call[d].pc \in Sweeping =>
          /\ call[d].target \notin call[d].owed
          /\ \A s \in call[d].owed :
                Spent(s) /\ (Live(s) => s \in call[d].todo \cup call[d].entries)

Own(d) == Shape(d) /\ Newcomer(d) /\ TokenUnsaved(d) /\ Snapshot(d) /\ Creating(d) /\ Sweep(d)

CallInv == call \in [Call -> CallType] /\ PendingType

IInv == StoreInv /\ CallInv /\ \A d \in Call : Own(d)

LEMMA Ids == Call \subseteq Id /\ Old \in Id /\ None \notin Id /\ None \notin Row /\ Old \notin Call
BY IdAssumption, RowAssumption DEF Id

-----------------------------------------------------------------------------
(* What a step does to the tables and keys: whatever it does, it is later.  *)

\* Users stay and their versions grow with their passwords, a session that is
\* gone does not come back, and an index forgets no live session.
Later ==
    /\ \A i \in Id : users[i] # None => users'[i] # None
    /\ \A u \in Id : users[u] # None =>
          \/ u \in overwritten'
          \/ /\ u \notin overwritten /\ users[u].version <= users'[u].version
             /\ users[u].version = users'[u].version => users[u].password = users'[u].password
    /\ \A s \in Id : Spent(s) =>
          Spent(s)' /\ (Live(s)' => Live(s) /\ sessions'[s] = sessions[s])
    /\ \A u \in Id : \A s \in index[u].members \cup lapsed :
          Live(s)' => s \in index'[u].members \cup lapsed'

\* Only c is served.
Moves(c) == /\ call'[c] \in CallType /\ CallInv'
            /\ \A d \in Call \ {c} : call'[d] = call[d] /\ pending'[d] = pending[d]

\* A step spares what d has.
Spares(d) ==
    /\ call[d].pc \in Early => users'[d] = users[d]
    /\ call[d].pc \in {"idle", "previous", "drop", "save"} =>
          tokens'[d] = tokens[d] /\ redeemed'[d] = redeemed[d]

LEMMA FitsLater ==
  ASSUME StoreType, StoreType', Later, NEW u \in Id, users[u] # None, NEW v \in Nat, NEW pw,
         Fits(u, v, pw)
  PROVE  Fits(u, v, pw)'
<1>1. CASE u \in overwritten'
  BY <1>1 DEF Fits
<1>2. CASE u \notin overwritten'
  <2>1. users[u] \in Row /\ users'[u] \in Row /\ users'[u] # None
    BY DEF StoreType, Later
  <2>2. users[u].version \in Nat /\ users'[u].version \in Nat
    BY <2>1 DEF Row
  <2>3. /\ u \notin overwritten /\ users[u].version <= users'[u].version
        /\ users[u].version = users'[u].version => users[u].password = users'[u].password
    BY <1>2 DEF Later
  <2> QED
    BY <2>2, <2>3 DEF Fits
<1> QED
  BY <1>1, <1>2

LEMMA Kept ==
  ASSUME IInv, StoreInv', Later, NEW d \in Call, call'[d] = call[d], pending'[d] = pending[d],
         Spares(d)
  PROVE  Own(d)'
<1>1. /\ StoreType /\ StoreType' /\ Own(d) /\ d \in Id /\ None \notin Id
      /\ call[d] \in CallType
  BY Ids DEF IInv, StoreInv, CallInv
<1>2. /\ call[d].who \in Id \cup {None} /\ call[d].user \in Row \cup {None}
      /\ call[d].todo \subseteq Id /\ call[d].entries \subseteq Id /\ call[d].owed \subseteq Id
      /\ call[d].base \in Nat
  BY <1>1 DEF CallType
<1>3. Shape(d)'
  BY <1>1 DEF Own, Shape
<1>4. Newcomer(d)'
  BY <1>1, <1>2 DEF Own, Newcomer, Later, Spares
<1>5. TokenUnsaved(d)'
  BY <1>1 DEF Own, TokenUnsaved, Spares
<1>6. Snapshot(d)'
  <2>1. ASSUME call[d].pc = "set" \/ Changing(d)
        PROVE  /\ call[d].user # None
               /\ Fits(call[d].who, call[d].user.version, call[d].user.password)'
    <3>1. call[d].user # None /\ call[d].user \in Row
          /\ Fits(call[d].who, call[d].user.version, call[d].user.password)
      BY <1>1, <1>2, <2>1 DEF Own, Snapshot
    <3>2. call[d].who # None /\ users[call[d].who] # None
      BY <1>1, <2>1 DEF Own, Shape, Newcomer, Changing, Named, Sweeping
    <3>3. PICK u \in Id, v \in Nat, pw \in {call[d].user.password} :
            u = call[d].who /\ v = call[d].user.version /\ pw = call[d].user.password
      BY <1>2, <3>1, <3>2 DEF Row
    <3>4. Fits(u, v, pw)'
      BY <1>1, <3>1, <3>2, <3>3, FitsLater
    <3>5. call'[d] = call[d]
      OBVIOUS
    <3> QED
      BY <3>1, <3>3, <3>4, <3>5 DEF Fits
  <2>2. ASSUME call[d].pc = "update", call[d].who \notin overwritten'
        PROVE  /\ call[d].base <= users'[call[d].who].version
               /\ call[d].op # "google" => call[d].user.version = call[d].base + 1
               /\ call[d].op = "google" =>
                    /\ call[d].user.version = call[d].base
                    /\ Fits(call[d].who, call[d].user.version, call[d].user.password)'
    <3>1. call[d].who # None /\ users[call[d].who] # None /\ call[d].user # None
      BY <1>1, <2>2 DEF Own, Shape, Newcomer, Named
    <3>2. call[d].user \in Row /\ call[d].who \in Id
      BY <1>2, <3>1
    <3>3. PICK u \in Id, v \in Nat, pw \in {call[d].user.password} :
            u = call[d].who /\ v = call[d].user.version /\ pw = call[d].user.password
      BY <3>2 DEF Row
    <3>4. u \notin overwritten /\ users[u].version <= users'[u].version
      BY <2>2, <3>1, <3>3 DEF Later
    <3>5. users[u] \in Row /\ users'[u] \in Row
      BY <1>1, <3>1, <3>3 DEF StoreType, Later
    <3>6. users[u].version \in Nat /\ users'[u].version \in Nat
      BY <3>5 DEF Row
    <3>7. /\ call[d].base <= users[u].version
          /\ call[d].op # "google" => v = call[d].base + 1
          /\ call[d].op = "google" => v = call[d].base /\ Fits(u, v, pw)
      BY <1>1, <2>2, <3>3, <3>4 DEF Own, Snapshot
    <3>8. call[d].op = "google" => Fits(u, v, pw)'
      BY <1>1, <3>1, <3>3, <3>7, FitsLater
    <3> QED
      BY <1>2, <3>3, <3>4, <3>6, <3>7, <3>8 DEF Fits
  <2> QED
    BY <2>1, <2>2 DEF Snapshot, Changing, Fits
<1>7. Creating(d)'
  <2>1. call[d].pc \in {"sadd", "expire"} => Spent(d) /\ call[d].who \in Id
    BY <1>1, <1>2 DEF Spent, Own, Shape, Named
  <2> QED
    BY <1>1, <2>1 DEF Own, Creating, Later, Live
<1>8. Sweep(d)'
  <2>1. \A s \in Id : Spent(s) => Spent(s)' /\ (Live(s)' => Live(s) /\ sessions'[s] = sessions[s])
    BY DEF Later
  <2>2. /\ call[d].who # None => \A s \in call[d].todo \cup call[d].entries :
             Spent(s)' /\ (Live(s)' => sessions'[s].user = call[d].who)
        /\ (call[d].who = None /\ call[d].pc = "purge") =>
             \A s, t \in call[d].entries : s = t
        /\ call[d].pc = "purge" => call[d].todo = {}
    BY <1>1, <1>2, <2>1 DEF Own, Sweep
  <2>3. call[d].pc = "unindex" => \A s \in call[d].todo : ~Live(s)'
    BY <1>1, <1>2, <2>1 DEF Own, Sweep, Shape, Named
  <2>4. call[d].pc \in Sweeping =>
          /\ call[d].target \notin call[d].owed
          /\ \A s \in call[d].owed :
                Spent(s)' /\ (Live(s)' => s \in call[d].todo \cup call[d].entries)
    BY <1>1, <1>2, <2>1 DEF Own, Sweep
  <2> QED
    BY <2>2, <2>3, <2>4 DEF Sweep
<1> QED
  BY <1>3, <1>4, <1>5, <1>6, <1>7, <1>8 DEF Own

LEMMA Step ==
  ASSUME IInv, NEW c \in Call, Moves(c), StoreInv', Later, Own(c)',
         \A d \in Call \ {c} : Spares(d)
  PROVE  IInv'
<1>1. ASSUME NEW d \in Call \ {c} PROVE Own(d)'
  BY Kept DEF Moves
<1> QED
  BY <1>1 DEF IInv, Moves

\* A key expires: nobody moves.
LEMMA Nobody ==
  ASSUME IInv, UNCHANGED <<call, pending>>, StoreInv', Later, \A d \in Call : Spares(d)
  PROVE  IInv'
<1>1. ASSUME NEW d \in Call PROVE Own(d)'
  BY <1>1, Kept
<1> QED
  BY <1>1 DEF IInv, CallInv, PendingType

StoreUnchanged ==
    UNCHANGED <<users, sessions, index, lapsed, events, tokens, current, redeemed, overwritten>>

\* Requests that no session waits for go on as they like.
LEMMA PlainLater ==
  ASSUME IInv, NEW c \in Call, StoreUnchanged, Moves(c),
         Spent(c) => call'[c].pc \in {"sadd", "expire", "done", "failed"},
         call'[c].pc = "done" => ~Live(c) \/ call[c].pc = "done"
  PROVE  StoreInv' /\ Later /\ \A d \in Call : Spares(d)
<1> USE DEF StoreUnchanged
<1>1. \A s \in Id : Spent(s) => Spent(s)'
  BY Ids DEF Spent, Moves, Id
<1>2. /\ StoreType /\ StoreType' /\ Linked' /\ EventsMatchUsers' /\ Redeemed'
  BY DEF IInv, StoreInv, StoreType, Linked, EventsMatchUsers, Redeemed
<1>3. SessionsFit' /\ Members'
  BY <1>1, <1>2 DEF IInv, StoreInv, StoreType, SessionsFit, Members, Live, Fits
<1>4. ASSUME NEW s \in Id, Issued(s)' PROVE Issued(s)
  BY <1>4, Ids DEF Issued, Live, At, Moves, Id
<1>5. SessionsIndexed'
  BY <1>4 DEF IInv, StoreInv, SessionsIndexed
<1>6. Later
  <2>1. \A u \in Id : users[u] # None => users[u].version <= users'[u].version
    BY <1>2 DEF StoreType, Row
  <2> QED
    BY <1>1, <2>1 DEF Later, Live
<1> QED
  BY <1>2, <1>3, <1>5, <1>6 DEF StoreInv, Spares

LEMMA PlainStep ==
  ASSUME IInv, NEW c \in Call, StoreUnchanged, Moves(c),
         Spent(c) => call'[c].pc \in {"sadd", "expire", "done", "failed"},
         call'[c].pc = "done" => ~Live(c) \/ call[c].pc = "done",
         Own(c)'
  PROVE  IInv'
BY PlainLater, Step

\* The requests' records.
LEMMA Written ==
  ASSUME CallInv, NEW c \in Call, NEW l \in CallType, call' = [call EXCEPT ![c] = l],
         pending' = pending \/ \E x \in [row : Row \cup {None}, event : BOOLEAN] :
                                  pending' = [pending EXCEPT ![c] = x]
  PROVE  Moves(c) /\ call'[c] = l
BY DEF Moves, CallInv, PendingType

LEMMA GotoFields ==
  ASSUME CallInv, NEW c \in Call, NEW pc \in Pc, Goto(c, pc),
         pending' = pending \/ \E x \in [row : Row \cup {None}, event : BOOLEAN] :
                                  pending' = [pending EXCEPT ![c] = x]
  PROVE  /\ Moves(c) /\ call'[c].pc = pc /\ call'[c].op = call[c].op
         /\ call'[c].who = call[c].who /\ call'[c].user = call[c].user
         /\ call'[c].base = call[c].base /\ call'[c].target = call[c].target
         /\ call'[c].todo = call[c].todo /\ call'[c].entries = call[c].entries
         /\ call'[c].owed = call[c].owed
<1> DEFINE l == [call[c] EXCEPT !.pc = pc]
<1>1. call[c] \in CallType
  BY DEF CallInv
<1>2. l \in CallType /\ l.pc = pc /\ l.op = call[c].op
      /\ l.who = call[c].who /\ l.user = call[c].user
      /\ l.base = call[c].base /\ l.target = call[c].target
      /\ l.todo = call[c].todo /\ l.entries = call[c].entries /\ l.owed = call[c].owed
  BY <1>1 DEF CallType
<1>3. call' = [call EXCEPT ![c] = l]
  BY <1>1 DEF Goto, CallType
<1> HIDE DEF l
<1>4. Moves(c) /\ call'[c] = l
  BY <1>2, <1>3, Written
<1> QED
  BY <1>2, <1>4

LEMMA EmptyFields ==
  ASSUME NEW pc \in Pc
  PROVE  /\ Empty(pc) \in CallType /\ Empty(pc).pc = pc /\ Empty(pc).who = None
         /\ Empty(pc).todo = {} /\ Empty(pc).entries = {} /\ Empty(pc).owed = {}
         /\ Empty(pc).op = None /\ Empty(pc).user = None
BY DEF Empty, CallType

\* A request that has ended holds nothing.
LEMMA EndedOwn ==
  ASSUME NEW c \in Call, NEW pc \in {"done", "failed"}, call'[c] = Empty(pc)
  PROVE  Own(c)'
<1>1. pc \in Pc
  BY DEF Pc
<1>2. /\ call'[c].pc = pc /\ call'[c].who = None /\ call'[c].todo = {} /\ call'[c].entries = {}
      /\ call'[c].owed = {}
  BY <1>1, EmptyFields
<1> QED
  BY <1>2 DEF Own, Shape, Newcomer, TokenUnsaved, Snapshot, Creating, Sweep, Changing,
              Early, Named, Sweeping

LEMMA ReturnMoves ==
  ASSUME CallInv, NEW c \in Call, Return(c),
         pending' = pending \/ \E x \in [row : Row \cup {None}, event : BOOLEAN] :
                                  pending' = [pending EXCEPT ![c] = x]
  PROVE  Moves(c) /\ call'[c] = Empty("done") /\ call'[c].pc = "done" /\ Own(c)'
<1>1. Empty("done") \in CallType /\ Empty("done").pc = "done"
  BY EmptyFields DEF Pc
<1>2. Moves(c) /\ call'[c] = Empty("done")
  BY <1>1, Written DEF Return
<1> QED
  BY <1>1, <1>2, EndedOwn

\* A request that has neither session nor index in hand ends.
LEMMA ReturnStep ==
  ASSUME IInv, NEW c \in Call, Return(c), StoreUnchanged, pending' = pending,
         call[c].pc \notin {"sadd", "expire", "failed"}
  PROVE  IInv'
<1>1. CallInv /\ c \in Id /\ SessionsFit
  BY Ids DEF IInv, StoreInv
<1>2. Moves(c) /\ call'[c].pc = "done" /\ Own(c)'
  BY <1>1, ReturnMoves
<1>3. Live(c) => call[c].pc \in {"done", "failed"}
  BY <1>1, Ids DEF SessionsFit, Spent
<1> QED
  BY <1>2, <1>3, PlainStep

-----------------------------------------------------------------------------
(* Requests that read, and what they write in their transaction.            *)

LEMMA Held ==
  ASSUME IInv, NEW c \in Call
  PROVE  /\ StoreInv /\ StoreType /\ CallInv /\ Own(c) /\ call[c] \in CallType /\ c \in Id
         /\ call \in [Call -> CallType] /\ pending \in [Call -> [row : Row \cup {None}, event : BOOLEAN]]
BY Ids DEF IInv, StoreInv, CallInv, PendingType

LEMMA AtIdle ==
  ASSUME IInv, NEW c \in Call, call[c].pc = "idle"
  PROVE  /\ call[c].who = None /\ call[c].todo = {} /\ call[c].entries = {}
         /\ call[c].owed = {} /\ users[c] = None /\ tokens[c] = None /\ redeemed[c] = 0
         /\ call[c].op = None /\ ~Live(c)
<1>1. call[c] = Empty("idle") /\ users[c] = None /\ tokens[c] = None /\ redeemed[c] = 0
  BY Held DEF Own, Shape, Newcomer, TokenUnsaved, Early
<1>2. ~Live(c)
  BY Held, Ids DEF StoreInv, SessionsFit, Spent
<1> QED
  BY <1>1, <1>2 DEF Empty

LEMMA InsertStep ==
  ASSUME IInv, NEW c \in Call, NEW row \in Row, call[c].pc \in {"idle", "insert"},
         InsertUser(c, row)
  PROVE  IInv'
<1>1. StoreUnchanged
  BY DEF InsertUser, StoreUnchanged
<1>2. CASE Duplicate(c, row)
  BY <1>1, <1>2, ReturnStep DEF InsertUser
<1>3. CASE ~Duplicate(c, row)
  <2> DEFINE l == [call[c] EXCEPT !.pc = "append", !.who = c, !.user = row]
             x == [pending[c] EXCEPT !.row = row]
  <2>held. call[c] \in CallType /\ c \in Id
    BY Held
  <2>1. /\ l \in CallType /\ l.pc = "append" /\ l.who = c /\ l.user = row
        /\ l.todo = call[c].todo /\ l.entries = call[c].entries /\ l.owed = call[c].owed
    BY <2>held DEF CallType, Pc
  <2>2. call' = [call EXCEPT ![c] = l]
    BY <1>3, Held DEF InsertUser, CallType
  <2>3. x \in [row : Row \cup {None}, event : BOOLEAN] /\ x.row = row
        /\ pending' = [pending EXCEPT ![c] = x] /\ pending'[c] = x
    BY <1>3, Held DEF InsertUser
  <2> HIDE DEF l, x
  <2>4. Moves(c) /\ call'[c] = l
    BY <2>1, <2>2, <2>3, Held, Written
  <2>5. /\ call[c].todo = {} /\ call[c].entries = {} /\ call[c].owed = {}
        /\ users[c] = None /\ ~Spent(c)
    BY Held, Ids DEF Own, Shape, Newcomer, Early, Sweeping, Spent
  <2>6. Own(c)'
    BY <1>1, <2>1, <2>3, <2>4, <2>5, Ids
    DEF Own, Shape, Newcomer, TokenUnsaved, Snapshot, Creating, Sweep, Changing,
        Early, Named, Sweeping, StoreUnchanged
  <2> QED
    BY <1>1, <2>1, <2>4, <2>5, <2>6, PlainStep
<1> QED
  BY <1>2, <1>3

LEMMA RegisterStep == ASSUME IInv, NEW c \in Call, Register(c) PROVE IInv'
<1>1. PICK e \in Email, pw \in Password : InsertUser(c, Create(e, pw))
  BY DEF Register
<1>2. Create(e, pw) \in Row
  BY DEF Create, Row
<1> HIDE DEF Create
<1> QED
  BY <1>1, <1>2, InsertStep DEF Register, Arrives, At

LEMMA GoogleInsertStep == ASSUME IInv, NEW c \in Call, GoogleInsert(c) PROVE IInv'
<1>1. call[c].pc = "insert" /\ InsertUser(c, call[c].user)
  BY DEF GoogleInsert, At
<1>2. call[c].user \in Row
  BY <1>1, Held DEF Own, Shape, CallType
<1> QED
  BY <1>1, <1>2, InsertStep

LEMMA AppendEventStep == ASSUME IInv, NEW c \in Call, AppendEvent(c) PROVE IInv'
<1> DEFINE x == [pending[c] EXCEPT !.event = TRUE]
<1>1. call[c].pc = "append" /\ Goto(c, "commit") /\ StoreUnchanged
  BY DEF AppendEvent, At, StoreUnchanged
<1>2. x \in [row : Row \cup {None}, event : BOOLEAN] /\ x.row = pending[c].row
      /\ x.event = TRUE /\ pending' = [pending EXCEPT ![c] = x] /\ pending'[c] = x
  BY Held DEF AppendEvent
<1> HIDE DEF x
<1>3. /\ Moves(c) /\ call'[c].pc = "commit" /\ call'[c].who = call[c].who
      /\ call'[c].user = call[c].user /\ call'[c].todo = call[c].todo
      /\ call'[c].entries = call[c].entries /\ call'[c].owed = call[c].owed
  BY <1>1, <1>2, Held, GotoFields DEF Pc
<1>4. /\ call[c].todo = {} /\ call[c].entries = {} /\ call[c].owed = {} /\ call[c].who = c
      /\ users[c] = None /\ ~Spent(c) /\ pending[c].row = call[c].user /\ pending[c].row # None
  BY <1>1, Held, Ids DEF Own, Shape, Newcomer, Early, Sweeping, Spent
<1>5. Own(c)'
  BY <1>1, <1>2, <1>3, <1>4, Ids
  DEF Own, Shape, Newcomer, TokenUnsaved, Snapshot, Creating, Sweep, Changing,
      Early, Named, Sweeping, StoreUnchanged
<1> QED
  BY <1>1, <1>3, <1>4, <1>5, PlainStep

\* A row is read, of a user that is there.
LEMMA TakeStep ==
  ASSUME IInv, NEW c \in Call, StoreUnchanged, pending' = pending,
         call[c].pc \in {"idle", "byEmail", "find"},
         NEW op \in {"google", "login", "change", "reset", "forgot"},
         NEW pc \in {"set", "update", "previous"},
         NEW i \in Id, users[i] # None, NEW row \in Row, Take(c, op, pc, i, row),
         pc = "set" => row.version = users[i].version /\ row.password = users[i].password,
         pc = "update" => IF op = "google"
                            THEN row.version = users[i].version /\ row.password = users[i].password
                            ELSE row.version = users[i].version + 1,
         pc = "previous" => call[c].pc = "idle"
  PROVE  IInv'
<1> DEFINE l == [call[c] EXCEPT !.op = op, !.pc = pc, !.who = i, !.user = row,
                                !.base = users[i].version]
<1>1. users[i] \in Row /\ users[i].version \in Nat
  BY Held DEF StoreType, Row
<1>2. /\ l \in CallType /\ l.pc = pc /\ l.op = op /\ l.who = i /\ l.user = row
      /\ l.base = users[i].version
      /\ l.todo = call[c].todo /\ l.entries = call[c].entries /\ l.owed = call[c].owed
  <2>1. call[c] \in CallType /\ pc \in Pc
    BY Held DEF Pc
  <2> QED
    BY <1>1, <2>1 DEF CallType
<1>3. call' = [call EXCEPT ![c] = l]
  BY Held DEF Take, CallType
<1> HIDE DEF l
<1>4. Moves(c) /\ call'[c] = l
  BY <1>2, <1>3, Held, Written
<1>5. /\ call[c].todo = {} /\ call[c].entries = {} /\ call[c].owed = {} /\ ~Spent(c)
      /\ call[c].pc = "idle" => tokens[c] = None /\ redeemed[c] = 0
  BY Held, Ids DEF Own, Shape, TokenUnsaved, Sweeping, Spent
<1>6. row # None /\ i # None
  BY Ids
<1>7. Shape(c)'
  BY <1>2, <1>4, <1>5, <1>6 DEF Shape, Sweeping
<1>8. Newcomer(c)' /\ TokenUnsaved(c)' /\ Creating(c)' /\ Sweep(c)'
  BY <1>2, <1>4, <1>5, <1>6
  DEF Newcomer, TokenUnsaved, Creating, Sweep, Early, Sweeping, StoreUnchanged
<1>9. Snapshot(c)'
  BY <1>1, <1>2, <1>4, <1>6 DEF Snapshot, Changing, Fits, Sweeping, StoreUnchanged
<1> QED
  BY <1>2, <1>4, <1>5, <1>7, <1>8, <1>9, PlainStep DEF Own

\* An action that changed nothing.
LEMMA Stutter == ASSUME IInv, UNCHANGED vars PROVE IInv'
<1> USE DEF vars, svars, avars
<1>1. StoreInv'
  <2>1. StoreType' /\ Linked' /\ EventsMatchUsers' /\ Redeemed'
    BY DEF IInv, StoreInv, StoreType, Linked, EventsMatchUsers, Redeemed
  <2>2. SessionsFit' /\ Members' /\ SessionsIndexed'
    BY DEF IInv, StoreInv, SessionsFit, Members, SessionsIndexed, Live, Fits, Spent, Issued, At
  <2> QED
    BY <2>1, <2>2 DEF StoreInv
<1>2. Later
  <2>1. \A u \in Id : users[u] # None => users[u].version <= users'[u].version
    BY DEF IInv, StoreInv, StoreType, Row
  <2> QED
    BY <2>1 DEF Later, Live, Spent
<1>3. \A d \in Call : Spares(d)
  BY DEF Spares
<1> QED
  BY <1>1, <1>2, <1>3, Nobody

LEMMA LoginStep == ASSUME IInv, NEW c \in Call, Login(c) PROVE IInv'
<1>1. StoreUnchanged /\ pending' = pending /\ call[c].pc = "idle"
  BY DEF Login, StoreUnchanged, avars, Arrives, At
<1>2. CASE UNCHANGED call
  BY <1>1, <1>2, Stutter DEF Login, vars, svars, avars
<1>3. CASE \E i \in Id : users[i] # None /\ Take(c, "login", "set", i, users[i])
  <2>1. PICK i \in Id : users[i] # None /\ Take(c, "login", "set", i, users[i])
    BY <1>3
  <2>2. users[i] \in Row
    BY <2>1, Held DEF StoreType
  <2> QED
    BY <1>1, <2>1, <2>2, TakeStep
<1> QED
  BY <1>2, <1>3 DEF Login, Refuse, FindByEmail

LEMMA GoogleBySubStep == ASSUME IInv, NEW c \in Call, GoogleBySub(c) PROVE IInv'
<1>1. StoreUnchanged /\ pending' = pending /\ call[c].pc = "idle"
  BY DEF GoogleBySub, StoreUnchanged, avars, Arrives, At
<1>2. CASE UNCHANGED call
  BY <1>1, <1>2, Stutter DEF GoogleBySub, vars, svars, avars
<1>3. CASE \E i \in Id : users[i] # None /\ Take(c, "google", "set", i, users[i])
  <2>1. PICK i \in Id : users[i] # None /\ Take(c, "google", "set", i, users[i])
    BY <1>3
  <2>2. users[i] \in Row
    BY <2>1, Held DEF StoreType
  <2> QED
    BY <1>1, <2>1, <2>2, TakeStep
<1>4. ASSUME NEW e \in Email, NEW g \in Subject,
             call' = [call EXCEPT ![c].op = "google", ![c].pc = "byEmail",
                                  ![c].user = CreateFromGoogle(e, g)]
      PROVE  IInv'
  <2> DEFINE row == CreateFromGoogle(e, g)
             l == [call[c] EXCEPT !.op = "google", !.pc = "byEmail", !.user = row]
  <2>1. row \in Row
    BY DEF CreateFromGoogle, Row
  <2> HIDE DEF row
  <2>held. call[c] \in CallType
    BY Held
  <2>2. /\ l \in CallType /\ l.pc = "byEmail" /\ l.who = call[c].who /\ l.user = row
        /\ l.op = "google"
        /\ l.todo = call[c].todo /\ l.entries = call[c].entries /\ l.owed = call[c].owed
    BY <2>1, <2>held DEF CallType, Pc
  <2>3. call' = [call EXCEPT ![c] = l]
    BY <1>4, Held DEF CallType, row
  <2> HIDE DEF l
  <2>4. Moves(c) /\ call'[c] = l
    BY <1>1, <2>2, <2>3, Held, Written
  <2>5. Own(c)' /\ ~Spent(c)
    BY <1>1, <2>1, <2>2, <2>4, AtIdle, Ids
    DEF Own, Shape, Newcomer, TokenUnsaved, Snapshot, Creating, Sweep, Changing,
        Early, Named, Sweeping, StoreUnchanged, Spent
  <2> QED
    BY <1>1, <2>2, <2>4, <2>5, PlainStep
<1> QED
  BY <1>2, <1>3, <1>4 DEF GoogleBySub, Refuse, FindByGoogleSub

LEMMA GoogleByEmailStep == ASSUME IInv, NEW c \in Call, GoogleByEmail(c) PROVE IInv'
<1>1. /\ StoreUnchanged /\ pending' = pending /\ call[c].pc = "byEmail"
      /\ call[c].user \in Row /\ call[c].who = None /\ users[c] = None
      /\ call[c].todo = {} /\ call[c].entries = {} /\ call[c].owed = {} /\ ~Spent(c)
  BY Held, Ids DEF GoogleByEmail, StoreUnchanged, avars, At, Own, Shape, Newcomer, Early,
                   Sweeping, CallType, Spent
<1>2. CASE Goto(c, "insert")
  <2>1. /\ Moves(c) /\ call'[c].pc = "insert" /\ call'[c].who = call[c].who
        /\ call'[c].user = call[c].user /\ call'[c].todo = call[c].todo
        /\ call'[c].entries = call[c].entries /\ call'[c].owed = call[c].owed
    BY <1>1, <1>2, Held, GotoFields DEF Pc
  <2>2. Own(c)'
    BY <1>1, <2>1, Ids
    DEF Own, Shape, Newcomer, TokenUnsaved, Snapshot, Creating, Sweep, Changing,
        Early, Named, Sweeping, StoreUnchanged
  <2> QED
    BY <1>1, <2>1, <2>2, PlainStep
<1>3. ASSUME NEW i \in Id, users[i] # None,
             Take(c, "google", "update", i, LinkGoogleSubject(users[i], call[c].user.subject))
      PROVE  IInv'
  <2> DEFINE row == LinkGoogleSubject(users[i], call[c].user.subject)
  <2>1. users[i] \in Row /\ call[c].user.subject \in Subject \cup {None}
    BY <1>1, <1>3, Held DEF StoreType, Row
  <2>2. row \in Row /\ row.version = users[i].version /\ row.password = users[i].password
    BY <2>1 DEF LinkGoogleSubject, Row
  <2> HIDE DEF row
  <2>3. Take(c, "google", "update", i, row)
    BY <1>3 DEF row
  <2> QED
    BY <1>1, <1>3, <2>2, <2>3, TakeStep
<1> QED
  BY <1>2, <1>3 DEF GoogleByEmail, FindByEmail

\* A new password, and the next version with it.
LEMMA ChangedStep ==
  ASSUME IInv, NEW c \in Call, StoreUnchanged, pending' = pending, call[c].pc = "find",
         NEW op \in {"change", "reset"}, NEW new \in Password,
         Take(c, op, "update", call[c].who, ChangePassword(users[call[c].who], new))
  PROVE  IInv'
<1>1. call[c].who \in Id /\ users[call[c].who] # None
  BY Held DEF Own, Shape, Newcomer, Named, CallType
<1>2. PICK i \in Id : i = call[c].who
  BY <1>1
<1>3. users[i] \in Row /\ users[i].version + 1 \in Nat
  BY <1>1, <1>2, Held DEF StoreType, Row
<1> DEFINE next == ChangePassword(users[i], new)
<1>6. next \in Row /\ next.version = users[i].version + 1
  BY <1>3 DEF ChangePassword, Row
<1> HIDE DEF next
<1>4. PICK row \in Row : row = next /\ row.version = users[i].version + 1
  BY <1>6
<1>5. Take(c, op, "update", i, row) /\ users[i] # None
  BY <1>1, <1>2, <1>4 DEF next
<1> QED
  BY <1>4, <1>5, TakeStep

LEMMA CheckPasswordStep == ASSUME IInv, NEW c \in Call, CheckPassword(c) PROVE IInv'
<1>1. StoreUnchanged /\ pending' = pending /\ call[c].pc = "find"
  BY DEF CheckPassword, StoreUnchanged, avars, At
<1>2. CASE Return(c)
  BY <1>1, <1>2, ReturnStep
<1> QED
  BY <1>1, <1>2, ChangedStep DEF CheckPassword

LEMMA ResetPasswordStep == ASSUME IInv, NEW c \in Call, ResetPassword(c) PROVE IInv'
<1>1. StoreUnchanged /\ pending' = pending /\ call[c].pc = "find"
  BY DEF ResetPassword, StoreUnchanged, avars, At
<1> QED
  BY <1>1, ChangedStep DEF ResetPassword

LEMMA ForgotPasswordStep == ASSUME IInv, NEW c \in Call, ForgotPassword(c) PROVE IInv'
<1>1. StoreUnchanged /\ pending' = pending /\ call[c].pc = "idle"
  BY DEF ForgotPassword, StoreUnchanged, avars, Arrives, At
<1>2. CASE UNCHANGED call
  BY <1>1, <1>2, Stutter DEF ForgotPassword, vars, svars, avars
<1>3. CASE \E i \in Id : users[i] # None /\ Take(c, "forgot", "previous", i, users[i])
  <2>1. PICK i \in Id : users[i] # None /\ Take(c, "forgot", "previous", i, users[i])
    BY <1>3
  <2>2. users[i] \in Row
    BY <2>1, Held DEF StoreType
  <2> QED
    BY <1>1, <2>1, <2>2, TakeStep
<1> QED
  BY <1>2, <1>3 DEF ForgotPassword, Refuse, FindByEmail

LEMMA ReadTokenStep == ASSUME IInv, NEW c \in Call, ReadToken(c) PROVE IInv'
<1>1. StoreUnchanged /\ pending' = pending /\ call[c].pc = "idle"
  BY DEF ReadToken, StoreUnchanged, avars, Arrives, At
<1>2. CASE UNCHANGED call
  BY <1>1, <1>2, Stutter DEF ReadToken, vars, svars, avars
<1>3. ASSUME NEW t \in Id, tokens[t] # None,
             call' = [call EXCEPT ![c].op = "reset", ![c].pc = "consume",
                                  ![c].who = tokens[t], ![c].target = t]
      PROVE  IInv'
  <2> DEFINE l == [call[c] EXCEPT !.op = "reset", !.pc = "consume", !.who = tokens[t],
                                  !.target = t]
  <2>1. tokens[t] \in Id /\ users[tokens[t]] # None
    BY <1>3, Held DEF StoreInv, StoreType, Linked
  <2>held. call[c] \in CallType
    BY Held
  <2>2. /\ l \in CallType /\ l.pc = "consume" /\ l.who = tokens[t] /\ l.target = t
        /\ l.todo = call[c].todo /\ l.entries = call[c].entries /\ l.owed = call[c].owed
    BY <2>1, <2>held DEF CallType, Pc
  <2>3. call' = [call EXCEPT ![c] = l]
    BY <1>3, Held DEF CallType
  <2> HIDE DEF l
  <2>4. Moves(c) /\ call'[c] = l
    BY <1>1, <2>2, <2>3, Held, Written
  <2>5. Own(c)' /\ ~Spent(c)
    BY <1>1, <1>3, <2>1, <2>2, <2>4, AtIdle, Ids
    DEF Own, Shape, Newcomer, TokenUnsaved, Snapshot, Creating, Sweep, Changing,
        Early, Named, Sweeping, StoreUnchanged, Spent
  <2> QED
    BY <1>1, <2>2, <2>4, <2>5, PlainStep
<1> QED
  BY <1>2, <1>3 DEF ReadToken, Refuse

LEMMA ReadPreviousStep == ASSUME IInv, NEW c \in Call, ReadPrevious(c) PROVE IInv'
<1> DEFINE t == current[call[c].who]
           pc == IF t = None THEN "save" ELSE "drop"
           l == [call[c] EXCEPT !.target = t, !.pc = pc]
<1>1. /\ StoreUnchanged /\ pending' = pending /\ call[c].pc = "previous" /\ ~Spent(c)
      /\ call[c].who \in Id /\ users[call[c].who] # None
      /\ tokens[c] = None /\ redeemed[c] = 0
      /\ call[c].todo = {} /\ call[c].entries = {} /\ call[c].owed = {}
  BY Held, Ids DEF ReadPrevious, StoreUnchanged, avars, At, Own, Shape, Newcomer, Named,
     TokenUnsaved, Sweeping, CallType, Spent
<1>2. t \in Id \cup {None} /\ call[c] \in CallType /\ pc \in {"save", "drop"}
  BY <1>1, Held DEF StoreType
<1>4. call' = [call EXCEPT ![c] = l]
  BY <1>2 DEF ReadPrevious, CallType
<1> HIDE DEF t, pc
<1>3. /\ l \in CallType /\ l.pc \in {"save", "drop"} /\ l.who = call[c].who
      /\ l.todo = {} /\ l.entries = {} /\ l.owed = {}
  <2>1. pc \in Pc
    BY <1>2 DEF Pc
  <2>2. l \in CallType
    BY <1>2, <2>1 DEF CallType
  <2> QED
    BY <1>1, <1>2, <2>2 DEF CallType
<1> HIDE DEF l
<1>5. Moves(c) /\ call'[c] = l
  BY <1>1, <1>3, <1>4, Held, Written
<1>6. Own(c)'
  BY <1>1, <1>3, <1>5, Ids
  DEF Own, Shape, Newcomer, TokenUnsaved, Snapshot, Creating, Sweep, Changing,
      Early, Named, Sweeping, StoreUnchanged
<1> QED
  BY <1>1, <1>3, <1>5, <1>6, PlainStep

\* Whoever ends without a trace in the store.
LEMMA FailStep == ASSUME IInv, NEW c \in Call, Fail(c) PROVE IInv'
<1> DEFINE pc == IF Live(c) THEN "failed" ELSE "done"
           l == Empty(pc)
<1>1. StoreUnchanged /\ pending' = [pending EXCEPT ![c] = NoTrx] /\ call' = [call EXCEPT ![c] = l]
  BY DEF Fail, StoreUnchanged
<1>2. NoTrx \in [row : Row \cup {None}, event : BOOLEAN]
  BY DEF NoTrx
<1>3. pc \in {"done", "failed"} /\ (pc = "done" => ~Live(c))
  OBVIOUS
<1> HIDE DEF pc
<1>4. pc \in Pc
  BY <1>3 DEF Pc
<1>5. l \in CallType /\ l.pc = pc
  BY <1>4, EmptyFields
<1> HIDE DEF l
<1>6. Moves(c) /\ call'[c] = l
  BY <1>1, <1>2, <1>5, Held, Written
<1>7. Own(c)'
  BY <1>3, <1>6, EndedOwn DEF l
<1> QED
  BY <1>1, <1>3, <1>5, <1>6, <1>7, PlainStep

-----------------------------------------------------------------------------
(* Listing and revoking sessions.                                           *)

LEMMA ListMembersStep == ASSUME IInv, NEW c \in Call, ListMembers(c), UNCHANGED avars PROVE IInv'
<1> DEFINE u == call[c].who
           owed == IF call[c].op = "listSessions" THEN {} ELSE Owed(u) \ {call[c].target}
           l == [call[c] EXCEPT !.pc = "load", !.todo = index[u].members, !.owed = owed]
<1>1. /\ StoreUnchanged /\ pending' = pending /\ call[c].pc = "list" /\ ~Spent(c)
      /\ u \in Id /\ users[u] # None /\ call[c].entries = {}
  BY Held, Ids DEF ListMembers, StoreUnchanged, avars, At, Own, Shape, Newcomer, Named,
     Sweeping, CallType, Spent
<1> DEFINE members == index[u].members
<1>2. members \subseteq Id /\ owed \subseteq Id /\ call[c].target \notin owed
  BY <1>1, Held DEF StoreType, Owed
<1>3. \A s \in members : Spent(s) /\ (Live(s) => sessions[s].user = u)
  BY <1>1, Held DEF StoreInv, Members
<1>4. \A s \in owed : s \in members /\ Spent(s)
  BY <1>1, Held DEF Owed, StoreInv, SessionsIndexed, SessionsFit, Issued
<1>5. /\ l \in CallType /\ l.pc = "load" /\ l.who = u /\ l.op = call[c].op
      /\ l.target = call[c].target /\ l.user = call[c].user
      /\ l.todo = members /\ l.entries = {} /\ l.owed = owed
  <2>1. call[c] \in CallType
    BY Held
  <2> HIDE DEF owed
  <2> QED
    BY <1>1, <1>2, <2>1 DEF CallType, Pc
<1>6. call' = [call EXCEPT ![c] = l]
  BY Held DEF ListMembers, CallType
<1> HIDE DEF l, owed, members
<1>7. Moves(c) /\ call'[c] = l
  BY <1>1, <1>5, <1>6, Held, Written
<1>8. \A s \in Id : Spent(s) => Spent(s)'
  BY <1>1, <1>7, Ids DEF Spent, Moves, Id
<1>9. Shape(c)' /\ Newcomer(c)' /\ TokenUnsaved(c)' /\ Creating(c)'
  BY <1>1, <1>5, <1>7, Ids
  DEF Shape, Newcomer, TokenUnsaved, Creating, Early, Named, Sweeping, StoreUnchanged
<1>10. Snapshot(c)'
  BY <1>1, <1>5, <1>7, Held DEF Own, Snapshot, Changing, Sweeping, StoreUnchanged, Fits
<1>11. Sweep(c)'
  BY <1>1, <1>2, <1>3, <1>4, <1>5, <1>7, <1>8 DEF Sweep, Live, StoreUnchanged
<1> QED
  BY <1>1, <1>5, <1>7, <1>9, <1>10, <1>11, PlainStep DEF Own

LEMMA EndListStep == ASSUME IInv, NEW c \in Call, EndList(c), UNCHANGED avars PROVE IInv'
<1>1. /\ StoreUnchanged /\ pending' = pending /\ call[c].pc = "load" /\ ~Spent(c)
      /\ call[c].who \in Id /\ users[call[c].who] # None /\ call[c].todo = {}
      /\ call[c].entries \subseteq Id /\ call[c].owed \subseteq Id
  BY Held, Ids DEF EndList, StoreUnchanged, avars, At, Own, Shape, Newcomer, Named,
     CallType, Spent
<1>2. CASE Return(c)
  BY <1>1, <1>2, ReturnStep
<1>3. CASE Goto(c, "purge")
  <2>1. /\ Moves(c) /\ call'[c].pc = "purge" /\ call'[c].op = call[c].op
        /\ call'[c].who = call[c].who /\ call'[c].user = call[c].user
        /\ call'[c].target = call[c].target /\ call'[c].todo = call[c].todo
        /\ call'[c].entries = call[c].entries /\ call'[c].owed = call[c].owed
    BY <1>1, <1>3, Held, GotoFields DEF Pc
  <2>2. \A s \in Id : Spent(s) => Spent(s)'
    BY <1>1, <2>1, Ids DEF Spent, Moves, Id
  <2>3. Shape(c)' /\ Newcomer(c)' /\ TokenUnsaved(c)' /\ Creating(c)'
    BY <1>1, <2>1, Ids
    DEF Shape, Newcomer, TokenUnsaved, Creating, Early, Named, Sweeping, StoreUnchanged
  <2>4. Snapshot(c)'
    BY <1>1, <2>1, Held DEF Own, Snapshot, Changing, Sweeping, StoreUnchanged, Fits
  <2>5. Sweep(c)'
    BY <1>1, <2>1, <2>2, Held, Ids DEF Own, Sweep, Sweeping, Live, StoreUnchanged
  <2> QED
    BY <1>1, <2>1, <2>3, <2>4, <2>5, PlainStep DEF Own
<1> QED
  BY <1>2, <1>3 DEF EndList

LEMMA EndPurgeStep == ASSUME IInv, NEW c \in Call, EndPurge(c), UNCHANGED avars PROVE IInv'
<1>1. /\ StoreUnchanged /\ pending' = pending /\ call[c].pc = "purge" /\ ~Spent(c)
  BY Ids DEF EndPurge, StoreUnchanged, avars, At, Spent
<1>2. CASE Return(c)
  BY <1>1, <1>2, ReturnStep
<1>3. CASE call[c].op \in {"change", "reset"} /\ Goto(c, "set")
  <2>1. /\ Moves(c) /\ call'[c].pc = "set" /\ call'[c].op = call[c].op
        /\ call'[c].who = call[c].who /\ call'[c].user = call[c].user
        /\ call'[c].target = call[c].target /\ call'[c].todo = call[c].todo
        /\ call'[c].entries = call[c].entries /\ call'[c].owed = call[c].owed
    BY <1>1, <1>3, Held, GotoFields DEF Pc
  <2>2. \A s \in Id : Spent(s) => Spent(s)'
    BY <1>1, <2>1, Ids DEF Spent, Moves, Id
  <2>3. /\ call[c].who \in Id /\ users[call[c].who] # None /\ call[c].who # None
        /\ call[c].todo \subseteq Id /\ call[c].entries \subseteq Id
    BY <1>1, <1>3, Held DEF Own, Shape, Newcomer, CallType
  <2>4. Shape(c)' /\ Newcomer(c)' /\ TokenUnsaved(c)' /\ Creating(c)'
    BY <1>1, <2>1, <2>3
    DEF Shape, Newcomer, TokenUnsaved, Creating, Early, Named, Sweeping, StoreUnchanged
  <2>5. Snapshot(c)'
    BY <1>1, <1>3, <2>1, Held DEF Own, Snapshot, Changing, Sweeping, StoreUnchanged, Fits
  <2>6. Sweep(c)'
    BY <1>1, <2>1, <2>2, <2>3, Held DEF Own, Sweep, Sweeping, Live, StoreUnchanged
  <2> QED
    BY <1>1, <2>1, <2>4, <2>5, <2>6, PlainStep DEF Own
<1> QED
  BY <1>2, <1>3 DEF EndPurge

\* A request comes in with l in hand.
LEMMA ArrivedStep ==
  ASSUME IInv, NEW c \in Call, StoreUnchanged, pending' = pending,
         NEW l \in CallType, call' = [call EXCEPT ![c] = l], ~Spent(c),
         l.pc \in {"find", "get", "list", "purge"},
         IF l.pc = "purge" THEN l.who = None \/ (l.who # None /\ users[l.who] # None)
                           ELSE l.who # None /\ users[l.who] # None,
         l.pc = "purge" /\ l.op # "logout" => l.who # None,
         l.pc = "get" => l.op = "revokeOne",
         l.todo = {}, l.owed = {}, l.pc # "purge" => l.entries = {}, ~Changing(c)',
         l.who = None => \A s, t \in l.entries : s = t,
         l.who # None => \A s \in l.entries : Live(s) /\ sessions[s].user = l.who
  PROVE  IInv'
<1>1. Moves(c) /\ call'[c] = l
  BY Held, Written
<1>2. \A s \in Id : Spent(s) => Spent(s)'
  BY <1>1, Ids DEF Spent, Moves, Id
<1>3. Shape(c)' /\ Newcomer(c)' /\ TokenUnsaved(c)' /\ Creating(c)' /\ Snapshot(c)'
  BY <1>1
  DEF Shape, Newcomer, TokenUnsaved, Creating, Snapshot, Early, Named, Sweeping, StoreUnchanged
<1>4. \A s \in l.entries : l.who # None => Spent(s)'
  <2>1. l.entries \subseteq Id
    BY DEF CallType
  <2> QED
    BY <1>2, <2>1, Held DEF StoreInv, SessionsFit
<1>5. Sweep(c)'
  BY <1>1, <1>4 DEF Sweep, Sweeping, Live, StoreUnchanged
<1> QED
  BY <1>1, <1>3, <1>5, PlainStep DEF Own

LEMMA AuthenticateStep ==
  ASSUME IInv, NEW c \in Call, Authenticate(c), UNCHANGED avars PROVE IInv'
<1>1. PICK s \in Id, op \in Guarded :
        /\ Accepted(s)
        /\ call' = [call EXCEPT
             ![c].op = op, ![c].who = sessions[s].user,
             ![c].target = IF op = "revokeOthers" THEN s ELSE None,
             ![c].pc = CASE op = "change" -> "find" [] op = "revokeOne" -> "get"
                         [] OTHER -> "list"]
  BY DEF Authenticate
<1> DEFINE pc == CASE op = "change" -> "find" [] op = "revokeOne" -> "get" [] OTHER -> "list"
           target == IF op = "revokeOthers" THEN s ELSE None
           l == [call[c] EXCEPT !.op = op, !.who = sessions[s].user, !.target = target,
                                !.pc = pc]
<1>2. StoreUnchanged /\ pending' = pending /\ call[c].pc = "idle"
  BY DEF Authenticate, StoreUnchanged, avars, Arrives, At
<1>3. sessions[s].user \in Id /\ users[sessions[s].user] # None
  BY <1>1, Held DEF Accepted, Live, StoreType, SessionType
<1>4. pc \in {"find", "get", "list"} /\ target \in Id \cup {None}
      /\ (op = "change" => pc = "find") /\ (pc = "get" => op = "revokeOne")
  BY <1>1
<1>5. call' = [call EXCEPT ![c] = l]
  BY <1>1, Held DEF CallType
<1> HIDE DEF pc, target
<1>6. /\ l \in CallType /\ l.op = op /\ l.who = sessions[s].user /\ l.pc = pc
      /\ l.todo = {} /\ l.entries = {} /\ l.owed = {}
  <2>1. call[c] \in CallType /\ pc \in Pc
    BY <1>4, Held DEF Pc
  <2>2. op \in {"change", "listSessions", "revokeOne", "revokeOthers", "revokeAll"}
    BY <1>1 DEF Guarded
  <2> QED
    BY <1>2, <1>3, <1>4, <2>1, <2>2, AtIdle DEF CallType
<1>7. ~Changing(c)'
  BY <1>1, <1>4, <1>5, <1>6, Held DEF Changing, Guarded, Sweeping
<1> HIDE DEF l
<1>8. ~Spent(c) /\ sessions[s].user # None
  BY <1>2, <1>3, Ids DEF Spent
<1> QED
  BY <1>2, <1>3, <1>4, <1>5, <1>6, <1>7, <1>8, ArrivedStep

LEMMA RevokeOneStep ==
  ASSUME IInv, NEW c \in Call, RevokeOne(c), UNCHANGED avars PROVE IInv'
<1>1. StoreUnchanged /\ pending' = pending /\ call[c].pc = "get" /\ ~Spent(c)
  BY Ids DEF RevokeOne, StoreUnchanged, avars, At, Spent
<1>2. CASE Return(c)
  BY <1>1, <1>2, ReturnStep
<1>3. ASSUME NEW s \in Id, Live(s), sessions[s].user = call[c].who,
             call' = [call EXCEPT ![c].pc = "purge", ![c].entries = {s}]
      PROVE  IInv'
  <2> DEFINE l == [call[c] EXCEPT !.pc = "purge", !.entries = {s}]
  <2>1. /\ call[c] \in CallType /\ call[c].who # None /\ users[call[c].who] # None
        /\ call[c].todo = {} /\ call[c].owed = {}
    BY <1>1, Held DEF Own, Shape, Newcomer, Named, Sweeping
  <2>2. /\ l \in CallType /\ l.pc = "purge" /\ l.who = call[c].who /\ l.op = call[c].op
        /\ l.todo = {} /\ l.owed = {} /\ l.entries = {s}
    BY <2>1 DEF CallType, Pc
  <2>3. call' = [call EXCEPT ![c] = l]
    BY <1>3, <2>1 DEF CallType
  <2> HIDE DEF l
  <2>4. ~Changing(c)'
    BY <1>1, <2>1, <2>2, <2>3, Held DEF Changing, Own, Shape
  <2> QED
    BY <1>1, <1>3, <2>1, <2>2, <2>3, <2>4, ArrivedStep
<1> QED
  BY <1>2, <1>3 DEF RevokeOne

LEMMA LogoutStep ==
  ASSUME IInv, NEW c \in Call, Logout(c), UNCHANGED avars PROVE IInv'
<1>1. StoreUnchanged /\ pending' = pending /\ call[c].pc = "idle" /\ ~Spent(c)
  BY Ids DEF Logout, StoreUnchanged, avars, Arrives, At, Spent
<1>2. PICK s \in Id :
        call' = [call EXCEPT ![c].op = "logout", ![c].pc = "purge", ![c].entries = {s}]
  BY DEF Logout
<1> DEFINE l == [call[c] EXCEPT !.op = "logout", !.pc = "purge", !.entries = {s}]
<1>3. /\ l \in CallType /\ l.pc = "purge" /\ l.who = None /\ l.op = "logout"
      /\ l.todo = {} /\ l.owed = {} /\ l.entries = {s}
  <2>1. call[c] \in CallType
    BY Held
  <2> QED
    BY <1>1, <2>1, AtIdle DEF CallType, Pc
<1>4. call' = [call EXCEPT ![c] = l]
  BY <1>2, Held DEF CallType
<1>5. ~Changing(c)'
  BY <1>3, <1>4, Held DEF Changing
<1> HIDE DEF l
<1> QED
  BY <1>1, <1>3, <1>4, <1>5, ArrivedStep

-----------------------------------------------------------------------------
(* Reset tokens.                                                            *)

LEMMA TokensLater ==
  ASSUME IInv, UNCHANGED <<users, sessions, index, lapsed, events, overwritten>>,
         tokens' \in [Id -> Id \cup {None}], current' \in [Id -> Id \cup {None}],
         redeemed' \in [Id -> Nat], Redeemed',
         \A t \in Id : tokens'[t] # None => users[tokens'[t]] # None,
         \A s \in Id : (Spent(s) => Spent(s)') /\ (Issued(s)' => Issued(s))
  PROVE  StoreInv' /\ Later
<1>1. /\ StoreType /\ StoreType' /\ Linked' /\ EventsMatchUsers'
  BY DEF IInv, StoreInv, StoreType, Linked, EventsMatchUsers
<1>2. SessionsFit' /\ Members' /\ SessionsIndexed'
  BY <1>1 DEF IInv, StoreInv, StoreType, SessionsFit, Members, SessionsIndexed, Live, Fits
<1>3. \A u \in Id : users[u] # None => users[u].version <= users'[u].version
  BY <1>1 DEF StoreType, Row
<1> QED
  BY <1>1, <1>2, <1>3 DEF StoreInv, Later, Live

\* ... of a request that issues no session.
LEMMA TokenStep ==
  ASSUME IInv, NEW c \in Call, UNCHANGED <<users, sessions, index, lapsed, events, overwritten>>,
         tokens' \in [Id -> Id \cup {None}], current' \in [Id -> Id \cup {None}],
         redeemed' \in [Id -> Nat], Redeemed',
         \A t \in Id : tokens'[t] # None => users[tokens'[t]] # None,
         Moves(c), ~Spent(c), Own(c)',
         \A d \in Call \ {c} : call[d].pc \in {"idle", "previous", "drop", "save"} =>
            tokens'[d] = tokens[d] /\ redeemed'[d] = redeemed[d]
  PROVE  IInv'
<1>1. ASSUME NEW s \in Id PROVE (Spent(s) => Spent(s)') /\ (Issued(s)' => Issued(s))
  <2>1. ~Live(c)
    BY Held DEF StoreInv, SessionsFit
  <2>2. \A d \in Call \ {c} : call'[d] = call[d]
    BY DEF Moves
  <2>3. s \in Call \/ s = Old
    BY DEF Id
  <2> QED
    BY <2>1, <2>2, <2>3, Ids DEF Spent, Issued, Live, At
<1>2. StoreInv' /\ Later
  BY <1>1, TokensLater
<1>3. \A d \in Call \ {c} : Spares(d)
  BY DEF Spares
<1> QED
  BY <1>2, <1>3, Step

LEMMA ConsumeTokenStep == ASSUME IInv, NEW c \in Call, ConsumeToken(c) PROVE IInv'
<1> DEFINE t == call[c].target
<1>1. /\ call[c].pc = "consume" /\ t \in Id /\ call[c].who \in Id /\ users[call[c].who] # None
      /\ call[c].todo = {} /\ call[c].entries = {} /\ call[c].owed = {} /\ ~Spent(c)
      /\ call[c].who # None /\ call[c].target # None
  BY Held, Ids DEF ConsumeToken, At, Own, Shape, Newcomer, Named, Sweeping, CallType, Spent
<1>2. CASE tokens[t] = call[c].who
  <2>1. /\ tokens' = [tokens EXCEPT ![t] = None] /\ Goto(c, "forget")
        /\ redeemed' = [redeemed EXCEPT ![t] = @ + 1] /\ pending' = pending
        /\ UNCHANGED <<users, sessions, index, lapsed, events, overwritten>> /\ current' = current
    BY <1>2 DEF ConsumeToken
  <2>2. tokens \in [Id -> Id \cup {None}] /\ redeemed \in [Id -> Nat] /\ current \in [Id -> Id \cup {None}]
    BY Held DEF StoreType
  <2>3. redeemed[t] = 0
    BY <1>1, <1>2, Held DEF StoreInv, Redeemed
  <2>4. /\ tokens' \in [Id -> Id \cup {None}] /\ redeemed' \in [Id -> Nat]
        /\ tokens'[t] = None /\ redeemed'[t] = 1
        /\ \A s \in Id \ {t} : tokens'[s] = tokens[s] /\ redeemed'[s] = redeemed[s]
    BY <1>1, <2>1, <2>2, <2>3
  <2>5. Redeemed'
    BY <2>4, Held DEF StoreInv, Redeemed
  <2>6. \A s \in Id : tokens'[s] # None => users[tokens'[s]] # None
    BY <2>4, Held DEF StoreInv, Linked
  <2>7. /\ Moves(c) /\ call'[c].pc = "forget" /\ call'[c].op = call[c].op
        /\ call'[c].who = call[c].who /\ call'[c].target = call[c].target
        /\ call'[c].todo = call[c].todo
        /\ call'[c].entries = call[c].entries /\ call'[c].owed = call[c].owed
    BY <2>1, Held, GotoFields DEF Pc
  <2>8. Own(c)'
    BY <1>1, <2>1, <2>7
    DEF Own, Shape, Newcomer, TokenUnsaved, Snapshot, Creating, Sweep, Changing,
        Early, Named, Sweeping
\* Nobody that has yet to save its token can have it redeemed.
  <2>9. ASSUME NEW d \in Call, call[d].pc \in {"idle", "previous", "drop", "save"}
        PROVE  tokens'[d] = tokens[d] /\ redeemed'[d] = redeemed[d]
    <3>1. tokens[d] = None /\ d \in Id
      BY <2>9, Held DEF Own, TokenUnsaved
    <3>2. d # t
      BY <1>1, <1>2, <3>1
    <3> QED
      BY <2>4, <3>1, <3>2
  <2>10. current' \in [Id -> Id \cup {None}]
    BY <2>1, <2>2
  <2> QED
    BY <1>1, <2>1, <2>4, <2>5, <2>6, <2>7, <2>8, <2>9, <2>10, TokenStep
<1>3. CASE tokens[t] # call[c].who
  BY <1>1, <1>3, ReturnStep DEF ConsumeToken, StoreUnchanged
<1> QED
  BY <1>2, <1>3

LEMMA ForgetCurrentStep == ASSUME IInv, NEW c \in Call, ForgetCurrent(c) PROVE IInv'
<1>1. /\ call[c].pc = "forget" /\ call[c].who \in Id /\ users[call[c].who] # None
      /\ call[c].todo = {} /\ call[c].entries = {} /\ call[c].owed = {} /\ ~Spent(c)
      /\ call[c].who # None
  BY Held, Ids DEF ForgetCurrent, At, Own, Shape, Newcomer, Named, Sweeping, CallType, Spent
<1>2. UNCHANGED <<users, sessions, index, lapsed, events, overwritten, tokens, redeemed, pending>>
      /\ Goto(c, "find")
  BY DEF ForgetCurrent
<1>3. /\ tokens' \in [Id -> Id \cup {None}] /\ current' \in [Id -> Id \cup {None}]
      /\ redeemed' \in [Id -> Nat]
  BY <1>2, Held DEF ForgetCurrent, StoreType
<1>4. Redeemed' /\ \A s \in Id : tokens'[s] # None => users[tokens'[s]] # None
  BY <1>2, Held DEF StoreInv, Redeemed, Linked
<1>5. /\ Moves(c) /\ call'[c].pc = "find" /\ call'[c].who = call[c].who
      /\ call'[c].todo = call[c].todo
      /\ call'[c].entries = call[c].entries /\ call'[c].owed = call[c].owed
  BY <1>2, Held, GotoFields DEF Pc
<1>6. Own(c)'
  BY <1>1, <1>2, <1>5
  DEF Own, Shape, Newcomer, TokenUnsaved, Snapshot, Creating, Sweep, Changing,
      Early, Named, Sweeping
<1> QED
  BY <1>1, <1>2, <1>3, <1>4, <1>5, <1>6, TokenStep

LEMMA DropPreviousStep == ASSUME IInv, NEW c \in Call, DropPrevious(c) PROVE IInv'
<1>1. /\ call[c].pc = "drop" /\ call[c].who \in Id /\ users[call[c].who] # None
      /\ call[c].todo = {} /\ call[c].entries = {} /\ call[c].owed = {} /\ ~Spent(c)
      /\ call[c].who # None /\ tokens[c] = None /\ redeemed[c] = 0
  BY Held, Ids DEF DropPrevious, At, Own, Shape, Newcomer, TokenUnsaved, Named, Sweeping,
                   CallType, Spent
<1>2. /\ UNCHANGED <<users, sessions, index, lapsed, events, overwritten, current, redeemed, pending>>
      /\ tokens' = [tokens EXCEPT ![call[c].target] = None] /\ Goto(c, "save")
  BY DEF DropPrevious
<1>3. /\ tokens' \in [Id -> Id \cup {None}] /\ current' \in [Id -> Id \cup {None}]
      /\ redeemed' \in [Id -> Nat] /\ \A s \in Id : tokens'[s] \in {tokens[s], None}
  BY <1>2, Held DEF StoreType
<1>4. Redeemed' /\ \A s \in Id : tokens'[s] # None => users[tokens'[s]] # None
  BY <1>2, <1>3, Held DEF StoreInv, Redeemed, Linked
<1>5. /\ Moves(c) /\ call'[c].pc = "save" /\ call'[c].who = call[c].who
      /\ call'[c].todo = call[c].todo
      /\ call'[c].entries = call[c].entries /\ call'[c].owed = call[c].owed
  BY <1>2, Held, GotoFields DEF Pc
<1>6. tokens'[c] = None
  BY <1>1, <1>3, Held
<1>7. Own(c)'
  BY <1>1, <1>2, <1>5, <1>6
  DEF Own, Shape, Newcomer, TokenUnsaved, Snapshot, Creating, Sweep, Changing,
      Early, Named, Sweeping
<1>8. \A d \in Call : call[d].pc \in {"idle", "previous", "drop", "save"} =>
        tokens'[d] = tokens[d] /\ redeemed'[d] = redeemed[d]
  BY <1>2, <1>3, Held DEF Own, TokenUnsaved
<1> QED
  BY <1>1, <1>2, <1>3, <1>4, <1>5, <1>7, <1>8, TokenStep

LEMMA SaveTokenStep == ASSUME IInv, NEW c \in Call, SaveToken(c) PROVE IInv'
<1>1. /\ call[c].pc = "save" /\ call[c].who \in Id /\ users[call[c].who] # None
      /\ call[c].todo = {} /\ call[c].entries = {} /\ call[c].owed = {} /\ ~Spent(c)
      /\ call[c].who # None /\ redeemed[c] = 0 /\ c \in Id
  BY Held, Ids DEF SaveToken, At, Own, Shape, Newcomer, TokenUnsaved, Named, Sweeping,
                   CallType, Spent
<1>2. /\ UNCHANGED <<users, sessions, index, lapsed, events, overwritten, current, redeemed, pending>>
      /\ tokens' = [tokens EXCEPT ![c] = call[c].who] /\ Goto(c, "point")
  BY DEF SaveToken
<1>3. /\ tokens' \in [Id -> Id \cup {None}] /\ current' \in [Id -> Id \cup {None}]
      /\ redeemed' \in [Id -> Nat] /\ tokens'[c] = call[c].who
      /\ \A s \in Id \ {c} : tokens'[s] = tokens[s]
  BY <1>1, <1>2, Held DEF StoreType
<1>4. Redeemed' /\ \A s \in Id : tokens'[s] # None => users[tokens'[s]] # None
  BY <1>1, <1>2, <1>3, Held DEF StoreInv, Redeemed, Linked
<1>5. /\ Moves(c) /\ call'[c].pc = "point" /\ call'[c].who = call[c].who
      /\ call'[c].todo = call[c].todo
      /\ call'[c].entries = call[c].entries /\ call'[c].owed = call[c].owed
  BY <1>2, Held, GotoFields DEF Pc
<1>6. Own(c)'
  BY <1>1, <1>2, <1>5
  DEF Own, Shape, Newcomer, TokenUnsaved, Snapshot, Creating, Sweep, Changing,
      Early, Named, Sweeping
<1>7. \A d \in Call \ {c} : tokens'[d] = tokens[d] /\ redeemed'[d] = redeemed[d]
  BY <1>2, <1>3, Ids
<1> QED
  BY <1>1, <1>2, <1>3, <1>4, <1>5, <1>6, <1>7, TokenStep

LEMMA PointToTokenStep == ASSUME IInv, NEW c \in Call, PointToToken(c) PROVE IInv'
<1>1. call[c].pc = "point" /\ call[c].who \in Id /\ ~Spent(c)
  BY Held, Ids DEF PointToToken, At, Own, Shape, Named, CallType, Spent
<1>2. UNCHANGED <<users, sessions, index, lapsed, events, overwritten, tokens, redeemed, pending>>
      /\ Return(c)
  BY DEF PointToToken
<1>3. /\ tokens' \in [Id -> Id \cup {None}] /\ current' \in [Id -> Id \cup {None}]
      /\ redeemed' \in [Id -> Nat]
  BY <1>2, Held DEF PointToToken, StoreType
<1>4. Redeemed' /\ \A s \in Id : tokens'[s] # None => users[tokens'[s]] # None
  BY <1>2, Held DEF StoreInv, Redeemed, Linked
<1>5. Moves(c) /\ Own(c)'
  BY <1>2, Held, ReturnMoves
<1> QED
  BY <1>1, <1>2, <1>3, <1>4, <1>5, TokenStep

LEMMA ExpireTokenStep == ASSUME IInv, ExpireToken PROVE IInv'
<1>1. PICK t \in Id : tokens' = [tokens EXCEPT ![t] = None]
  BY DEF ExpireToken
<1>2. UNCHANGED <<users, sessions, index, lapsed, events, overwritten, current, redeemed, pending, call>>
  BY DEF ExpireToken
<1>3. /\ tokens' \in [Id -> Id \cup {None}] /\ current' \in [Id -> Id \cup {None}]
      /\ redeemed' \in [Id -> Nat] /\ \A s \in Id : tokens'[s] \in {tokens[s], None}
  BY <1>1, <1>2 DEF IInv, StoreInv, StoreType
<1>4. Redeemed' /\ \A s \in Id : tokens'[s] # None => users[tokens'[s]] # None
  BY <1>2, <1>3 DEF IInv, StoreInv, Redeemed, Linked
<1>5. \A s \in Id : (Spent(s) => Spent(s)') /\ (Issued(s)' => Issued(s))
  BY <1>2 DEF Spent, Issued, Live, At
<1>6. StoreInv' /\ Later
  BY <1>2, <1>3, <1>4, <1>5, TokensLater
<1>7. \A d \in Call : Spares(d)
  BY <1>2, <1>3, Held DEF Spares, Own, TokenUnsaved
<1> QED
  BY <1>2, <1>6, <1>7, Nobody

-----------------------------------------------------------------------------
(* Rows of the users table.                                                 *)

\* A row is written whose version and password follow the one before it, or
\* whose user is known to have been overwritten.
LEMMA UsersLater ==
  ASSUME IInv, UNCHANGED <<sessions, index, lapsed, tokens, current, redeemed>>,
         NEW i \in Id, NEW row \in Row, users' = [users EXCEPT ![i] = row],
         events' \in [Id -> Nat], EventsMatchUsers', overwritten' \in {overwritten, overwritten \cup {i}},
         users[i] # None =>
            \/ i \in overwritten'
            \/ /\ users[i].version <= row.version
               /\ users[i].version = row.version => users[i].password = row.password,
         \A s \in Id : (Spent(s) => Spent(s)') /\ (Issued(s)' => Issued(s))
  PROVE  StoreInv' /\ Later
<1>1. /\ StoreInv /\ StoreType /\ users \in [Id -> Row \cup {None}] /\ row # None
  BY Ids DEF IInv, StoreInv, StoreType
<1>2. /\ users' \in [Id -> Row \cup {None}] /\ users'[i] = row
      /\ \A j \in Id \ {i} : users'[j] = users[j]
  BY <1>1
<1>3. StoreType'
  BY <1>1, <1>2 DEF StoreType
<1>4. \A j \in Id : users[j] # None => users'[j] # None
  BY <1>1, <1>2
<1>5. Later
  <2>1. ASSUME NEW u \in Id, users[u] # None, u \notin overwritten'
        PROVE  /\ u \notin overwritten /\ users[u].version <= users'[u].version
               /\ users[u].version = users'[u].version => users[u].password = users'[u].password
    <3>1. users[u].version \in Nat
      BY <1>1, <2>1 DEF Row
    <3> QED
      BY <1>2, <2>1, <3>1
  <2> QED
    BY <1>4, <2>1 DEF Later, Live
<1>6. Linked' /\ Redeemed'
  BY <1>1, <1>4 DEF StoreInv, StoreType, Linked, Redeemed, SessionType
<1>7. SessionsFit'
  <2>1. SUFFICES ASSUME NEW s \in Id, Live(s)
                 PROVE  Spent(s)' /\ Fits(sessions[s].user, sessions[s].version, sessions[s].password)'
    BY DEF SessionsFit, Live, Fits
  <2>2. /\ sessions[s] \in SessionType /\ users[sessions[s].user] # None
        /\ Spent(s) /\ Fits(sessions[s].user, sessions[s].version, sessions[s].password)
    BY <1>1, <2>1 DEF StoreInv, StoreType, Linked, SessionsFit, Live
  <2>3. PICK u \in Id, v \in Nat, pw \in {sessions[s].password} :
          u = sessions[s].user /\ v = sessions[s].version /\ pw = sessions[s].password
    BY <2>2 DEF SessionType
  <2>4. Fits(u, v, pw)'
    BY <1>1, <1>3, <1>5, <2>2, <2>3, FitsLater
  <2> QED
    BY <2>2, <2>3, <2>4 DEF Fits
<1>8. Members' /\ SessionsIndexed'
  BY <1>1 DEF StoreInv, StoreType, Members, SessionsIndexed, Live
<1> QED
  BY <1>3, <1>5, <1>6, <1>7, <1>8 DEF StoreInv

LEMMA Unspent ==
  ASSUME IInv, NEW c \in Call, Moves(c), ~Spent(c)
  PROVE  /\ ~Live(c)
         /\ sessions'[c] = sessions[c] =>
              \A s \in Id : (Spent(s) => Spent(s)') /\
                            (sessions'[s] = sessions[s] /\ Issued(s)' => Issued(s))
<1>1. ~Live(c)
  BY Held DEF StoreInv, SessionsFit
<1>2. \A d \in Call \ {c} : call'[d] = call[d]
  BY DEF Moves
<1> QED
  BY <1>1, <1>2, Ids DEF Spent, Issued, Live, At, Id

LEMMA CommitStep == ASSUME IInv, NEW c \in Call, Commit(c) PROVE IInv'
<1> DEFINE row == pending[c].row
<1>1. /\ call[c].pc = "commit" /\ row # None /\ row \in Row /\ users[c] = None /\ ~Spent(c)
      /\ call[c].todo = {} /\ call[c].entries = {} /\ call[c].owed = {} /\ call[c].who = c
      /\ pending[c].event = TRUE /\ call[c].user = row
  BY Held, Ids DEF Commit, At, Own, Shape, Newcomer, Early, Sweeping, Spent
<1>2. /\ users' = [users EXCEPT ![c] = row] /\ c \in Id
      /\ UNCHANGED <<sessions, index, lapsed, tokens, current, redeemed, overwritten>>
  BY Held DEF Commit
<1>3. events' = [events EXCEPT ![c] = @ + 1] /\ events[c] = 0
  BY <1>1, Held DEF Commit, StoreInv, EventsMatchUsers
<1>4. events' \in [Id -> Nat] /\ EventsMatchUsers'
  BY <1>1, <1>2, <1>3, Held DEF StoreInv, StoreType, EventsMatchUsers
<1>5. pending' = [pending EXCEPT ![c] = NoTrx]
      /\ NoTrx \in [row : Row \cup {None}, event : BOOLEAN]
  BY DEF Commit, NoTrx
<1>6. Moves(c) /\ Own(c)'
  <2>1. CASE Return(c)
    BY <1>5, <2>1, Held, ReturnMoves
  <2>2. CASE Goto(c, "set")
    <3>1. /\ Moves(c) /\ call'[c].pc = "set" /\ call'[c].who = c
          /\ call'[c].user = row /\ call'[c].todo = {} /\ call'[c].entries = {}
          /\ call'[c].owed = {}
      BY <1>1, <1>5, <2>2, Held, GotoFields DEF Pc
    <3>2. users'[c] = row /\ row.version \in Nat /\ c # None
      BY <1>1, <1>2, Held, Ids DEF StoreType, Row
    <3>3. Own(c)'
      BY <1>1, <1>2, <3>1, <3>2
      DEF Own, Shape, Newcomer, TokenUnsaved, Snapshot, Creating, Sweep, Changing,
          Early, Named, Sweeping, Fits
    <3> QED
      BY <3>1, <3>3
  <2> QED
    BY <2>1, <2>2 DEF Commit
<1>7. \A s \in Id : (Spent(s) => Spent(s)') /\ (Issued(s)' => Issued(s))
  BY <1>1, <1>2, <1>6, Unspent
<1>8. StoreInv' /\ Later
  <2>1. PICK r \in Row : r = row
    BY <1>1
  <2>2. users' = [users EXCEPT ![c] = r]
    BY <1>2, <2>1
  <2> QED
    BY <1>1, <1>2, <1>4, <1>7, <2>2, UsersLater
<1>9. \A d \in Call \ {c} : Spares(d)
  BY <1>2, Ids DEF Spares
<1> QED
  BY <1>6, <1>8, <1>9, Step

LEMMA IncrementAuthVersionStep ==
  ASSUME IInv, NEW c \in Call, IncrementAuthVersion(c) PROVE IInv'
<1>1. PICK i \in Id : users[i] # None /\ users' = [users EXCEPT ![i].version = @ + 1]
  BY DEF IncrementAuthVersion
<1>2. /\ UNCHANGED <<sessions, index, lapsed, tokens, current, redeemed, overwritten, events, pending>>
      /\ Return(c) /\ call[c].pc = "idle" /\ ~Spent(c)
  BY Ids DEF IncrementAuthVersion, avars, Arrives, At, Spent
<1> DEFINE row == [users[i] EXCEPT !.version = @ + 1]
<1>3. users[i] \in Row /\ users[i].version \in Nat
  BY <1>1, Held DEF StoreType, Row
<1>4. row \in Row /\ row.version = users[i].version + 1
  BY <1>3 DEF Row
<1>5. users' = [users EXCEPT ![i] = row]
  BY <1>1, Held DEF StoreType
<1> HIDE DEF row
<1>6. users[i].version <= row.version /\ users[i].version # row.version
  BY <1>3, <1>4
<1>held. events \in [Id -> Nat] /\ EventsMatchUsers /\ users \in [Id -> Row \cup {None}]
         /\ i \in Id /\ None \notin Row
  BY <1>1, Held, Ids DEF StoreInv, StoreType
<1>now. users[i] # None /\ \A j \in Id : (users'[j] = None) <=> (users[j] = None)
  BY <1>1, <1>4, <1>5, <1>held
<1>7. events' \in [Id -> Nat] /\ EventsMatchUsers'
  BY <1>2, <1>held, <1>now DEF EventsMatchUsers
<1>8. Moves(c) /\ Own(c)'
  BY <1>2, Held, ReturnMoves
<1>9. \A s \in Id : (Spent(s) => Spent(s)') /\ (Issued(s)' => Issued(s))
  BY <1>2, <1>8, Unspent
<1>10. StoreInv' /\ Later
  BY <1>2, <1>4, <1>5, <1>6, <1>7, <1>9, UsersLater
<1>11. \A d \in Call : Spares(d)
  BY <1>1, <1>2, <1>5, Held DEF Spares, Own, Newcomer
<1> QED
  BY <1>8, <1>10, <1>11, Step

LEMMA UpdateUserStep == ASSUME IInv, NEW c \in Call, UpdateUser(c) PROVE IInv'
<1> DEFINE i == call[c].who
           row == call[c].user
<1>1. /\ call[c].pc = "update" /\ i \in Id /\ i # None /\ users[i] # None
      /\ row \in Row /\ row # None /\ ~Spent(c)
      /\ call[c].todo = {} /\ call[c].entries = {} /\ call[c].owed = {}
      /\ call[c].base \in Nat
      /\ UNCHANGED <<sessions, index, lapsed, events, pending, tokens, current, redeemed>>
  BY Held, Ids DEF UpdateUser, At, Own, Shape, Newcomer, Named, Sweeping, CallType, Spent
<1>2. CASE Duplicate(i, row)
  <2>1. Return(c) /\ StoreUnchanged
    BY <1>1, <1>2 DEF UpdateUser, StoreUnchanged
  <2> QED
    BY <1>1, <2>1, ReturnStep
<1>3. CASE ~Duplicate(i, row)
  <2> DEFINE pc == IF call[c].op = "google" THEN "set" ELSE "list"
             l == [call[c] EXCEPT !.base = 0, !.pc = pc]
  <2>1. /\ users' = [users EXCEPT ![i] = row]
        /\ overwritten' = IF users[i].version = call[c].base
                            THEN overwritten ELSE overwritten \cup {i}
        /\ call' = [call EXCEPT ![c].base = 0, ![c].pc = pc]
    BY <1>3 DEF UpdateUser
  <2>2. pc \in {"set", "list"} /\ (call[c].op = "google" <=> pc = "set")
    OBVIOUS
  <2>3. call' = [call EXCEPT ![c] = l]
    BY <2>1, Held DEF CallType
  <2> HIDE DEF pc
  <2>4. /\ l \in CallType /\ l.pc = pc /\ l.op = call[c].op /\ l.who = i /\ l.user = row
        /\ l.todo = {} /\ l.entries = {} /\ l.owed = {}
    <3>1. call[c] \in CallType /\ pc \in Pc
      BY <2>2, Held DEF Pc
    <3>2. l \in CallType
      BY <3>1 DEF CallType
    <3> QED
      BY <1>1, <3>1, <3>2 DEF CallType
  <2> HIDE DEF l
  <2>5. Moves(c) /\ call'[c] = l
    BY <1>1, <2>3, <2>4, Held, Written
  <2>6. /\ users[i] \in Row /\ users[i].version \in Nat /\ row.version \in Nat
        /\ users'[i] = row
    BY <1>1, <2>1, Held DEF StoreType, Row
\* Either the row is the one that was read, or the user is overwritten.
  <2>7. \/ i \in overwritten'
        \/ /\ users[i].version <= row.version
           /\ users[i].version = row.version => users[i].password = row.password
    <3>1. CASE users[i].version # call[c].base
      BY <2>1, <3>1
    <3>2. CASE i \in overwritten
      BY <2>1, <3>2
    <3>3. CASE users[i].version = call[c].base /\ i \notin overwritten
      <4>1. /\ call[c].op # "google" => row.version = call[c].base + 1
            /\ call[c].op = "google" => row.version = call[c].base /\ Fits(i, row.version, row.password)
        BY <1>1, <3>3, Held DEF Own, Snapshot
      <4> QED
        BY <2>6, <3>3, <4>1 DEF Fits
    <3> QED
      BY <3>1, <3>2, <3>3
  <2>8. events' \in [Id -> Nat] /\ EventsMatchUsers'
    BY <1>1, <2>1, Held DEF StoreInv, StoreType, EventsMatchUsers
  <2>9. \A s \in Id : (Spent(s) => Spent(s)') /\ (Issued(s)' => Issued(s))
    BY <1>1, <2>5, Unspent
  <2>10. StoreInv' /\ Later
    <3>1. PICK j \in Id, r \in Row : j = i /\ r = row
      BY <1>1
    <3>2. /\ users' = [users EXCEPT ![j] = r]
          /\ overwritten' \in {overwritten, overwritten \cup {j}}
          /\ \/ j \in overwritten'
             \/ /\ users[j].version <= r.version
                /\ users[j].version = r.version => users[j].password = r.password
      BY <2>1, <2>7, <3>1
    <3> QED
      BY <1>1, <2>8, <2>9, <3>2, UsersLater
  <2>11. Own(c)'
    BY <1>1, <2>2, <2>4, <2>5, <2>6
    DEF Own, Shape, Newcomer, TokenUnsaved, Snapshot, Creating, Sweep, Changing,
        Early, Named, Sweeping, Fits
  <2>12. \A d \in Call : Spares(d)
    BY <1>1, <2>1, Held DEF Spares, Own, Newcomer
  <2> QED
    BY <2>5, <2>10, <2>11, <2>12, Step
<1> QED
  BY <1>2, <1>3

-----------------------------------------------------------------------------
(* Sessions and their index.                                                *)

\* Sessions go, or one comes whose row is known.
LEMMA SessionsLater ==
  ASSUME IInv, UNCHANGED <<users, index, lapsed, events, tokens, current, redeemed, overwritten>>,
         sessions' \in [Id -> SessionType \cup {None}],
         \A s \in Id : Live(s)' =>
            \/ Live(s) /\ sessions'[s] = sessions[s]
            \/ /\ ~Spent(s) /\ Spent(s)' /\ ~Issued(s)' /\ users[sessions'[s].user] # None
               /\ Fits(sessions'[s].user, sessions'[s].version, sessions'[s].password),
         \A s \in Id : (Spent(s) => Spent(s)') /\ (sessions'[s] = sessions[s] /\ Issued(s)' => Issued(s))
  PROVE  StoreInv' /\ Later
<1>1. /\ StoreType /\ StoreType' /\ EventsMatchUsers' /\ Redeemed'
  BY DEF IInv, StoreInv, StoreType, EventsMatchUsers, Redeemed
<1>2. Linked'
  BY DEF IInv, StoreInv, Linked, Live
<1>3. SessionsFit'
  BY DEF IInv, StoreInv, SessionsFit, Live, Fits
<1>4. Members'
  BY <1>1 DEF IInv, StoreInv, StoreType, Members, Live
<1>5. SessionsIndexed'
  BY DEF IInv, StoreInv, SessionsIndexed, Issued
<1>6. \A u \in Id : users[u] # None => users[u].version <= users'[u].version
  BY <1>1 DEF StoreType, Row
<1>7. Later
  BY <1>6 DEF Later
<1> QED
  BY <1>1, <1>2, <1>3, <1>4, <1>5, <1>7 DEF StoreInv

\* Indexes gain sessions of their user and lose none that lives.
LEMMA IndexLater ==
  ASSUME IInv, UNCHANGED <<users, sessions, events, tokens, current, redeemed, overwritten>>,
         index' \in [Id -> [members : SUBSET Id, covered : SUBSET Id]],
         \A u \in Id : \A s \in index'[u].members :
            Spent(s)' /\ (Live(s) => sessions[s].user = u),
         \A u \in Id : \A s \in index[u].members \cup lapsed :
            Live(s) => s \in index'[u].members \cup lapsed',
         \A s \in Id : Spent(s) => Spent(s)',
         \A s \in Id : Issued(s)' =>
            Issued(s) \/ s \in index[sessions[s].user].members \cup lapsed
  PROVE  StoreInv' /\ Later
<1>1. /\ StoreType /\ StoreType' /\ EventsMatchUsers' /\ Redeemed' /\ Linked'
  BY DEF IInv, StoreInv, StoreType, EventsMatchUsers, Redeemed, Linked
<1>2. SessionsFit' /\ Members'
  BY DEF IInv, StoreInv, SessionsFit, Members, Live, Fits
<1>3. SessionsIndexed'
  <2>1. SUFFICES ASSUME NEW s \in Id, Issued(s)'
                 PROVE  s \in index'[sessions[s].user].members \cup lapsed'
    BY DEF SessionsIndexed
  <2>2. s \in index[sessions[s].user].members \cup lapsed /\ Live(s) /\ sessions[s].user \in Id
    BY <1>1, <2>1 DEF IInv, StoreInv, StoreType, SessionsIndexed, Issued, Live, SessionType
  <2> QED
    BY <2>2
<1>4. \A u \in Id : users[u] # None => users[u].version <= users'[u].version
  BY <1>1 DEF StoreType, Row
<1>5. Later
  BY <1>4 DEF Later, Live
<1> QED
  BY <1>1, <1>2, <1>3, <1>5 DEF StoreInv

LEMMA SaveSessionStep ==
  ASSUME IInv, NEW c \in Call, SaveSession(c), UNCHANGED avars PROVE IInv'
<1> DEFINE u == call[c].who
           row == call[c].user
           entry == [user |-> u, version |-> row.version, password |-> row.password]
           l == [Empty("sadd") EXCEPT !.who = u]
<1>1. /\ call[c].pc = "set" /\ u \in Id /\ u # None /\ users[u] # None /\ row \in Row
      /\ ~Spent(c) /\ Fits(u, row.version, row.password)
  BY Held, Ids DEF SaveSession, At, Own, Shape, Newcomer, Snapshot, Named, CallType, Spent
<1>2. /\ sessions' = [sessions EXCEPT ![c] = entry] /\ call' = [call EXCEPT ![c] = l]
      /\ UNCHANGED <<users, index, lapsed, events, tokens, current, redeemed, overwritten, pending>>
  BY DEF SaveSession, avars
<1>3. entry \in SessionType /\ entry.user = u
  BY <1>1 DEF SessionType, Row
<1>4. l \in CallType /\ l.pc = "sadd" /\ l.who = u /\ l.todo = {} /\ l.entries = {} /\ l.owed = {}
  BY <1>1 DEF CallType, Empty, Pc
<1>5. Fits(entry.user, entry.version, entry.password)
  BY <1>1
<1> HIDE DEF entry, l
<1>6. Moves(c) /\ call'[c] = l
  BY <1>2, <1>4, Held, Written
<1>7. /\ sessions' \in [Id -> SessionType \cup {None}] /\ sessions'[c] = entry
      /\ \A s \in Id \ {c} : sessions'[s] = sessions[s]
  BY <1>2, <1>3, Held DEF StoreType
<1>8. \A d \in Call \ {c} : call'[d] = call[d]
  BY <1>6 DEF Moves
<1>9. Spent(c)' /\ ~Issued(c)'
  BY <1>4, <1>6, Ids DEF Spent, Issued, At
<1>10. \A s \in Id : (Spent(s) => Spent(s)') /\ (sessions'[s] = sessions[s] /\ Issued(s)' => Issued(s))
  BY <1>1, <1>8, <1>9, Ids DEF Spent, Issued, Live, At, Id
<1>11. ASSUME NEW s \in Id, Live(s)'
       PROVE \/ Live(s) /\ sessions'[s] = sessions[s]
             \/ /\ ~Spent(s) /\ Spent(s)' /\ ~Issued(s)' /\ users[sessions'[s].user] # None
                /\ Fits(sessions'[s].user, sessions'[s].version, sessions'[s].password)
  <2>1. CASE s = c
    BY <1>1, <1>3, <1>5, <1>7, <1>9, <2>1
  <2>2. CASE s # c
    BY <1>7, <1>11, <2>2 DEF Live
  <2> QED
    BY <2>1, <2>2
<1>12. StoreInv' /\ Later
  BY <1>2, <1>7, <1>10, <1>11, SessionsLater
<1>13. Own(c)'
  BY <1>1, <1>2, <1>3, <1>4, <1>6, <1>7
  DEF Own, Shape, Newcomer, TokenUnsaved, Snapshot, Creating, Sweep, Changing,
      Early, Named, Sweeping
<1>14. \A d \in Call \ {c} : Spares(d)
  BY <1>2 DEF Spares
<1> QED
  BY <1>6, <1>12, <1>13, <1>14, Step

LEMMA IndexSessionStep ==
  ASSUME IInv, NEW c \in Call, IndexSession(c), UNCHANGED avars PROVE IInv'
<1> DEFINE u == call[c].who
<1>1. /\ call[c].pc = "sadd" /\ u \in Id /\ u # None /\ users[u] # None /\ Spent(c) /\ c \in Id
      /\ Live(c) => sessions[c].user = u
      /\ call[c].todo = {} /\ call[c].entries = {} /\ call[c].owed = {}
  BY Held, Ids DEF IndexSession, At, Own, Shape, Newcomer, Creating, Named, Sweeping, CallType, Spent
<1>2. /\ index' = [index EXCEPT ![u].members = @ \cup {c}] /\ Goto(c, "expire")
      /\ UNCHANGED <<users, sessions, lapsed, events, tokens, current, redeemed, overwritten, pending>>
  BY DEF IndexSession, avars
<1>held. index \in [Id -> [members : SUBSET Id, covered : SUBSET Id]]
  BY Held DEF StoreType
<1>3. /\ index' \in [Id -> [members : SUBSET Id, covered : SUBSET Id]]
      /\ index'[u].members = index[u].members \cup {c}
      /\ \A v \in Id \ {u} : index'[v] = index[v]
  BY <1>1, <1>2, <1>held
<1>4. /\ Moves(c) /\ call'[c].pc = "expire" /\ call'[c].who = u
      /\ call'[c].todo = {} /\ call'[c].entries = {} /\ call'[c].owed = {}
  BY <1>1, <1>2, Held, GotoFields DEF Pc
<1>5. \A s \in Id : (Spent(s) => Spent(s)') /\ (Issued(s)' => Issued(s))
  BY <1>1, <1>2, <1>4, Ids DEF Spent, Issued, Live, At, Id, Moves
<1>6. StoreInv' /\ Later
  <2>1. \A v \in Id : \A s \in index'[v].members :
           Spent(s)' /\ (Live(s) => sessions[s].user = v)
    <3>1. \A v \in Id : index[v].members \subseteq Id
      BY Held DEF StoreType
    <3> QED
      BY <1>1, <1>3, <1>5, <3>1, Held DEF StoreInv, Members
  <2>2. \A v \in Id : \A s \in index[v].members \cup lapsed :
            Live(s) => s \in index'[v].members \cup lapsed'
    BY <1>2, <1>3
  <2> QED
    BY <1>2, <1>3, <1>5, <2>1, <2>2, IndexLater
<1>7. Own(c)'
  BY <1>1, <1>2, <1>3, <1>4
  DEF Own, Shape, Newcomer, TokenUnsaved, Snapshot, Creating, Sweep, Changing,
      Early, Named, Sweeping, Live
<1>8. \A d \in Call \ {c} : Spares(d)
  BY <1>2 DEF Spares
<1> QED
  BY <1>4, <1>6, <1>7, <1>8, Step

LEMMA ExtendIndexStep ==
  ASSUME IInv, NEW c \in Call, ExtendIndex(c), UNCHANGED avars PROVE IInv'
<1> DEFINE u == call[c].who
<1>1. /\ call[c].pc = "expire" /\ u \in Id /\ c \in Id
      /\ Live(c) => sessions[c].user = u /\ c \in index[u].members \cup lapsed
  BY Held, Ids DEF ExtendIndex, At, Own, Shape, Creating, Named, CallType
<1>2. /\ Return(c) /\ index' = IF index[u].members = {} THEN index
                                ELSE [index EXCEPT ![u].covered = @ \cup {c}]
      /\ UNCHANGED <<users, sessions, lapsed, events, tokens, current, redeemed, overwritten, pending>>
  BY DEF ExtendIndex, avars
<1>3. /\ index' \in [Id -> [members : SUBSET Id, covered : SUBSET Id]]
      /\ \A v \in Id : index'[v].members = index[v].members
  <2>1. CASE index[u].members = {}
    BY <1>2, <2>1, Held DEF StoreType
  <2>2. CASE index[u].members # {}
    <3> DEFINE r == [index[u] EXCEPT !.covered = @ \cup {c}]
    <3>1. index[u] \in [members : SUBSET Id, covered : SUBSET Id]
      BY <1>1, Held DEF StoreType
    <3>2. r \in [members : SUBSET Id, covered : SUBSET Id] /\ r.members = index[u].members
      BY <1>1, <3>1
    <3>3. index' = [index EXCEPT ![u] = r]
      BY <1>2, <2>2, <3>1, Held DEF StoreType
    <3> HIDE DEF r
    <3> QED
      BY <1>1, <3>2, <3>3, Held DEF StoreType
  <2> QED
    BY <2>1, <2>2
<1>4. Moves(c) /\ call'[c].pc = "done" /\ Own(c)'
  BY <1>2, Held, ReturnMoves
<1>5. \A s \in Id : /\ Spent(s) => Spent(s)'
                    /\ Issued(s)' => Issued(s) \/ s \in index[sessions[s].user].members \cup lapsed
  BY <1>1, <1>2, <1>4, Ids DEF Spent, Issued, Live, At, Id, Moves
<1>6. StoreInv' /\ Later
  <2>1. \A v \in Id : \A s \in index'[v].members :
           Spent(s)' /\ (Live(s) => sessions[s].user = v)
    <3>1. \A v \in Id : index[v].members \subseteq Id
      BY Held DEF StoreType
    <3> QED
      BY <1>3, <1>5, <3>1, Held DEF StoreInv, Members
  <2>2. \A v \in Id : \A s \in index[v].members \cup lapsed :
            Live(s) => s \in index'[v].members \cup lapsed'
    BY <1>2, <1>3
  <2> QED
    BY <1>2, <1>3, <1>5, <2>1, <2>2, IndexLater
<1>7. \A d \in Call \ {c} : Spares(d)
  BY <1>2 DEF Spares
<1> QED
  BY <1>4, <1>6, <1>7, Step

LEMMA UnindexedMembers ==
  ASSUME StoreType, NEW u \in Id, NEW s, index' = Unindexed(u, s)
  PROVE  /\ index' \in [Id -> [members : SUBSET Id, covered : SUBSET Id]]
         /\ index'[u].members = index[u].members \ {s}
         /\ \A v \in Id \ {u} : index'[v] = index[v]
<1>1. index \in [Id -> [members : SUBSET Id, covered : SUBSET Id]]
      /\ index[u] \in [members : SUBSET Id, covered : SUBSET Id]
  BY DEF StoreType
<1>2. CASE index[u].members \ {s} = {}
  <2>1. index' = [index EXCEPT ![u] = NoIndex]
    BY <1>2 DEF Unindexed
  <2>2. NoIndex \in [members : SUBSET Id, covered : SUBSET Id] /\ NoIndex.members = {}
    BY DEF NoIndex
  <2> QED
    BY <1>1, <1>2, <2>1, <2>2
<1>3. CASE index[u].members \ {s} # {}
  <2> DEFINE r == [index[u] EXCEPT !.members = @ \ {s}]
  <2>1. r \in [members : SUBSET Id, covered : SUBSET Id] /\ r.members = index[u].members \ {s}
    BY <1>1
  <2>2. index' = [index EXCEPT ![u] = r]
    BY <1>1, <1>3 DEF Unindexed
  <2> HIDE DEF r
  <2> QED
    BY <1>1, <2>1, <2>2
<1> QED
  BY <1>2, <1>3

\* An entry whose session is gone is pruned, or nothing is.
LEMMA PruneLater ==
  ASSUME IInv, NEW c \in Call, ~Spent(c), Moves(c), NEW u \in Id, NEW s,
         index' = index \/ (~Live(s) /\ index' = Unindexed(u, s)),
         UNCHANGED <<users, sessions, lapsed, events, tokens, current, redeemed, overwritten>>
  PROVE  /\ StoreInv' /\ Later
         /\ \A d \in Call : Spares(d)
         /\ \A t \in Id : Spent(t) => Spent(t)'
<1>1. \A t \in Id : (Spent(t) => Spent(t)') /\ (Issued(t)' => Issued(t))
  BY Unspent
<1>2. /\ index' \in [Id -> [members : SUBSET Id, covered : SUBSET Id]]
      /\ \A v \in Id : /\ index'[v].members \subseteq index[v].members
                       /\ index[v].members \subseteq index'[v].members \cup {s}
                       /\ index' = index \/ ~Live(s)
                       /\ index[v].members \subseteq Id
                       /\ index' = index => index[v].members \subseteq index'[v].members
  BY UnindexedMembers, Held DEF StoreType
<1>3. \A v \in Id : \A t \in index'[v].members :
         Spent(t)' /\ (Live(t) => sessions[t].user = v)
  BY <1>1, <1>2, Held DEF StoreInv, Members
<1>4. \A v \in Id : \A t \in index[v].members \cup lapsed :
          Live(t) => t \in index'[v].members \cup lapsed'
  BY <1>2
<1>5. StoreInv' /\ Later
  BY <1>1, <1>2, <1>3, <1>4, IndexLater
<1> QED
  BY <1>1, <1>5 DEF Spares

LEMMA LoadEntryStep ==
  ASSUME IInv, NEW c \in Call, LoadEntry(c), UNCHANGED avars PROVE IInv'
<1> DEFINE u == call[c].who
<1>1. /\ call[c].pc = "load" /\ u \in Id /\ u # None /\ users[u] # None /\ ~Spent(c)
      /\ call[c].todo \subseteq Id /\ call[c].entries \subseteq Id /\ call[c].owed \subseteq Id
  BY Held, Ids DEF LoadEntry, At, Own, Shape, Newcomer, Named, CallType, Spent
<1>2. PICK s \in call[c].todo :
        /\ call' = [call EXCEPT ![c].todo = @ \ {s},
                                ![c].entries = IF Live(s) THEN @ \cup {s} ELSE @]
        /\ index' = IF Live(s) THEN index ELSE Unindexed(u, s)
  BY DEF LoadEntry
<1>3. UNCHANGED <<users, sessions, lapsed, events, tokens, current, redeemed, overwritten, pending>>
  BY DEF LoadEntry, avars
<1> DEFINE todo == call[c].todo \ {s}
           entries == IF Live(s) THEN call[c].entries \cup {s} ELSE call[c].entries
           l == [call[c] EXCEPT !.todo = todo, !.entries = entries]
<1>4. call' = [call EXCEPT ![c] = l]
  BY <1>2, Held DEF CallType
<1>5. /\ todo \subseteq Id /\ entries \subseteq Id
      /\ todo \cup entries \subseteq call[c].todo \cup call[c].entries
      /\ \A t \in call[c].todo \cup call[c].entries : Live(t) => t \in todo \cup entries
  BY <1>1, <1>2
<1> HIDE DEF todo, entries
<1>6. /\ l \in CallType /\ l.pc = call[c].pc /\ l.who = u /\ l.op = call[c].op
      /\ l.target = call[c].target /\ l.user = call[c].user
      /\ l.todo = todo /\ l.entries = entries /\ l.owed = call[c].owed
  <2>1. call[c] \in CallType
    BY Held
  <2>2. l \in CallType
    BY <1>5, <2>1 DEF CallType
  <2> QED
    BY <2>1, <2>2 DEF CallType
<1> HIDE DEF l
<1>7. Moves(c) /\ call'[c] = l
  BY <1>3, <1>4, <1>6, Held, Written
<1>8. StoreInv' /\ Later /\ (\A d \in Call : Spares(d)) /\ \A t \in Id : Spent(t) => Spent(t)'
  <2>1. index' = index \/ (~Live(s) /\ index' = Unindexed(u, s))
    BY <1>2
  <2> QED
    BY <1>1, <1>3, <1>7, <2>1, PruneLater
<1>9. Shape(c)' /\ Newcomer(c)' /\ TokenUnsaved(c)' /\ Creating(c)'
  BY <1>1, <1>3, <1>6, <1>7
  DEF Shape, Newcomer, TokenUnsaved, Creating, Early, Named, Sweeping
<1>10. Snapshot(c)'
  BY <1>1, <1>3, <1>6, <1>7, Held DEF Own, Snapshot, Changing, Sweeping, Fits
<1>11. Sweep(c)'
  BY <1>1, <1>3, <1>5, <1>6, <1>7, <1>8, Held DEF Own, Sweep, Sweeping, Live
<1> QED
  BY <1>7, <1>8, <1>9, <1>10, <1>11, Step DEF Own

LEMMA UnindexSessionStep ==
  ASSUME IInv, NEW c \in Call, UnindexSession(c), UNCHANGED avars PROVE IInv'
<1> DEFINE u == call[c].who
<1>1. /\ call[c].pc = "unindex" /\ u \in Id /\ u # None /\ users[u] # None /\ ~Spent(c)
      /\ call[c].todo \subseteq Id /\ call[c].entries \subseteq Id /\ call[c].owed \subseteq Id
      /\ \A s \in call[c].todo : ~Live(s)
  BY Held, Ids DEF UnindexSession, At, Own, Shape, Newcomer, Named, CallType, Spent, Sweep
<1>2. PICK s \in call[c].todo :
        /\ index' = Unindexed(u, s)
        /\ call' = [call EXCEPT ![c].pc = "purge", ![c].todo = {}, ![c].entries = @ \ {s}]
  BY DEF UnindexSession
<1>3. UNCHANGED <<users, sessions, lapsed, events, tokens, current, redeemed, overwritten, pending>>
  BY DEF UnindexSession, avars
<1> DEFINE entries == call[c].entries \ {s}
           l == [call[c] EXCEPT !.pc = "purge", !.todo = {}, !.entries = entries]
<1>4. call' = [call EXCEPT ![c] = l]
  BY <1>2, Held DEF CallType
<1>5. entries \subseteq Id /\ entries \subseteq call[c].entries
      /\ \A t \in call[c].todo \cup call[c].entries : Live(t) => t \in entries
  BY <1>1, <1>2
<1> HIDE DEF entries
<1>6. /\ l \in CallType /\ l.pc = "purge" /\ l.who = u /\ l.op = call[c].op
      /\ l.target = call[c].target /\ l.user = call[c].user
      /\ l.todo = {} /\ l.entries = entries /\ l.owed = call[c].owed
  <2>1. call[c] \in CallType
    BY Held
  <2>2. l \in CallType
    BY <1>5, <2>1 DEF CallType, Pc
  <2> QED
    BY <2>1, <2>2 DEF CallType
<1> HIDE DEF l
<1>7. Moves(c) /\ call'[c] = l
  BY <1>3, <1>4, <1>6, Held, Written
<1>8. StoreInv' /\ Later /\ (\A d \in Call : Spares(d)) /\ \A t \in Id : Spent(t) => Spent(t)'
  BY <1>1, <1>2, <1>3, <1>7, PruneLater
<1>9. Shape(c)' /\ Newcomer(c)' /\ TokenUnsaved(c)' /\ Creating(c)'
  BY <1>1, <1>3, <1>6, <1>7
  DEF Shape, Newcomer, TokenUnsaved, Creating, Early, Named, Sweeping
<1>10. Snapshot(c)'
  BY <1>1, <1>3, <1>6, <1>7, Held DEF Own, Snapshot, Changing, Sweeping, Fits
<1>11. Sweep(c)'
  BY <1>1, <1>3, <1>5, <1>6, <1>7, <1>8, Held DEF Own, Sweep, Sweeping, Live
<1> QED
  BY <1>7, <1>8, <1>9, <1>10, <1>11, Step DEF Own

LEMMA RemoveLater ==
  ASSUME IInv, NEW s \in Id, sessions' = [sessions EXCEPT ![s] = None],
         UNCHANGED <<users, index, lapsed, events, tokens, current, redeemed, overwritten>>,
         \A t \in Id : (Spent(t) => Spent(t)') /\ (sessions'[t] = sessions[t] /\ Issued(t)' => Issued(t))
  PROVE  /\ StoreInv' /\ Later /\ ~Live(s)'
         /\ \A t \in Id : Live(t)' => Live(t) /\ t # s /\ sessions'[t] = sessions[t]
         /\ \A d \in Call : Spares(d)
<1>1. sessions \in [Id -> SessionType \cup {None}]
  BY DEF IInv, StoreInv, StoreType
<1>2. /\ sessions' \in [Id -> SessionType \cup {None}] /\ ~Live(s)'
      /\ \A t \in Id : Live(t)' => Live(t) /\ t # s /\ sessions'[t] = sessions[t]
  BY <1>1 DEF Live
<1>3. StoreInv' /\ Later
  BY <1>2, SessionsLater
<1> QED
  BY <1>2, <1>3 DEF Spares

LEMMA DeleteSessionStep ==
  ASSUME IInv, NEW c \in Call, DeleteSession(c), UNCHANGED avars PROVE IInv'
<1> DEFINE u == call[c].who
<1>1. /\ call[c].pc = "purge" /\ ~Spent(c) /\ call[c].todo = {} /\ u \in Id \cup {None}
      /\ u # None => users[u] # None
      /\ call[c].op # "logout" => u # None
      /\ call[c].entries \subseteq Id /\ call[c].owed \subseteq Id
  BY Held, Ids DEF DeleteSession, At, Own, Shape, Newcomer, CallType, Spent, Sweep
<1>2. PICK s \in call[c].entries :
        /\ sessions' = [sessions EXCEPT ![s] = None]
        /\ IF Live(s)
             THEN call' = [call EXCEPT ![c].pc = "unindex", ![c].todo = {s},
                                       ![c].who = sessions[s].user]
             ELSE call' = [call EXCEPT ![c].entries = @ \ {s}]
  BY DEF DeleteSession, Doomed
<1>3. UNCHANGED <<users, index, lapsed, events, tokens, current, redeemed, overwritten, pending>>
  BY DEF DeleteSession, avars
<1>4. s \in Id
  BY <1>1, <1>2
<1>5. ASSUME Moves(c)
      PROVE  \A t \in Id : (Spent(t) => Spent(t)') /\ (sessions'[t] = sessions[t] /\ Issued(t)' => Issued(t))
  <2>1. sessions'[c] = sessions[c]
    <3>1. ~Live(c)
      BY <1>1, Held DEF StoreInv, SessionsFit
    <3> QED
      BY <1>2, <1>4, <3>1, Held DEF Live, StoreType
  <2> QED
    BY <1>1, <1>5, <2>1, Unspent
<1>6. CASE Live(s)
  <2> DEFINE v == sessions[s].user
             l == [call[c] EXCEPT !.pc = "unindex", !.todo = {s}, !.who = v]
  <2>1. /\ v \in Id /\ v # None /\ users[v] # None /\ Spent(s)
        /\ u # None => v = u
    BY <1>2, <1>4, <1>6, Held, Ids
    DEF StoreInv, StoreType, SessionType, Linked, SessionsFit, Live, Own, Sweep
  <2>2. call' = [call EXCEPT ![c] = l]
    BY <1>2, <1>6, Held DEF CallType
  <2>3. /\ l \in CallType /\ l.pc = "unindex" /\ l.who = v /\ l.op = call[c].op
        /\ l.target = call[c].target /\ l.user = call[c].user
        /\ l.todo = {s} /\ l.entries = call[c].entries /\ l.owed = call[c].owed
    <3>1. call[c] \in CallType
      BY Held
    <3>2. l \in CallType
      BY <1>4, <2>1, <3>1 DEF CallType, Pc
    <3> QED
      BY <3>1, <3>2 DEF CallType
  <2> HIDE DEF l
  <2>4. Moves(c) /\ call'[c] = l
    BY <1>3, <2>2, <2>3, Held, Written
  <2>5. /\ StoreInv' /\ Later /\ ~Live(s)'
        /\ \A t \in Id : Live(t)' => Live(t) /\ t # s /\ sessions'[t] = sessions[t]
        /\ \A d \in Call : Spares(d)
    BY <1>2, <1>3, <1>4, <1>5, <2>4, RemoveLater
  <2>6. \A t \in Id : Spent(t) => Spent(t)'
    BY <1>5, <2>4
  <2>7. Shape(c)' /\ Newcomer(c)' /\ TokenUnsaved(c)' /\ Creating(c)'
    BY <1>1, <1>3, <2>1, <2>3, <2>4
    DEF Shape, Newcomer, TokenUnsaved, Creating, Early, Named, Sweeping
  <2>8. Snapshot(c)'
    <3>1. Changing(c)' => Changing(c) /\ call[c].op # "logout"
      BY <1>1, <2>3, <2>4 DEF Changing, Sweeping
    <3>2. Changing(c)' => v = u
      BY <1>1, <2>1, <3>1
    <3> QED
      BY <1>1, <1>3, <2>3, <2>4, <3>1, <3>2, Held DEF Own, Snapshot, Fits
  <2>9. Sweep(c)'
    <3>1. ASSUME NEW t \in call[c].entries
          PROVE  Spent(t)' /\ (Live(t)' => sessions'[t].user = v)
      <4>1. CASE u # None
        BY <1>1, <2>1, <2>5, <2>6, <4>1, Held DEF Own, Sweep
      <4>2. CASE u = None
        <5>1. t = s
          BY <1>1, <1>2, <4>2, Held DEF Own, Sweep
        <5> QED
          BY <1>4, <2>1, <2>5, <2>6, <5>1
      <4> QED
        BY <4>1, <4>2
    <3>2. /\ call[c].target \notin call[c].owed
          /\ \A t \in call[c].owed : Spent(t)' /\ (Live(t)' => t \in call[c].entries)
      BY <1>1, <2>5, <2>6, Held DEF Own, Sweep, Sweeping
    <3> QED
      BY <1>2, <2>1, <2>3, <2>4, <2>5, <3>1, <3>2 DEF Sweep
  <2> QED
    BY <2>4, <2>5, <2>7, <2>8, <2>9, Step DEF Own
<1>7. CASE ~Live(s)
  <2> DEFINE entries == call[c].entries \ {s}
             l == [call[c] EXCEPT !.entries = entries]
  <2>1. call' = [call EXCEPT ![c] = l]
    BY <1>2, <1>7, Held DEF CallType
  <2>2. entries \subseteq Id /\ entries \subseteq call[c].entries
        /\ \A t \in call[c].entries : Live(t) => t \in entries
    BY <1>1, <1>7
  <2> HIDE DEF entries
  <2>3. /\ l \in CallType /\ l.pc = "purge" /\ l.who = u /\ l.op = call[c].op
        /\ l.target = call[c].target /\ l.user = call[c].user
        /\ l.todo = {} /\ l.entries = entries /\ l.owed = call[c].owed
    <3>1. call[c] \in CallType
      BY Held
    <3>2. l \in CallType
      BY <2>2, <3>1 DEF CallType
    <3> QED
      BY <1>1, <3>1, <3>2 DEF CallType
  <2> HIDE DEF l
  <2>4. Moves(c) /\ call'[c] = l
    BY <1>3, <2>1, <2>3, Held, Written
  <2>5. /\ StoreInv' /\ Later
        /\ \A t \in Id : Live(t)' => Live(t) /\ t # s /\ sessions'[t] = sessions[t]
        /\ \A d \in Call : Spares(d)
    BY <1>2, <1>3, <1>4, <1>5, <2>4, RemoveLater
  <2>6. \A t \in Id : Spent(t) => Spent(t)'
    BY <1>5, <2>4
  <2>7. Shape(c)' /\ Newcomer(c)' /\ TokenUnsaved(c)' /\ Creating(c)'
    BY <1>1, <1>3, <2>3, <2>4
    DEF Shape, Newcomer, TokenUnsaved, Creating, Early, Named, Sweeping
  <2>8. Snapshot(c)'
    BY <1>1, <1>3, <2>3, <2>4, Held DEF Own, Snapshot, Changing, Sweeping, Fits
  <2>9. Sweep(c)'
    BY <1>1, <2>2, <2>3, <2>4, <2>5, <2>6, Held DEF Own, Sweep, Sweeping
  <2> QED
    BY <2>4, <2>5, <2>7, <2>8, <2>9, Step DEF Own
<1> QED
  BY <1>6, <1>7

LEMMA ExpireSessionStep ==
  ASSUME IInv, NEW s \in Id, ExpireSession(s), UNCHANGED avars PROVE IInv'
<1>1. /\ sessions' = [sessions EXCEPT ![s] = None]
      /\ UNCHANGED <<users, index, lapsed, call, events, pending, tokens, current, redeemed, overwritten>>
  BY DEF ExpireSession, avars
<1>2. \A t \in Id : (Spent(t) => Spent(t)') /\ (sessions'[t] = sessions[t] /\ Issued(t)' => Issued(t))
  BY <1>1 DEF Spent, Issued, Live, At
<1>3. StoreInv' /\ Later /\ \A d \in Call : Spares(d)
  BY <1>1, <1>2, RemoveLater
<1> QED
  BY <1>1, <1>3, Nobody

LEMMA ExpireIndexStep ==
  ASSUME IInv, NEW u \in Id, ExpireIndex(u), UNCHANGED avars PROVE IInv'
<1>1. /\ index' = [index EXCEPT ![u] = NoIndex]
      /\ lapsed' = lapsed \cup {s \in index[u].members : Live(s)}
      /\ UNCHANGED <<users, sessions, call, events, pending, tokens, current, redeemed, overwritten>>
  BY DEF ExpireIndex, avars
<1>2. NoIndex \in [members : SUBSET Id, covered : SUBSET Id] /\ NoIndex.members = {}
  BY DEF NoIndex
<1>3. /\ index' \in [Id -> [members : SUBSET Id, covered : SUBSET Id]]
      /\ index'[u].members = {} /\ \A v \in Id \ {u} : index'[v] = index[v]
  BY <1>1, <1>2 DEF IInv, StoreInv, StoreType
<1>4. \A t \in Id : (Spent(t) => Spent(t)') /\ (Issued(t)' => Issued(t))
  BY <1>1 DEF Spent, Issued, Live, At
<1>5. \A v \in Id : \A s \in index'[v].members :
         Spent(s)' /\ (Live(s) => sessions[s].user = v)
  BY <1>1, <1>3 DEF IInv, StoreInv, Members, Spent
<1>6. \A v \in Id : \A s \in index[v].members \cup lapsed :
          Live(s) => s \in index'[v].members \cup lapsed'
  BY <1>1, <1>3
<1>7. StoreInv' /\ Later
  BY <1>1, <1>3, <1>4, <1>5, <1>6, IndexLater
<1>8. \A d \in Call : Spares(d)
  BY <1>1 DEF Spares
<1> QED
  BY <1>1, <1>7, <1>8, Nobody

-----------------------------------------------------------------------------
(* The invariant holds.                                                     *)

LEMMA InitIInv == Init => IInv
<1> SUFFICES ASSUME Init PROVE IInv
  OBVIOUS
<1>1. PICK e \in Email, pw \in Password :
        /\ users = [i \in Id |-> IF i = Old THEN [email |-> e, password |-> pw, subject |-> None,
                                                  version |-> 0] ELSE None]
        /\ sessions = [i \in Id |-> IF i = Old THEN [user |-> Old, version |-> 0, password |-> pw]
                                               ELSE None]
        /\ index = [i \in Id |-> IF i = Old THEN [members |-> {Old}, covered |-> {Old}] ELSE NoIndex]
        /\ events = [i \in Id |-> IF i = Old THEN 1 ELSE 0]
  BY DEF Init
<1>2. /\ lapsed = {} /\ overwritten = {}
      /\ call = [c \in Call |-> Empty("idle")] /\ pending = [c \in Call |-> NoTrx]
      /\ tokens = [i \in Id |-> None] /\ current = [i \in Id |-> None]
      /\ redeemed = [i \in Id |-> 0]
  BY DEF Init
<1> DEFINE row == [email |-> e, password |-> pw, subject |-> None, version |-> 0]
           entry == [user |-> Old, version |-> 0, password |-> pw]
<1>3. /\ row \in Row /\ row # None /\ row.version = 0 /\ row.password = pw
      /\ entry \in SessionType /\ entry.user = Old /\ entry.version = 0 /\ entry.password = pw
      /\ [members |-> {Old}, covered |-> {Old}] \in [members : SUBSET Id, covered : SUBSET Id]
      /\ NoIndex \in [members : SUBSET Id, covered : SUBSET Id] /\ NoIndex.members = {}
  BY Ids DEF Row, SessionType, NoIndex
<1>4. /\ users = [i \in Id |-> IF i = Old THEN row ELSE None]
      /\ sessions = [i \in Id |-> IF i = Old THEN entry ELSE None]
  BY <1>1
<1> HIDE DEF row, entry
<1>5. StoreType
  BY <1>1, <1>2, <1>3, <1>4, Ids DEF StoreType
<1>6. /\ users[Old] = row /\ sessions[Old] = entry /\ index[Old].members = {Old}
      /\ events[Old] = 1
      /\ \A c \in Call : /\ users[c] = None /\ sessions[c] = None /\ index[c].members = {}
                         /\ events[c] = 0 /\ tokens[c] = None /\ redeemed[c] = 0
  BY <1>1, <1>2, <1>3, <1>4, Ids
<1>7. \A i \in Id : i = Old \/ i \in Call
  BY DEF Id
<1>8. StoreInv
  BY <1>2, <1>3, <1>5, <1>6, <1>7, Ids
  DEF StoreInv, Linked, EventsMatchUsers, Redeemed, SessionsFit, Members, SessionsIndexed,
      Live, Fits, Spent, Issued
<1>9. CallInv
  <2>1. Empty("idle") \in CallType /\ NoTrx \in [row : Row \cup {None}, event : BOOLEAN]
    BY EmptyFields DEF Pc, NoTrx
  <2> QED
    BY <1>2, <2>1 DEF CallInv, PendingType
<1>10. ASSUME NEW d \in Call PROVE Own(d)
  <2>1. call[d] = Empty("idle") /\ call[d].pc = "idle" /\ call[d].who = None
        /\ call[d].todo = {} /\ call[d].entries = {} /\ call[d].owed = {}
    BY <1>2, EmptyFields DEF Pc
  <2> QED
    BY <1>6, <2>1 DEF Own, Shape, Newcomer, TokenUnsaved, Snapshot, Creating, Sweep, Changing,
                      Early, Named, Sweeping
<1> QED
  BY <1>8, <1>9, <1>10 DEF IInv

LEMMA UseCaseStep == ASSUME IInv, NEW c \in Call, UseCase(c) PROVE IInv'
BY RegisterStep, AppendEventStep, CommitStep, LoginStep, GoogleBySubStep, GoogleByEmailStep,
   GoogleInsertStep, CheckPasswordStep, UpdateUserStep, ReadTokenStep, ConsumeTokenStep,
   ForgetCurrentStep, ResetPasswordStep, ForgotPasswordStep, ReadPreviousStep,
   DropPreviousStep, SaveTokenStep, PointToTokenStep, IncrementAuthVersionStep, FailStep
DEF UseCase

LEMMA SessionStepStep ==
  ASSUME IInv, NEW c \in Call, SessionStep(c), UNCHANGED avars PROVE IInv'
BY SaveSessionStep, IndexSessionStep, ExtendIndexStep, ListMembersStep, LoadEntryStep,
   EndListStep, DeleteSessionStep, UnindexSessionStep, EndPurgeStep, AuthenticateStep,
   RevokeOneStep, LogoutStep
DEF SessionStep

LEMMA NextIInv == IInv /\ [Next]_vars => IInv'
<1> SUFFICES ASSUME IInv, [Next]_vars PROVE IInv'
  OBVIOUS
<1>1. ASSUME NEW c \in Call, UseCase(c) PROVE IInv'
  BY <1>1, UseCaseStep
<1>2. ASSUME NEW c \in Call, SessionStep(c), UNCHANGED avars PROVE IInv'
  BY <1>2, SessionStepStep
<1>3. CASE ExpireKey /\ UNCHANGED avars
  BY <1>3, ExpireSessionStep, ExpireIndexStep DEF ExpireKey
<1>4. CASE ExpireToken
  BY <1>4, ExpireTokenStep
<1>5. CASE UNCHANGED vars
  BY <1>5, Stutter
<1> QED
  BY <1>1, <1>2, <1>3, <1>4, <1>5 DEF Next

LEMMA Invariant == Spec => []IInv
BY InitIInv, NextIInv, PTL DEF Spec

\* The types of the tables, keys and requests, and that a key names a user
\* only if there is one.
THEOREM TypeCorrect == Spec => []TypeOK
<1>1. IInv => TypeOK
  <2> SUFFICES ASSUME IInv PROVE TypeOK
    OBVIOUS
  <2>1. ASSUME NEW c \in Call
        PROVE  /\ call[c].who \in Id \cup {None} /\ call[c].user \in Row \cup {None}
               /\ call[c].todo \cup call[c].entries \subseteq Id
    BY Held DEF CallType
  <2> QED
    BY <2>1 DEF TypeOK, IInv, StoreInv, StoreType, SessionType, Linked, CallInv, PendingType
<1> QED
  BY <1>1, Invariant, PTL

\* A user and its UserRegistered event are there together.
THEOREM EventsAreAtomic == Spec => []EventsMatchUsers
<1>1. IInv => EventsMatchUsers
  BY DEF IInv, StoreInv
<1> QED
  BY <1>1, Invariant, PTL

\* However many requests hold a reset token, one is let through.
THEOREM ResetsOnce == Spec => []ResetTokenOnce
<1>1. IInv => ResetTokenOnce
  BY DEF IInv, StoreInv, Redeemed, ResetTokenOnce
<1> QED
  BY <1>1, Invariant, PTL

\* A session whose id was handed out is in its user's index, or outlived it.
THEOREM SessionsAreIndexed == Spec => []SessionsIndexed
<1>1. IInv => SessionsIndexed
  BY DEF IInv, StoreInv
<1> QED
  BY <1>1, Invariant, PTL

\* authVersion alone keeps a session of an older password out, found by the
\* revocation or not.
THEOREM AcceptsCurrent == Spec => []AcceptedMeansCurrent
<1>1. IInv => AcceptedMeansCurrent
  <2> SUFFICES ASSUME IInv, NEW s \in Id, Accepted(s)
               PROVE  \/ sessions[s].user \in overwritten
                      \/ sessions[s].password = users[sessions[s].user].password
    BY DEF AcceptedMeansCurrent
  <2> QED
    BY DEF IInv, StoreInv, SessionsFit, Accepted, Fits
<1> QED
  BY <1>1, Invariant, PTL

\* A revocation that is through has ended every session it was to find.
THEOREM RevokesAll == Spec => []RevocationReachesAll
<1>1. IInv => RevocationReachesAll
  <2> SUFFICES ASSUME IInv, NEW c \in Call, call[c].pc = "purge", Doomed(c) = {},
                      NEW s \in call[c].owed, Live(s)
               PROVE  FALSE
    BY DEF RevocationReachesAll, At
  <2>1. s \in call[c].todo \cup call[c].entries /\ call[c].todo = {} /\ s # call[c].target
    BY Held DEF Own, Sweep, Sweeping
  <2> QED
    BY <2>1 DEF Doomed
<1> QED
  BY <1>1, Invariant, PTL

-----------------------------------------------------------------------------
(* One request at a time.  AcceptedMeansCurrent excepts the accounts whose  *)
(* row was overwritten with an older one; that takes two requests at once.  *)

Busy(c) == call[c].pc \notin {"idle", "done", "failed"}

\* One request is under way, and a row it read is still so when it writes.
Turns ==
    /\ \A c, d \in Call : Busy(c) /\ Busy(d) => c = d
    /\ \A c \in Call : At(c, "update") => users[call[c].who].version = call[c].base
    /\ overwritten = {}

LEMMA ArrivesAlone ==
  ASSUME MaxActive = 1, Turns, NEW c \in Call, Arrives(c)
  PROVE  \A d \in Call : ~Busy(d)
<1> DEFINE B == {d \in Call : Busy(d)}
<1>1. Cardinality(B) < 1
  BY DEF Arrives, Busy
<1>2. SUFFICES ASSUME NEW e \in B PROVE FALSE
  OBVIOUS
<1>3. B \in SUBSET {e}
  BY DEF Turns
<1>4. IsFiniteSet(B)
  BY <1>3, FS_Singleton, FS_Subset
<1>5. Cardinality(B) \in Nat /\ Cardinality(B) # 0
  BY <1>2, <1>4, FS_CardinalityType, FS_EmptySet
<1> QED
  BY <1>1, <1>5

\* What c does with its record, when it does not go to update the user.
Passes(c) == /\ \A d \in Call \ {c} : call'[d] = call[d]
             /\ call'[c].pc # "update"

\* A step of the request whose turn it is.
LEMMA TurnStep ==
  ASSUME MaxActive = 1, Turns, NEW c \in Call, Busy(c) \/ Arrives(c),
         \A d \in Call \ {c} : call'[d] = call[d],
         At(c, "update")' => users'[call'[c].who].version = call'[c].base,
         overwritten' = {}
  PROVE  Turns'
<1>1. \A d \in Call \ {c} : ~Busy(d) /\ ~Busy(d)'
  BY ArrivesAlone DEF Turns, Busy
<1>2. \A d \in Call \ {c} : ~At(d, "update")'
  BY <1>1 DEF Busy, At
<1> QED
  BY <1>1, <1>2 DEF Turns

\* The forms in which the actions write the record of c.
LEMMA RecordPasses ==
  ASSUME call \in [Call -> CallType], NEW c \in Call
  PROVE  /\ \A pc : pc # "update" /\ Goto(c, pc) => Passes(c)
         /\ Return(c) => Passes(c)
         /\ \A l : l.pc # "update" /\ call' = [call EXCEPT ![c] = l] => Passes(c)
<1>1. call[c] \in CallType
  OBVIOUS
<1> QED
  BY <1>1 DEF Passes, Goto, Return, Empty, CallType

LEMMA TakeFields ==
  ASSUME call \in [Call -> CallType], NEW c \in Call, NEW op, NEW pc, NEW i, NEW row,
         Take(c, op, pc, i, row)
  PROVE  /\ \A d \in Call \ {c} : call'[d] = call[d]
         /\ call'[c].pc = pc /\ call'[c].who = i /\ call'[c].base = users[i].version
<1> DEFINE l == [call[c] EXCEPT !.op = op, !.pc = pc, !.who = i, !.user = row,
                                !.base = users[i].version]
<1>1. call[c] \in CallType
  OBVIOUS
<1>2. l.pc = pc /\ l.who = i /\ l.base = users[i].version
  BY <1>1 DEF CallType
<1>3. call' = [call EXCEPT ![c] = l]
  BY <1>1 DEF Take, CallType
<1> HIDE DEF l
<1> QED
  BY <1>2, <1>3

\* The actions that do not go to update a user; some refuse without a trace.
LEMMA RequestPasses ==
  ASSUME IInv, NEW c \in Call,
         \/ Register(c) \/ GoogleInsert(c) \/ AppendEvent(c) \/ Commit(c)
         \/ Login(c) \/ GoogleBySub(c) \/ ReadToken(c) \/ ConsumeToken(c) \/ ForgetCurrent(c)
         \/ ForgotPassword(c) \/ ReadPrevious(c) \/ DropPrevious(c) \/ SaveToken(c)
         \/ PointToToken(c) \/ IncrementAuthVersion(c) \/ Fail(c)
  PROVE  /\ overwritten' = overwritten
         /\ \/ UNCHANGED <<call, users>>
            \/ (Busy(c) \/ Arrives(c)) /\ Passes(c)
<1> USE Held, RecordPasses DEF At, Busy, avars
<1>1. ASSUME NEW row, InsertUser(c, row) PROVE Passes(c) /\ overwritten' = overwritten
  <2>1. CASE Return(c)
    BY <1>1, <2>1 DEF InsertUser
  <2>2. CASE call' = [call EXCEPT ![c].pc = "append", ![c].who = c, ![c].user = row]
    <3> DEFINE l == [call[c] EXCEPT !.pc = "append", !.who = c, !.user = row]
    <3>1. call' = [call EXCEPT ![c] = l] /\ l.pc = "append"
      BY <2>2 DEF CallType
    <3> HIDE DEF l
    <3> QED
      BY <1>1, <3>1 DEF InsertUser
  <2> QED
    BY <1>1, <2>1, <2>2 DEF InsertUser
<1>2. CASE Register(c) \/ GoogleInsert(c)
  BY <1>1, <1>2 DEF Register, GoogleInsert
<1>3. CASE AppendEvent(c)
  BY <1>3 DEF AppendEvent
<1>4. CASE Commit(c)
  BY <1>4 DEF Commit
<1>5. CASE Login(c)
  BY <1>5, TakeFields DEF Login, Refuse, Passes
<1>6. CASE GoogleBySub(c)
  <2>1. Arrives(c) /\ users' = users /\ overwritten' = overwritten
    BY <1>6 DEF GoogleBySub
  <2>2. CASE \E i \in Id : Take(c, "google", "set", i, users[i])
    <3>1. Passes(c)
      BY <2>2, TakeFields DEF Passes
    <3> QED
      BY <1>6, <3>1 DEF GoogleBySub
  <2>3. ASSUME NEW row, call' = [call EXCEPT ![c].op = "google", ![c].pc = "byEmail",
                                             ![c].user = row]
        PROVE  Passes(c)
    <3> DEFINE l == [call[c] EXCEPT !.op = "google", !.pc = "byEmail", !.user = row]
    <3>1. call' = [call EXCEPT ![c] = l] /\ l.pc = "byEmail"
      BY <2>3 DEF CallType
    <3> HIDE DEF l
    <3> QED
      BY <3>1
  <2>4. CASE \E row : call' = [call EXCEPT ![c].op = "google", ![c].pc = "byEmail",
                                           ![c].user = row]
    BY <2>1, <2>3, <2>4
  <2>5. \/ UNCHANGED call
        \/ \E i \in Id : Take(c, "google", "set", i, users[i])
        \/ \E row : call' = [call EXCEPT ![c].op = "google", ![c].pc = "byEmail",
                                         ![c].user = row]
    BY <1>6 DEF GoogleBySub, Refuse, FindByGoogleSub
  <2> QED
    BY <2>1, <2>2, <2>4, <2>5
<1>7. CASE ReadToken(c)
  <2>1. CASE UNCHANGED call
    BY <1>7, <2>1 DEF ReadToken
  <2> SUFFICES ASSUME call' # call
               PROVE  (Busy(c) \/ Arrives(c)) /\ Passes(c) /\ overwritten' = overwritten
    BY <2>1
  <2>2. PICK t \in Id :
          call' = [call EXCEPT ![c].op = "reset", ![c].pc = "consume",
                               ![c].who = tokens[t], ![c].target = t]
    BY <1>7 DEF ReadToken, Refuse
  <2> DEFINE l == [call[c] EXCEPT !.op = "reset", !.pc = "consume",
                                  !.who = tokens[t], !.target = t]
  <2>3. call' = [call EXCEPT ![c] = l] /\ l.pc = "consume"
    BY <2>2 DEF CallType
  <2> HIDE DEF l
  <2> QED
    BY <1>7, <2>3 DEF ReadToken
<1>8. CASE ConsumeToken(c)
  BY <1>8 DEF ConsumeToken
<1>9. CASE ForgetCurrent(c)
  BY <1>9 DEF ForgetCurrent
<1>10. CASE ForgotPassword(c)
  BY <1>10, TakeFields DEF ForgotPassword, Refuse, Passes
<1>11. CASE ReadPrevious(c)
  BY <1>11 DEF ReadPrevious, Passes, CallType
<1>12. CASE DropPrevious(c) \/ SaveToken(c) \/ PointToToken(c)
  BY <1>12 DEF DropPrevious, SaveToken, PointToToken
<1>13. CASE IncrementAuthVersion(c)
  BY <1>13 DEF IncrementAuthVersion
<1>14. CASE Fail(c)
  BY <1>14 DEF Fail, Empty
<1> QED
  BY <1>2, <1>3, <1>4, <1>5, <1>6, <1>7, <1>8, <1>9, <1>10, <1>11, <1>12, <1>13, <1>14

\* Nor do the steps of the sessions.
LEMMA SessionPasses ==
  ASSUME IInv, NEW c \in Call, SessionStep(c)
  PROVE  (Busy(c) \/ Arrives(c)) /\ Passes(c)
<1> USE Held, RecordPasses DEF At, Busy
<1>1. CASE SaveSession(c)
  <2>1. [Empty("sadd") EXCEPT !.who = call[c].who].pc = "sadd"
    BY DEF Empty
  <2> QED
    BY <1>1, <2>1 DEF SaveSession
<1>2. CASE IndexSession(c) \/ ExtendIndex(c)
  BY <1>2 DEF IndexSession, ExtendIndex
<1>3. CASE ListMembers(c)
  <2> DEFINE owed == IF call[c].op = "listSessions" THEN {}
                     ELSE Owed(call[c].who) \ {call[c].target}
             l == [call[c] EXCEPT !.pc = "load", !.todo = index[call[c].who].members,
                                  !.owed = owed]
  <2>1. call' = [call EXCEPT ![c] = l] /\ l.pc = "load"
    BY <1>3 DEF ListMembers, CallType
  <2> HIDE DEF l
  <2> QED
    BY <1>3, <2>1 DEF ListMembers
<1>4. CASE LoadEntry(c)
  BY <1>4 DEF LoadEntry, Passes, CallType
<1>5. CASE EndList(c) \/ EndPurge(c)
  BY <1>5 DEF EndList, EndPurge
<1>6. CASE DeleteSession(c)
  <2>1. PICK s :
          IF Live(s)
            THEN call' = [call EXCEPT ![c].pc = "unindex", ![c].todo = {s},
                                      ![c].who = sessions[s].user]
            ELSE call' = [call EXCEPT ![c].entries = @ \ {s}]
    BY <1>6 DEF DeleteSession
  <2>2. CASE Live(s)
    <3> DEFINE l == [call[c] EXCEPT !.pc = "unindex", !.todo = {s}, !.who = sessions[s].user]
    <3>1. call' = [call EXCEPT ![c] = l] /\ l.pc = "unindex"
      BY <2>1, <2>2 DEF CallType
    <3> HIDE DEF l
    <3> QED
      BY <1>6, <3>1 DEF DeleteSession
  <2>3. CASE ~Live(s)
    BY <1>6, <2>1, <2>3 DEF DeleteSession, Passes, CallType
  <2> QED
    BY <2>2, <2>3
<1>7. CASE UnindexSession(c)
  <2>1. PICK s : call' = [call EXCEPT ![c].pc = "purge", ![c].todo = {},
                                      ![c].entries = @ \ {s}]
    BY <1>7 DEF UnindexSession
  <2> DEFINE l == [call[c] EXCEPT !.pc = "purge", !.todo = {}, !.entries = @ \ {s}]
  <2>2. call' = [call EXCEPT ![c] = l] /\ l.pc = "purge"
    BY <2>1 DEF CallType
  <2> HIDE DEF l
  <2> QED
    BY <1>7, <2>2 DEF UnindexSession
<1>8. CASE Authenticate(c)
  <2>1. PICK s, op :
          call' = [call EXCEPT
             ![c].op = op, ![c].who = sessions[s].user,
             ![c].target = IF op = "revokeOthers" THEN s ELSE None,
             ![c].pc = CASE op = "change" -> "find" [] op = "revokeOne" -> "get"
                         [] OTHER -> "list"]
    BY <1>8 DEF Authenticate
  <2> DEFINE pc == CASE op = "change" -> "find" [] op = "revokeOne" -> "get" [] OTHER -> "list"
             target == IF op = "revokeOthers" THEN s ELSE None
             l == [call[c] EXCEPT !.op = op, !.who = sessions[s].user, !.target = target,
                                  !.pc = pc]
  <2>2. pc # "update"
    OBVIOUS
  <2>3. call' = [call EXCEPT ![c] = l]
    BY <2>1 DEF CallType
  <2> HIDE DEF pc, target
  <2>4. l.pc = pc
    BY DEF CallType
  <2> HIDE DEF l
  <2> QED
    BY <1>8, <2>2, <2>3, <2>4 DEF Authenticate
<1>9. CASE RevokeOne(c)
  BY <1>9 DEF RevokeOne, Passes, CallType, Return, Empty
<1>10. CASE Logout(c)
  <2>1. PICK s : call' = [call EXCEPT ![c].op = "logout", ![c].pc = "purge",
                                      ![c].entries = {s}]
    BY <1>10 DEF Logout
  <2> DEFINE l == [call[c] EXCEPT !.op = "logout", !.pc = "purge", !.entries = {s}]
  <2>2. call' = [call EXCEPT ![c] = l] /\ l.pc = "purge"
    BY <2>1 DEF CallType
  <2> HIDE DEF l
  <2> QED
    BY <1>10, <2>2 DEF Logout
<1> QED
  BY <1>1, <1>2, <1>3, <1>4, <1>5, <1>6, <1>7, <1>8, <1>9, <1>10 DEF SessionStep

\* Nobody else writes a row between the read and the update of a request.
LEMMA UpdateTurn ==
  ASSUME IInv, MaxActive = 1, Turns, NEW c \in Call,
         GoogleByEmail(c) \/ CheckPassword(c) \/ ResetPassword(c) \/ UpdateUser(c)
  PROVE  Turns'
<1> USE Held, RecordPasses
<1>1. Busy(c) /\ overwritten = {}
  BY DEF GoogleByEmail, CheckPassword, ResetPassword, UpdateUser, At, Busy, Turns
<1>2. ASSUME NEW op, NEW pc, NEW i, NEW row, Take(c, op, pc, i, row),
             UNCHANGED <<users, overwritten>>
      PROVE  Turns'
  BY <1>1, <1>2, TakeFields, TurnStep
<1>3. ASSUME Passes(c), overwritten' = {} PROVE Turns'
  BY <1>1, <1>3, TurnStep DEF Passes, At
<1>4. CASE GoogleByEmail(c)
  BY <1>1, <1>2, <1>3, <1>4 DEF GoogleByEmail, avars
<1>5. CASE CheckPassword(c) \/ ResetPassword(c)
  BY <1>1, <1>2, <1>3, <1>5 DEF CheckPassword, ResetPassword, avars
<1>6. CASE UpdateUser(c)
  <2>1. users[call[c].who].version = call[c].base
    BY <1>6 DEF UpdateUser, Turns
  <2>2. CASE Return(c)
    BY <1>1, <1>3, <1>6, <2>1, <2>2 DEF UpdateUser
  <2>3. CASE call' = [call EXCEPT ![c].base = 0, ![c].pc =
                        IF call[c].op = "google" THEN "set" ELSE "list"]
    <3>1. Passes(c)
      BY <2>3 DEF Passes, CallType
    <3> QED
      BY <1>1, <1>3, <1>6, <2>1, <3>1 DEF UpdateUser
  <2> QED
    BY <1>6, <2>2, <2>3 DEF UpdateUser
<1> QED
  BY <1>4, <1>5, <1>6

LEMMA NextTurns == MaxActive = 1 /\ IInv /\ Turns /\ [Next]_vars => Turns'
<1> SUFFICES ASSUME MaxActive = 1, IInv, Turns, [Next]_vars PROVE Turns'
  OBVIOUS
<1>1. ASSUME NEW c \in Call, Busy(c) \/ Arrives(c), Passes(c), overwritten' = overwritten
      PROVE  Turns'
  BY <1>1, TurnStep DEF Passes, At, Turns
<1>2. ASSUME call' = call, users' = users, overwritten' = overwritten PROVE Turns'
  BY <1>2 DEF Turns, Busy, At
<1>3. ASSUME NEW c \in Call, UseCase(c) PROVE Turns'
  <2>1. CASE GoogleByEmail(c) \/ CheckPassword(c) \/ ResetPassword(c) \/ UpdateUser(c)
    BY <2>1, UpdateTurn
  <2>2. CASE ~(GoogleByEmail(c) \/ CheckPassword(c) \/ ResetPassword(c) \/ UpdateUser(c))
    BY <1>1, <1>2, <1>3, <2>2, RequestPasses DEF UseCase
  <2> QED
    BY <2>1, <2>2
<1>4. ASSUME NEW c \in Call, SessionStep(c), UNCHANGED avars PROVE Turns'
  BY <1>1, <1>4, SessionPasses DEF avars
<1>5. CASE ExpireKey /\ UNCHANGED avars
  BY <1>2, <1>5 DEF ExpireKey, ExpireSession, ExpireIndex, avars
<1>6. CASE ExpireToken
  BY <1>2, <1>6 DEF ExpireToken
<1>7. CASE UNCHANGED vars
  BY <1>2, <1>7 DEF vars, svars, avars
<1> QED
  BY <1>3, <1>4, <1>5, <1>6, <1>7 DEF Next

\* With one request under way at a time no row is overwritten with one read
\* before a change, and AcceptedMeansCurrent holds without its exception.
THEOREM InTurn == MaxActive = 1 => (Spec => [](overwritten = {}))
<1> SUFFICES ASSUME MaxActive = 1 PROVE Spec => [](overwritten = {})
  OBVIOUS
<1>1. Init => Turns
  BY DEF Init, Turns, Busy, At, Empty
<1>2. IInv /\ Turns /\ [Next]_vars => Turns'
  BY NextTurns
<1>3. Turns => overwritten = {}
  BY DEF Turns
<1> QED
  BY InitIInv, NextIInv, <1>1, <1>2, <1>3, PTL DEF Spec

=============================================================================
