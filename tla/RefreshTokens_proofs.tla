------------------------ MODULE RefreshTokens_proofs ------------------------
(* Proofs about RefreshTokens, for any set of requests, any number of them  *)
(* under way together, and any bound on failures and expirations.           *)
EXTENDS RefreshTokens, FiniteSetTheorems, TLAPS

Pc == {"idle", "save", "answer", "update", "members", "each", "rotate", "punish",
       "revoke", "deny", "denylist", "resolve", "accepted", "done", "failed"}

CallType == [pc : Pc, op : {None, "login", "change", "refresh", "logout", "verify"},
             token : Id \cup {None}, access : Id \cup {None},
             version : Nat, todo : SUBSET Id, late : BOOLEAN]

PairType == [family : Id, version : Nat]

\* The pair t was issued.
Signed(t) == claims[t] # None

\* Every token belongs to the family of a token that was signed, a family
\* points to a token of its own, and no token of it but that one has a record.
Families == /\ \A t \in Id : Signed(t) => Signed(claims[t].family)
            /\ \A f \in Id : family[f] # None =>
                                Signed(family[f]) /\ claims[family[f]].family = f
            /\ OneLiveToken
            /\ FamiliesIndexed

\* A token that was exchanged is gone for good.
Exchanges == \A t \in Id : /\ exchanged[t] <= 1
                           /\ exchanged[t] # 0 => Signed(t) /\ t \notin record

Ordered == ~stale => settled <= version

\* Positions from which a request can still issue its pair.
Unsigned == {"idle", "save", "update", "members", "each", "rotate", "punish"}

\* What request d has in its hands.
Holds(d) ==
    /\ call[d].pc \in Unsigned => ~Signed(d)
    /\ call[d].token # None => Signed(call[d].token)
    /\ call[d].access # None => Signed(call[d].access)
    /\ call[d].pc \in {"rotate", "punish", "revoke"} => call[d].token # None
    /\ call[d].pc \in {"deny", "denylist", "resolve", "accepted"} => call[d].access # None

\* The family whose used token d presented stays dead.
Lost(d) == (call[d].pc = "failed" /\ call[d].op = "refresh" /\ call[d].token # None)
              => ~Alive(claims[call[d].token].family)

\* A token that came in too late is refused by the denylist or by its version.
Screened(d) ==
    /\ (call[d].pc = "denylist" /\ call[d].late) =>
          call[d].access \in denied \/ claims[call[d].access].version < settled
    /\ (call[d].pc = "resolve" /\ call[d].late) =>
          claims[call[d].access].version < settled
    /\ (call[d].pc = "accepted" /\ call[d].late) => stale

Bumped(d) == (call[d].pc \in {"members", "each"} /\ ~stale) => call[d].version <= version

\* The token d is about to exchange, unless its record is gone, is not from
\* before a change that is through, ...
Current(d) == (call[d].pc = "rotate" /\ Rotatable(call[d].token) /\ ~stale) =>
                \/ claims[call[d].token].version >= settled
                \/ claims[call[d].token].family \in orphaned

\* ... and, if it is from before the change e, among the families e still revokes.
Awaited(d, e) ==
    (call[d].pc = "rotate" /\ Rotatable(call[d].token) /\ ~stale /\ call[e].pc = "each") =>
        \/ claims[call[d].token].version >= call[e].version
        \/ claims[call[d].token].family \in orphaned \cup call[e].todo

Requests == /\ \A d \in Call : Holds(d) /\ Lost(d) /\ Screened(d) /\ Bumped(d) /\ Current(d)
            /\ \A d, e \in Call : Awaited(d, e)

IInv == TypeOK /\ Families /\ Exchanges /\ Ordered /\ Requests

StoreType == /\ version \in Nat /\ settled \in Nat /\ stale \in BOOLEAN
             /\ claims \in [Id -> PairType \cup {None}]
             /\ record \subseteq Id /\ \A t \in record : Signed(t)
             /\ family \in [Id -> Id \cup {None}]
             /\ index \subseteq Id /\ orphaned \subseteq Id /\ denied \subseteq Id
             /\ exchanged \in [Id -> Nat]

StoreInv == StoreType /\ Families /\ Exchanges /\ Ordered

LEMMA TypeOKMeans ==
  TypeOK <=> StoreType /\ call \in [Call -> CallType] /\ faults \in 0 .. MaxFaults
BY DEF TypeOK, StoreType, CallType, PairType, Pc, Signed

LEMMA Split == IInv <=> /\ StoreInv /\ call \in [Call -> CallType]
                        /\ faults \in 0 .. MaxFaults /\ Requests
BY TypeOKMeans DEF IInv, StoreInv

LEMMA Ids == Call \subseteq Id /\ Old \in Id /\ None \notin Id /\ None \notin PairType
BY IdAssumption DEF Id, PairType

-----------------------------------------------------------------------------
(* What a step does to the store: whatever it does, it is later.            *)

\* Pairs stay what they claim, tokens and families that are gone do not come
\* back, and a family that missed the index is not forgotten while its token
\* lasts.
Later ==
    /\ \A t \in Id : Signed(t) => claims'[t] = claims[t]
    /\ \A t \in Id : (Signed(t) /\ t \in record' /\ family'[claims[t].family] = t) =>
          /\ Rotatable(t)
          /\ claims[t].family \in orphaned => claims[t].family \in orphaned'
    /\ \A f \in Id : (Signed(f) /\ family'[f] # None /\ family'[f] \in record') => Alive(f)
    /\ denied \subseteq denied' /\ settled <= settled'
    /\ ~stale' => ~stale /\ version <= version'

StoreUnchanged == UNCHANGED <<version, store, claims, history>>

\* No step but these changes what families promise.
Live == [f \in Id |-> IF Alive(f) THEN family[f] ELSE None]
Of == [t \in Id |-> IF claims[t] = None THEN None ELSE claims[t].family]

LEMMA Untouched ==
  ASSUME StoreInv, StoreUnchanged
  PROVE  StoreInv' /\ Later /\ UNCHANGED <<Live, Of>>
<1> USE DEF StoreUnchanged, store, history
<1>1. StoreInv'
  BY DEF StoreInv, StoreType, Families, OneLiveToken, FamiliesIndexed, Exchanges, Ordered,
         Signed, Alive
<1>2. Later
  BY DEF StoreInv, StoreType, Later, Rotatable, Alive
<1>3. UNCHANGED <<Live, Of>>
  BY DEF Live, Of, Alive
<1> QED
  BY <1>1, <1>2, <1>3

\* A pair of claims p for c in family f, where gone is the token it replaces.
LEMMA Issued ==
  ASSUME StoreInv, NEW c \in Call, ~Signed(c), NEW f \in Id, NEW v \in Nat, NEW gone,
         \/ f = c /\ gone = None
         \/ Alive(f) /\ gone = family[f],
         claims' = [claims EXCEPT ![c] = [family |-> f, version |-> v]],
         record' = (record \ {gone}) \cup {c},
         family' = [family EXCEPT ![f] = c],
         index' = index \cup {f},
         orphaned' = orphaned \/ orphaned' = orphaned \ {f},
         \/ exchanged' = exchanged
         \/ gone # None /\ exchanged' = [exchanged EXCEPT ![gone] = @ + 1],
         UNCHANGED <<version, denied, settled, stale>>
  PROVE  StoreInv' /\ Later
<1>1. /\ c \in Id /\ None \notin Id /\ claims \in [Id -> PairType \cup {None}]
      /\ claims[c] = None /\ record \subseteq Id /\ c \notin record
      /\ family \in [Id -> Id \cup {None}]
  BY Ids DEF StoreInv, StoreType, Signed
<1>2. ASSUME gone # None
      PROVE  gone \in record /\ claims[gone].family = f /\ Signed(gone) /\ gone # c
  <2>1. family[f] # None /\ family[f] \in record /\ gone = family[f]
    BY <1>2 DEF Alive
  <2>2. Signed(family[f]) /\ claims[family[f]].family = f
    BY <2>1 DEF StoreInv, Families
  <2> QED
    BY <2>1, <2>2 DEF Signed
<1>3. Signed(f) \/ f = c
  BY <1>1, <1>2 DEF StoreInv, StoreType, Families, Alive, Signed
<1>4. [family |-> f, version |-> v] \in PairType /\ None \notin PairType
  BY Ids DEF PairType
<1>5. /\ claims' \in [Id -> PairType \cup {None}] /\ Signed(c)' /\ claims'[c].family = f
      /\ \A t \in Id \ {c} : claims'[t] = claims[t]
      /\ family' \in [Id -> Id \cup {None}] /\ family'[f] = c
      /\ \A g \in Id \ {f} : family'[g] = family[g]
  BY <1>1, <1>4 DEF Signed
<1>6. StoreType'
  BY <1>1, <1>5 DEF StoreInv, StoreType, Signed
<1>7. Families'
  <2>1. ASSUME NEW t \in Id, claims'[t] # None PROVE claims'[claims'[t].family] # None
    BY <1>1, <1>3, <1>5, <2>1 DEF StoreInv, StoreType, Families, Signed, PairType
  <2>2. ASSUME NEW g \in Id, family'[g] # None
        PROVE  claims'[family'[g]] # None /\ claims'[family'[g]].family = g
    <3>1. CASE g = f
      BY <1>5, <3>1 DEF Signed
    <3>2. CASE g # f
      BY <1>1, <1>5, <2>2, <3>2 DEF StoreInv, Families, Signed
    <3> QED
      BY <3>1, <3>2
  <2>3. ASSUME NEW t \in record' PROVE family'[claims'[t].family] = t
    <3>1. CASE t = c
      BY <1>5, <3>1
    <3>2. CASE t # c
      <4>1. t \in record /\ t # gone /\ claims'[t] = claims[t] /\ claims[t] \in PairType
            /\ family[claims[t].family] = t
        BY <1>1, <1>5, <3>2 DEF StoreInv, StoreType, Families, OneLiveToken, Signed
      <4>2. claims[t].family \in Id /\ t # None
        BY <1>1, <4>1 DEF PairType
      <4>3. claims[t].family # f
        BY <1>1, <4>1, <4>2 DEF StoreInv, Families, Signed
      <4> QED
        BY <1>5, <4>1, <4>2, <4>3
    <3> QED
      BY <3>1, <3>2
  <2>4. ASSUME NEW g \in Id, Alive(g)' PROVE g \in index' \cup orphaned'
    BY <1>1, <1>5, <2>4 DEF StoreInv, StoreType, Families, FamiliesIndexed, Alive, Signed
  <2> QED
    BY <2>1, <2>2, <2>3, <2>4 DEF Families, OneLiveToken, FamiliesIndexed, Signed
<1>8. Exchanges' /\ Ordered'
  BY <1>1, <1>2, <1>5 DEF Exchanges, Ordered, StoreInv, StoreType, Families, OneLiveToken, Signed
<1>9. Later
  BY <1>1, <1>2, <1>3, <1>5 DEF Later, StoreInv, StoreType, Families, Rotatable, Alive, Signed, OneLiveToken
<1> QED
  BY <1>6, <1>7, <1>8, <1>9 DEF StoreInv

\* The token and the family f are deleted, and perhaps its index entry.
LEMMA Revoked ==
  ASSUME StoreInv, NEW f \in Id,
         record' = record \ {family[f]},
         family' = [family EXCEPT ![f] = None],
         index' \in {index, index \ {f}},
         UNCHANGED <<version, denied, claims, history>>
  PROVE  StoreInv' /\ Later /\ (family[f] \in record' => family[f] = None)
<1> USE DEF history
<1>1. /\ record' \subseteq record /\ None \notin Id
      /\ family \in [Id -> Id \cup {None}] /\ claims \in [Id -> PairType \cup {None}]
  BY Ids DEF StoreInv, StoreType
<1>2. /\ family' \in [Id -> Id \cup {None}] /\ family'[f] = None
      /\ \A g \in Id \ {f} : family'[g] = family[g]
  BY <1>1
<1>3. StoreType'
  BY <1>1, <1>2 DEF StoreInv, StoreType, Signed
<1>4. Families'
  <2>1. ASSUME NEW g \in Id, family'[g] # None
        PROVE  claims'[family'[g]] # None /\ claims'[family'[g]].family = g
    BY <1>1, <1>2, <2>1 DEF StoreInv, Families, Signed
  <2>2. ASSUME NEW t \in record' PROVE family'[claims'[t].family] = t
    <3>1. t \in record /\ t # family[f] /\ family[claims[t].family] = t
          /\ claims[t] \in PairType /\ claims' = claims
      BY <1>1 DEF StoreInv, StoreType, Families, OneLiveToken, Signed
    <3>2. claims[t].family \in Id /\ claims[t].family # f
      BY <3>1 DEF PairType
    <3> QED
      BY <1>2, <3>1, <3>2
  <2>3. ASSUME NEW g \in Id, Alive(g)' PROVE g \in index' \cup orphaned'
    BY <1>1, <1>2, <2>3 DEF StoreInv, Families, FamiliesIndexed, Alive
  <2>4. \A t \in Id : claims'[t] # None => claims'[claims'[t].family] # None
    BY DEF StoreInv, Families, Signed
  <2> QED
    BY <2>1, <2>2, <2>3, <2>4 DEF Families, OneLiveToken, FamiliesIndexed, Signed
<1>5. Exchanges' /\ Ordered'
  BY <1>1 DEF StoreInv, Exchanges, Ordered, Signed
<1>6. Later
  <2>1. ASSUME NEW t \in Id, Signed(t), t \in record', family'[claims[t].family] = t
        PROVE  Rotatable(t)
    <3>1. claims[t] \in PairType
      BY <1>1, <2>1 DEF Signed
    <3> QED
      BY <1>1, <1>2, <2>1, <3>1 DEF Rotatable, PairType
  <2>2. \A g \in Id : (family'[g] # None /\ family'[g] \in record') => Alive(g)
    BY <1>1, <1>2 DEF Alive
  <2>3. settled' = settled /\ settled <= settled /\ version' = version /\ version <= version
    BY DEF StoreInv, StoreType
  <2> QED
    BY <2>1, <2>2, <2>3 DEF Later
<1>7. family[f] \in record' => family[f] = None
  BY <1>1
<1> QED
  BY <1>3, <1>4, <1>5, <1>6, <1>7 DEF StoreInv

\* A version, the index or the denylist changes, and no token or family.
LEMMA Counted ==
  ASSUME StoreInv, NEW v \in Nat, NEW w \in Nat,
         version' = v, settled' = w, settled <= w,
         stale' \in BOOLEAN, ~stale' => ~stale /\ version <= v /\ w <= v,
         denied' \in SUBSET Id, denied \subseteq denied',
         index' \in SUBSET Id, orphaned' = orphaned \cup {f \in index \ index' : Alive(f)},
         UNCHANGED <<record, family, claims, exchanged>>
  PROVE  StoreInv' /\ Later
<1>1. StoreType'
  BY DEF StoreInv, StoreType, Signed
<1>2. Families'
  BY DEF StoreInv, StoreType, Families, OneLiveToken, FamiliesIndexed, Signed, Alive
<1>3. Exchanges' /\ Ordered'
  BY DEF StoreInv, Exchanges, Ordered, Signed
<1>4. Later
  BY DEF StoreInv, StoreType, Later, Rotatable, Alive
<1> QED
  BY <1>1, <1>2, <1>3, <1>4 DEF StoreInv

-----------------------------------------------------------------------------
(* What the requests that do not move keep.                                 *)

\* c moves, and no other request.
Moves(c) == call' \in [Call -> CallType] /\ \A d \in Call \ {c} : call'[d] = call[d]

LEMMA Kept ==
  ASSUME IInv, Later, StoreInv', NEW d \in Call, call'[d] = call[d],
         call[d].pc \in Unsigned => claims'[d] = claims[d]
  PROVE  /\ Holds(d)' /\ Lost(d)' /\ Screened(d)' /\ Bumped(d)'
         /\ settled' = settled => Current(d)'
<1>1. /\ Holds(d) /\ Lost(d) /\ Screened(d) /\ Bumped(d) /\ Current(d)
      /\ call[d] \in CallType /\ version \in Nat /\ settled \in Nat
      /\ call[d].token \in Id \cup {None} /\ call[d].access \in Id \cup {None}
      /\ claims \in [Id -> PairType \cup {None}]
  BY Split DEF Requests, StoreInv, StoreType, CallType
<1>0. version' \in Nat /\ settled' \in Nat
  BY DEF StoreInv, StoreType
<1>2. Holds(d)'
  BY <1>1, Ids DEF Holds, Later, Signed
<1>3. Lost(d)'
  <2>1. SUFFICES ASSUME call[d].pc = "failed" /\ call[d].op = "refresh" /\ call[d].token # None,
                        Alive(claims[call[d].token].family)'
                 PROVE  FALSE
    BY DEF Lost
  <2>2. /\ Signed(call[d].token) /\ call[d].token \in Id
        /\ claims'[call[d].token] = claims[call[d].token]
    BY <1>1, <2>1 DEF Holds, Later
  <2>3. claims[call[d].token].family \in Id /\ Signed(claims[call[d].token].family)
    BY <1>1, <2>2, Split DEF StoreInv, Families, Signed, PairType
  <2>4. Alive(claims[call[d].token].family)
    BY <2>1, <2>2, <2>3 DEF Later, Alive
  <2> QED
    BY <1>1, <2>1, <2>4 DEF Lost
<1>4. Screened(d)'
  <2>1. call[d].pc \in {"denylist", "resolve"} =>
          /\ call[d].access \in Id /\ claims'[call[d].access] = claims[call[d].access]
          /\ claims[call[d].access] \in PairType
    BY <1>1 DEF Holds, Later, Signed
  <2>2. \A n \in Nat : n < settled => n < settled'
    BY <1>0, <1>1 DEF Later
  <2>3. call[d].pc \in {"denylist", "resolve"} => claims[call[d].access].version \in Nat
    BY <2>1 DEF PairType
  <2>4. stale => stale'
    BY DEF Later
  <2> QED
    BY <1>1, <2>1, <2>2, <2>3, <2>4 DEF Screened, Later
<1>5. Bumped(d)'
  <2>1. call[d].version \in Nat
    BY <1>1 DEF CallType
  <2> QED
    BY <1>0, <1>1, <2>1 DEF Bumped, Later
<1>6. ASSUME settled' = settled PROVE Current(d)'
  <2>1. call[d].pc = "rotate" =>
          /\ call[d].token \in Id /\ Signed(call[d].token)
          /\ claims'[call[d].token] = claims[call[d].token]
    BY <1>1 DEF Holds, Later
  <2>2. (call[d].pc = "rotate" /\ Rotatable(call[d].token)' /\ ~stale') =>
          /\ Rotatable(call[d].token) /\ ~stale
          /\ claims[call[d].token].family \in orphaned =>
               claims[call[d].token].family \in orphaned'
    BY <2>1 DEF Later, Rotatable
  <2> QED
    BY <1>1, <1>6, <2>1, <2>2 DEF Current
<1> QED
  BY <1>2, <1>3, <1>4, <1>5, <1>6

LEMMA KeptAwaiting ==
  ASSUME IInv, Later, NEW d \in Call, NEW e \in Call,
         call'[d] = call[d], call'[e] = call[e]
  PROVE  Awaited(d, e)'
<1>1. /\ Holds(d) /\ Awaited(d, e) /\ call[d].token \in Id \cup {None}
  BY Split DEF Requests, CallType
<1>2. call[d].pc = "rotate" =>
          /\ call[d].token \in Id /\ Signed(call[d].token)
          /\ claims'[call[d].token] = claims[call[d].token]
  BY <1>1 DEF Holds, Later
<1>3. (call[d].pc = "rotate" /\ Rotatable(call[d].token)' /\ ~stale') =>
          /\ Rotatable(call[d].token) /\ ~stale
          /\ claims[call[d].token].family \in orphaned =>
               claims[call[d].token].family \in orphaned'
  BY <1>2 DEF Later, Rotatable
<1> QED
  BY <1>1, <1>2, <1>3 DEF Awaited

\* A step of c, from what it does to the store and to c.
LEMMA Step ==
  ASSUME IInv, Later, StoreInv', faults' \in 0 .. MaxFaults,
         NEW c \in Call, Moves(c),
         \A d \in Call \ {c} : claims'[d] = claims[d],
         settled' = settled \/ \A d \in Call \ {c} : Current(d)',
         Holds(c)', Lost(c)', Screened(c)', Bumped(c)', Current(c)',
         \A d \in Call : Awaited(d, c)' /\ Awaited(c, d)'
  PROVE  IInv'
<1>1. ASSUME NEW d \in Call
      PROVE  Holds(d)' /\ Lost(d)' /\ Screened(d)' /\ Bumped(d)' /\ Current(d)'
  <2>1. CASE d = c
    BY <2>1
  <2>2. CASE d # c
    BY <2>2, Kept DEF Moves
  <2> QED
    BY <2>1, <2>2
<1>2. ASSUME NEW d \in Call, NEW e \in Call PROVE Awaited(d, e)'
  BY KeptAwaiting DEF Moves
<1>3. Requests'
  BY <1>1, <1>2 DEF Requests
<1>4. TypeOK'
  BY DEF Moves, StoreInv, StoreType, TypeOK, CallType, PairType, Pc, Signed
<1> QED
  BY <1>3, <1>4 DEF IInv, StoreInv

-----------------------------------------------------------------------------
(* Where a request goes.                                                    *)

LEMMA GotoFields ==
  ASSUME IInv, NEW c \in Call, NEW pc \in Pc, Goto(c, pc)
  PROVE  /\ Moves(c) /\ call'[c].pc = pc /\ call'[c].op = call[c].op
         /\ call'[c].token = call[c].token /\ call'[c].access = call[c].access
         /\ call'[c].version = call[c].version /\ call'[c].todo = call[c].todo
         /\ call'[c].late = call[c].late
<1>1. call \in [Call -> CallType] /\ call[c] \in CallType
  BY Split
<1>2. [call[c] EXCEPT !.pc = pc] \in CallType
  BY <1>1 DEF CallType
<1>3. call'[c] = [call[c] EXCEPT !.pc = pc] /\ \A d \in Call \ {c} : call'[d] = call[d]
  BY <1>1 DEF Goto
<1>4. call' \in [Call -> CallType]
  BY <1>1, <1>2, <1>3 DEF Goto
<1> QED
  BY <1>1, <1>3, <1>4 DEF Moves, CallType

LEMMA Ended ==
  ASSUME IInv, NEW c \in Call, Return(c) \/ Reject(c)
  PROVE  /\ Moves(c) /\ call'[c].pc \in {"done", "failed"}
         /\ call'[c].token = None /\ call'[c].access = None
<1>1. /\ Empty("done") \in CallType /\ Empty("failed") \in CallType
      /\ Empty("done").pc = "done" /\ Empty("failed").pc = "failed"
      /\ Empty("done").token = None /\ Empty("failed").token = None
      /\ Empty("done").access = None /\ Empty("failed").access = None
  BY DEF Empty, CallType, Pc
<1>2. call \in [Call -> CallType]
  BY Split
<1>3. PICK l \in CallType : /\ l.pc \in {"done", "failed"} /\ l.token = None /\ l.access = None
                            /\ call' = [call EXCEPT ![c] = l]
  BY <1>1 DEF Return, Reject
<1> QED
  BY <1>2, <1>3 DEF Moves

\* Positions at which nothing but what is held is relied on.
Plain == {"save", "answer", "update", "punish", "revoke", "deny", "done"}

LEMMA PlainStep ==
  ASSUME IInv, Later, StoreInv', faults' \in 0 .. MaxFaults,
         NEW c \in Call, Moves(c), \A d \in Call \ {c} : claims'[d] = claims[d],
         settled' = settled \/ \A d \in Call \ {c} : Current(d)',
         call'[c].pc \in Plain \/ (call'[c].pc = "failed" /\ call'[c].token = None),
         Holds(c)'
  PROVE  IInv'
<1>1. Lost(c)' /\ Screened(c)' /\ Bumped(c)' /\ Current(c)'
  BY DEF Plain, Lost, Screened, Bumped, Current
<1>2. \A d \in Call : Awaited(d, c)' /\ Awaited(c, d)'
  BY DEF Plain, Awaited
<1> QED
  BY <1>1, <1>2, Step

LEMMA EndedStep ==
  ASSUME IInv, Later, StoreInv', faults' \in 0 .. MaxFaults,
         NEW c \in Call, Return(c) \/ Reject(c),
         claims' = claims, settled' = settled
  PROVE  IInv'
<1>1. Holds(c)'
  BY Ended DEF Holds, Unsigned
<1> QED
  BY <1>1, Ended, PlainStep DEF Plain

LEMMA Faults == IInv => /\ faults \in 0 .. MaxFaults
                        /\ faults < MaxFaults => faults + 1 \in 0 .. MaxFaults
BY Split, BoundAssumption

\* A step of c that changes nothing but c.
LEMMA Alone ==
  ASSUME IInv, StoreUnchanged, UNCHANGED faults
  PROVE  /\ Later /\ StoreInv' /\ faults' \in 0 .. MaxFaults
         /\ claims' = claims /\ settled' = settled
BY Untouched, Faults, Split DEF StoreUnchanged, history

\* What a request that has not signed its pair holds.
LEMMA Held ==
  ASSUME IInv, NEW c \in Call
  PROVE  /\ call[c] \in CallType /\ Holds(c) /\ Lost(c) /\ Screened(c) /\ Bumped(c)
         /\ Current(c) /\ c \in Id
BY Split, Ids DEF Requests

LEMMA KnownSigned == \A t \in Known : t \in Id /\ Signed(t)
BY DEF Known, Signed

-----------------------------------------------------------------------------
(* Login.                                                                   *)

LEMMA LoginStep == ASSUME IInv, NEW c \in Call, Login(c) PROVE IInv'
<1> DEFINE l == [call[c] EXCEPT !.op = "login", !.pc = "save", !.version = version]
<1>1. /\ call[c] \in CallType /\ version \in Nat /\ Holds(c) /\ call[c].pc = "idle"
      /\ call \in [Call -> CallType]
  BY Held, Split DEF StoreInv, StoreType, Login, Arrives, At
<1>2. l \in CallType /\ l.pc = "save" /\ l.token = call[c].token /\ l.access = call[c].access
  BY <1>1 DEF CallType, Pc
<1>3. call' = [call EXCEPT ![c] = l]
  BY <1>1 DEF Login, CallType
<1> HIDE DEF l
<1>4. Moves(c) /\ call'[c] = l
  BY <1>1, <1>2, <1>3 DEF Moves
<1>5. StoreUnchanged /\ UNCHANGED faults
  BY DEF Login, StoreUnchanged
<1>6. Holds(c)'
  BY <1>1, <1>2, <1>4, <1>5, Alone DEF Holds, Unsigned, Signed
<1>7. call'[c].pc \in Plain
  BY <1>2, <1>4 DEF Plain
<1> QED
  BY <1>4, <1>5, <1>6, <1>7, Alone, PlainStep

LEMMA CreateSessionStep == ASSUME IInv, NEW c \in Call, CreateSession(c) PROVE IInv'
<1>1. /\ call[c] \in CallType /\ Holds(c) /\ call[c].pc = "save" /\ c \in Id
      /\ StoreInv
  BY Held, Split DEF CreateSession, At
<1>2. ~Signed(c) /\ call[c].version \in Nat
  BY <1>1 DEF Holds, Unsigned, CallType
<1>3. record \ {None} = record
  BY <1>1, Ids DEF StoreInv, StoreType
<1>4. /\ claims' = [claims EXCEPT ![c] = [family |-> c, version |-> call[c].version]]
      /\ record' = (record \ {None}) \cup {c}
      /\ family' = [family EXCEPT ![c] = c] /\ index' = index \cup {c}
      /\ orphaned' = orphaned /\ exchanged' = exchanged
      /\ UNCHANGED <<version, denied, settled, stale, faults>>
  BY <1>3 DEF CreateSession, Sign, Save, history
<1>5. PICK v \in Nat : v = call[c].version
  BY <1>2
<1>6. StoreInv' /\ Later
  BY <1>1, <1>2, <1>4, <1>5, Issued
<1>7. Moves(c) /\ call'[c].pc = "answer" /\ call'[c].token = call[c].token
      /\ call'[c].access = call[c].access
  BY GotoFields DEF CreateSession, Pc
<1>8. \A d \in Call \ {c} : claims'[d] = claims[d]
  BY <1>1, <1>4, Ids DEF StoreInv, StoreType
<1>9. Holds(c)'
  BY <1>1, <1>6, <1>7, Ids DEF Holds, Unsigned, CallType, Later, Signed
<1>10. call'[c].pc \in Plain /\ faults' \in 0 .. MaxFaults
  BY <1>4, <1>7, Faults DEF Plain
<1> QED
  BY <1>4, <1>6, <1>7, <1>8, <1>9, <1>10, PlainStep

-----------------------------------------------------------------------------
(* A password changed or reset.                                             *)

LEMMA ReadUserStep == ASSUME IInv, NEW c \in Call, ReadUser(c) PROVE IInv'
<1> DEFINE l == [call[c] EXCEPT !.op = "change", !.pc = "update", !.version = version + 1]
<1>1. /\ call[c] \in CallType /\ version \in Nat /\ Holds(c) /\ call[c].pc = "idle"
      /\ call \in [Call -> CallType]
  BY Held, Split DEF StoreInv, StoreType, ReadUser, Arrives, At
<1>2. version + 1 \in Nat
  BY <1>1
<1>3. l \in CallType /\ l.pc = "update" /\ l.token = call[c].token /\ l.access = call[c].access
  BY <1>1, <1>2 DEF CallType, Pc
<1>4. call' = [call EXCEPT ![c] = l]
  BY <1>1 DEF ReadUser, CallType
<1> HIDE DEF l
<1>5. Moves(c) /\ call'[c] = l
  BY <1>1, <1>3, <1>4 DEF Moves
<1>6. StoreUnchanged /\ UNCHANGED faults
  BY DEF ReadUser, StoreUnchanged
<1>7. Holds(c)'
  BY <1>1, <1>3, <1>5, <1>6, Alone DEF Holds, Unsigned, Signed
<1>8. call'[c].pc \in Plain
  BY <1>3, <1>5 DEF Plain
<1> QED
  BY <1>5, <1>6, <1>7, <1>8, Alone, PlainStep

LEMMA UpdateUserStep == ASSUME IInv, NEW c \in Call, UpdateUser(c) PROVE IInv'
<1>1. /\ call[c] \in CallType /\ Holds(c) /\ call[c].pc = "update"
      /\ StoreInv /\ StoreType /\ Ordered /\ call[c].version \in Nat
      /\ settled \in Nat /\ version \in Nat /\ stale \in BOOLEAN
  BY Held, Split DEF UpdateUser, At, CallType, StoreInv, StoreType
<1>2. PICK v \in Nat : v = call[c].version
  BY <1>1
<1>3. /\ version' = v /\ settled' = settled /\ stale' \in BOOLEAN
      /\ ~stale' => ~stale /\ v = version + 1
      /\ denied' = denied /\ index' = index /\ orphaned' = orphaned
      /\ UNCHANGED <<record, family, claims, exchanged, faults>>
  BY <1>1, <1>2 DEF UpdateUser, store
<1>4. ~stale' => ~stale /\ version <= v /\ settled <= v
  BY <1>1, <1>3 DEF Ordered
<1>5. orphaned' = orphaned \cup {f \in index \ index' : Alive(f)}
  BY <1>3
<1>6. denied' \in SUBSET Id /\ index' \in SUBSET Id /\ settled <= settled
      /\ denied \subseteq denied'
  BY <1>1, <1>3 DEF StoreType
<1>7. StoreInv' /\ Later
  BY <1>1, <1>3, <1>4, <1>5, <1>6, Counted
<1>8. /\ Moves(c) /\ call'[c].pc = "members" /\ call'[c].version = call[c].version
      /\ call'[c].token = call[c].token /\ call'[c].access = call[c].access
  BY GotoFields DEF UpdateUser, Pc
<1>9. Holds(c)'
  BY <1>1, <1>3, <1>8 DEF Holds, Unsigned, Signed
<1>10. Bumped(c)'
  BY <1>2, <1>3, <1>8 DEF Bumped
<1>11. Lost(c)' /\ Screened(c)' /\ Current(c)' /\ \A d \in Call : Awaited(d, c)' /\ Awaited(c, d)'
  BY <1>8 DEF Lost, Screened, Current, Awaited
<1> QED
  BY <1>3, <1>7, <1>8, <1>9, <1>10, <1>11, Faults, Step

LEMMA ListFamiliesStep == ASSUME IInv, NEW c \in Call, ListFamilies(c) PROVE IInv'
<1> DEFINE l == [call[c] EXCEPT !.pc = "each", !.todo = index]
<1>1. /\ call[c] \in CallType /\ index \in SUBSET Id /\ Holds(c) /\ Bumped(c)
      /\ call[c].pc = "members" /\ call \in [Call -> CallType] /\ Requests /\ StoreInv
  BY Held, Split DEF StoreInv, StoreType, ListFamilies, At
<1>2. /\ l \in CallType /\ l.pc = "each" /\ l.token = call[c].token
      /\ l.access = call[c].access /\ l.version = call[c].version /\ l.todo = index
  BY <1>1 DEF CallType, Pc
<1>3. call' = [call EXCEPT ![c] = l]
  BY <1>1 DEF ListFamilies, CallType
<1> HIDE DEF l
<1>4. Moves(c) /\ call'[c] = l
  BY <1>1, <1>2, <1>3 DEF Moves
<1>5. StoreUnchanged /\ UNCHANGED faults
  BY DEF ListFamilies, StoreUnchanged
<1>6. Holds(c)' /\ Bumped(c)'
  BY <1>1, <1>2, <1>4, <1>5, Alone DEF Holds, Bumped, Unsigned, Signed, StoreUnchanged, history
<1>7. Lost(c)' /\ Screened(c)' /\ Current(c)'
  BY <1>2, <1>4 DEF Lost, Screened, Current
\* The family of a token about to be exchanged is indexed now, or orphaned.
<1>8. ASSUME NEW d \in Call PROVE Awaited(d, c)' /\ Awaited(c, d)'
  <2>1. Awaited(c, d)'
    BY <1>2, <1>4 DEF Awaited
  <2>2. CASE d = c
    BY <2>1, <2>2
  <2>3. CASE d # c
    <3>1. SUFFICES ASSUME call[d].pc = "rotate", Rotatable(call[d].token)
                   PROVE  claims[call[d].token].family \in orphaned \cup index
      BY <1>2, <1>4, <1>5, <2>1, <2>3
      DEF Awaited, Moves, StoreUnchanged, store, history, Rotatable
    <3>2. /\ call[d].token \in Id /\ Signed(call[d].token)
      BY <3>1, Held DEF Holds, CallType
    <3>3. claims[call[d].token].family \in Id /\ Alive(claims[call[d].token].family)
      BY <1>1, <3>1, <3>2, Ids DEF Rotatable, Alive, StoreInv, StoreType, Signed, PairType
    <3> QED
      BY <1>1, <3>3 DEF StoreInv, Families, FamiliesIndexed
  <2> QED
    BY <2>2, <2>3
<1> QED
  BY <1>4, <1>5, <1>6, <1>7, <1>8, Alone, Step

LEMMA FamilyRevoked ==
  ASSUME IInv, NEW f \in Id, RevokeFamily(f), UNCHANGED <<version, denied, claims, history>>
  PROVE  StoreInv' /\ Later /\ family'[f] = None /\ settled' = settled
<1>1. StoreInv' /\ Later
  BY Split, Revoked DEF RevokeFamily
<1>2. family'[f] = None
  BY Split DEF RevokeFamily, StoreInv, StoreType
<1> QED
  BY <1>1, <1>2 DEF history

LEMMA RevokeEachStep == ASSUME IInv, NEW c \in Call, RevokeEach(c) PROVE IInv'
<1>1. PICK f \in call[c].todo :
        RevokeFamily(f) /\ call' = [call EXCEPT ![c].todo = @ \ {f}]
  BY DEF RevokeEach
<1>2. /\ call[c] \in CallType /\ call[c].pc = "each" /\ call[c].todo \in SUBSET Id /\ f \in Id
      /\ Holds(c) /\ Bumped(c) /\ call \in [Call -> CallType] /\ Requests /\ StoreInv
      /\ UNCHANGED <<version, denied, claims, history, faults>>
  BY <1>1, Held, Split DEF RevokeEach, At, CallType
<1>3. StoreInv' /\ Later /\ family'[f] = None /\ settled' = settled
  BY <1>1, <1>2, FamilyRevoked
<1> DEFINE l == [call[c] EXCEPT !.todo = @ \ {f}]
<1>4. /\ l \in CallType /\ l.pc = "each" /\ l.token = call[c].token
      /\ l.access = call[c].access /\ l.version = call[c].version
      /\ l.todo = call[c].todo \ {f}
  BY <1>2 DEF CallType
<1>5. call' = [call EXCEPT ![c] = l]
  BY <1>1, <1>2 DEF CallType
<1> HIDE DEF l
<1>6. Moves(c) /\ call'[c] = l
  BY <1>2, <1>4, <1>5 DEF Moves
<1>7. Holds(c)' /\ Bumped(c)'
  BY <1>2, <1>4, <1>6 DEF Holds, Bumped, Unsigned, Signed, history
<1>8. Lost(c)' /\ Screened(c)' /\ Current(c)'
  BY <1>4, <1>6 DEF Lost, Screened, Current
\* A token of the family just revoked can no longer be exchanged.
<1>9. ASSUME NEW d \in Call PROVE Awaited(d, c)' /\ Awaited(c, d)'
  <2>1. Awaited(c, d)'
    BY <1>4, <1>6 DEF Awaited
  <2>2. CASE d = c
    BY <2>1, <2>2
  <2>3. CASE d # c
    <3>1. call'[d] = call[d] /\ Awaited(d, c) /\ claims' = claims /\ stale' = stale
          /\ orphaned' = orphaned
      BY <1>2, <1>6, <2>3 DEF Moves, Requests, history
    <3>2. ASSUME call[d].pc = "rotate", Rotatable(call[d].token)'
          PROVE  /\ Rotatable(call[d].token)
                 /\ claims[call[d].token].family # f
      <4>1. call[d].token \in Id /\ Signed(call[d].token)
        BY <3>2, Held DEF Holds, CallType
      <4>2. family'[claims[call[d].token].family] = call[d].token /\ call[d].token \in record'
        BY <3>1, <3>2 DEF Rotatable
      <4> QED
        BY <1>3, <4>1, <4>2, Ids DEF Later
    <3> QED
      BY <1>2, <1>4, <1>6, <2>1, <3>1, <3>2 DEF Awaited
  <2> QED
    BY <2>2, <2>3
<1>10. faults' \in 0 .. MaxFaults /\ \A d \in Call \ {c} : claims'[d] = claims[d]
  BY <1>2, Faults
<1> QED
  BY <1>3, <1>6, <1>7, <1>8, <1>9, <1>10, Step

LEMMA DropIndexStep == ASSUME IInv, NEW c \in Call, DropIndex(c) PROVE IInv'
<1>1. /\ call[c] \in CallType /\ Holds(c) /\ Bumped(c) /\ call[c].pc = "each"
      /\ call[c].todo = {} /\ StoreInv /\ StoreType /\ Ordered /\ Requests
      /\ call[c].version \in Nat /\ settled \in Nat /\ version \in Nat
  BY Held, Split DEF DropIndex, At, CallType, StoreInv, StoreType
<1>2. PICK w \in Nat : w = IF call[c].version > settled THEN call[c].version ELSE settled
  BY <1>1
<1>3. /\ version' = version /\ settled' = w /\ stale' = stale /\ denied' = denied
      /\ index' = {} /\ orphaned' = orphaned \cup {f \in index : Alive(f)}
      /\ UNCHANGED <<record, family, claims, exchanged, faults>>
  BY <1>2 DEF DropIndex
<1>4. settled <= w /\ (~stale => w <= version) /\ version <= version
  BY <1>1, <1>2 DEF Ordered, Bumped
<1>5. index \ index' = index /\ index' \in SUBSET Id /\ denied' \in SUBSET Id
      /\ stale' \in BOOLEAN
  BY <1>1, <1>3 DEF StoreType
<1>6. StoreInv' /\ Later
  BY <1>1, <1>3, <1>4, <1>5, Counted
<1>7. Moves(c) /\ call'[c].pc = "save" /\ call'[c].token = call[c].token
      /\ call'[c].access = call[c].access
  BY GotoFields DEF DropIndex, Pc
<1>8. Holds(c)' /\ call'[c].pc \in Plain
  BY <1>1, <1>3, <1>7 DEF Holds, Unsigned, Signed, Plain
\* Of the families that were to be revoked none is left.
<1>9. ASSUME NEW d \in Call \ {c} PROVE Current(d)'
  <2>1. call'[d] = call[d] /\ Current(d) /\ Awaited(d, c) /\ Rotatable(call[d].token)'
          = Rotatable(call[d].token)
    BY <1>1, <1>3, <1>7 DEF Moves, Requests, Rotatable
  <2>2. orphaned \subseteq orphaned'
    BY <1>3
  <2> QED
    BY <1>1, <1>2, <1>3, <2>1, <2>2 DEF Current, Awaited
<1> QED
  BY <1>3, <1>6, <1>7, <1>8, <1>9, Faults, PlainStep

-----------------------------------------------------------------------------
(* Refresh.                                                                 *)

LEMMA LoadFreshUserStep == ASSUME IInv, NEW c \in Call, LoadFreshUser(c) PROVE IInv'
<1>1. PICK t \in Known :
        /\ claims[t].version = version
        /\ call' = [call EXCEPT ![c].op = "refresh", ![c].pc = "rotate",
                                ![c].token = t, ![c].version = version]
  BY DEF LoadFreshUser
<1> DEFINE l == [call[c] EXCEPT !.op = "refresh", !.pc = "rotate",
                                !.token = t, !.version = version]
<1>2. /\ call[c] \in CallType /\ version \in Nat /\ Holds(c) /\ call[c].pc = "idle"
      /\ call \in [Call -> CallType] /\ t \in Id /\ Signed(t) /\ t # None
      /\ StoreInv /\ Requests
  BY Held, Split, KnownSigned, Ids DEF StoreInv, StoreType, LoadFreshUser, Arrives, At
<1>3. l \in CallType /\ l.pc = "rotate" /\ l.token = t /\ l.access = call[c].access
  BY <1>2 DEF CallType, Pc
<1>4. call' = [call EXCEPT ![c] = l]
  BY <1>1, <1>2 DEF CallType
<1> HIDE DEF l
<1>5. Moves(c) /\ call'[c] = l
  BY <1>2, <1>3, <1>4 DEF Moves
<1>6. StoreUnchanged /\ UNCHANGED faults
  BY DEF LoadFreshUser, StoreUnchanged
<1>7. UNCHANGED <<version, record, family, claims, settled, stale, orphaned>>
  BY <1>6 DEF StoreUnchanged, store, history
<1>8. Holds(c)'
  BY <1>2, <1>3, <1>5, <1>7 DEF Holds, Unsigned, Signed
<1>9. Lost(c)' /\ Screened(c)' /\ Bumped(c)'
  BY <1>3, <1>5 DEF Lost, Screened, Bumped
\* Its version is the present one: no change that is through or on its way is
\* later.
<1>10. Current(c)'
  BY <1>1, <1>2, <1>3, <1>5, <1>7 DEF Current, StoreInv, Ordered
<1>11. ASSUME NEW d \in Call PROVE Awaited(d, c)' /\ Awaited(c, d)'
  <2>1. Awaited(d, c)' /\ (d = c => Awaited(c, d)')
    BY <1>3, <1>5 DEF Awaited
  <2>2. CASE d # c
    <3>1. call'[d] = call[d] /\ Bumped(d)
      BY <1>2, <1>5, <2>2 DEF Moves, Requests
    <3>2. Awaited(c, d)'
      BY <1>1, <1>3, <1>5, <1>7, <3>1 DEF Awaited, Bumped
    <3> QED
      BY <2>1, <3>2
  <2> QED
    BY <2>1, <2>2
<1> QED
  BY <1>5, <1>6, <1>8, <1>9, <1>10, <1>11, Alone, Step

LEMMA RotateTokenStep == ASSUME IInv, NEW c \in Call, RotateToken(c) PROVE IInv'
<1> DEFINE t == call[c].token
           f == claims[t].family
<1>1. /\ call[c] \in CallType /\ Holds(c) /\ call[c].pc = "rotate" /\ c \in Id /\ StoreInv
  BY Held, Split DEF RotateToken, At
<1>2. ~Signed(c) /\ t # None /\ t \in Id /\ Signed(t) /\ call[c].version \in Nat
  BY <1>1 DEF Holds, Unsigned, CallType
<1>3. f \in Id
  BY <1>1, <1>2 DEF StoreInv, StoreType, Signed, PairType
<1>4. CASE Rotatable(t)
  <2>1. /\ claims' = [claims EXCEPT ![c] = [family |-> f, version |-> call[c].version]]
        /\ record' = (record \ {t}) \cup {c}
        /\ family' = [family EXCEPT ![f] = c] /\ index' = index \cup {f}
        /\ orphaned' = orphaned \ {f} /\ exchanged' = [exchanged EXCEPT ![t] = @ + 1]
        /\ Goto(c, "answer")
    BY <1>4 DEF RotateToken, Rotate, Sign
  <2>2. UNCHANGED <<version, denied, settled, stale, faults>>
    BY DEF RotateToken
  <2>3. Alive(f) /\ t = family[f]
    BY <1>2, <1>4 DEF Alive, Rotatable
  <2>4. PICK v \in Nat, g \in Id, gone \in {t} : v = call[c].version /\ g = f /\ gone = t
    BY <1>2, <1>3
  <2> HIDE DEF t, f
  <2>5. StoreInv' /\ Later
    BY <1>1, <1>2, <2>1, <2>2, <2>3, <2>4, Issued
  <2>6. Moves(c) /\ call'[c].pc = "answer" /\ call'[c].token = call[c].token
        /\ call'[c].access = call[c].access
    BY <2>1, GotoFields DEF Pc
  <2>7. \A d \in Call \ {c} : claims'[d] = claims[d]
    BY <1>1, <2>1, Ids DEF StoreInv, StoreType
  <2>8. Holds(c)' /\ call'[c].pc \in Plain
    BY <1>1, <2>5, <2>6, Ids DEF Holds, Unsigned, CallType, Later, Signed, Plain
  <2>9. faults' \in 0 .. MaxFaults
    BY <2>2, Faults
  <2> QED
    BY <2>2, <2>5, <2>6, <2>7, <2>8, <2>9, PlainStep
<1>5. CASE ~Rotatable(t)
  <2>1. StoreUnchanged /\ UNCHANGED faults /\ Goto(c, "punish")
    BY <1>5 DEF RotateToken, StoreUnchanged, store, history
  <2>2. Moves(c) /\ call'[c].pc = "punish" /\ call'[c].token = call[c].token
        /\ call'[c].access = call[c].access
    BY <2>1, GotoFields DEF Pc
  <2>3. Holds(c)' /\ call'[c].pc \in Plain
    BY <1>1, <2>1, <2>2, Alone DEF Holds, Unsigned, Signed, Plain
  <2> QED
    BY <2>1, <2>2, <2>3, Alone, PlainStep
<1> QED
  BY <1>4, <1>5

LEMMA PunishStep == ASSUME IInv, NEW c \in Call, Punish(c) PROVE IInv'
<1>1. /\ Holds(c) /\ call[c].pc = "punish" /\ StoreInv /\ call[c].token \in Id \cup {None}
  BY Held, Split DEF Punish, At, CallType
<1>2. PICK f \in Id : f = claims[call[c].token].family
  BY <1>1 DEF Holds, StoreInv, StoreType, Signed, PairType
<1>3. RevokeFamily(f) /\ UNCHANGED <<version, denied, claims, history, faults>>
  BY <1>2 DEF Punish
<1>4. StoreInv' /\ Later /\ family'[f] = None /\ settled' = settled
  BY <1>3, FamilyRevoked
<1>5. /\ Moves(c) /\ call'[c].pc = "failed" /\ call'[c].token = call[c].token
      /\ call'[c].access = call[c].access
  BY GotoFields DEF Punish, Goto, Pc
<1>6. Holds(c)' /\ Lost(c)'
  BY <1>1, <1>2, <1>3, <1>4, <1>5 DEF Holds, Unsigned, Signed, Lost, Alive
<1>7. Screened(c)' /\ Bumped(c)' /\ Current(c)' /\ \A d \in Call : Awaited(d, c)' /\ Awaited(c, d)'
  BY <1>5 DEF Screened, Bumped, Current, Awaited
<1>8. faults' \in 0 .. MaxFaults /\ \A d \in Call \ {c} : claims'[d] = claims[d]
  BY <1>3, Faults
<1> QED
  BY <1>4, <1>5, <1>6, <1>7, <1>8, Step

-----------------------------------------------------------------------------
(* Logout.                                                                  *)

LEMMA LogoutStep == ASSUME IInv, NEW c \in Call, Logout(c) PROVE IInv'
<1>1. PICK t \in Known, a \in Known \cup {None} :
        call' = [call EXCEPT ![c].op = "logout", ![c].pc = "revoke",
                             ![c].token = t, ![c].access = a]
  BY DEF Logout
<1> DEFINE l == [call[c] EXCEPT !.op = "logout", !.pc = "revoke", !.token = t, !.access = a]
<1>2. /\ call[c] \in CallType /\ call \in [Call -> CallType]
      /\ t \in Id /\ Signed(t) /\ t # None /\ a \in Id \cup {None} /\ (a # None => Signed(a))
  BY Held, Split, KnownSigned, Ids
<1>3. l \in CallType /\ l.pc = "revoke" /\ l.token = t /\ l.access = a
  BY <1>2 DEF CallType, Pc
<1>4. call' = [call EXCEPT ![c] = l]
  BY <1>1, <1>2 DEF CallType
<1> HIDE DEF l
<1>5. Moves(c) /\ call'[c] = l
  BY <1>2, <1>3, <1>4 DEF Moves
<1>6. StoreUnchanged /\ UNCHANGED faults
  BY DEF Logout, StoreUnchanged
<1>7. Holds(c)' /\ call'[c].pc \in Plain
  BY <1>2, <1>3, <1>5, <1>6, Alone DEF Holds, Unsigned, Signed, Plain
<1> QED
  BY <1>5, <1>6, <1>7, Alone, PlainStep

LEMMA RevokeSessionStep == ASSUME IInv, NEW c \in Call, RevokeSession(c) PROVE IInv'
<1>1. /\ Holds(c) /\ call[c].pc = "revoke" /\ StoreInv /\ call[c].token \in Id \cup {None}
  BY Held, Split DEF RevokeSession, At, CallType
<1>2. PICK f \in Id : f = claims[call[c].token].family
  BY <1>1 DEF Holds, StoreInv, StoreType, Signed, PairType
<1>3. RevokeFamily(f) /\ UNCHANGED <<version, denied, claims, history, faults>>
  BY <1>2 DEF RevokeSession
<1>4. StoreInv' /\ Later /\ settled' = settled
  BY <1>3, FamilyRevoked
<1>5. faults' \in 0 .. MaxFaults /\ \A d \in Call \ {c} : claims'[d] = claims[d]
  BY <1>3, Faults
<1>6. CASE call[c].access = None
  BY <1>3, <1>4, <1>5, <1>6, EndedStep DEF RevokeSession
<1>7. CASE call[c].access # None
  <2>1. Moves(c) /\ call'[c].pc = "deny" /\ call'[c].token = call[c].token
        /\ call'[c].access = call[c].access
    BY <1>7, GotoFields DEF RevokeSession, Pc
  <2>2. Holds(c)' /\ call'[c].pc \in Plain
    BY <1>1, <1>3, <1>7, <2>1 DEF Holds, Unsigned, Signed, Plain
  <2> QED
    BY <1>4, <1>5, <2>1, <2>2, PlainStep
<1> QED
  BY <1>6, <1>7

LEMMA DenyAccessStep == ASSUME IInv, NEW c \in Call, DenyAccess(c) PROVE IInv'
<1>1. /\ call[c].access \in Id /\ StoreInv /\ StoreType /\ Ordered
      /\ version \in Nat /\ settled \in Nat
  BY Held, Split DEF DenyAccess, At, Holds, CallType, StoreInv, StoreType
<1>2. /\ version' = version /\ settled' = settled /\ stale' = stale
      /\ denied' = denied \cup {call[c].access} /\ index' = index /\ orphaned' = orphaned
      /\ UNCHANGED <<record, family, claims, exchanged, faults>>
  BY DEF DenyAccess, history
<1>3. settled <= settled /\ version <= version /\ (~stale => settled <= version)
  BY <1>1 DEF Ordered
<1>4. /\ stale' \in BOOLEAN /\ denied' \in SUBSET Id /\ denied \subseteq denied'
      /\ index' \in SUBSET Id /\ orphaned' = orphaned \cup {f \in index \ index' : Alive(f)}
  BY <1>1, <1>2 DEF StoreType
<1>5. StoreInv' /\ Later
  BY <1>1, <1>2, <1>3, <1>4, Counted
<1> QED
  BY <1>2, <1>5, Faults, EndedStep DEF DenyAccess

-----------------------------------------------------------------------------
(* Access tokens.                                                           *)

LEMMA VerifyAccessStep == ASSUME IInv, NEW c \in Call, VerifyAccess(c) PROVE IInv'
<1>1. PICK a \in Known :
        call' = [call EXCEPT ![c].op = "verify", ![c].pc = "denylist", ![c].access = a,
                   ![c].late = a \in denied \/ claims[a].version < settled]
  BY DEF VerifyAccess
<1> DEFINE late == a \in denied \/ claims[a].version < settled
           l == [call[c] EXCEPT !.op = "verify", !.pc = "denylist", !.access = a,
                                !.late = late]
<1>2. /\ call[c] \in CallType /\ call \in [Call -> CallType] /\ Holds(c)
      /\ a \in Id /\ Signed(a) /\ a # None /\ late \in BOOLEAN
  BY Held, Split, KnownSigned, Ids
<1>3. /\ l \in CallType /\ l.pc = "denylist" /\ l.token = call[c].token /\ l.access = a
      /\ l.late = late
  BY <1>2 DEF CallType, Pc
<1>4. call' = [call EXCEPT ![c] = l]
  BY <1>1, <1>2 DEF CallType
<1> HIDE DEF l
<1>5. Moves(c) /\ call'[c] = l
  BY <1>2, <1>3, <1>4 DEF Moves
<1>6. StoreUnchanged /\ UNCHANGED <<faults, claims, denied, settled>>
  BY DEF VerifyAccess, StoreUnchanged, store, history
<1>7. Holds(c)' /\ Screened(c)'
  BY <1>2, <1>3, <1>5, <1>6 DEF Holds, Unsigned, Signed, Screened
<1>8. Lost(c)' /\ Bumped(c)' /\ Current(c)' /\ \A d \in Call : Awaited(d, c)' /\ Awaited(c, d)'
  BY <1>3, <1>5 DEF Lost, Bumped, Current, Awaited
<1> QED
  BY <1>5, <1>6, <1>7, <1>8, Alone, Step

\* A verification goes on, or the request ends.
LEMMA VerifiedStep ==
  ASSUME IInv, NEW c \in Call, NEW pc \in {"resolve", "accepted"}, Goto(c, pc),
         call[c].access # None, StoreUnchanged, UNCHANGED faults, Screened(c)'
  PROVE  IInv'
<1>1. Moves(c) /\ call'[c].pc = pc /\ call'[c].token = call[c].token
      /\ call'[c].access = call[c].access
  BY GotoFields DEF Pc
<1>2. Holds(c)'
  BY <1>1, Held, Alone DEF Holds, Unsigned, Signed
<1>3. Lost(c)' /\ Bumped(c)' /\ Current(c)' /\ \A d \in Call : Awaited(d, c)' /\ Awaited(c, d)'
  BY <1>1 DEF Lost, Bumped, Current, Awaited
<1> QED
  BY <1>1, <1>2, <1>3, Alone, Step

LEMMA CheckDenylistStep == ASSUME IInv, NEW c \in Call, CheckDenylist(c) PROVE IInv'
<1>1. StoreUnchanged /\ UNCHANGED <<faults, claims, denied, settled>>
  BY DEF CheckDenylist, StoreUnchanged, store, history
<1>2. CASE Reject(c)
  BY <1>1, <1>2, Alone, EndedStep
<1>3. CASE call[c].access \notin denied /\ Goto(c, "resolve")
  <2>1. call'[c].pc = "resolve" /\ call'[c].access = call[c].access /\ call'[c].late = call[c].late
    BY <1>3, GotoFields DEF Pc
  <2>2. Screened(c)'
    BY <1>1, <1>3, <2>1, Held DEF Screened, CheckDenylist, At
  <2>3. call[c].access # None
    BY Held DEF Holds, CheckDenylist, At
  <2> QED
    BY <1>1, <1>3, <2>2, <2>3, VerifiedStep
<1> QED
  BY <1>2, <1>3 DEF CheckDenylist

LEMMA ResolveUserStep == ASSUME IInv, NEW c \in Call, ResolveUser(c) PROVE IInv'
<1>1. StoreUnchanged /\ UNCHANGED <<faults, claims, stale>>
  BY DEF ResolveUser, StoreUnchanged, store, history
<1>2. CASE Reject(c)
  BY <1>1, <1>2, Alone, EndedStep
<1>3. CASE claims[call[c].access].version = version /\ Goto(c, "accepted")
  <2>1. call'[c].pc = "accepted" /\ call'[c].late = call[c].late
    BY <1>3, GotoFields DEF Pc
  <2>2. (call[c].late /\ ~stale) => claims[call[c].access].version < settled /\ settled <= version
    BY Held, Split DEF Screened, ResolveUser, At, StoreInv, Ordered
  <2>3. version \in Nat /\ settled \in Nat
    BY Split DEF StoreInv, StoreType
  <2>4. Screened(c)'
    BY <1>1, <1>3, <2>1, <2>2, <2>3 DEF Screened
  <2>5. call[c].access # None
    BY Held DEF Holds, ResolveUser, At
  <2> QED
    BY <1>1, <1>3, <2>4, <2>5, VerifiedStep
<1> QED
  BY <1>2, <1>3 DEF ResolveUser

-----------------------------------------------------------------------------
(* Ends, failures and time.                                                 *)

LEMMA EndStep == ASSUME IInv, NEW c \in Call, Answer(c) \/ Fail(c) PROVE IInv'
<1>1. StoreUnchanged
  BY DEF Answer, Fail, StoreUnchanged
<1>2. /\ Later /\ StoreInv' /\ claims' = claims /\ settled' = settled
  BY <1>1, Untouched, Split DEF StoreUnchanged, history
<1>3. faults' \in 0 .. MaxFaults /\ (Return(c) \/ Reject(c))
  BY Faults DEF Answer, Fail
<1> QED
  BY <1>2, <1>3, EndedStep

\* No request moves.
LEMMA NobodyStep ==
  ASSUME IInv, Later, StoreInv', faults' \in 0 .. MaxFaults,
         call' = call, claims' = claims, settled' = settled
  PROVE  IInv'
<1>1. Requests'
  BY Kept, KeptAwaiting DEF Requests
<1> QED
  BY <1>1, Split DEF IInv, StoreInv, StoreType, TypeOK, CallType, PairType, Pc, Signed

LEMMA ExpireStep == ASSUME IInv, Expire PROVE IInv'
<1>1. PICK f \in Id : record' = record \ {family[f]} /\ family' = [family EXCEPT ![f] = None]
  BY DEF Expire
<1>2. UNCHANGED <<version, index, denied, claims, call, history>>
      /\ settled' = settled /\ faults' \in 0 .. MaxFaults
  BY Faults DEF Expire, history
<1>3. StoreInv' /\ Later
  BY <1>1, <1>2, Split, Revoked
<1> QED
  BY <1>2, <1>3, NobodyStep

-----------------------------------------------------------------------------
LEMMA InitIInv == Init => IInv
<1> SUFFICES ASSUME Init PROVE IInv
  OBVIOUS
<1>1. [family |-> Old, version |-> 0] \in PairType /\ None \notin PairType /\ Old \in Id
  BY Ids DEF PairType
<1>2. Empty("idle") \in CallType /\ Empty("idle").pc = "idle" /\ Empty("idle").token = None
      /\ Empty("idle").access = None
  BY DEF Empty, CallType, Pc
<1>3. claims \in [Id -> PairType \cup {None}] /\ \A t \in Id : Signed(t) <=> t = Old
  BY <1>1 DEF Init, Signed
<1>4. claims[Old] = [family |-> Old, version |-> 0]
  BY <1>1 DEF Init
<1>5. StoreType
  BY <1>1, <1>3 DEF Init, StoreType
<1>6. Families /\ Exchanges /\ Ordered
  BY <1>1, <1>3, <1>4, Ids DEF Init, Families, OneLiveToken, FamiliesIndexed, Exchanges,
                               Ordered, Alive
<1>7. \A d \in Call : call[d] = Empty("idle") /\ ~Signed(d)
  BY <1>3, Ids, IdAssumption DEF Init
<1>8. Requests
  BY <1>2, <1>7 DEF Requests, Holds, Lost, Screened, Bumped, Current, Awaited
<1>9. call \in [Call -> CallType] /\ faults \in 0 .. MaxFaults
  BY <1>2, BoundAssumption DEF Init
<1> QED
  BY <1>5, <1>6, <1>8, <1>9, Split DEF StoreInv

\* A request of c and the expiry of families are all there is.
LEMMA RequestStep == ASSUME IInv, NEW c \in Call, Request(c) PROVE IInv'
BY LoginStep, CreateSessionStep, ReadUserStep, UpdateUserStep, ListFamiliesStep,
   RevokeEachStep, DropIndexStep, LoadFreshUserStep, RotateTokenStep, PunishStep,
   LogoutStep, RevokeSessionStep, DenyAccessStep, VerifyAccessStep, CheckDenylistStep,
   ResolveUserStep, EndStep DEF Request

LEMMA NextIInv == IInv /\ [Next]_vars => IInv'
<1> SUFFICES ASSUME IInv, [Next]_vars PROVE IInv'
  OBVIOUS
<1>1. CASE UNCHANGED vars
  <2>1. StoreUnchanged /\ faults' = faults /\ call' = call /\ claims' = claims
        /\ settled' = settled
    BY <1>1 DEF vars, StoreUnchanged, history
  <2>2. StoreInv' /\ Later /\ faults' \in 0 .. MaxFaults
    BY <2>1, Split, Untouched, Faults
  <2> QED
    BY <2>1, <2>2, NobodyStep
<1> QED
  BY <1>1, ExpireStep, RequestStep DEF Next

-----------------------------------------------------------------------------
(* What the store promises.                                                 *)

\* The store, the signed pairs and the requests keep their types.
THEOREM TypeCorrect == Spec => []TypeOK
<1>1. IInv => TypeOK
  BY DEF IInv
<1> QED
  BY InitIInv, NextIInv, <1>1, PTL DEF Spec

\* However requests interleave and fail, a token that has a record is its
\* family's current one.
THEOREM OneTokenLives == Spec => []OneLiveToken
<1>1. IInv => OneLiveToken
  BY DEF IInv, Families
<1> QED
  BY InitIInv, NextIInv, <1>1, PTL DEF Spec

\* No token is exchanged twice, by any number of refreshes that present it.
THEOREM ExchangesOnce == Spec => []ExchangedOnce
<1>1. IInv => ExchangedOnce
  BY DEF IInv, Exchanges, ExchangedOnce
<1> QED
  BY InitIInv, NextIInv, <1>1, PTL DEF Spec

\* The family whose used token was presented is dead, and stays dead.
THEOREM LoserEnds == Spec => []LoserEndsFamily
<1>1. IInv => LoserEndsFamily
  BY DEF IInv, Requests, Lost, LoserEndsFamily, At
<1> QED
  BY InitIInv, NextIInv, <1>1, PTL DEF Spec

\* A revocation of all families finds every live one, but those an earlier one
\* dropped from the index.
THEOREM FamiliesAreIndexed == Spec => []FamiliesIndexed
<1>1. IInv => FamiliesIndexed
  BY DEF IInv, Families
<1> QED
  BY InitIInv, NextIInv, <1>1, PTL DEF Spec

\* An access token that came in logged out or superseded is not accepted.
THEOREM AcceptsFresh == Spec => []AcceptedAccessIsFresh
<1>1. IInv => AcceptedAccessIsFresh
  BY DEF IInv, Requests, Screened, AcceptedAccessIsFresh, At
<1> QED
  BY InitIInv, NextIInv, <1>1, PTL DEF Spec

\* Only the rotation changes what was exchanged, by the token it was given.
LEMMA OnlyRotates ==
  ASSUME IInv, Next, exchanged' # exchanged
  PROVE  \E c \in Call : /\ At(c, "rotate") /\ Rotatable(call[c].token)
                         /\ exchanged' = [exchanged EXCEPT ![call[c].token] = @ + 1]
<1>1. PICK c \in Call : Request(c)
  BY DEF Next, Expire, history
<1>2. RotateToken(c)
  BY <1>1 DEF Request, history, Login, CreateSession, ReadUser, UpdateUser, ListFamilies,
       RevokeEach, DropIndex, LoadFreshUser, Punish, Logout, RevokeSession, DenyAccess,
       VerifyAccess, CheckDenylist, ResolveUser, Answer, Fail
<1> QED
  BY <1>2 DEF RotateToken

\* After a password change that is through no rotation wins with an older token.
THEOREM StaleTokensRefused == Spec => NoStaleExchange
<1>1. IInv /\ [Next]_vars =>
        [\A t \in Id : exchanged'[t] # exchanged[t] =>
           (claims[t].version >= settled \/ claims[t].family \in orphaned \/ stale)]_vars
  <2> SUFFICES ASSUME IInv, Next, NEW t \in Id, exchanged'[t] # exchanged[t]
               PROVE  claims[t].version >= settled \/ claims[t].family \in orphaned \/ stale
    OBVIOUS
  <2>1. PICK c \in Call : /\ At(c, "rotate") /\ Rotatable(call[c].token)
                          /\ exchanged' = [exchanged EXCEPT ![call[c].token] = @ + 1]
    BY OnlyRotates
  <2>2. exchanged \in [Id -> Nat]
    BY Split DEF StoreInv, StoreType
  <2>3. t = call[c].token
    BY <2>1, <2>2
  <2> QED
    BY <2>1, <2>3, Held DEF Current, At
<1> QED
  BY InitIInv, NextIInv, <1>1, PTL DEF Spec, NoStaleExchange

-----------------------------------------------------------------------------
(* The families keep their contract.                                        *)

LEMMA LiveOf ==
  ASSUME StoreInv
  PROVE  /\ Live \in [Id -> Id \cup {None}] /\ Of \in [Id -> Id \cup {None}]
         /\ \A f \in Id : Live[f] # None => Of[Live[f]] = f
<1>1. \A t \in Id : Signed(t) => claims[t].family \in Id
  BY DEF StoreInv, StoreType, Signed, PairType
<1> QED
  BY <1>1 DEF StoreInv, StoreType, Families, Live, Of, Signed

LEMMA IssueMaps ==
  ASSUME StoreInv, NEW c \in Call, ~Signed(c), NEW f \in Id, NEW v \in Nat, NEW gone,
         \/ f = c /\ gone = None
         \/ Alive(f) /\ gone = family[f],
         claims' = [claims EXCEPT ![c] = [family |-> f, version |-> v]],
         record' = (record \ {gone}) \cup {c},
         family' = [family EXCEPT ![f] = c]
  PROVE  Contract!Issue(c, f)
<1>1. /\ c \in Id /\ c # None /\ claims[c] = None /\ record \subseteq Id
      /\ family \in [Id -> Id \cup {None}] /\ claims \in [Id -> PairType \cup {None}]
      /\ [family |-> f, version |-> v] # None
      /\ ([family |-> f, version |-> v]).family = f
  BY Ids DEF StoreInv, StoreType, Signed, PairType
<1>2. \A g \in Id : family[g] # None => claims[family[g]] # None /\ claims[family[g]].family = g
  BY DEF StoreInv, Families, Signed
<1>3. \A g \in Id \ {f} : Alive(g)' = Alive(g) /\ family'[g] = family[g]
  BY <1>1, <1>2 DEF Alive
<1>4. Alive(f)' /\ family'[f] = c
  BY <1>1 DEF Alive
<1>5. Live' = [Live EXCEPT ![f] = c]
  BY <1>3, <1>4 DEF Live
<1>6. Of' = [Of EXCEPT ![c] = f]
  BY <1>1 DEF Of
<1>7. Of[c] = None
  BY <1>1 DEF Of
<1>8. Live[f] # None \/ \A u \in Id : Of[u] # f
  <2>1. CASE Alive(f)
    BY <2>1 DEF Live, Alive
  <2>2. CASE f = c
    BY <1>1, <2>2 DEF Of, StoreInv, Families, Signed
  <2> QED
    BY <2>1, <2>2
<1> QED
  BY <1>5, <1>6, <1>7, <1>8 DEF Contract!Issue, Live, Of

LEMMA RevokeMaps ==
  ASSUME StoreInv, NEW f \in Id, record' = record \ {family[f]},
         family' = [family EXCEPT ![f] = None], claims' = claims
  PROVE  Contract!End(f) \/ UNCHANGED <<Live, Of>>
<1>1. family \in [Id -> Id \cup {None}]
  BY DEF StoreInv, StoreType
<1>2. \A g \in Id : family[g] # None => claims[family[g]].family = g
  BY DEF StoreInv, Families
<1>3. \A g \in Id \ {f} : Alive(g)' = Alive(g) /\ family'[g] = family[g]
  BY <1>1, <1>2 DEF Alive
<1>4. ~Alive(f)' /\ Of' = Of
  BY <1>1 DEF Alive, Of
<1>5. CASE Alive(f)
  <2>1. Live' = [Live EXCEPT ![f] = None] /\ Live[f] # None
    BY <1>3, <1>4, <1>5 DEF Live, Alive
  <2> QED
    BY <1>4, <2>1 DEF Contract!End, Live, Of
<1>6. CASE ~Alive(f)
  <2>1. Live' = Live
    BY <1>3, <1>4, <1>6 DEF Live
  <2> QED
    BY <1>4, <2>1
<1> QED
  BY <1>5, <1>6

LEMMA SignedOnce ==
  ASSUME IInv, NEW c \in Call, call[c].pc \in Unsigned
  PROVE  ~Signed(c) /\ call[c].version \in Nat
BY Held DEF Holds, CallType

LEMMA TokenFamily ==
  ASSUME IInv, NEW c \in Call, call[c].pc \in {"rotate", "punish", "revoke"}
  PROVE  claims[call[c].token].family \in Id /\ call[c].token # None
BY Held, Split DEF Holds, CallType, StoreInv, StoreType, Signed, PairType

LEMMA InitMaps == Init => Contract!Init
<1> SUFFICES ASSUME Init PROVE Contract!Init
  OBVIOUS
<1>1. StoreInv
  BY InitIInv, Split
<1> QED
  BY <1>1, LiveOf DEF Contract!Init, Live, Of

LEMMA NextMaps == IInv /\ [Next]_vars => [Contract!Next]_Contract!vars
<1> SUFFICES ASSUME IInv, [Next]_vars
             PROVE  (\E f \in Id : Contract!End(f) \/ \E t \in Id : Contract!Issue(t, f))
                    \/ UNCHANGED <<Live, Of>>
  BY DEF Contract!Next, Contract!vars, Live, Of
<1>1. StoreInv /\ Call \subseteq Id
  BY Split, Ids
<1>2. ASSUME UNCHANGED <<record, family, claims>> PROVE UNCHANGED <<Live, Of>>
  BY <1>2 DEF Live, Of, Alive
<1>3. CASE UNCHANGED vars
  BY <1>2, <1>3 DEF vars, store
<1>4. CASE Expire
  BY <1>1, <1>4, RevokeMaps DEF Expire
<1>5. ASSUME NEW c \in Call, CreateSession(c) PROVE \E f \in Id : Contract!Issue(c, f)
  <2>1. /\ claims' = [claims EXCEPT ![c] = [family |-> c, version |-> call[c].version]]
        /\ record' = record \cup {c} /\ family' = [family EXCEPT ![c] = c]
        /\ call[c].pc = "save"
    BY <1>5 DEF CreateSession, Sign, Save, At
  <2>2. record' = (record \ {None}) \cup {c} /\ c \in Id
    BY <1>1, <2>1, Ids DEF StoreInv, StoreType
  <2>3. PICK v \in Nat : v = call[c].version /\ ~Signed(c)
    BY <2>1, SignedOnce DEF Unsigned
  <2>4. Contract!Issue(c, c)
    BY <1>1, <2>1, <2>2, <2>3, IssueMaps
  <2> QED
    BY <2>2, <2>4
<1>6. ASSUME NEW c \in Call, RotateToken(c)
      PROVE  (\E f \in Id : Contract!Issue(c, f)) \/ UNCHANGED <<Live, Of>>
  <2>1. call[c].pc = "rotate"
    BY <1>6 DEF RotateToken, At
  <2>2. PICK f \in Id, v \in Nat, t \in {call[c].token} :
          f = claims[call[c].token].family /\ v = call[c].version
    <3>1. claims[call[c].token].family \in Id
      BY <2>1, TokenFamily
    <3>2. call[c].version \in Nat
      BY <2>1, SignedOnce DEF Unsigned
    <3> QED
      BY <3>1, <3>2
  <2>3. CASE Rotatable(t)
    <3>1. /\ claims' = [claims EXCEPT ![c] = [family |-> f, version |-> v]]
          /\ record' = (record \ {t}) \cup {c} /\ family' = [family EXCEPT ![f] = c]
      BY <1>6, <2>2, <2>3 DEF RotateToken, Rotate, Sign
    <3>2. Alive(f) /\ t = family[f] /\ ~Signed(c)
      BY <2>1, <2>2, <2>3, TokenFamily, SignedOnce DEF Rotatable, Alive, Unsigned
    <3>3. Contract!Issue(c, f)
      BY <1>1, <3>1, <3>2, IssueMaps
    <3> QED
      BY <3>3
  <2>4. CASE ~Rotatable(t)
    BY <1>2, <1>6, <2>2, <2>4 DEF RotateToken
  <2> QED
    BY <2>3, <2>4
<1>7. ASSUME NEW f \in Id, RevokeFamily(f), claims' = claims
      PROVE  Contract!End(f) \/ UNCHANGED <<Live, Of>>
  BY <1>1, <1>7, RevokeMaps DEF RevokeFamily
<1>8. ASSUME NEW c \in Call, RevokeEach(c) \/ Punish(c) \/ RevokeSession(c)
      PROVE  (\E f \in Id : Contract!End(f)) \/ UNCHANGED <<Live, Of>>
  <2>1. \E f \in Id : RevokeFamily(f) /\ claims' = claims
    <3>1. CASE RevokeEach(c)
      BY <3>1, Held DEF RevokeEach, CallType
    <3>2. CASE Punish(c) \/ RevokeSession(c)
      BY <3>2, TokenFamily DEF Punish, RevokeSession, At
    <3> QED
      BY <1>8, <3>1, <3>2
  <2> QED
    BY <1>7, <2>1
<1>9. ASSUME NEW c \in Call,
             \/ Login(c) \/ ReadUser(c) \/ UpdateUser(c) \/ ListFamilies(c) \/ DropIndex(c)
             \/ LoadFreshUser(c) \/ Logout(c) \/ DenyAccess(c) \/ VerifyAccess(c)
             \/ CheckDenylist(c) \/ ResolveUser(c) \/ Answer(c) \/ Fail(c)
      PROVE  UNCHANGED <<record, family, claims>>
  BY <1>9 DEF store, Login, ReadUser, UpdateUser, ListFamilies, DropIndex, LoadFreshUser,
              Logout, DenyAccess, VerifyAccess, CheckDenylist, ResolveUser, Answer, Fail
<1>10. ASSUME NEW c \in Call, Request(c)
       PROVE  (\E f \in Id : Contract!End(f) \/ \E t \in Id : Contract!Issue(t, f))
              \/ UNCHANGED <<Live, Of>>
  BY <1>1, <1>2, <1>5, <1>6, <1>8, <1>9, <1>10 DEF Request
<1> QED
  BY <1>3, <1>4, <1>10 DEF Next

\* The store implements the contract of its families: each is opened once,
\* handed on from its one live token to a new one, and over when it ends.
THEOREM KeepsContract == Spec => ContractSpec
BY InitIInv, NextIInv, InitMaps, NextMaps, PTL DEF Spec, ContractSpec, Contract!Spec

-----------------------------------------------------------------------------
(* One request at a time.  Two of the properties except families that were  *)
(* dropped from the index and versions that were overwritten; neither       *)
(* happens unless requests overlap.                                         *)

Busy(c) == call[c].pc \notin {"idle", "done", "failed"}

\* One request is under way; a version it is to write is the next one, and a
\* family that is alive is indexed and among those it still revokes.
Turns ==
    /\ \A c, d \in Call : Busy(c) /\ Busy(d) => c = d
    /\ \A c \in Call : At(c, "update") => call[c].version = version + 1
    /\ \A c \in Call : At(c, "each") => \A f \in index : Alive(f) => f \in call[c].todo
    /\ ~stale /\ orphaned = {}

LEMMA ArrivesAlone ==
  ASSUME MaxActive = 1, Turns, NEW c \in Call, Arrives(c)
  PROVE  \A d \in Call : ~Busy(d)
<1> DEFINE B == {d \in Call : Busy(d)}
<1>1. Cardinality(B) < 1
  BY DEF Arrives, Busy
<1>2. SUFFICES ASSUME NEW e \in B PROVE FALSE
  OBVIOUS
<1>3. B \in SUBSET {e}
  BY DEF Turns
<1>4. IsFiniteSet(B)
  BY <1>3, FS_Singleton, FS_Subset
<1>5. Cardinality(B) \in Nat /\ Cardinality(B) # 0
  BY <1>2, <1>4, FS_CardinalityType, FS_EmptySet
<1> QED
  BY <1>1, <1>5

\* A step of the request whose turn it is, from where it leads.
LEMMA TurnStep ==
  ASSUME IInv, MaxActive = 1, Turns, NEW c \in Call, Busy(c) \/ Arrives(c),
         \A d \in Call \ {c} : call'[d] = call[d],
         At(c, "update")' => call'[c].version = version' + 1,
         At(c, "each")' => \A f \in index' : Alive(f)' => f \in call'[c].todo,
         ~stale' /\ orphaned' = {}
  PROVE  Turns'
<1>1. \A d \in Call \ {c} : ~Busy(d) /\ ~Busy(d)'
  BY ArrivesAlone DEF Turns, Busy
<1>2. \A d \in Call \ {c} : ~At(d, "update")' /\ ~At(d, "each")'
  BY <1>1 DEF Busy, At
<1> QED
  BY <1>1, <1>2 DEF Turns

\* Nothing but a change of password passes the positions Turns speaks of.
LEMMA OtherTurn ==
  ASSUME IInv, MaxActive = 1, Turns, NEW c \in Call,
         \/ Login(c) \/ CreateSession(c) \/ LoadFreshUser(c) \/ RotateToken(c) \/ Punish(c)
         \/ Logout(c) \/ RevokeSession(c) \/ DenyAccess(c) \/ VerifyAccess(c)
         \/ CheckDenylist(c) \/ ResolveUser(c) \/ Answer(c) \/ Fail(c)
  PROVE  Turns'
<1> USE DEF At
<1>1. call \in [Call -> CallType] /\ call[c] \in CallType /\ ~stale /\ orphaned = {}
  BY Split DEF Turns
<1>2. /\ Busy(c) \/ Arrives(c)
      /\ \A d \in Call \ {c} : call'[d] = call[d]
      /\ call'[c].pc \notin {"update", "each"}
      /\ stale' = stale /\ orphaned' \subseteq orphaned
  <2> USE <1>1 DEF history, Goto, Return, Reject, Empty, Busy, CallType
  <2>1. CASE Login(c)
    BY <2>1 DEF Login
  <2>2. CASE CreateSession(c)
    BY <2>2 DEF CreateSession
  <2>3. CASE LoadFreshUser(c)
    <3>1. PICK t \in Known :
            call' = [call EXCEPT ![c].op = "refresh", ![c].pc = "rotate",
                                     ![c].token = t, ![c].version = version]
      BY <2>3 DEF LoadFreshUser
    <3> DEFINE l == [call[c] EXCEPT !.op = "refresh", !.pc = "rotate", !.token = t, !.version = version]
    <3>2. call' = [call EXCEPT ![c] = l] /\ l.pc = "rotate"
      BY <1>1, <3>1
    <3> HIDE DEF l
    <3>3. call'[c].pc \notin {"update", "each"} /\ \A d \in Call \ {c} : call'[d] = call[d]
      BY <1>1, <3>2
    <3> QED
      BY <2>3, <3>3 DEF LoadFreshUser
  <2>4. CASE RotateToken(c)
    BY <2>4 DEF RotateToken
  <2>5. CASE Punish(c)
    BY <2>5 DEF Punish
  <2>6. CASE Logout(c)
    <3>1. PICK t \in Known, a \in Known \cup {None} :
            call' = [call EXCEPT ![c].op = "logout", ![c].pc = "revoke",
                                     ![c].token = t, ![c].access = a]
      BY <2>6 DEF Logout
    <3> DEFINE l == [call[c] EXCEPT !.op = "logout", !.pc = "revoke", !.token = t, !.access = a]
    <3>2. call' = [call EXCEPT ![c] = l] /\ l.pc = "revoke"
      BY <1>1, <3>1
    <3> HIDE DEF l
    <3>3. call'[c].pc \notin {"update", "each"} /\ \A d \in Call \ {c} : call'[d] = call[d]
      BY <1>1, <3>2
    <3> QED
      BY <2>6, <3>3 DEF Logout
  <2>7. CASE RevokeSession(c)
    BY <2>7 DEF RevokeSession
  <2>8. CASE DenyAccess(c)
    BY <2>8 DEF DenyAccess
  <2>9. CASE VerifyAccess(c)
    <3>1. PICK a \in Known :
            call' = [call EXCEPT ![c].op = "verify", ![c].pc = "denylist", ![c].access = a,
                     ![c].late = a \in denied \/ claims[a].version < settled]
      BY <2>9 DEF VerifyAccess
    <3> DEFINE l == [call[c] EXCEPT !.op = "verify", !.pc = "denylist", !.access = a,
                              !.late = a \in denied \/ claims[a].version < settled]
    <3>2. call' = [call EXCEPT ![c] = l] /\ l.pc = "denylist"
      BY <1>1, <3>1
    <3> HIDE DEF l
    <3>3. call'[c].pc \notin {"update", "each"} /\ \A d \in Call \ {c} : call'[d] = call[d]
      BY <1>1, <3>2
    <3> QED
      BY <2>9, <3>3 DEF VerifyAccess
  <2>10. CASE CheckDenylist(c) \/ ResolveUser(c)
    BY <2>10 DEF CheckDenylist, ResolveUser
  <2>11. CASE Answer(c) \/ Fail(c)
    BY <2>11 DEF Answer, Fail
  <2> QED
    BY <2>1, <2>2, <2>3, <2>4, <2>5, <2>6, <2>7, <2>8, <2>9, <2>10, <2>11
<1> QED
  BY <1>1, <1>2, TurnStep

\* The change of a password: what it read is still so when it writes.
LEMMA ChangeTurn ==
  ASSUME IInv, MaxActive = 1, Turns, NEW c \in Call,
         \/ ReadUser(c) \/ UpdateUser(c) \/ ListFamilies(c) \/ RevokeEach(c) \/ DropIndex(c)
  PROVE  Turns'
<1> USE DEF At, Busy
<1>1. /\ call \in [Call -> CallType] /\ call[c] \in CallType /\ ~stale /\ orphaned = {}
      /\ family \in [Id -> Id \cup {None}] /\ index \subseteq Id
  BY Split DEF Turns, StoreInv, StoreType
<1>2. CASE ReadUser(c)
  <2>1. /\ Arrives(c) /\ \A d \in Call \ {c} : call'[d] = call[d]
        /\ call'[c].pc = "update" /\ call'[c].version = version + 1
        /\ UNCHANGED <<version, stale, orphaned>>
    BY <1>1, <1>2 DEF ReadUser, history, CallType
  <2> QED
    BY <1>1, <2>1, TurnStep
<1>3. CASE UpdateUser(c)
  <2>1. call[c].pc = "update" /\ call[c].version = version + 1
    BY <1>3 DEF UpdateUser, Turns
  <2>2. /\ \A d \in Call \ {c} : call'[d] = call[d]
        /\ call'[c].pc = "members" /\ ~stale' /\ orphaned' = orphaned
    BY <1>1, <1>3, <2>1 DEF UpdateUser, Goto, CallType
  <2> QED
    BY <1>1, <2>1, <2>2, TurnStep
<1>4. CASE ListFamilies(c)
  <2>1. /\ call[c].pc = "members" /\ \A d \in Call \ {c} : call'[d] = call[d]
        /\ call'[c].pc = "each" /\ call'[c].todo = index
        /\ UNCHANGED <<index, stale, orphaned>>
    BY <1>1, <1>4 DEF ListFamilies, store, history, CallType
  <2> QED
    BY <1>1, <2>1, TurnStep
<1>5. CASE RevokeEach(c)
  <2>1. /\ call[c].pc = "each"
        /\ \A f \in index : Alive(f) => f \in call[c].todo
    BY <1>5 DEF RevokeEach, Turns
  <2>2. PICK f \in call[c].todo : /\ RevokeFamily(f)
                                 /\ call' = [call EXCEPT ![c].todo = @ \ {f}]
    BY <1>5 DEF RevokeEach
  <2>3. /\ \A d \in Call \ {c} : call'[d] = call[d]
        /\ call'[c].pc = "each" /\ call'[c].todo = call[c].todo \ {f}
        /\ UNCHANGED <<stale, orphaned>>
    BY <1>1, <1>5, <2>1, <2>2 DEF RevokeEach, history, CallType
  <2>4. /\ index' \subseteq index /\ f \in Id
        /\ \A g \in Id : Alive(g)' => Alive(g) /\ g # f
    BY <1>1, <2>2 DEF RevokeFamily, Alive, CallType
  <2> QED
    BY <1>1, <2>1, <2>3, <2>4, TurnStep
<1>6. CASE DropIndex(c)
  <2>1. /\ call[c].pc = "each" /\ \A f \in index : ~Alive(f)
    BY <1>6 DEF DropIndex, Turns
  <2>2. /\ \A d \in Call \ {c} : call'[d] = call[d]
        /\ call'[c].pc = "save" /\ stale' = stale /\ orphaned' = {}
    BY <1>1, <1>6, <2>1 DEF DropIndex, Goto, CallType
  <2> QED
    BY <1>1, <2>1, <2>2, TurnStep
<1> QED
  BY <1>2, <1>3, <1>4, <1>5, <1>6

LEMMA NextTurns == MaxActive = 1 /\ IInv /\ Turns /\ [Next]_vars => Turns'
<1> SUFFICES ASSUME MaxActive = 1, IInv, Turns, [Next]_vars PROVE Turns'
  OBVIOUS
<1>1. CASE UNCHANGED vars
  BY <1>1 DEF vars, store, history, Turns, Busy, At, Alive
<1>2. CASE Expire
  <2>1. /\ UNCHANGED <<version, index, call, stale, orphaned>>
        /\ \A f \in Id : Alive(f)' => Alive(f)
    BY <1>2, Split DEF Expire, history, Alive, StoreInv, StoreType
  <2>2. index \subseteq Id
    BY Split DEF StoreInv, StoreType
  <2> QED
    BY <2>1, <2>2 DEF Turns, Busy, At
<1>3. ASSUME NEW c \in Call, Request(c) PROVE Turns'
  BY <1>3, OtherTurn, ChangeTurn DEF Request
<1> QED
  BY <1>1, <1>2, <1>3 DEF Next

\* With one request under way at a time no version is overwritten by one that
\* was computed from an older, and revokeAllForUser() drops no family that is
\* alive: AcceptedAccessIsFresh, FamiliesIndexed and NoStaleExchange then hold
\* without the exceptions they make.
THEOREM InTurn == MaxActive = 1 => (Spec => [](~stale /\ orphaned = {}))
<1> SUFFICES ASSUME MaxActive = 1 PROVE Spec => [](~stale /\ orphaned = {})
  OBVIOUS
<1>1. Init => Turns
  BY DEF Init, Turns, Busy, At, Empty
<1>2. IInv /\ Turns /\ [Next]_vars => Turns'
  BY NextTurns
<1>3. Turns => ~stale /\ orphaned = {}
  BY DEF Turns
<1> QED
  BY InitIInv, NextIInv, <1>1, <1>2, <1>3, PTL DEF Spec

=============================================================================
