---------------------------- MODULE OutboxProofs ----------------------------
(***************************************************************************)
(* Theorems about Outbox, for any limits of requests, retries, queues and  *)
(* faults.                                                                 *)
(*                                                                         *)
(* The invariant follows a mutation on its way.  What a connection has     *)
(* still to carry, its flow, is in the order of the numbers, and so is a   *)
(* request; an outbox mutation below one of them was decided, is invalid,  *)
(* or is ahead of it there.  So a decision finds every outbox mutation     *)
(* below it decided, and an ok that the database gives unseen, for a       *)
(* number at or below its series' mark, is true.                           *)
(***************************************************************************)
EXTENDS Outbox, FiniteSetTheorems, SequenceTheorems, WellFoundedInduction, TLAPS

-----------------------------------------------------------------------------
(* Types.                                                                  *)

Id == Nat \ {0}
Ids == Seq(Id)
MutationType == [kind : {"outbox", "online"}, valid : BOOLEAN, series : Nat, n : Nat]
Submission == [kind : {"outbox", "online"}, valid : BOOLEAN]
Decision == [id : Id, outcome : {"edit", "none", "reject"}]
RequestType == [ids : Ids, answers : Seq(Answer), awaited : BOOLEAN]
OutcomeType == [ids : Ids, failed : BOOLEAN, answers : Seq(Answer), current : BOOLEAN]
PostType == [ids : Ids, answers : Seq(Answer), attempt : Nat]
OnlineType == [ack : Nat \cup {-1}, seen : BOOLEAN]
Maps(V) == UNION {[S -> V] : S \in SUBSET Id}
EngineType ==
  [outbox : SUBSET Id, sent : SUBSET Id, acked : Maps(Nat), online : Maps(OnlineType),
   cursor : Nat, applied : Nat, frozen : BOOLEAN]

\* What each variable holds.
Types ==
  /\ minted \in Seq(MutationType) /\ decided \in Seq(Decision)
  /\ net \subseteq RequestType /\ process \in Nat /\ submitted \in Seq(Submission)
  /\ engine \in EngineType
  /\ settled \in Maps({"ok", "reject", "failed"})
  /\ up \in BOOLEAN /\ resend \in BOOLEAN /\ ending \in BOOLEAN /\ ended \in BOOLEAN
  /\ outcomes \in Seq(OutcomeType)
  /\ sends \in Seq(Ids) /\ posting \in PostType \cup {NoPost}

-----------------------------------------------------------------------------
(* The invariant.                                                          *)

\* The ids of a sequence are known mutations, in ascending order, and an @online
\* one is alone in it.
IsCall(ids) ==
  /\ \A k \in DOMAIN ids : ids[k] \in Mutation
  /\ \A j, k \in DOMAIN ids : j < k => ids[j] < ids[k]
  /\ \A k \in DOMAIN ids : ~IsOutbox(ids[k]) => Len(ids) = 1

\* What the connection has still to carry.
PostIds == IF posting = NoPost THEN {} ELSE Range(posting.ids)
SendIds == UNION {Range(sends[i]) : i \in DOMAIN sends}
Flow == PostIds \cup SendIds

\* A mutation was decided, by a position, or the database will never decide it.
DecidedBy(m, p) == \E i \in Decisions(m) : HeadAt(i) <= p
Done(m) == WasDecided(m) \/ ~minted[m].valid
TrueAnswer(m, a) == IF a.kind = "ok" THEN DecidedBy(m, a.position) ELSE WasRejected(m)

\* The outbox mutations below m that may still be decided are all in S.
Cleared(m, S) == \A y \in Mutation : y < m /\ IsOutbox(y) => Done(y) \/ y \in S

\* A series' numbers are in the order of its mutations, each under a new one.
NumbersHold ==
  /\ \A m \in Mutation : minted[m].series <= process
  /\ \A m, x \in Mutation : m < x /\ minted[m].series = minted[x].series =>
       minted[m].n < minted[x].n
  /\ \A m \in Mutation : minted[m].series = process =>
       minted[m].n <= Cardinality({x \in Mutation : minted[x].series = process})

\* The database's decisions.
DecisionsHold ==
  /\ \A i \in DOMAIN decided : decided[i].id \in Mutation /\ Cleared(decided[i].id, {})
  /\ CarriedOutInOrder

\* A request asks for a call, or for part of one, and what it was answered is true, if
\* anyone waits for it or it is of the outbox.
RequestHolds(r) ==
  /\ IsCall(r.ids) /\ Len(r.answers) <= Len(r.ids)
  /\ \A k \in DOMAIN r.ids : Cleared(r.ids[k], Range(r.ids))
  /\ \A k \in DOMAIN r.answers :
       r.awaited \/ IsOutbox(r.ids[k]) => TrueAnswer(r.ids[k], r.answers[k])

\* The one awaited is the rest of the call in flight.
NetHolds ==
  /\ \A r \in net : RequestHolds(r)
  /\ \A r \in net : r.awaited => posting # NoPost /\ r.ids = NextRequest(posting).ids
  /\ \A r, x \in net : r.awaited /\ x.awaited => r = x
  /\ posting # NoPost => \E r \in net : r.awaited

PostHolds ==
  posting # NoPost =>
    /\ up /\ IsCall(posting.ids) /\ Len(posting.answers) < Len(posting.ids)
    /\ \A k \in DOMAIN posting.ids : Cleared(posting.ids[k], PostIds)
    /\ \A k \in DOMAIN posting.answers : TrueAnswer(posting.ids[k], posting.answers[k])

SendsHold ==
  /\ sends # <<>> => up
  /\ \A i \in DOMAIN sends : sends[i] # <<>> /\ IsCall(sends[i])
  /\ \A i, j \in DOMAIN sends : i < j =>
       \A k \in DOMAIN sends[i], l \in DOMAIN sends[j] : sends[i][k] < sends[j][l]
  /\ \A x \in PostIds, y \in SendIds : x < y
  /\ \A x \in SendIds : Cleared(x, Flow)

\* Nothing above an @online mutation in the flow was decided or is on the wire.
OnlineAhead ==
  \A m \in Flow : ~IsOutbox(m) =>
    \A x \in Mutation : x > m => ~WasDecided(x) /\ \A r \in net : x \notin Range(r.ids)

\* What the connection was handed is decided or in its flow, unless it ended.
ConnectionHolds ==
  /\ engine.sent # {} => up
  /\ resend => up /\ Flow = {}
  /\ ending => up /\ ended
  /\ \A m \in engine.sent : Done(m) \/ m \in Flow \/ ended
  /\ up /\ ~resend => engine.outbox \subseteq engine.sent \cup DOMAIN engine.acked

OutcomeHolds(o) ==
  /\ \A k \in DOMAIN o.ids : o.ids[k] \in Mutation
  /\ Len(o.answers) <= Len(o.ids)
  /\ \A k \in DOMAIN o.answers : TrueAnswer(o.ids[k], o.answers[k])

EngineHolds(e) ==
  /\ e.outbox \subseteq {m \in Mutation : IsOutbox(m)}
  /\ e.sent \subseteq e.outbox /\ DOMAIN e.acked \subseteq e.outbox
  /\ DOMAIN e.online \subseteq {m \in Mutation : ~IsOutbox(m)}
  /\ e.applied <= e.cursor /\ e.cursor <= LogHead
  /\ e.frozen \/ e.applied = e.cursor
  /\ \A m \in DOMAIN e.acked : DecidedBy(m, e.acked[m])
  /\ \A m \in DOMAIN e.online : /\ e.online[m].ack # -1 => DecidedBy(m, e.online[m].ack)
                                /\ e.online[m].seen => DecidedBy(m, e.applied)
  /\ \A m \in Mutation :
       IsOutbox(m) /\ m \notin e.outbox => DecidedBy(m, e.applied) \/ WasRejected(m)

\* What the app was told of its @online mutations, with the base applied through p.
SettledBy(f, p) ==
  \A m \in DOMAIN f :
    /\ m \in Mutation /\ ~IsOutbox(m)
    /\ f[m] = "ok" => DecidedBy(m, p)
    /\ f[m] = "reject" => WasRejected(m)
SettledHolds == SettledBy(settled, engine.applied)

\* The invariant of the outbox.
OutboxInv ==
  /\ Types
  /\ NumbersHold
  /\ DecisionsHold
  /\ NetHolds
  /\ PostHolds
  /\ SendsHold
  /\ OnlineAhead
  /\ ConnectionHolds
  /\ \A i \in DOMAIN outcomes : OutcomeHolds(outcomes[i])
  /\ EngineHolds(engine)
  /\ SettledHolds

-----------------------------------------------------------------------------
(* Numbers and maps.                                                       *)

\* A set of naturals with an element has a least one.
LEMMA LeastOf ==
  ASSUME NEW S \in SUBSET Nat, S # {}
  PROVE  \E x \in S : \A y \in S : x <= y
<1>1. PICK x \in S : \A y \in S : <<y, x>> \notin OpToRel(<, Nat)
  BY NatLessThanWellFounded, WFMin
<1>2. \A y \in S : x <= y
  <2> TAKE y \in S
  <2>1. y < x => <<y, x>> \in OpToRel(<, Nat)
    BY Zenon DEF OpToRel
  <2>2. ~(y < x)
    BY <1>1, <2>1, Zenon
  <2>3. x \in Nat /\ y \in Nat
    OBVIOUS
  <2>4. QED
    BY <2>2, <2>3
<1>3. QED
  BY <1>2

\* A bounded set of naturals with an element has a greatest one.
LEMMA GreatestOf ==
  ASSUME NEW S \in SUBSET Nat, S # {}, NEW n \in Nat, \A x \in S : x <= n
  PROVE  \E x \in S : \A y \in S : y <= x
<1> DEFINE T == {n - x : x \in S}
<1>1. T \in SUBSET Nat /\ T # {}
  <2>1. \A x \in S : n - x \in Nat
    OBVIOUS
  <2>2. QED
    BY <2>1
<1>2. PICK t \in T : \A u \in T : t <= u
  BY <1>1, LeastOf
<1>3. PICK x \in S : t = n - x
  OBVIOUS
<1>4. ASSUME NEW y \in S
      PROVE  y <= x
  <2>1. n - y \in T
    OBVIOUS
  <2>2. QED
    BY <1>2, <1>3, <2>1
<1>5. QED
  BY <1>4

LEMMA LowestOf ==
  ASSUME NEW S \in SUBSET Nat, S # {}
  PROVE  Lowest(S) \in S
BY LeastOf DEF Lowest

\* A map is a function of some ids.
LEMMA MapType ==
  ASSUME NEW V, NEW f
  PROVE  f \in Maps(V) <=> DOMAIN f \in SUBSET Id /\ f \in [DOMAIN f -> V]
<1>1. ASSUME f \in Maps(V)
      PROVE  DOMAIN f \in SUBSET Id /\ f \in [DOMAIN f -> V]
  <2>1. PICK S \in SUBSET Id : f \in [S -> V]
    BY <1>1 DEF Maps
  <2>2. QED
    BY <2>1
<1>2. QED
  BY <1>1 DEF Maps

\* The sequence a set of numbers has in ascending order.
LEMMA AscendingIs ==
  ASSUME NEW S \in SUBSET Id, IsFiniteSet(S), NEW q \in Ascending(S)
  PROVE  /\ q \in Seq(S) /\ q \in Ids /\ Len(q) \in Nat /\ DOMAIN q = 1..Len(q)
         /\ Range(q) = S
         /\ \A i, j \in DOMAIN q : i < j => q[i] < q[j]
<1> DEFINE n == Cardinality(S)
<1>1. n \in Nat /\ q \in [1..n -> S] /\ \A i, j \in 1..n : i # j => q[i] # q[j]
  BY FS_CardinalityType DEF SetToSeqs, Ascending
<1>2. q \in Injection(1..n, S)
  BY <1>1 DEF Injection, IsInjective
<1>3. Cardinality(1..n) = n
  BY <1>1, FS_Interval
<1>4. q \in Surjection(1..n, S)
  BY <1>2, <1>3, FS_Injection
<1>5. \A x \in S : \E i \in 1..n : q[i] = x
  BY <1>4 DEF Surjection
<1> HIDE DEF n
<1>6. q \in Seq(S) /\ q \in Ids /\ Len(q) = n /\ DOMAIN q = 1..n
  BY <1>1 DEF Ids
<1>7. Range(q) = S
  BY <1>5, <1>6, <1>1 DEF Range
<1>8. QED
  BY <1>1, <1>6, <1>7 DEF Ascending

-----------------------------------------------------------------------------
(* The database only adds.                                                 *)

\* What a step does to the database's history.
Grows ==
  /\ Len(minted) <= Len(minted') /\ \A m \in 1..Len(minted) : minted'[m] = minted[m]
  /\ Len(decided) <= Len(decided') /\ \A i \in 1..Len(decided) : decided'[i] = decided[i]

LEMMA HeadAtType ==
  ASSUME NEW k \in Nat
  PROVE  HeadAt(k) \in Nat /\ IsFiniteSet({i \in 1..k : decided[i].outcome = "edit"})
<1>1. IsFiniteSet(1..k)
  BY FS_Interval
<1>2. IsFiniteSet({i \in 1..k : decided[i].outcome = "edit"})
  BY <1>1, FS_Subset
<1>3. QED
  BY <1>2, FS_CardinalityType DEF HeadAt

LEMMA HeadAtNext ==
  ASSUME NEW k \in Nat
  PROVE  HeadAt(k + 1) = IF decided[k + 1].outcome = "edit" THEN HeadAt(k) + 1 ELSE HeadAt(k)
<1> DEFINE E(n) == {i \in 1..n : decided[i].outcome = "edit"}
<1>1. IsFiniteSet(E(k)) /\ k + 1 \notin E(k)
  BY HeadAtType
<1>2. CASE decided[k + 1].outcome = "edit"
  <2>1. E(k + 1) = E(k) \cup {k + 1}
    BY <1>2
  <2>2. Cardinality(E(k + 1)) = Cardinality(E(k)) + 1
    BY <1>1, <2>1, FS_AddElement
  <2>3. QED
    BY <1>2, <2>2 DEF HeadAt
<1>3. CASE decided[k + 1].outcome # "edit"
  <2>1. E(k + 1) = E(k)
    BY <1>3
  <2>2. QED
    BY <1>3, <2>1 DEF HeadAt
<1>4. QED
  BY <1>2, <1>3

LEMMA HeadAtGrows ==
  ASSUME NEW k \in Nat, NEW l \in Nat, k <= l
  PROVE  HeadAt(k) <= HeadAt(l)
<1>1. {i \in 1..k : decided[i].outcome = "edit"} \in SUBSET {i \in 1..l : decided[i].outcome = "edit"}
  OBVIOUS
<1>2. QED
  BY <1>1, HeadAtType, FS_Subset DEF HeadAt

\* Every position up to the head is an edit's.
LEMMA EditAtIs ==
  ASSUME decided \in Seq(Decision), NEW p \in Nat \ {0}, p <= LogHead
  PROVE  \E i \in DOMAIN decided : decided[i].id = EditAt(p) /\ HeadAt(i) = p
<1> DEFINE S == {k \in 0..Len(decided) : p <= HeadAt(k)}
<1>1. Len(decided) \in Nat /\ DOMAIN decided = 1..Len(decided)
  OBVIOUS
<1>2. S \in SUBSET Nat /\ Len(decided) \in S
  BY <1>1 DEF LogHead
<1>3. PICK k \in S : \A l \in S : k <= l
  BY <1>2, LeastOf
<1>4. HeadAt(0) = 0
  BY FS_EmptySet DEF HeadAt
<1>5. k # 0
  BY <1>4
<1>6. k - 1 \in Nat /\ k - 1 \notin S /\ k \in 1..Len(decided)
  BY <1>1, <1>3, <1>5
<1>7. HeadAt(k - 1) \in Nat /\ HeadAt(k) \in Nat
  <2>1. \A n \in Nat : HeadAt(n) \in Nat
    BY HeadAtType
  <2>2. k \in Nat
    BY <1>6
  <2>3. QED
    BY <1>6, <2>1, <2>2
<1>8. HeadAt(k - 1) < p /\ p <= HeadAt(k)
  BY <1>1, <1>6, <1>7
<1>9. decided[k].outcome = "edit" /\ HeadAt(k) = p
  <2> DEFINE l == k - 1
  <2>1. l \in Nat /\ l + 1 = k
    BY <1>6
  <2> HIDE DEF l
  <2>2. HeadAt(l + 1) = IF decided[l + 1].outcome = "edit" THEN HeadAt(l) + 1 ELSE HeadAt(l)
    BY <2>1, HeadAtNext
  <2>3. HeadAt(l) < p /\ HeadAt(l) \in Nat
    BY <1>7, <1>8 DEF l
  <2> HIDE DEF S
  <2>4. QED
    BY <2>1, <2>2, <2>3, <1>8, <1>7
<1> DEFINE j == CHOOSE j \in DOMAIN decided : decided[j].outcome = "edit" /\ HeadAt(j) = p
<1>10. j \in DOMAIN decided /\ HeadAt(j) = p
  BY <1>1, <1>6, <1>9
<1>11. EditAt(p) = decided[j].id
  BY DEF EditAt
<1>12. QED
  BY <1>10, <1>11

\* What holds of the history once goes on holding.
LEMMA MintedStays ==
  ASSUME minted \in Seq(MutationType), minted' \in Seq(MutationType), Grows
  PROVE  /\ Mutation = 1..Len(minted) /\ Mutation \subseteq Mutation'
         /\ \A m \in Mutation : minted'[m] = minted[m]
         /\ \A m \in Mutation : IsOutbox(m)' <=> IsOutbox(m)
         /\ \A x \in Mutation', m \in Mutation : x <= m => x \in Mutation
BY DEF Grows, Mutation, IsOutbox

LEMMA MintedTypes ==
  ASSUME minted \in Seq(MutationType)
  PROVE  /\ Mutation = 1..Len(minted) /\ Len(minted) \in Nat
         /\ \A m \in Mutation : /\ m \in Nat /\ minted[m] \in MutationType
                              /\ minted[m].series \in Nat /\ minted[m].n \in Nat
                              /\ minted[m].valid \in BOOLEAN
<1>1. Mutation = 1..Len(minted) /\ Len(minted) \in Nat
  BY DEF Mutation
<1>2. \A m \in Mutation : minted[m] \in MutationType
  BY DEF Mutation
<1>3. QED
  BY <1>1, <1>2 DEF MutationType

LEMMA DecidedStays ==
  ASSUME decided \in Seq(Decision), decided' \in Seq(Decision), Grows
  PROVE  /\ DOMAIN decided = 1..Len(decided) /\ Len(decided) \in Nat
         /\ \A i \in DOMAIN decided : i \in DOMAIN decided' /\ decided'[i] = decided[i]
         /\ \A i \in 0..Len(decided) : HeadAt(i)' = HeadAt(i)
         /\ LogHead <= LogHead'
<1>1. /\ DOMAIN decided = 1..Len(decided) /\ Len(decided) \in Nat
      /\ DOMAIN decided' = 1..Len(decided') /\ Len(decided') \in Nat
      /\ Len(decided) <= Len(decided')
      /\ \A i \in DOMAIN decided : i \in DOMAIN decided' /\ decided'[i] = decided[i]
  BY DEF Grows
<1>2. ASSUME NEW k \in 0..Len(decided)
      PROVE  HeadAt(k)' = HeadAt(k)
  <2>1. {i \in 1..k : decided'[i].outcome = "edit"} = {i \in 1..k : decided[i].outcome = "edit"}
    BY <1>1
  <2>2. QED
    BY <2>1 DEF HeadAt
<1>3. LogHead <= LogHead'
  <2> DEFINE S == {i \in 1..Len(decided) : decided[i].outcome = "edit"}
             T == {i \in 1..Len(decided') : decided'[i].outcome = "edit"}
  <2>1. S \in SUBSET T
    BY <1>1
  <2>2. IsFiniteSet(T)
    <3>1. IsFiniteSet(1..Len(decided'))
      BY <1>1, FS_Interval
    <3>2. QED
      BY <3>1, FS_Subset
  <2>3. Cardinality(S) <= Cardinality(T)
    BY <2>1, <2>2, FS_Subset
  <2>4. LogHead = Cardinality(S) /\ LogHead' = Cardinality(T)
    BY DEF LogHead, HeadAt
  <2>5. QED
    BY <2>3, <2>4
<1>4. QED
  BY <1>1, <1>2, <1>3

\* What was decided, and what was answered truly, stays so.
LEMMA Persists ==
  ASSUME minted \in Seq(MutationType), minted' \in Seq(MutationType),
         decided \in Seq(Decision), decided' \in Seq(Decision), Grows
  PROVE  /\ \A m : Decisions(m) \subseteq Decisions(m)'
         /\ \A m : WasDecided(m) => WasDecided(m)'
         /\ \A m, p : DecidedBy(m, p) => DecidedBy(m, p)'
         /\ \A m \in Mutation : WasRejected(m) => WasRejected(m)'
         /\ \A m \in Mutation : Done(m) => Done(m)'
         /\ \A m \in Mutation : \A a : TrueAnswer(m, a) => TrueAnswer(m, a)'
         /\ \A m \in Mutation : \A S : Cleared(m, S) => Cleared(m, S)'
<1>1. \A m : Decisions(m) \subseteq Decisions(m)'
  BY DecidedStays DEF Decisions
<1>2. \A m : WasDecided(m) => WasDecided(m)'
  BY <1>1 DEF WasDecided
<1>3. \A m, p : DecidedBy(m, p) => DecidedBy(m, p)'
  <2> SUFFICES ASSUME NEW m, NEW p, DecidedBy(m, p)
               PROVE  DecidedBy(m, p)'
    OBVIOUS
  <2>1. PICK i \in Decisions(m) : HeadAt(i) <= p
    BY DEF DecidedBy
  <2>2. i \in 0..Len(decided)
    BY <2>1 DEF Decisions
  <2>3. HeadAt(i)' = HeadAt(i)
    BY <2>2, DecidedStays
  <2>4. QED
    BY <1>1, <2>1, <2>3 DEF DecidedBy
<1>4. \A m \in Mutation : WasRejected(m) => WasRejected(m)'
  <2> SUFFICES ASSUME NEW m \in Mutation, WasRejected(m)
               PROVE  WasRejected(m)'
    OBVIOUS
  <2>1. minted'[m] = minted[m]
    BY MintedStays
  <2>2. CASE ~minted[m].valid
    BY <2>1, <2>2 DEF WasRejected
  <2>3. CASE \E i \in Decisions(m) : decided[i].outcome = "reject"
    <3>1. PICK i \in Decisions(m) : decided[i].outcome = "reject"
      BY <2>3
    <3>2. i \in Decisions(m)' /\ decided'[i] = decided[i]
      BY <1>1, <3>1, DecidedStays DEF Decisions
    <3>3. QED
      BY <3>1, <3>2 DEF WasRejected
  <2>4. QED
    BY <2>2, <2>3 DEF WasRejected
<1>5. \A m \in Mutation : Done(m) => Done(m)'
  BY <1>2, MintedStays DEF Done
<1>6. \A m \in Mutation : \A a : TrueAnswer(m, a) => TrueAnswer(m, a)'
  BY <1>3, <1>4 DEF TrueAnswer
<1>7. \A m \in Mutation : \A S : Cleared(m, S) => Cleared(m, S)'
  <2> SUFFICES ASSUME NEW m \in Mutation, NEW S, Cleared(m, S), NEW y \in Mutation', y < m,
                      IsOutbox(y)'
               PROVE  Done(y)' \/ y \in S
    BY DEF Cleared
  <2>1. y \in Mutation
    <3>1. m \in Nat /\ y \in Nat
      BY MintedStays DEF Mutation
    <3>2. QED
      BY <3>1, MintedStays
  <2>2. IsOutbox(y)
    BY <2>1, MintedStays
  <2>3. QED
    BY <1>5, <2>1, <2>2 DEF Cleared
<1>8. QED
  BY <1>1, <1>2, <1>3, <1>4, <1>5, <1>6, <1>7

\* A true answer to a mutation means it is done.
LEMMA AnsweredIsDone ==
  ASSUME NEW m, NEW a, TrueAnswer(m, a)
  PROVE  Done(m)
BY DEF TrueAnswer, Done, DecidedBy, WasDecided, WasRejected

-----------------------------------------------------------------------------
(* The Engine.                                                             *)

\* What a step of the Engine leaves of it, when the database stands still.
LEMMA EngineStays ==
  ASSUME minted \in Seq(MutationType), minted' \in Seq(MutationType),
         decided \in Seq(Decision), decided' \in Seq(Decision), Grows,
         Mutation' = Mutation, NEW e \in EngineType, EngineHolds(e)
  PROVE  EngineHolds(e)'
<1>1. LogHead <= LogHead' /\ LogHead \in Int /\ LogHead' \in Int
  <2>1. Len(decided) \in Nat /\ Len(decided') \in Nat
    OBVIOUS
  <2>2. LogHead \in Int
    <3>1. \A n \in Nat : HeadAt(n) \in Nat
      BY HeadAtType
    <3>2. QED
      BY <2>1, <3>1 DEF LogHead
  <2>3. LogHead' \in Int
    <3>1. IsFiniteSet(1..Len(decided'))
      BY <2>1, FS_Interval
    <3>2. IsFiniteSet({i \in 1..Len(decided') : decided'[i].outcome = "edit"})
      BY <3>1, FS_Subset
    <3>3. QED
      BY <3>2, FS_CardinalityType DEF LogHead, HeadAt
  <2>4. QED
    BY <2>2, <2>3, DecidedStays
<1>2. e.cursor \in Nat
  BY DEF EngineType
<1>3. {m \in Mutation : IsOutbox(m)}' = {m \in Mutation : IsOutbox(m)}
  BY MintedStays
<1>4. {m \in Mutation : ~IsOutbox(m)}' = {m \in Mutation : ~IsOutbox(m)}
  BY MintedStays
<1>5. e.cursor <= LogHead => e.cursor <= LogHead'
  BY <1>1, <1>2
<1>6. \A m \in Mutation : (IsOutbox(m)' <=> IsOutbox(m)) /\ (WasRejected(m) => WasRejected(m)')
  BY MintedStays, Persists
<1>7. \A m, p : DecidedBy(m, p) => DecidedBy(m, p)'
  BY Persists
<1>8. QED
  BY <1>3, <1>4, <1>5, <1>6, <1>7 DEF EngineHolds

\* The fields of the Engine after mutations left the outbox.
LEMMA ReleasedIs ==
  ASSUME NEW e \in EngineType, NEW S
  PROVE  LET r == Released(e, S) IN
         /\ r \in EngineType
         /\ r.outbox = e.outbox \ S /\ r.sent = e.sent \ S /\ r.acked = Without(e.acked, S)
         /\ r.online = e.online /\ r.cursor = e.cursor /\ r.applied = e.applied
         /\ r.frozen = e.frozen
         /\ DOMAIN r.acked = DOMAIN e.acked \ S
         /\ \A m \in DOMAIN r.acked : r.acked[m] = e.acked[m]
<1>1. e.acked \in Maps(Nat) /\ DOMAIN e.acked \in SUBSET Id /\ e.acked \in [DOMAIN e.acked -> Nat]
  BY MapType DEF EngineType
<1>2. Without(e.acked, S) \in [DOMAIN e.acked \ S -> Nat] /\ DOMAIN Without(e.acked, S) = DOMAIN e.acked \ S
  BY <1>1 DEF Without
<1>3. Without(e.acked, S) \in Maps(Nat)
  BY <1>1, <1>2, MapType
<1>4. QED
  BY <1>2, <1>3 DEF Released, EngineType, Without

\* Mutations whose outcome shows, or that were rejected, may leave the outbox.
LEMMA ReleasedHolds ==
  ASSUME NEW e \in EngineType, EngineHolds(e), NEW S,
         \A m \in S \cap e.outbox : DecidedBy(m, e.applied) \/ WasRejected(m)
  PROVE  EngineHolds(Released(e, S))
<1> DEFINE r == Released(e, S)
<1>1. /\ r \in EngineType
      /\ r.outbox = e.outbox \ S /\ r.sent = e.sent \ S
      /\ r.online = e.online /\ r.cursor = e.cursor /\ r.applied = e.applied
      /\ r.frozen = e.frozen
      /\ DOMAIN r.acked = DOMAIN e.acked \ S
      /\ \A m \in DOMAIN r.acked : r.acked[m] = e.acked[m]
  BY ReleasedIs
<1> HIDE DEF r
<1>2. QED
  <2>1. \A m \in DOMAIN r.acked : DecidedBy(m, r.acked[m])
    BY <1>1 DEF EngineHolds
  <2>2. \A m \in Mutation :
          IsOutbox(m) /\ m \notin r.outbox => DecidedBy(m, r.applied) \/ WasRejected(m)
    BY <1>1 DEF EngineHolds
  <2>3. /\ r.outbox \subseteq {m \in Mutation : IsOutbox(m)}
        /\ r.sent \subseteq r.outbox /\ DOMAIN r.acked \subseteq r.outbox
        /\ DOMAIN r.online \subseteq {m \in Mutation : ~IsOutbox(m)}
        /\ r.applied <= r.cursor /\ r.cursor <= LogHead
        /\ r.frozen \/ r.applied = r.cursor
        /\ \A m \in DOMAIN r.online : /\ r.online[m].ack # -1 => DecidedBy(m, r.online[m].ack)
                                      /\ r.online[m].seen => DecidedBy(m, r.applied)
    BY <1>1 DEF EngineHolds
  <2>4. EngineHolds(r)
    BY <2>1, <2>2, <2>3 DEF EngineHolds
  <2>5. QED
    BY <2>4 DEF r

\* What was decided by a position was decided by a later one.
LEMMA DecidedLater ==
  ASSUME decided \in Seq(Decision), NEW m, NEW p \in Nat, NEW q \in Nat, p <= q, DecidedBy(m, p)
  PROVE  DecidedBy(m, q)
<1>1. PICK i \in Decisions(m) : HeadAt(i) <= p
  BY DEF DecidedBy
<1>2. i \in Nat
  BY <1>1 DEF Decisions
<1>3. HeadAt(i) \in Nat
  BY <1>2, HeadAtType
<1>4. HeadAt(i) <= q
  BY <1>1, <1>3
<1>5. QED
  BY <1>1, <1>4 DEF DecidedBy

\* The base moves on to a position no later than the cursor.
LEMMA AppliedHolds ==
  ASSUME decided \in Seq(Decision), NEW e \in EngineType, NEW p \in Nat,
         e.applied <= p, p <= e.cursor, e.frozen \/ p = e.cursor,
         EngineHolds([e EXCEPT !.frozen = TRUE])
  PROVE  LET a == AppliedThrough(e, p) IN
         /\ a \in EngineType /\ EngineHolds(a)
         /\ a.applied = p /\ a.cursor = e.cursor /\ a.frozen = e.frozen /\ a.online = e.online
<1> DEFINE f == [e EXCEPT !.frozen = TRUE]
           g == [e EXCEPT !.applied = p]
           S == {m \in DOMAIN g.acked : g.acked[m] <= p}
<1>1. /\ f \in EngineType /\ f.outbox = e.outbox /\ f.sent = e.sent /\ f.acked = e.acked
      /\ f.online = e.online /\ f.cursor = e.cursor /\ f.applied = e.applied /\ f.frozen = TRUE
  BY DEF EngineType
<1>2. /\ g \in EngineType /\ g.outbox = e.outbox /\ g.sent = e.sent /\ g.acked = e.acked
      /\ g.online = e.online /\ g.cursor = e.cursor /\ g.applied = p /\ g.frozen = e.frozen
  BY DEF EngineType
<1>3. e.applied \in Nat /\ e.cursor \in Nat
  BY DEF EngineType
<1>4. EngineHolds(g)
  <2> HIDE DEF f, g
  <2>1. \A m : DecidedBy(m, e.applied) => DecidedBy(m, p)
    BY <1>3, DecidedLater
  <2>2. QED
    BY <1>1, <1>2, <2>1 DEF EngineHolds
<1>5. CASE p <= e.applied
  <2>1. p = e.applied
    BY <1>3, <1>5
  <2>2. g = e
    BY <2>1 DEF EngineType
  <2>3. AppliedThrough(e, p) = e
    BY <1>5 DEF AppliedThrough
  <2>4. QED
    BY <1>2, <1>4, <2>2, <2>3
<1>6. CASE ~(p <= e.applied)
  <2>1. AppliedThrough(e, p) = Released(g, {m \in DOMAIN e.acked : e.acked[m] <= p})
    BY <1>6, <1>2 DEF AppliedThrough
  <2> HIDE DEF f, g
  <2>2. \A m \in {m \in DOMAIN e.acked : e.acked[m] <= p} : DecidedBy(m, g.applied)
    <3> TAKE m \in {m \in DOMAIN e.acked : e.acked[m] <= p}
    <3>1. e.acked[m] \in Nat /\ e.acked[m] <= p
      BY MapType DEF EngineType
    <3>2. DecidedBy(m, e.acked[m])
      BY <1>1 DEF EngineHolds
    <3>3. QED
      BY <1>2, <3>1, <3>2, DecidedLater
  <2>3. EngineHolds(Released(g, {m \in DOMAIN e.acked : e.acked[m] <= p}))
    BY <1>2, <1>4, <2>2, ReleasedHolds
  <2>4. QED
    BY <1>2, <2>1, <2>3, ReleasedIs
<1>7. QED
  BY <1>5, <1>6

\* Mutations left the Engine's outbox, and its maps with it, and no others did.
Trims(a, e) ==
  /\ a.sent \subseteq e.sent /\ a.outbox \subseteq e.outbox
  /\ a.outbox \cap e.sent \subseteq a.sent
  /\ a.outbox \cap DOMAIN e.acked \subseteq DOMAIN a.acked

LEMMA AppliedTrims ==
  ASSUME NEW e \in EngineType, NEW p \in Nat
  PROVE  Trims(AppliedThrough(e, p), e)
<1> DEFINE g == [e EXCEPT !.applied = p]
<1>1. g \in EngineType /\ g.outbox = e.outbox /\ g.sent = e.sent /\ g.acked = e.acked
  BY DEF EngineType
<1> HIDE DEF g
<1>2. Trims(Released(g, {m \in DOMAIN g.acked : g.acked[m] <= p}), e)
  BY <1>1, ReleasedIs DEF Trims
<1>3. AppliedThrough(e, p) \in {e, Released(g, {m \in DOMAIN g.acked : g.acked[m] <= p})}
  BY <1>1 DEF AppliedThrough, g
<1>4. Trims(e, e)
  BY DEF Trims
<1>5. QED
  BY <1>2, <1>3, <1>4

\* Edits that are in the base bring their mutations back.
LEMMA RoundTripHolds ==
  ASSUME NEW e \in EngineType, EngineHolds(e), NEW S, \A m \in S : DecidedBy(m, e.applied)
  PROVE  LET r == RoundTrip(e, S) IN
         /\ r \in EngineType /\ EngineHolds(r)
         /\ r.applied = e.applied /\ Trims(r, e)
<1> DEFINE online == [m \in DOMAIN e.online |-> IF m \in S THEN [e.online[m] EXCEPT !.seen = TRUE]
                                                ELSE e.online[m]]
           g == [e EXCEPT !.online = online]
<1>1. DOMAIN e.online \in SUBSET Id /\ e.online \in [DOMAIN e.online -> OnlineType]
  BY MapType DEF EngineType
<1>2. \A m \in DOMAIN e.online : /\ online[m] \in OnlineType /\ online[m].ack = e.online[m].ack
                                 /\ online[m].seen => m \in S \/ e.online[m].seen
  BY <1>1 DEF OnlineType
<1>3. DOMAIN online = DOMAIN e.online /\ online \in Maps(OnlineType)
  <2>1. online \in [DOMAIN e.online -> OnlineType]
    BY <1>2
  <2>2. QED
    BY <1>1, <2>1, MapType
<1> HIDE DEF online
<1>4. /\ g \in EngineType /\ g.outbox = e.outbox /\ g.sent = e.sent /\ g.acked = e.acked
      /\ g.online = online /\ g.cursor = e.cursor /\ g.applied = e.applied /\ g.frozen = e.frozen
  BY <1>3 DEF EngineType
<1>5. RoundTrip(e, S) = Released(g, S)
  BY DEF RoundTrip, online
<1> HIDE DEF g
<1>6. EngineHolds(g)
  <2>1. \A m \in DOMAIN g.online : /\ g.online[m].ack # -1 => DecidedBy(m, g.online[m].ack)
                                   /\ g.online[m].seen => DecidedBy(m, g.applied)
    BY <1>2, <1>3, <1>4 DEF EngineHolds
  <2>2. QED
    BY <1>3, <1>4, <2>1 DEF EngineHolds
<1>7. EngineHolds(Released(g, S))
  BY <1>4, <1>6, ReleasedHolds
<1>8. Trims(Released(g, S), e)
  BY <1>4, ReleasedIs DEF Trims
<1>9. QED
  BY <1>4, <1>5, <1>7, <1>8, ReleasedIs

\* What the app was told stays true.
LEMMA SettledStays ==
  ASSUME minted \in Seq(MutationType), minted' \in Seq(MutationType),
         decided \in Seq(Decision), decided' \in Seq(Decision), Grows,
         NEW f, NEW p \in Nat, NEW q \in Nat, p <= q, SettledBy(f, p)
  PROVE  SettledBy(f, q)'
<1>1. \A m \in Mutation : /\ m \in Mutation' /\ (IsOutbox(m)' <=> IsOutbox(m))
                          /\ WasRejected(m) => WasRejected(m)'
  BY MintedStays, Persists
<1>2. \A m : DecidedBy(m, p) => DecidedBy(m, q)'
  BY DecidedLater, Persists
<1>3. QED
  BY <1>1, <1>2 DEF SettledBy

\* What a pass's outcomes add to those the app was told of.
ToldThen(f, outcome, done) ==
  [m \in DOMAIN f \cup DOMAIN outcome \cup done |->
     IF m \in DOMAIN f THEN f[m] ELSE IF m \in DOMAIN outcome THEN outcome[m] ELSE "ok"]

\* The fields of the Engine after a pass, and the app's outcomes.
LEMMA LeavesIs ==
  ASSUME NEW e \in EngineType, NEW outcome \in Maps({"reject", "failed"}),
         settled \in Maps({"ok", "reject", "failed"}), Leaves(e, outcome)
  PROVE  /\ engine' \in EngineType /\ settled' \in Maps({"ok", "reject", "failed"})
         /\ engine'.outbox = e.outbox /\ engine'.sent = e.sent /\ engine'.acked = e.acked
         /\ engine'.applied = e.applied /\ engine'.cursor = e.cursor /\ engine'.frozen = e.frozen
         /\ DOMAIN engine'.online = DOMAIN e.online \ Settles(e)
         /\ \A m \in DOMAIN engine'.online : engine'.online[m] = e.online[m]
         /\ settled' = ToldThen(settled, outcome, Settles(e))
         /\ Settles(e) \subseteq DOMAIN e.online
<1> DEFINE f == settled
           done == Settles(e)
           online == Without(e.online, done)
           told == ToldThen(f, outcome, done)
<1>1. engine' = [e EXCEPT !.online = online] /\ settled' = told
  BY DEF Leaves, ToldThen
<1>2. /\ DOMAIN e.online \in SUBSET Id /\ e.online \in [DOMAIN e.online -> OnlineType]
      /\ DOMAIN f \in SUBSET Id /\ f \in [DOMAIN f -> {"ok", "reject", "failed"}]
      /\ DOMAIN outcome \in SUBSET Id /\ outcome \in [DOMAIN outcome -> {"reject", "failed"}]
  <2>1. e.online \in Maps(OnlineType)
    BY DEF EngineType
  <2>2. QED
    BY <2>1, MapType
<1>3. done \subseteq DOMAIN e.online
  BY DEF Settles
<1>4. online \in [DOMAIN e.online \ done -> OnlineType] /\ DOMAIN online = DOMAIN e.online \ done
      /\ \A m \in DOMAIN online : online[m] = e.online[m]
  BY <1>2 DEF Without
<1>5. online \in Maps(OnlineType)
  <2> HIDE DEF online, done
  <2>1. DOMAIN online \in SUBSET Id /\ online \in [DOMAIN online -> OnlineType]
    BY <1>2, <1>4
  <2>2. QED
    BY <2>1, MapType
<1>6. told \in Maps({"ok", "reject", "failed"})
  <2>1. DOMAIN told \in SUBSET Id
    BY <1>2, <1>3 DEF ToldThen
  <2>2. told \in [DOMAIN told -> {"ok", "reject", "failed"}]
    BY <1>2 DEF ToldThen
  <2>3. QED
    BY <2>1, <2>2, MapType
<1>7. /\ engine' \in EngineType /\ engine'.outbox = e.outbox /\ engine'.sent = e.sent
      /\ engine'.acked = e.acked /\ engine'.online = online /\ engine'.applied = e.applied
      /\ engine'.cursor = e.cursor /\ engine'.frozen = e.frozen
  <2> HIDE DEF online
  <2>1. QED
    BY <1>1, <1>5 DEF EngineType
<1>8. QED
  BY <1>1, <1>3, <1>4, <1>6, <1>7

\* What the Engine and the app were told is true after a pass.
LEMMA LeavesHolds ==
  ASSUME NEW e \in EngineType, NEW outcome \in Maps({"reject", "failed"}), NEW f, f = settled,
         f \in Maps({"ok", "reject", "failed"}), Leaves(e, outcome),
         EngineHolds(e)', SettledBy(f, e.applied)', decided' \in Seq(Decision),
         \A m \in DOMAIN outcome : /\ m \in Mutation' /\ ~IsOutbox(m)'
                                   /\ outcome[m] = "reject" => WasRejected(m)'
  PROVE  EngineHolds(engine)' /\ SettledHolds'
<1> DEFINE done == Settles(e)
           told == ToldThen(f, outcome, done)
<1>1. /\ engine' \in EngineType
      /\ engine'.outbox = e.outbox /\ engine'.sent = e.sent /\ engine'.acked = e.acked
      /\ engine'.applied = e.applied /\ engine'.cursor = e.cursor /\ engine'.frozen = e.frozen
      /\ DOMAIN engine'.online = DOMAIN e.online \ done
      /\ \A m \in DOMAIN engine'.online : engine'.online[m] = e.online[m]
      /\ settled' = told
  BY LeavesIs
<1>2. /\ e.online \in [DOMAIN e.online -> OnlineType]
      /\ outcome \in [DOMAIN outcome -> {"reject", "failed"}]
  <2>1. e.online \in Maps(OnlineType)
    BY DEF EngineType
  <2>2. QED
    BY <2>1, MapType
<1>3. done \subseteq DOMAIN e.online
  BY DEF Settles
<1>8. \A m \in done : m \in Mutation' /\ ~IsOutbox(m)' /\ DecidedBy(m, e.applied)'
  <2> SUFFICES ASSUME NEW m \in done
               PROVE  m \in Mutation' /\ ~IsOutbox(m)' /\ DecidedBy(m, e.applied)'
    OBVIOUS
  <2>1. m \in Mutation' /\ ~IsOutbox(m)'
    BY <1>3 DEF EngineHolds
  <2>2. CASE e.online[m].seen
    BY <1>3, <2>2 DEF EngineHolds
  <2>3. CASE ~e.online[m].seen
    <3>1. e.online[m].ack # -1 /\ e.online[m].ack <= e.applied
      BY <2>3 DEF Settles
    <3>2. e.online[m].ack \in Nat /\ e.applied \in Nat
      BY <1>2, <1>3, <3>1 DEF OnlineType, EngineType
    <3>3. DecidedBy(m, e.online[m].ack)'
      BY <1>3, <3>1 DEF EngineHolds
    <3>4. PICK i \in Decisions(m)' : HeadAt(i)' <= e.online[m].ack
      BY <3>3 DEF DecidedBy
    <3>5. HeadAt(i)' \in Nat
      <4>1. i \in Nat
        BY <3>4 DEF Decisions
      <4>2. IsFiniteSet({k \in 1..i : decided'[k].outcome = "edit"})
        <5>1. IsFiniteSet(1..i)
          BY <4>1, FS_Interval
        <5>2. QED
          BY <5>1, FS_Subset
      <4>3. QED
        BY <4>2, FS_CardinalityType DEF HeadAt
    <3>6. HeadAt(i)' <= e.applied
      BY <3>1, <3>2, <3>4, <3>5
    <3>7. QED
      BY <2>1, <3>4, <3>6 DEF DecidedBy
  <2>4. QED
    BY <2>2, <2>3
<1> HIDE DEF done
<1>9. EngineHolds(engine)'
  BY <1>1 DEF EngineHolds
<1>10. SettledHolds'
  <2>0. /\ DOMAIN told = DOMAIN f \cup DOMAIN outcome \cup done
        /\ \A m \in DOMAIN told :
             told[m] = IF m \in DOMAIN f THEN f[m] ELSE IF m \in DOMAIN outcome THEN outcome[m] ELSE "ok"
    BY DEF ToldThen
  <2> HIDE DEF told
  <2>1. \A m \in DOMAIN told :
          /\ m \in Mutation' /\ ~IsOutbox(m)'
          /\ told[m] = "ok" => DecidedBy(m, e.applied)'
          /\ told[m] = "reject" => WasRejected(m)'
    <3> SUFFICES ASSUME NEW m \in DOMAIN told
                 PROVE  /\ m \in Mutation' /\ ~IsOutbox(m)'
                        /\ told[m] = "ok" => DecidedBy(m, e.applied)'
                        /\ told[m] = "reject" => WasRejected(m)'
      OBVIOUS
    <3>1. CASE m \in DOMAIN f
      BY <2>0, <3>1 DEF SettledBy
    <3>2. CASE m \notin DOMAIN f /\ m \in DOMAIN outcome
      BY <1>2, <2>0, <3>2
    <3>3. CASE m \notin DOMAIN f /\ m \notin DOMAIN outcome
      BY <1>8, <2>0, <3>3
    <3>4. QED
      BY <3>1, <3>2, <3>3
  <2>2. QED
    BY <1>1, <2>1 DEF SettledHolds, SettledBy
<1>11. QED
  BY <1>9, <1>10

\* What some outcomes tell of a mutation is true.
LEMMA ToldHolds ==
  ASSUME NEW calls \in Seq(OutcomeType), \A i \in DOMAIN calls : OutcomeHolds(calls[i]), NEW m
  PROVE  /\ \A a \in Told(calls, m) : a \in Answer /\ TrueAnswer(m, a)
         /\ Oks(calls, m) \in SUBSET Nat
         /\ \A p \in Oks(calls, m) : DecidedBy(m, p)
         /\ m \in Rejected(calls) => WasRejected(m)
         /\ m \in Failed(calls) => m \in Mutation
<1>1. \A a \in Told(calls, m) : a \in Answer /\ TrueAnswer(m, a)
  <2> SUFFICES ASSUME NEW a \in Told(calls, m)
               PROVE  a \in Answer /\ TrueAnswer(m, a)
    OBVIOUS
  <2> DEFINE On(i) == {k \in DOMAIN calls[i].answers : calls[i].ids[k] = m}
  <2>0. PICK i \in DOMAIN calls : a \in {calls[i].answers[k] : k \in On(i)}
    BY DEF Told
  <2>1. PICK k \in DOMAIN calls[i].answers :
          calls[i].ids[k] = m /\ calls[i].answers[k] = a
    BY <2>0
  <2>2. calls[i] \in OutcomeType
    BY <2>1
  <2>3. calls[i].answers[k] \in Answer
    BY <2>1, <2>2 DEF OutcomeType
  <2>4. TrueAnswer(calls[i].ids[k], calls[i].answers[k])
    BY <2>1 DEF OutcomeHolds
  <2>5. QED
    BY <2>1, <2>3, <2>4
<1>2. \A a \in Told(calls, m) : a.kind = "ok" => a.position \in Nat /\ DecidedBy(m, a.position)
  BY <1>1 DEF Answer, TrueAnswer
<1>3. \A a \in Told(calls, m) : a.kind = "reject" => WasRejected(m)
  BY <1>1 DEF Answer, TrueAnswer
<1>4. m \in Failed(calls) => m \in Mutation
  <2> SUFFICES ASSUME m \in Failed(calls)
               PROVE  m \in Mutation
    OBVIOUS
  <2>1. PICK i \in DOMAIN calls : m \in Range(calls[i].ids)
    BY DEF Failed
  <2>2. QED
    BY <2>1 DEF OutcomeHolds, Range
<1>5. QED
  BY <1>1, <1>2, <1>3, <1>4 DEF Oks, Rejected

\* The oks of some outcomes, told to the Engine.
LEMMA AckedHolds ==
  ASSUME decided \in Seq(Decision), NEW calls \in Seq(OutcomeType),
         \A i \in DOMAIN calls : OutcomeHolds(calls[i]), NEW e \in EngineType, EngineHolds(e)
  PROVE  LET a == Acked(e, calls) IN
         a \in EngineType /\ EngineHolds(a) /\ a.applied = e.applied /\ Trims(a, e)
<1> DEFINE ok == {m \in e.outbox : Oks(calls, m) # {}}
           known(m) == Oks(calls, m) \cup (IF m \in DOMAIN e.acked THEN {e.acked[m]} ELSE {})
           lowest == [m \in DOMAIN e.acked \cup ok |-> Lowest(known(m))]
           g == [e EXCEPT !.acked = lowest]
           S == {m \in ok : lowest[m] <= e.applied}
<1>1. Acked(e, calls) = Released(g, S)
  BY DEF Acked
<1>2. /\ DOMAIN e.acked \in SUBSET Id /\ e.acked \in [DOMAIN e.acked -> Nat]
      /\ e.outbox \in SUBSET Id /\ e.applied \in Nat
  BY MapType DEF EngineType
<1>3. \A m \in DOMAIN e.acked \cup ok : lowest[m] \in Nat /\ DecidedBy(m, lowest[m])
  <2> SUFFICES ASSUME NEW m \in DOMAIN e.acked \cup ok
               PROVE  lowest[m] \in Nat /\ DecidedBy(m, lowest[m])
    OBVIOUS
  <2>1. Oks(calls, m) \in SUBSET Nat /\ \A p \in Oks(calls, m) : DecidedBy(m, p)
    BY ToldHolds
  <2>2. m \in DOMAIN e.acked => e.acked[m] \in Nat /\ DecidedBy(m, e.acked[m])
    BY <1>2 DEF EngineHolds
  <2>3. known(m) \in SUBSET Nat /\ known(m) # {}
    BY <2>1, <2>2
  <2>4. \A p \in known(m) : DecidedBy(m, p)
    BY <2>1, <2>2
  <2> HIDE DEF known
  <2>5. Lowest(known(m)) \in known(m)
    BY <2>3, LowestOf
  <2>6. QED
    BY <2>3, <2>4, <2>5
<1>4. lowest \in Maps(Nat) /\ DOMAIN lowest = DOMAIN e.acked \cup ok
  <2> HIDE DEF known
  <2>1. DOMAIN lowest = DOMAIN e.acked \cup ok
    OBVIOUS
  <2>2. DOMAIN lowest \in SUBSET Id
    BY <1>2, <2>1
  <2>3. lowest \in [DOMAIN lowest -> Nat]
    BY <1>3
  <2>4. QED
    BY <2>1, <2>2, <2>3, MapType
<1>5. ok \subseteq e.outbox
  OBVIOUS
<1> HIDE DEF lowest, ok
<1>6. /\ g \in EngineType /\ g.outbox = e.outbox /\ g.sent = e.sent /\ g.acked = lowest
      /\ g.online = e.online /\ g.cursor = e.cursor /\ g.applied = e.applied
      /\ g.frozen = e.frozen
  BY <1>4 DEF EngineType
<1>7. EngineHolds(g)
  <2> HIDE DEF g
  <2>1. QED
    BY <1>3, <1>4, <1>5, <1>6 DEF EngineHolds
<1>8. \A m \in S : DecidedBy(m, e.applied)
  BY <1>2, <1>3, DecidedLater
<1> HIDE DEF g, S
<1>9. EngineHolds(Released(g, S))
  BY <1>6, <1>7, <1>8, ReleasedHolds
<1>10. LET a == Released(g, S) IN
       a \in EngineType /\ a.outbox = e.outbox \ S /\ a.sent = e.sent \ S
       /\ a.applied = e.applied /\ DOMAIN a.acked = DOMAIN lowest \ S
  BY <1>6, ReleasedIs
<1>11. QED
  BY <1>1, <1>4, <1>9, <1>10 DEF Trims

\* Every outcome, told to the Engine.
LEMMA JudgedHolds ==
  ASSUME decided \in Seq(Decision), NEW calls \in Seq(OutcomeType),
         \A i \in DOMAIN calls : OutcomeHolds(calls[i]), NEW e \in EngineType, EngineHolds(e)
  PROVE  LET a == Judged(e, calls) IN
         a \in EngineType /\ EngineHolds(a) /\ a.applied = e.applied /\ Trims(a, e)
<1> DEFINE over == Failed(calls) \cup Rejected(calls)
           online == [m \in DOMAIN e.online \ over |->
                        IF Oks(calls, m) = {} THEN e.online[m]
                        ELSE [e.online[m] EXCEPT !.ack = Lowest(Oks(calls, m))]]
           g == [e EXCEPT !.online = online]
           r == Released(g, Rejected(calls))
<1>1. Judged(e, calls) = Acked(r, calls)
  BY DEF Judged
<1>2. DOMAIN e.online \in SUBSET Id /\ e.online \in [DOMAIN e.online -> OnlineType]
      /\ e.applied \in Nat
  BY MapType DEF EngineType
<1>3. \A m \in DOMAIN e.online \ over :
        /\ online[m] \in OnlineType /\ online[m].seen = e.online[m].seen
        /\ online[m].ack = e.online[m].ack \/ DecidedBy(m, online[m].ack)
  <2> SUFFICES ASSUME NEW m \in DOMAIN e.online \ over
               PROVE  /\ online[m] \in OnlineType /\ online[m].seen = e.online[m].seen
                      /\ online[m].ack = e.online[m].ack \/ DecidedBy(m, online[m].ack)
    OBVIOUS
  <2>1. e.online[m] \in OnlineType
    BY <1>2
  <2>2. CASE Oks(calls, m) = {}
    <3>1. online[m] = e.online[m]
      BY <2>2
    <3>2. QED
      BY <2>1, <3>1
  <2>3. CASE Oks(calls, m) # {}
    <3>1. Oks(calls, m) \in SUBSET Nat /\ \A p \in Oks(calls, m) : DecidedBy(m, p)
      BY ToldHolds
    <3>2. Lowest(Oks(calls, m)) \in Nat /\ DecidedBy(m, Lowest(Oks(calls, m)))
      BY <2>3, <3>1, LowestOf
    <3>3. online[m] = [e.online[m] EXCEPT !.ack = Lowest(Oks(calls, m))]
      BY <2>3
    <3> HIDE DEF online
    <3>4. QED
      BY <2>1, <3>2, <3>3 DEF OnlineType
  <2>4. QED
    BY <2>2, <2>3
<1>4. DOMAIN online = DOMAIN e.online \ over /\ online \in Maps(OnlineType)
  <2>1. DOMAIN online = DOMAIN e.online \ over
    OBVIOUS
  <2>2. DOMAIN online \in SUBSET Id /\ online \in [DOMAIN online -> OnlineType]
    BY <1>2, <1>3
  <2>3. QED
    BY <2>1, <2>2, MapType
<1> HIDE DEF online
<1>5. /\ g \in EngineType /\ g.outbox = e.outbox /\ g.sent = e.sent /\ g.acked = e.acked
      /\ g.online = online /\ g.cursor = e.cursor /\ g.applied = e.applied
      /\ g.frozen = e.frozen
  BY <1>4 DEF EngineType
<1> HIDE DEF g
<1>6. EngineHolds(g)
  <2>1. \A m \in DOMAIN g.online : /\ g.online[m].ack # -1 => DecidedBy(m, g.online[m].ack)
                                   /\ g.online[m].seen => DecidedBy(m, g.applied)
    BY <1>3, <1>4, <1>5 DEF EngineHolds
  <2>2. QED
    BY <1>4, <1>5, <2>1 DEF EngineHolds
<1>7. \A m \in Rejected(calls) : WasRejected(m)
  BY ToldHolds
<1>8. EngineHolds(r)
  BY <1>5, <1>6, <1>7, ReleasedHolds
<1>9. /\ r \in EngineType /\ r.outbox = e.outbox \ Rejected(calls)
      /\ r.sent = e.sent \ Rejected(calls)
      /\ r.applied = e.applied /\ DOMAIN r.acked = DOMAIN e.acked \ Rejected(calls)
  BY <1>5, ReleasedIs
<1> HIDE DEF r
<1>10. LET a == Acked(r, calls) IN
       a \in EngineType /\ EngineHolds(a) /\ a.applied = r.applied /\ Trims(a, r)
  BY <1>8, <1>9, AckedHolds
<1>11. QED
  BY <1>1, <1>9, <1>10 DEF Trims

\* How the @online mutations that some outcomes refuse settle.
LEMMA RefusalsHold ==
  ASSUME NEW calls \in Seq(OutcomeType), \A i \in DOMAIN calls : OutcomeHolds(calls[i]),
         NEW e \in EngineType, EngineHolds(e)
  PROVE  LET o == Refusals(e, calls) IN
         /\ o \in Maps({"reject", "failed"})
         /\ \A m \in DOMAIN o : /\ m \in Mutation /\ ~IsOutbox(m)
                                /\ o[m] = "reject" => WasRejected(m)
<1> DEFINE o == Refusals(e, calls)
<1>1. DOMAIN o = DOMAIN e.online \cap (Failed(calls) \cup Rejected(calls))
  BY DEF Refusals
<1>2. DOMAIN e.online \in SUBSET Id
  BY MapType DEF EngineType
<1>3. \A m \in DOMAIN o : o[m] \in {"reject", "failed"} /\ (o[m] = "reject" => m \in Rejected(calls))
  BY DEF Refusals
<1>4. o \in [DOMAIN o -> {"reject", "failed"}]
  BY <1>3 DEF Refusals
<1>5. \A m \in DOMAIN o : o[m] = "reject" => WasRejected(m)
  BY <1>3, ToldHolds
<1> HIDE DEF o
<1>6. o \in Maps({"reject", "failed"})
  BY <1>1, <1>2, <1>4, MapType
<1>7. \A m \in DOMAIN o : m \in Mutation /\ ~IsOutbox(m)
  BY <1>1 DEF EngineHolds
<1>8. QED
  BY <1>5, <1>6, <1>7 DEF o

-----------------------------------------------------------------------------
(* What stays when a step does not touch it.                               *)

LEMMA CallStays ==
  ASSUME minted \in Seq(MutationType), minted' \in Seq(MutationType), Grows,
         NEW ids \in Ids, IsCall(ids)
  PROVE  IsCall(ids)'
BY MintedStays DEF IsCall

LEMMA RequestStays ==
  ASSUME minted \in Seq(MutationType), minted' \in Seq(MutationType),
         decided \in Seq(Decision), decided' \in Seq(Decision), Grows,
         NEW r \in RequestType, RequestHolds(r)
  PROVE  RequestHolds(r)'
<1>1. r.ids \in Ids /\ r.answers \in Seq(Answer)
  BY DEF RequestType
<1>2. IsCall(r.ids) /\ IsCall(r.ids)'
  BY <1>1, CallStays DEF RequestHolds
<1>3. \A k \in DOMAIN r.ids : r.ids[k] \in Mutation
  BY <1>2 DEF IsCall
<1>4. \A k \in DOMAIN r.ids : Cleared(r.ids[k], Range(r.ids))'
  BY <1>3, Persists DEF RequestHolds
<1>5. \A k \in DOMAIN r.answers : k \in DOMAIN r.ids
  BY <1>1 DEF RequestHolds, Ids
<1>6. \A k \in DOMAIN r.answers :
        r.awaited \/ IsOutbox(r.ids[k])' => TrueAnswer(r.ids[k], r.answers[k])'
  BY <1>3, <1>5, MintedStays, Persists DEF RequestHolds
<1>7. QED
  BY <1>2, <1>4, <1>6 DEF RequestHolds

LEMMA OutcomeStays ==
  ASSUME minted \in Seq(MutationType), minted' \in Seq(MutationType),
         decided \in Seq(Decision), decided' \in Seq(Decision), Grows,
         NEW o \in OutcomeType, OutcomeHolds(o)
  PROVE  OutcomeHolds(o)'
<1>1. o.ids \in Ids /\ o.answers \in Seq(Answer)
  BY DEF OutcomeType
<1>2. \A k \in DOMAIN o.answers : k \in DOMAIN o.ids
  BY <1>1 DEF OutcomeHolds, Ids
<1>3. QED
  BY <1>2, MintedStays, Persists DEF OutcomeHolds

LEMMA NetStays ==
  ASSUME Types, Types', Grows, NetHolds, UNCHANGED <<net, posting>>
  PROVE  NetHolds'
<1>1. \A r \in net : RequestHolds(r)'
  BY RequestStays DEF Types, NetHolds
<1>2. QED
  BY <1>1 DEF NetHolds, NextRequest

LEMMA PostStays ==
  ASSUME Types, Types', Grows, PostHolds, UNCHANGED posting, up => up'
  PROVE  PostHolds'
<1> SUFFICES ASSUME posting # NoPost
             PROVE  PostHolds'
  BY DEF PostHolds
<1>1. posting.ids \in Ids /\ posting.answers \in Seq(Answer)
  BY DEF Types, PostType
<1>2. IsCall(posting.ids)'
  <2>1. PICK ids \in Ids : ids = posting.ids
    BY <1>1
  <2>2. IsCall(ids)'
    BY <2>1, CallStays DEF Types, PostHolds
  <2>3. QED
    BY <2>1, <2>2 DEF IsCall
<1>3. \A k \in DOMAIN posting.ids : posting.ids[k] \in Mutation
  BY DEF PostHolds, IsCall
<1>4. \A k \in DOMAIN posting.answers : k \in DOMAIN posting.ids
  BY <1>1 DEF PostHolds, Ids
<1>5. \A k \in DOMAIN posting.ids : Cleared(posting.ids[k], PostIds)'
  <2> SUFFICES ASSUME NEW k \in DOMAIN posting.ids
               PROVE  Cleared(posting.ids[k], PostIds)'
    OBVIOUS
  <2>1. PICK x \in Mutation, S \in {PostIds} : x = posting.ids[k]
    BY <1>3
  <2>2. Cleared(x, S)'
    BY <2>1, Persists DEF PostHolds, Types
  <2>3. posting'.ids[k] = x /\ PostIds' = S
    BY <2>1 DEF PostIds
  <2>4. QED
    BY <2>2, <2>3 DEF Cleared
<1>6. \A k \in DOMAIN posting.answers : TrueAnswer(posting.ids[k], posting.answers[k])'
  <2> SUFFICES ASSUME NEW k \in DOMAIN posting.answers
               PROVE  TrueAnswer(posting.ids[k], posting.answers[k])'
    OBVIOUS
  <2>1. PICK x \in Mutation, a \in {posting.answers[k]} : x = posting.ids[k]
    BY <1>3, <1>4
  <2>2. TrueAnswer(x, a)'
    BY <2>1, Persists DEF PostHolds, Types
  <2>3. posting'.ids[k] = x /\ posting'.answers[k] = a
    BY <2>1
  <2>4. QED
    BY <2>2, <2>3 DEF TrueAnswer, DecidedBy, WasRejected
<1>7. QED
  BY <1>2, <1>5, <1>6 DEF PostHolds

\* What the connection has still to carry is known, and made of its parts.
LEMMA FlowKnown ==
  ASSUME Types, PostHolds, SendsHold
  PROVE  /\ Flow \subseteq Mutation
         /\ \A i \in DOMAIN sends : sends[i] \in Ids /\ \A k \in DOMAIN sends[i] :
              sends[i][k] \in SendIds
         /\ \A x \in SendIds : \E i \in DOMAIN sends : \E k \in DOMAIN sends[i] : sends[i][k] = x
         /\ posting # NoPost => posting.ids \in Ids /\ posting.answers \in Seq(Answer)
         /\ posting # NoPost => \A k \in DOMAIN posting.ids : posting.ids[k] \in PostIds
<1>1. \A i \in DOMAIN sends : sends[i] \in Ids
  BY DEF Types
<1>2. \A i \in DOMAIN sends : \A k \in DOMAIN sends[i] : sends[i][k] \in SendIds
  BY DEF SendIds, Range
<1>3. \A x \in SendIds : \E i \in DOMAIN sends : \E k \in DOMAIN sends[i] : sends[i][k] = x
  BY DEF SendIds, Range
<1>4. SendIds \subseteq Mutation
  BY <1>3 DEF SendsHold, IsCall
<1>5. PostIds \subseteq Mutation
  BY DEF PostIds, Range, PostHolds, IsCall
<1>6. posting # NoPost => posting.ids \in Ids /\ posting.answers \in Seq(Answer)
  BY DEF Types, PostType
<1>7. posting # NoPost => \A k \in DOMAIN posting.ids : posting.ids[k] \in PostIds
  BY DEF PostIds, Range
<1>8. QED
  BY <1>1, <1>2, <1>3, <1>4, <1>5, <1>6, <1>7 DEF Flow

LEMMA SendsStay ==
  ASSUME Types, Types', Grows, PostHolds, SendsHold, UNCHANGED <<posting, sends>>, up => up'
  PROVE  SendsHold'
<1>1. PostIds' = PostIds /\ SendIds' = SendIds /\ Flow' = Flow
  BY DEF PostIds, SendIds, Flow
<1>2. \A i \in DOMAIN sends : sends[i] # <<>> /\ IsCall(sends[i])'
  <2> SUFFICES ASSUME NEW i \in DOMAIN sends
               PROVE  sends[i] # <<>> /\ IsCall(sends[i])'
    OBVIOUS
  <2>1. PICK ids \in Ids : ids = sends[i]
    BY FlowKnown
  <2>2. IsCall(ids)'
    BY <2>1, CallStays DEF Types, SendsHold
  <2>3. QED
    BY <2>1, <2>2 DEF SendsHold, IsCall
<1>3. \A x \in SendIds : Cleared(x, Flow)'
  <2> SUFFICES ASSUME NEW x \in SendIds
               PROVE  Cleared(x, Flow)'
    OBVIOUS
  <2>1. PICK S : S = Flow
    OBVIOUS
  <2>2. x \in Mutation
    BY FlowKnown DEF Flow
  <2>3. Cleared(x, S)'
    BY <2>1, <2>2, Persists DEF SendsHold, Types
  <2>4. QED
    BY <1>1, <2>1, <2>3 DEF Cleared
<1>4. QED
  BY <1>1, <1>2, <1>3 DEF SendsHold

\* A step that leaves the database and what is on its way alone.
Untouched == UNCHANGED <<database, net, process, sends, posting>>

LEMMA DatabaseStays ==
  ASSUME Types, UNCHANGED database
  PROVE  /\ Grows /\ Mutation' = Mutation /\ LogHead' = LogHead
         /\ NumbersHold /\ UNCHANGED process => NumbersHold'
         /\ DecisionsHold => DecisionsHold'
<1>1. minted' = minted /\ decided' = decided
  BY DEF database
<1>2. Grows
  BY <1>1 DEF Types, Grows
<1>3. Mutation' = Mutation /\ LogHead' = LogHead
  BY <1>1 DEF Mutation, LogHead, HeadAt
<1>4. NumbersHold /\ UNCHANGED process => NumbersHold'
  BY <1>1, <1>3 DEF NumbersHold
<1>5. DecisionsHold => DecisionsHold'
  BY <1>1, <1>3 DEF DecisionsHold, Cleared, CarriedOutInOrder, IsOutbox, Done, WasDecided, Decisions
<1>6. QED
  BY <1>2, <1>3, <1>4, <1>5

LEMMA TransportStays ==
  ASSUME OutboxInv, Types', Untouched, up => up'
  PROVE  /\ NumbersHold' /\ DecisionsHold' /\ NetHolds' /\ PostHolds' /\ SendsHold' /\ OnlineAhead'
         /\ Grows /\ Mutation' = Mutation
<1>1. Grows /\ Mutation' = Mutation /\ NumbersHold' /\ DecisionsHold'
  BY DatabaseStays DEF OutboxInv, Untouched
<1>2. NetHolds' /\ PostHolds' /\ SendsHold'
  BY <1>1, NetStays, PostStays, SendsStay DEF OutboxInv, Untouched
<1>3. OnlineAhead'
  <2>1. Flow' = Flow
    BY DEF Untouched, Flow, PostIds, SendIds
  <2>2. QED
    BY <1>1, <2>1 DEF OutboxInv, OnlineAhead, Untouched, database, IsOutbox, WasDecided, Decisions
<1>4. QED
  BY <1>1, <1>2, <1>3

LEMMA OutcomesStay ==
  ASSUME Types, Types', Grows, \A i \in DOMAIN outcomes : OutcomeHolds(outcomes[i]),
         UNCHANGED outcomes
  PROVE  \A i \in DOMAIN outcomes' : OutcomeHolds(outcomes[i])'
<1> SUFFICES ASSUME NEW i \in DOMAIN outcomes
             PROVE  OutcomeHolds(outcomes[i])'
  OBVIOUS
<1>1. PICK o \in OutcomeType : o = outcomes[i]
  BY DEF Types
<1>2. OutcomeHolds(o)'
  BY <1>1, OutcomeStays DEF Types
<1>3. QED
  BY <1>1, <1>2 DEF OutcomeHolds

\* The Engine and what the app was told, when the step leaves the minted alone and
\* tells nothing.
LEMMA EngineMoves ==
  ASSUME Types, Types', Grows, Mutation' = Mutation, SettledHolds, UNCHANGED settled,
         NEW e \in EngineType, EngineHolds(e), engine' = e, e.applied = engine.applied
  PROVE  EngineHolds(engine)' /\ SettledHolds'
<1>1. PICK f : f = settled
  BY DEF Types
<1>2. EngineHolds(e)'
  BY EngineStays DEF Types
<1>3. SettledBy(f, e.applied)'
  <2>1. PICK p \in Nat : p = engine.applied /\ p = e.applied
    BY DEF EngineType
  <2>2. QED
    BY <1>1, <2>1, SettledStays DEF Types, SettledHolds
<1>4. engine' = e /\ settled' = f
  BY <1>1
<1>5. QED
  BY <1>2, <1>3, <1>4 DEF EngineHolds, SettledHolds, SettledBy

LEMMA EngineSame ==
  ASSUME Types, Types', Grows, Mutation' = Mutation, EngineHolds(engine), SettledHolds,
         UNCHANGED <<engine, settled>>
  PROVE  EngineHolds(engine)' /\ SettledHolds'
<1>1. PICK e \in EngineType : e = engine
  BY DEF Types
<1>2. QED
  BY <1>1, EngineMoves

\* The Engine keeps track of what it handed to the connection, as mutations leave.
Follows == Trims(engine', engine)

LEMMA ConnectionStays ==
  ASSUME Types, Types', Grows, EngineHolds(engine), ConnectionHolds, Follows, Flow' = Flow,
         up' = up, resend' = resend, ended => ended', ending' => up' /\ ended'
  PROVE  ConnectionHolds'
<1>1. \A m \in engine.sent : m \in Mutation /\ (Done(m) => Done(m)')
  BY Persists DEF Types, EngineHolds
<1>2. \A m \in engine'.sent : Done(m)' \/ m \in Flow' \/ ended'
  BY <1>1 DEF ConnectionHolds, Follows, Trims
<1>3. up' /\ ~resend' => engine'.outbox \subseteq engine'.sent \cup DOMAIN engine'.acked
  BY DEF ConnectionHolds, Follows, Trims
<1>4. engine'.sent # {} => up'
  BY DEF ConnectionHolds, Follows, Trims
<1>5. QED
  BY <1>2, <1>3, <1>4 DEF ConnectionHolds

-----------------------------------------------------------------------------
(* The steps of the app and of the Engine.                                 *)

LEMMA InitHolds == Init => OutboxInv
<1> SUFFICES ASSUME Init
             PROVE  OutboxInv
  OBVIOUS
<1>1. Types
  <2>1. <<>> \in Maps(Nat) /\ <<>> \in Maps(OnlineType) /\ <<>> \in Maps({"ok", "reject", "failed"})
    <3>1. \A V : DOMAIN <<>> \in SUBSET Id /\ <<>> \in [DOMAIN <<>> -> V]
      OBVIOUS
    <3>2. QED
      BY <3>1, MapType
  <2>2. NewEngine \in EngineType
    BY <2>1 DEF NewEngine, EngineType
  <2>3. \A S : <<>> \in Seq(S)
    OBVIOUS
  <2>4. /\ minted \in Seq(MutationType) /\ decided \in Seq(Decision)
        /\ submitted \in Seq(Submission) /\ outcomes \in Seq(OutcomeType) /\ sends \in Seq(Ids)
    BY <2>3 DEF Init
  <2>5. QED
    BY <2>1, <2>2, <2>4 DEF Types, Init
<1>2. Mutation = {} /\ DOMAIN decided = {} /\ LogHead = 0
  <2>1. {i \in 1..Len(<<>>) : decided[i].outcome = "edit"} = {}
    OBVIOUS
  <2>2. QED
    BY <2>1, FS_EmptySet DEF Init, Mutation, LogHead, HeadAt
<1>3. PostIds = {} /\ SendIds = {} /\ Flow = {}
  BY DEF Init, PostIds, SendIds, Flow
<1>4. NumbersHold /\ DecisionsHold /\ NetHolds /\ PostHolds /\ SendsHold
  BY <1>2, <1>3 DEF Init, NumbersHold, DecisionsHold, CarriedOutInOrder, NetHolds, PostHolds, SendsHold
<1>5. OnlineAhead /\ ConnectionHolds /\ (\A i \in DOMAIN outcomes : OutcomeHolds(outcomes[i]))
  BY <1>3 DEF Init, OnlineAhead, ConnectionHolds, NewEngine
<1>6. EngineHolds(engine) /\ SettledHolds
  BY <1>2 DEF Init, EngineHolds, SettledHolds, SettledBy, NewEngine
<1>7. QED
  BY <1>1, <1>4, <1>5, <1>6 DEF OutboxInv

LEMMA SubmitHolds ==
  ASSUME OutboxInv, NEW kind \in Kinds, NEW valid \in BOOLEAN, Submit(kind, valid)
  PROVE  OutboxInv'
<1>1. [kind |-> kind, valid |-> valid] \in Submission
  BY OutboxAssumption DEF Submission
<1>2. Types'
  BY <1>1 DEF OutboxInv, Types, Submit, database, connection
<1>3. Untouched /\ UNCHANGED <<up, engine, settled, outcomes, resend, ending, ended>>
  BY DEF Submit, Untouched, connection
<1>4. /\ NumbersHold' /\ DecisionsHold' /\ NetHolds' /\ PostHolds' /\ SendsHold' /\ OnlineAhead'
      /\ Grows /\ Mutation' = Mutation
  BY <1>2, <1>3, TransportStays
<1>5. EngineHolds(engine)' /\ SettledHolds'
  BY <1>2, <1>3, <1>4, EngineSame DEF OutboxInv
<1>6. \A i \in DOMAIN outcomes' : OutcomeHolds(outcomes[i])'
  BY <1>2, <1>3, <1>4, OutcomesStay DEF OutboxInv
<1>7. ConnectionHolds'
  <2>1. Flow' = Flow
    BY <1>3 DEF Untouched, Flow, PostIds, SendIds
  <2>2. QED
    BY <1>2, <1>3, <1>4, <2>1, ConnectionStays DEF OutboxInv, Follows, Trims, ConnectionHolds
<1>8. QED
  BY <1>2, <1>4, <1>5, <1>6, <1>7 DEF OutboxInv

\* A pass of the Engine that only tells it something, and leaves it as e.
LEMMA PassHolds ==
  ASSUME OutboxInv, Types', Untouched, UNCHANGED <<up, resend>>, ended => ended',
         ending' => up' /\ ended',
         NEW e \in EngineType, NEW outcome \in Maps({"reject", "failed"}), Leaves(e, outcome),
         EngineHolds(e), engine.applied <= e.applied,
         \A m \in DOMAIN outcome : /\ m \in Mutation /\ ~IsOutbox(m)
                                   /\ outcome[m] = "reject" => WasRejected(m),
         Trims(e, engine),
         \A i \in DOMAIN outcomes' : OutcomeHolds(outcomes[i])'
  PROVE  OutboxInv'
<1>1. /\ NumbersHold' /\ DecisionsHold' /\ NetHolds' /\ PostHolds' /\ SendsHold' /\ OnlineAhead'
      /\ Grows /\ Mutation' = Mutation
  BY TransportStays
<1>2. EngineHolds(e)'
  BY <1>1, EngineStays DEF OutboxInv, Types
<1>3. PICK f : f = settled
  OBVIOUS
<1>4. e.applied \in Nat /\ engine.applied \in Nat
  BY DEF OutboxInv, Types, EngineType
<1>5. SettledBy(f, e.applied)'
  <2>1. PICK p \in Nat : p = engine.applied
    BY <1>4
  <2>2. SettledBy(f, p)
    BY <1>3, <2>1 DEF OutboxInv, SettledHolds
  <2>3. QED
    BY <1>1, <1>4, <2>1, <2>2, SettledStays DEF OutboxInv, Types
<1>6. \A m \in DOMAIN outcome : /\ m \in Mutation' /\ ~IsOutbox(m)'
                                /\ outcome[m] = "reject" => WasRejected(m)'
  BY <1>1, MintedStays, Persists DEF OutboxInv, Types
<1>7. /\ EngineHolds(engine)' /\ SettledHolds'
      /\ engine'.outbox = e.outbox /\ engine'.sent = e.sent /\ engine'.acked = e.acked
  BY <1>2, <1>3, <1>5, <1>6, LeavesIs, LeavesHolds DEF OutboxInv, Types
<1>8. ConnectionHolds'
  <2>1. Flow' = Flow
    BY DEF Untouched, Flow, PostIds, SendIds
  <2>2. Follows
    BY <1>7 DEF Follows, Trims
  <2>3. QED
    BY <1>1, <2>1, <2>2, ConnectionStays DEF OutboxInv
<1>9. QED
  BY <1>1, <1>7, <1>8 DEF OutboxInv

LEMMA NoOutcomeType == NoOutcome \in Maps({"reject", "failed"}) /\ DOMAIN NoOutcome = {}
<1>1. DOMAIN <<>> = {} /\ <<>> \in [DOMAIN <<>> -> {"reject", "failed"}]
  OBVIOUS
<1>2. QED
  BY <1>1, MapType DEF NoOutcome

\* Freezing the base, and reading on while it is frozen, keep what the Engine knows.
LEMMA FrozenHolds ==
  ASSUME NEW e \in EngineType, EngineHolds(e), NEW c \in Nat, e.cursor <= c, c <= LogHead
  PROVE  LET f == [e EXCEPT !.cursor = c, !.frozen = TRUE] IN
         /\ f \in EngineType /\ EngineHolds(f)
         /\ f.outbox = e.outbox /\ f.sent = e.sent /\ f.acked = e.acked /\ f.online = e.online
         /\ f.cursor = c /\ f.applied = e.applied /\ f.frozen = TRUE
<1> DEFINE f == [e EXCEPT !.cursor = c, !.frozen = TRUE]
<1>1. /\ f \in EngineType
      /\ f.outbox = e.outbox /\ f.sent = e.sent /\ f.acked = e.acked /\ f.online = e.online
      /\ f.cursor = c /\ f.applied = e.applied /\ f.frozen = TRUE
  BY DEF EngineType
<1>2. e.applied \in Nat /\ e.cursor \in Nat
  BY DEF EngineType
<1> HIDE DEF f
<1>3. EngineHolds(f)
  BY <1>1, <1>2 DEF EngineHolds
<1>4. QED
  BY <1>1, <1>3 DEF f

LEMMA LogHeadType ==
  ASSUME decided \in Seq(Decision)
  PROVE  LogHead \in Nat
<1>1. \A n \in Nat : HeadAt(n) \in Nat
  BY HeadAtType
<1>2. QED
  BY <1>1 DEF LogHead

\* A pass over the feed, which leaves the Engine as e.
LEMMA TellHolds ==
  ASSUME OutboxInv, NEW e \in EngineType, Leaves(e, NoOutcome), EngineHolds(e),
         engine.applied <= e.applied, Trims(e, engine),
         UNCHANGED <<database, net, process, passes, up, ending, outcomes, connection>>
  PROVE  OutboxInv'
<1>1. engine' \in EngineType /\ settled' \in Maps({"ok", "reject", "failed"})
  BY NoOutcomeType, LeavesIs DEF OutboxInv, Types
<1>2. Types'
  BY <1>1 DEF OutboxInv, Types, database, passes, connection
<1>3. Untouched /\ UNCHANGED <<up, resend, ended, ending, outcomes>>
  BY DEF Untouched, connection, passes
<1>4. Grows
  BY DatabaseStays DEF OutboxInv
<1>5. \A i \in DOMAIN outcomes' : OutcomeHolds(outcomes[i])'
  BY <1>2, <1>3, <1>4, OutcomesStay DEF OutboxInv
<1>6. QED
  BY <1>2, <1>3, <1>5, NoOutcomeType, PassHolds DEF OutboxInv, ConnectionHolds

LEMMA FeedNextHolds ==
  ASSUME OutboxInv, NEW shown \in BOOLEAN, FeedNext(shown)
  PROVE  OutboxInv'
<1>1. PICK e \in EngineType : e = engine
  BY DEF OutboxInv, Types
<1> DEFINE c == e.cursor + 1
           next == [e EXCEPT !.cursor = c]
           frozen == [e EXCEPT !.cursor = c, !.frozen = TRUE]
           applied == AppliedThrough(next, next.cursor)
<1>2. EngineHolds(e) /\ e.cursor \in Nat /\ e.applied \in Nat /\ e.applied <= e.cursor
      /\ (e.frozen \/ e.applied = e.cursor)
  BY <1>1 DEF OutboxInv, EngineType, EngineHolds
<1>3. c \in Nat /\ e.cursor <= c /\ c <= LogHead /\ e.applied <= c
  BY <1>1, <1>2, LogHeadType DEF OutboxInv, Types, FeedNext
<1> HIDE DEF c
<1>4. /\ next \in EngineType /\ next.outbox = e.outbox /\ next.sent = e.sent
      /\ next.acked = e.acked /\ next.online = e.online /\ next.cursor = c
      /\ next.applied = e.applied /\ next.frozen = e.frozen
      /\ [next EXCEPT !.frozen = TRUE] = frozen
  BY <1>3 DEF EngineType
<1>5. frozen \in EngineType /\ EngineHolds(frozen)
      /\ (e.frozen => frozen = next)
  <2>1. frozen \in EngineType /\ EngineHolds(frozen)
    BY <1>2, <1>3, FrozenHolds
  <2>2. e.frozen => frozen = next
    BY DEF EngineType
  <2>3. QED
    BY <2>1, <2>2
<1>6. ~e.frozen => /\ applied \in EngineType /\ EngineHolds(applied) /\ applied.applied = c
                   /\ Trims(applied, e)
  <2> SUFFICES ASSUME ~e.frozen
               PROVE  /\ applied \in EngineType /\ EngineHolds(applied) /\ applied.applied = c
                      /\ Trims(applied, e)
    OBVIOUS
  <2> HIDE DEF next, frozen
  <2>1. applied \in EngineType /\ EngineHolds(applied) /\ applied.applied = c
    BY <1>3, <1>4, <1>5, AppliedHolds DEF OutboxInv, Types
  <2>2. Trims(applied, e)
    BY <1>3, <1>4, AppliedTrims DEF Trims
  <2>3. QED
    BY <2>1, <2>2
<1> DEFINE edit == EditAt(c)
           left == IF e.frozen THEN next
                   ELSE IF shown THEN RoundTrip(applied, {edit}) ELSE applied
<1>7. DecidedBy(edit, c)
  <2>1. \E i \in DOMAIN decided : decided[i].id = EditAt(c) /\ HeadAt(i) = c
    BY <1>2, <1>3, EditAtIs DEF OutboxInv, Types, c
  <2>2. QED
    BY <1>3, <2>1 DEF DecidedBy, Decisions
<1>8. Leaves(left, NoOutcome)
  BY <1>1, <1>4 DEF FeedNext, c
<1> HIDE DEF edit, applied, next
<1>9. left \in EngineType /\ EngineHolds(left) /\ Trims(left, e) /\ engine.applied <= left.applied
  <2>1. CASE e.frozen
    BY <2>1, <1>1, <1>2, <1>4, <1>5 DEF Trims
  <2>2. CASE ~e.frozen /\ ~shown
    BY <2>2, <1>1, <1>3, <1>6
  <2>3. CASE ~e.frozen /\ shown
    <3>1. LET r == RoundTrip(applied, {edit}) IN
          r \in EngineType /\ EngineHolds(r) /\ r.applied = c /\ Trims(r, applied)
      BY <2>3, <1>6, <1>7, RoundTripHolds
    <3>2. Trims(RoundTrip(applied, {edit}), e)
      BY <2>3, <3>1, <1>6 DEF Trims
    <3>3. QED
      BY <2>3, <3>1, <3>2, <1>1, <1>3
  <2>4. QED
    BY <2>1, <2>2, <2>3
<1> HIDE DEF left
<1>10. QED
  BY <1>1, <1>8, <1>9, TellHolds DEF FeedNext

LEMMA FreezeHolds ==
  ASSUME OutboxInv, Freeze
  PROVE  OutboxInv'
<1>1. PICK e \in EngineType : e = engine
  BY DEF OutboxInv, Types
<1> DEFINE f == [e EXCEPT !.cursor = e.cursor, !.frozen = TRUE]
<1>2. EngineHolds(e) /\ e.cursor \in Nat /\ e.cursor <= e.cursor /\ e.cursor <= LogHead
  BY <1>1 DEF OutboxInv, EngineType, EngineHolds
<1>3. f \in EngineType /\ EngineHolds(f) /\ f.applied = e.applied /\ f.sent = e.sent
      /\ f.outbox = e.outbox /\ f.acked = e.acked
  BY <1>2, FrozenHolds
<1>4. engine' = f
  BY <1>1 DEF Freeze, EngineType
<1> HIDE DEF f
<1>5. Types'
  BY <1>3, <1>4 DEF OutboxInv, Types, Freeze, database, passes, connection
<1>6. Untouched /\ UNCHANGED <<up, settled, outcomes, resend, ending, ended>>
  BY DEF Freeze, Untouched, connection, passes
<1>7. /\ NumbersHold' /\ DecisionsHold' /\ NetHolds' /\ PostHolds' /\ SendsHold' /\ OnlineAhead'
      /\ Grows /\ Mutation' = Mutation
  BY <1>5, <1>6, TransportStays
<1>8. EngineHolds(engine)' /\ SettledHolds'
  BY <1>1, <1>3, <1>4, <1>5, <1>6, <1>7, EngineMoves DEF OutboxInv
<1>9. \A i \in DOMAIN outcomes' : OutcomeHolds(outcomes[i])'
  BY <1>5, <1>6, <1>7, OutcomesStay DEF OutboxInv
<1>10. ConnectionHolds'
  <2>1. Flow' = Flow
    BY <1>6 DEF Untouched, Flow, PostIds, SendIds
  <2>2. Follows
    BY <1>1, <1>3, <1>4 DEF Follows, Trims
  <2>3. QED
    BY <1>5, <1>6, <1>7, <2>1, <2>2, ConnectionStays DEF OutboxInv, ConnectionHolds
<1>11. QED
  BY <1>5, <1>7, <1>8, <1>9, <1>10 DEF OutboxInv

LEMMA LandHolds ==
  ASSUME OutboxInv, Land
  PROVE  OutboxInv'
<1>1. PICK e \in EngineType : e = engine
  BY DEF OutboxInv, Types
<1> DEFINE g == [e EXCEPT !.frozen = FALSE]
           a == AppliedThrough(g, e.cursor)
<1>2. EngineHolds(e) /\ e.cursor \in Nat /\ e.applied \in Nat /\ e.applied <= e.cursor
      /\ e.cursor <= LogHead /\ e.frozen = TRUE
  BY <1>1 DEF OutboxInv, EngineType, EngineHolds, Land
<1>3. /\ g \in EngineType /\ g.outbox = e.outbox /\ g.sent = e.sent /\ g.acked = e.acked
      /\ g.cursor = e.cursor /\ g.applied = e.applied /\ [g EXCEPT !.frozen = TRUE] = e
  BY <1>2 DEF EngineType
<1>4. PICK run \in SUBSET {EditAt(p) : p \in e.applied + 1..e.cursor} :
        Leaves(RoundTrip(a, run), NoOutcome)
  BY <1>1 DEF Land
<1> HIDE DEF g
<1>5. a \in EngineType /\ EngineHolds(a) /\ a.applied = e.cursor /\ Trims(a, e)
  <2>0. EngineHolds([g EXCEPT !.frozen = TRUE])
    BY <1>2, <1>3, Zenon
  <2>1. g.applied <= e.cursor /\ e.cursor <= g.cursor /\ e.cursor = g.cursor
    BY <1>2, <1>3
  <2>2. a \in EngineType /\ EngineHolds(a) /\ a.applied = e.cursor
    BY <2>0, <2>1, <1>2, <1>3, AppliedHolds, Zenon DEF OutboxInv, Types
  <2>3. Trims(a, e)
    BY <1>2, <1>3, AppliedTrims DEF Trims
  <2>4. QED
    BY <2>2, <2>3
<1> HIDE DEF a
<1>6. \A m \in run : DecidedBy(m, e.cursor)
  <2> SUFFICES ASSUME NEW m \in run
               PROVE  DecidedBy(m, e.cursor)
    OBVIOUS
  <2>1. PICK p \in e.applied + 1..e.cursor : m = EditAt(p)
    OBVIOUS
  <2>2. p \in Nat \ {0} /\ p <= LogHead /\ p <= e.cursor
    BY <1>2, LogHeadType DEF OutboxInv, Types
  <2>3. \E i \in DOMAIN decided : decided[i].id = EditAt(p) /\ HeadAt(i) = p
    BY <2>2, EditAtIs DEF OutboxInv, Types
  <2>4. QED
    BY <2>1, <2>2, <2>3 DEF DecidedBy, Decisions
<1> DEFINE left == RoundTrip(a, run)
<1>7. left \in EngineType /\ EngineHolds(left) /\ left.applied = e.cursor /\ Trims(left, a)
  BY <1>5, <1>6, RoundTripHolds
<1> HIDE DEF left
<1>8. Trims(left, e)
  BY <1>5, <1>7 DEF Trims
<1>9. QED
  BY <1>1, <1>2, <1>4, <1>7, <1>8, TellHolds DEF Land, left

LEMMA OnMutationOutcomesHolds ==
  ASSUME OutboxInv, OnMutationOutcomes
  PROVE  OutboxInv'
<1>1. PICK e \in EngineType, calls \in Seq(OutcomeType) : e = engine /\ calls = outcomes
  BY DEF OutboxInv, Types
<1> DEFINE left == Judged(e, calls)
           refused == Refusals(e, calls)
<1>2. EngineHolds(e) /\ \A i \in DOMAIN calls : OutcomeHolds(calls[i])
  BY <1>1 DEF OutboxInv
<1>3. left \in EngineType /\ EngineHolds(left) /\ left.applied = e.applied /\ Trims(left, e)
  BY <1>2, JudgedHolds DEF OutboxInv, Types
<1>4. /\ refused \in Maps({"reject", "failed"})
      /\ \A m \in DOMAIN refused : /\ m \in Mutation /\ ~IsOutbox(m)
                                   /\ refused[m] = "reject" => WasRejected(m)
  BY <1>2, RefusalsHold
<1>5. Leaves(left, refused)
  BY <1>1 DEF OnMutationOutcomes
<1> HIDE DEF left, refused
<1>6. /\ Untouched /\ UNCHANGED <<up, resend>> /\ outcomes' = <<>>
      /\ ended' \in BOOLEAN /\ ending' \in BOOLEAN
      /\ ended => ended'
      /\ ending' => up' /\ ended'
  BY DEF OnMutationOutcomes, Untouched, passes, OutboxInv, Types
<1>7. engine' \in EngineType /\ settled' \in Maps({"ok", "reject", "failed"})
  BY <1>3, <1>4, <1>5, LeavesIs DEF OutboxInv, Types
<1>8. Types'
  BY <1>6, <1>7 DEF OutboxInv, Types, OnMutationOutcomes, database, passes
<1>9. engine.applied <= left.applied /\ Trims(left, engine)
  BY <1>1, <1>3 DEF EngineType
<1>10. \A i \in DOMAIN outcomes' : OutcomeHolds(outcomes[i])'
  BY <1>6
<1>11. QED
  BY <1>3, <1>4, <1>5, <1>6, <1>8, <1>9, <1>10, PassHolds

LEMMA OnConnectHolds ==
  ASSUME OutboxInv, OnConnect
  PROVE  OutboxInv'
<1>1. Untouched /\ UNCHANGED <<engine, settled, outcomes>> /\ up' /\ resend' /\ ~ending'
  BY DEF OnConnect, Untouched
<1>2. Types'
  BY DEF OutboxInv, Types, OnConnect, database
<1>3. /\ NumbersHold' /\ DecisionsHold' /\ NetHolds' /\ PostHolds' /\ SendsHold' /\ OnlineAhead'
      /\ Grows /\ Mutation' = Mutation
  BY <1>1, <1>2, TransportStays
<1>4. EngineHolds(engine)' /\ SettledHolds'
  BY <1>1, <1>2, <1>3, EngineSame DEF OutboxInv
<1>5. \A i \in DOMAIN outcomes' : OutcomeHolds(outcomes[i])'
  BY <1>1, <1>2, <1>3, OutcomesStay DEF OutboxInv
<1>6. ConnectionHolds'
  <2>1. posting = NoPost /\ sends = <<>> /\ engine.sent = {}
    BY DEF OutboxInv, OnConnect, PostHolds, SendsHold, ConnectionHolds
  <2>2. Flow' = {}
    BY <1>1, <2>1 DEF Untouched, Flow, PostIds, SendIds
  <2>3. QED
    BY <1>1, <2>1, <2>2 DEF ConnectionHolds
<1>7. QED
  BY <1>2, <1>3, <1>4, <1>5, <1>6 DEF OutboxInv

LEMMA StreamEndsHolds ==
  ASSUME OutboxInv, StreamEnds
  PROVE  OutboxInv'
<1>1. Untouched /\ UNCHANGED <<engine, settled, outcomes, up, resend>> /\ up /\ ended'
  BY DEF StreamEnds, Untouched, passes
<1>2. Types'
  BY DEF OutboxInv, Types, StreamEnds, database, passes
<1>3. /\ NumbersHold' /\ DecisionsHold' /\ NetHolds' /\ PostHolds' /\ SendsHold' /\ OnlineAhead'
      /\ Grows /\ Mutation' = Mutation
  BY <1>1, <1>2, TransportStays
<1>4. EngineHolds(engine)' /\ SettledHolds'
  BY <1>1, <1>2, <1>3, EngineSame DEF OutboxInv
<1>5. \A i \in DOMAIN outcomes' : OutcomeHolds(outcomes[i])'
  BY <1>1, <1>2, <1>3, OutcomesStay DEF OutboxInv
<1>6. ConnectionHolds'
  <2>1. Flow' = Flow
    BY <1>1 DEF Untouched, Flow, PostIds, SendIds
  <2>2. QED
    BY <1>1, <1>2, <1>3, <2>1, ConnectionStays DEF OutboxInv, Follows, Trims
<1>7. QED
  BY <1>2, <1>3, <1>4, <1>5, <1>6 DEF OutboxInv

-----------------------------------------------------------------------------
(* The requests.                                                           *)

\* The next request of a call is a part of what it has still to be answered.
LEMMA NextRequestIs ==
  ASSUME NEW post \in PostType, Len(post.answers) < Len(post.ids)
  PROVE  LET r == NextRequest(post)
             n == Len(post.answers) IN
         /\ r \in RequestType /\ r.answers = <<>> /\ r.awaited = TRUE
         /\ n \in Nat /\ Len(post.ids) \in Nat /\ DOMAIN post.ids = 1..Len(post.ids)
         /\ Len(r.ids) \in Nat /\ DOMAIN r.ids = 1..Len(r.ids) /\ Len(r.ids) # 0
         /\ n + Len(r.ids) <= Len(post.ids)
         /\ \A k \in DOMAIN r.ids : n + k \in DOMAIN post.ids /\ r.ids[k] = post.ids[n + k]
<1> DEFINE ids == post.ids
           n == Len(post.answers)
           last == IF n + Limit < Len(ids) THEN n + Limit ELSE Len(ids)
           rest == SubSeq(ids, n + 1, last)
<1>1. ids \in Ids /\ post.answers \in Seq(Answer)
  BY DEF PostType
<1>2. n \in Nat /\ Len(ids) \in Nat /\ DOMAIN ids = 1..Len(ids)
  BY <1>1 DEF Ids
<1>3. last \in Nat /\ n + 1 <= last /\ last <= Len(ids)
  BY <1>2, OutboxAssumption
<1>4. NextRequest(post) = Request(rest)
  BY DEF NextRequest
<1> HIDE DEF ids, n, last
<1>5. /\ rest \in Ids /\ Len(rest) = last - n /\ DOMAIN rest = 1..(last - n)
      /\ \A k \in 1..(last - n) : rest[k] = ids[n + k]
  <2>1. n + 1 \in Int /\ last \in Int /\ n + 1 >= 1 /\ last <= Len(ids)
    BY <1>2, <1>3
  <2>2. rest = [k \in 1..(last - n) |-> ids[n + k]]
    BY <2>1, <1>2, <1>3
  <2>3. \A k \in 1..(last - n) : n + k \in 1..Len(ids)
    BY <1>2, <1>3
  <2>4. last - n \in Nat
    BY <1>2, <1>3
  <2>5. \A k \in 1..(last - n) : ids[n + k] \in Id
    BY <1>1, <1>2, <2>3 DEF Ids
  <2> HIDE DEF rest
  <2>6. rest \in Ids
    BY <2>2, <2>4, <2>5 DEF Ids
  <2>7. Len(rest) = last - n
    BY <2>2, <2>4
  <2>8. QED
    BY <2>2, <2>6, <2>7
<1> HIDE DEF rest
<1>6. /\ Request(rest) \in RequestType /\ Request(rest).answers = <<>>
      /\ Request(rest).awaited = TRUE /\ Request(rest).ids = rest
  BY <1>5 DEF Request, RequestType
<1>7. \A k \in DOMAIN rest : n + k \in DOMAIN ids
  BY <1>2, <1>3, <1>5
<1>8. QED
  BY <1>2, <1>3, <1>4, <1>5, <1>6, <1>7 DEF ids, n

\* A request asks the database only for what it may decide next.
LEMMA NextRequestHolds ==
  ASSUME NEW post \in PostType, IsCall(post.ids), Len(post.answers) < Len(post.ids),
         \A k \in DOMAIN post.ids : Cleared(post.ids[k], Range(post.ids)),
         \A k \in DOMAIN post.answers : TrueAnswer(post.ids[k], post.answers[k])
  PROVE  LET r == NextRequest(post) IN
         RequestHolds(r) /\ r.ids # <<>> /\ Range(r.ids) \subseteq Range(post.ids)
<1> DEFINE r == NextRequest(post)
           n == Len(post.answers)
<1>1. /\ r \in RequestType /\ r.answers = <<>> /\ r.awaited = TRUE
      /\ n \in Nat /\ Len(post.ids) \in Nat /\ DOMAIN post.ids = 1..Len(post.ids)
      /\ Len(r.ids) \in Nat /\ DOMAIN r.ids = 1..Len(r.ids) /\ Len(r.ids) # 0
      /\ n + Len(r.ids) <= Len(post.ids)
      /\ \A k \in DOMAIN r.ids : n + k \in DOMAIN post.ids /\ r.ids[k] = post.ids[n + k]
  BY NextRequestIs
<1>2. DOMAIN post.answers = 1..n
  BY DEF PostType
<1> HIDE DEF r, n
<1>3. IsCall(r.ids)
  <2>1. \A k \in DOMAIN r.ids : r.ids[k] \in Mutation
    BY <1>1 DEF IsCall
  <2>2. \A j, k \in DOMAIN r.ids : j < k => r.ids[j] < r.ids[k]
    <3> SUFFICES ASSUME NEW j \in DOMAIN r.ids, NEW k \in DOMAIN r.ids, j < k
                 PROVE  r.ids[j] < r.ids[k]
      OBVIOUS
    <3>1. n + j \in DOMAIN post.ids /\ n + k \in DOMAIN post.ids /\ n + j < n + k
      BY <1>1
    <3>2. QED
      BY <1>1, <3>1 DEF IsCall
  <2>3. \A k \in DOMAIN r.ids : ~IsOutbox(r.ids[k]) => Len(r.ids) = 1
    <3> SUFFICES ASSUME NEW k \in DOMAIN r.ids, ~IsOutbox(r.ids[k])
                 PROVE  Len(r.ids) = 1
      OBVIOUS
    <3>1. Len(post.ids) = 1
      BY <1>1 DEF IsCall
    <3> DEFINE l == Len(r.ids)
    <3>2. n \in Nat /\ l \in Nat /\ l # 0
      BY <1>1
    <3>3. n + l <= 1
      BY <1>1, <3>1
    <3> HIDE DEF l
    <3>4. l = 1
      BY <3>2, <3>3
    <3>5. QED
      BY <3>4 DEF l
  <2>4. QED
    BY <2>1, <2>2, <2>3 DEF IsCall
<1>4. \A k \in DOMAIN r.ids : Cleared(r.ids[k], Range(r.ids))
  <2> SUFFICES ASSUME NEW k \in DOMAIN r.ids, NEW y \in Mutation, y < r.ids[k], IsOutbox(y), ~Done(y)
               PROVE  y \in Range(r.ids)
    BY DEF Cleared
  <2>1. n + k \in DOMAIN post.ids /\ r.ids[k] = post.ids[n + k]
    BY <1>1
  <2>2. y \in Range(post.ids)
    BY <2>1 DEF Cleared
  <2>3. PICK j \in DOMAIN post.ids : post.ids[j] = y
    BY <2>2 DEF Range
  <2>4. j < n + k
    <3>1. post.ids[j] < post.ids[n + k]
      BY <2>1, <2>3
    <3>2. j \in Nat /\ n + k \in Nat
      BY <1>1, <2>1
    <3>3. post.ids[j] \in Nat /\ post.ids[n + k] \in Nat
      BY <2>1 DEF PostType, Ids, Id
    <3>4. n + k < j => post.ids[n + k] < post.ids[j]
      BY <2>1 DEF IsCall
    <3>5. QED
      BY <3>1, <3>2, <3>3, <3>4
  <2>5. ~(j <= n)
    <3>1. ASSUME j <= n
          PROVE  FALSE
      <4>1. j \in DOMAIN post.answers
        BY <1>1, <1>2, <3>1
      <4>2. Done(y)
        BY <2>3, <4>1, AnsweredIsDone
      <4>3. QED
        BY <4>2
    <3>2. QED
      BY <3>1
  <2>6. j - n \in DOMAIN r.ids /\ n + (j - n) = j
    BY <1>1, <2>4, <2>5
  <2>7. r.ids[j - n] = y
    BY <1>1, <2>3, <2>6
  <2>8. QED
    BY <2>6, <2>7 DEF Range
<1>5. Range(r.ids) \subseteq Range(post.ids)
  BY <1>1 DEF Range
<1>6. RequestHolds(r)
  BY <1>1, <1>3, <1>4 DEF RequestHolds
<1>7. QED
  BY <1>1, <1>5, <1>6 DEF r

\* The requests nobody waits for any more.
LEMMA AbandonedHolds ==
  ASSUME Types, NetHolds, NEW lost \in BOOLEAN
  PROVE  /\ Abandoned(lost) \subseteq RequestType
         /\ \A r \in Abandoned(lost) : RequestHolds(r) /\ r.awaited = FALSE
         /\ \A r \in Abandoned(lost) : \E x \in net : r.ids = x.ids
<1> SUFFICES ASSUME NEW r \in Abandoned(lost)
             PROVE  /\ r \in RequestType /\ RequestHolds(r) /\ r.awaited = FALSE
                    /\ \E x \in net : r.ids = x.ids
  OBVIOUS
<1>1. CASE r \in net /\ ~r.awaited
  BY <1>1 DEF Types, NetHolds, RequestType
<1>2. CASE ~(r \in net /\ ~r.awaited)
  <2>1. PICK x \in net : r = [x EXCEPT !.awaited = FALSE]
    BY <1>2 DEF Abandoned
  <2>2. x \in RequestType /\ RequestHolds(x)
    BY DEF Types, NetHolds
  <2>3. r \in RequestType /\ r.ids = x.ids /\ r.answers = x.answers /\ r.awaited = FALSE
    BY <2>1, <2>2 DEF RequestType
  <2>4. RequestHolds(r)
    BY <2>2, <2>3 DEF RequestHolds
  <2>5. QED
    BY <2>3, <2>4
<1>3. QED
  BY <1>1, <1>2

-----------------------------------------------------------------------------
(* The connection's end, and its failures.                                 *)

\* The calls that fail are known mutations', and answer nothing.
LEMMA FailHolds ==
  ASSUME NEW calls \in Seq(Ids), \A i \in DOMAIN calls : \A k \in DOMAIN calls[i] : calls[i][k] \in Mutation
  PROVE  Fail(calls) \in Seq(OutcomeType) /\ \A i \in DOMAIN Fail(calls) : OutcomeHolds(Fail(calls)[i])
<1>1. \A i \in DOMAIN calls : calls[i] \in Ids
  OBVIOUS
<1>2. \A i \in DOMAIN calls : Fail(calls)[i] \in OutcomeType
  BY <1>1 DEF Fail, OutcomeType
<1>3. Fail(calls) \in Seq(OutcomeType) /\ DOMAIN Fail(calls) = DOMAIN calls
  BY <1>2 DEF Fail
<1>4. \A i \in DOMAIN calls : OutcomeHolds(Fail(calls)[i])
  BY <1>1 DEF Fail, OutcomeHolds, Ids
<1>5. QED
  BY <1>3, <1>4

LEMMA OutcomesBecome ==
  ASSUME Types, Types', Grows, NEW calls \in Seq(OutcomeType),
         \A i \in DOMAIN calls : OutcomeHolds(calls[i]), outcomes' = calls
  PROVE  \A i \in DOMAIN outcomes' : OutcomeHolds(outcomes[i])'
<1> SUFFICES ASSUME NEW i \in DOMAIN calls
             PROVE  OutcomeHolds(outcomes[i])'
  OBVIOUS
<1>1. OutcomeHolds(calls[i])'
  <2>1. PICK o \in OutcomeType : o = calls[i]
    OBVIOUS
  <2>2. OutcomeHolds(o)'
    BY <2>1, OutcomeStays DEF Types
  <2>3. QED
    BY <2>1, <2>2
<1>2. QED
  BY <1>1

\* A step that ends the connection's work, and gives up on what it awaits.
LEMMA CutHolds ==
  ASSUME OutboxInv, Types', UNCHANGED database, NEW lost \in BOOLEAN, net' = Abandoned(lost),
         posting' = NoPost, sends' = <<>>
  PROVE  /\ DecisionsHold' /\ NetHolds' /\ PostHolds' /\ SendsHold' /\ OnlineAhead'
         /\ Grows /\ Mutation' = Mutation /\ Flow' = {}
<1>1. Grows /\ Mutation' = Mutation /\ DecisionsHold'
  BY DatabaseStays DEF OutboxInv
<1>2. PostIds' = {} /\ SendIds' = {} /\ Flow' = {}
  BY DEF PostIds, SendIds, Flow
<1>3. PostHolds' /\ SendsHold' /\ OnlineAhead'
  BY <1>2 DEF PostHolds, SendsHold, OnlineAhead
<1>4. \A r \in net' : RequestHolds(r)' /\ r.awaited = FALSE
  <2> SUFFICES ASSUME NEW r \in net'
               PROVE  RequestHolds(r)' /\ r.awaited = FALSE
    OBVIOUS
  <2>1. r \in RequestType /\ RequestHolds(r) /\ r.awaited = FALSE
    BY AbandonedHolds DEF OutboxInv
  <2>2. QED
    BY <1>1, <2>1, RequestStays DEF OutboxInv, Types
<1>5. NetHolds'
  BY <1>4 DEF NetHolds
<1>6. QED
  BY <1>1, <1>2, <1>3, <1>5

\* The call in flight and those behind it are of known mutations.
LEMMA CallsKnown ==
  ASSUME OutboxInv
  PROVE  LET calls == (IF posting = NoPost THEN <<>> ELSE <<posting.ids>>) \o sends IN
         /\ calls \in Seq(Ids)
         /\ \A i \in DOMAIN calls : \A k \in DOMAIN calls[i] : calls[i][k] \in Mutation
<1> DEFINE P(ids) == \A k \in DOMAIN ids : ids[k] \in Mutation
           first == IF posting = NoPost THEN <<>> ELSE <<posting.ids>>
<1>1. first \in Seq(Ids) /\ \A i \in DOMAIN first : P(first[i])
  <2>1. CASE posting = NoPost
    BY <2>1
  <2>2. CASE posting # NoPost
    <3>1. posting.ids \in Ids /\ P(posting.ids)
      BY <2>2 DEF OutboxInv, Types, PostType, PostHolds, IsCall
    <3>2. QED
      BY <2>2, <3>1
  <2>3. QED
    BY <2>1, <2>2
<1>2. sends \in Seq(Ids) /\ \A i \in DOMAIN sends : P(sends[i])
  BY DEF OutboxInv, Types, SendsHold, IsCall
<1> HIDE DEF P, first
<1>3. first \o sends \in Seq(Ids) /\ \A i \in DOMAIN (first \o sends) : P((first \o sends)[i])
  BY <1>1, <1>2
<1>4. QED
  BY <1>3 DEF P, first

LEMMA OnEndHolds ==
  ASSUME OutboxInv, OnEnd
  PROVE  OutboxInv'
<1> DEFINE calls == (IF posting = NoPost THEN <<>> ELSE <<posting.ids>>) \o sends
           failed == outcomes \o Fail(calls)
           now == [i \in DOMAIN failed |-> [failed[i] EXCEPT !.current = FALSE]]
<1>1. PICK e \in EngineType : e = engine
  BY DEF OutboxInv, Types
<1> DEFINE f == [e EXCEPT !.sent = {}]
<1>2. f \in EngineType /\ f.applied = e.applied /\ f.sent = {} /\ engine' = f
  BY <1>1 DEF EngineType, OnEnd, Unsent
<1>3. EngineHolds(f)
  <2>1. /\ f.outbox = e.outbox /\ f.acked = e.acked /\ f.online = e.online
        /\ f.cursor = e.cursor /\ f.frozen = e.frozen
    BY DEF EngineType
  <2> HIDE DEF f
  <2>2. QED
    BY <1>1, <1>2, <2>1 DEF OutboxInv, EngineHolds
<1>4. failed \in Seq(OutcomeType) /\ \A i \in DOMAIN failed : OutcomeHolds(failed[i])
  <2>1. Fail(calls) \in Seq(OutcomeType) /\ \A i \in DOMAIN Fail(calls) : OutcomeHolds(Fail(calls)[i])
    BY CallsKnown, FailHolds
  <2>2. outcomes \in Seq(OutcomeType) /\ \A i \in DOMAIN outcomes : OutcomeHolds(outcomes[i])
    BY DEF OutboxInv, Types
  <2> HIDE DEF calls
  <2>3. QED
    BY <2>1, <2>2
<1>5. outcomes' = now
  BY DEF OnEnd
<1> HIDE DEF failed, f
<1>6. now \in Seq(OutcomeType) /\ \A i \in DOMAIN now : OutcomeHolds(now[i])
  <2>1. \A i \in DOMAIN failed : failed[i] \in OutcomeType /\ OutcomeHolds(failed[i])
    BY <1>4
  <2>2. \A i \in DOMAIN failed : /\ now[i] \in OutcomeType /\ now[i].ids = failed[i].ids
                                 /\ now[i].answers = failed[i].answers
    BY <2>1 DEF OutcomeType
  <2>3. DOMAIN now = DOMAIN failed /\ now \in Seq(OutcomeType)
    BY <1>4, <2>2
  <2> HIDE DEF now
  <2>4. \A i \in DOMAIN now : OutcomeHolds(now[i])
    BY <2>1, <2>2, <2>3 DEF OutcomeHolds
  <2>5. QED
    BY <2>3, <2>4
<1> HIDE DEF now
<1>7. PICK lost \in BOOLEAN : net' = Abandoned(lost)
  BY DEF OnEnd
<1>8. Abandoned(lost) \subseteq RequestType
  BY AbandonedHolds DEF OutboxInv
<1>9. Types'
  <2>1. /\ ~up' /\ ~ending' /\ posting' = NoPost /\ sends' = <<>>
        /\ up' \in BOOLEAN /\ ending' \in BOOLEAN
        /\ UNCHANGED <<minted, decided, process, submitted, resend, settled, ended>>
    BY DEF OnEnd, database, passes
  <2>2. sends' \in Seq(Ids)
    BY <2>1
  <2>3. QED
    BY <1>2, <1>5, <1>6, <1>7, <1>8, <2>1, <2>2 DEF OutboxInv, Types
<1>10. /\ DecisionsHold' /\ NetHolds' /\ PostHolds' /\ SendsHold' /\ OnlineAhead'
       /\ Grows /\ Mutation' = Mutation /\ Flow' = {}
  BY <1>7, <1>9, CutHolds DEF OnEnd
<1>11. NumbersHold'
  BY DatabaseStays DEF OutboxInv, OnEnd
<1>12. EngineHolds(engine)' /\ SettledHolds'
  BY <1>1, <1>2, <1>3, <1>9, <1>10, EngineMoves DEF OutboxInv, OnEnd
<1>13. \A i \in DOMAIN outcomes' : OutcomeHolds(outcomes[i])'
  BY <1>5, <1>6, <1>9, <1>10, OutcomesBecome DEF OutboxInv
<1>14. ConnectionHolds'
  BY <1>2, <1>10 DEF ConnectionHolds, OnEnd, Quiet, passes
<1>15. QED
  BY <1>9, <1>10, <1>11, <1>12, <1>13, <1>14 DEF OutboxInv

LEMMA RestartHolds ==
  ASSUME OutboxInv, Restart
  PROVE  OutboxInv'
<1>1. PICK e \in EngineType : e = engine
  BY DEF OutboxInv, Types
<1> DEFINE f == [NewEngine EXCEPT !.outbox = e.outbox, !.cursor = e.cursor,
                   !.applied = e.applied, !.frozen = e.frozen]
<1>2. engine' = f
  BY <1>1 DEF Restart
<1>3. /\ f \in EngineType /\ f.outbox = e.outbox /\ f.sent = {} /\ f.acked = <<>>
      /\ f.online = <<>> /\ f.cursor = e.cursor /\ f.applied = e.applied /\ f.frozen = e.frozen
  <2>1. <<>> \in Maps(Nat) /\ <<>> \in Maps(OnlineType)
    <3>1. \A V : DOMAIN <<>> \in SUBSET Id /\ <<>> \in [DOMAIN <<>> -> V]
      OBVIOUS
    <3>2. QED
      BY <3>1, MapType
  <2>2. QED
    BY <2>1 DEF NewEngine, EngineType
<1> HIDE DEF f
<1>4. EngineHolds(f)
  BY <1>1, <1>3 DEF OutboxInv, EngineHolds
<1>5. PICK lost \in BOOLEAN : net' = Abandoned(lost)
  BY DEF Restart
<1>6. Abandoned(lost) \subseteq RequestType
  BY AbandonedHolds DEF OutboxInv
<1>7. Types'
  <2>1. /\ ~up' /\ ~ending' /\ ~ended' /\ ~resend' /\ posting' = NoPost /\ sends' = <<>>
        /\ submitted' = <<>> /\ outcomes' = <<>> /\ process' = process + 1
        /\ up' \in BOOLEAN /\ ending' \in BOOLEAN /\ ended' \in BOOLEAN /\ resend' \in BOOLEAN
        /\ UNCHANGED <<minted, decided, settled>>
    BY DEF Restart, database
  <2>2. sends' \in Seq(Ids) /\ submitted' \in Seq(Submission) /\ outcomes' \in Seq(OutcomeType)
    BY <2>1
  <2>3. QED
    BY <1>2, <1>3, <1>5, <1>6, <2>1, <2>2 DEF OutboxInv, Types
<1>8. /\ DecisionsHold' /\ NetHolds' /\ PostHolds' /\ SendsHold' /\ OnlineAhead'
      /\ Grows /\ Mutation' = Mutation /\ Flow' = {}
  BY <1>5, <1>7, CutHolds DEF Restart
<1>9. NumbersHold'
  <2>1. \A m \in Mutation : minted[m].series \in Nat
    BY MintedTypes DEF OutboxInv, Types
  <2>2. minted' = minted /\ process' = process + 1 /\ process \in Nat
    BY DEF Restart, database, OutboxInv, Types
  <2>3. \A m \in Mutation : minted[m].series <= process
    BY DEF OutboxInv, NumbersHold
  <2>4. \A m \in Mutation : minted[m].series <= process' /\ minted[m].series # process'
    BY <2>1, <2>2, <2>3
  <2>5. QED
    BY <1>8, <2>2, <2>4 DEF OutboxInv, NumbersHold
<1>10. EngineHolds(engine)' /\ SettledHolds'
  BY <1>1, <1>2, <1>3, <1>4, <1>7, <1>8, EngineMoves DEF OutboxInv, Restart
<1>11. \A i \in DOMAIN outcomes' : OutcomeHolds(outcomes[i])'
  BY DEF Restart
<1>12. ConnectionHolds'
  BY <1>2, <1>3, <1>8 DEF ConnectionHolds, Restart
<1>13. QED
  BY <1>7, <1>8, <1>9, <1>10, <1>11, <1>12 DEF OutboxInv

\* A failed post gives up on its call, on those behind it and on the connection.
GivesUp(lost) ==
  /\ net' = Abandoned(lost)
  /\ outcomes' = outcomes \o Fail(<<posting.ids>> \o sends)
  /\ posting' = NoPost /\ sends' = SubSeq(sends, Len(sends) + 1, Len(sends))
  /\ ended' = TRUE /\ ending' = (ending \/ ~ended)

LEMMA GivesUpHolds ==
  ASSUME OutboxInv, posting # NoPost, NEW lost \in BOOLEAN, GivesUp(lost),
         UNCHANGED <<database, process, passes, engine, settled, up>>
  PROVE  OutboxInv'
<1> DEFINE calls == <<posting.ids>> \o sends
           failed == outcomes \o Fail(calls)
<1>1. failed \in Seq(OutcomeType) /\ \A i \in DOMAIN failed : OutcomeHolds(failed[i])
  <2>1. Fail(calls) \in Seq(OutcomeType) /\ \A i \in DOMAIN Fail(calls) : OutcomeHolds(Fail(calls)[i])
    BY CallsKnown, FailHolds
  <2>2. outcomes \in Seq(OutcomeType) /\ \A i \in DOMAIN outcomes : OutcomeHolds(outcomes[i])
    BY DEF OutboxInv, Types
  <2> HIDE DEF calls
  <2>3. QED
    BY <2>1, <2>2
<1>2. outcomes' = failed
  BY DEF GivesUp
<1> HIDE DEF failed
<1>3. sends' = <<>> /\ sends' \in Seq(Ids)
  <2>1. sends \in Seq(Ids)
    BY DEF OutboxInv, Types
  <2>2. SubSeq(sends, Len(sends) + 1, Len(sends)) = <<>>
    BY <2>1
  <2>3. QED
    BY <2>2 DEF GivesUp
<1>4. net' = Abandoned(lost) /\ net' \subseteq RequestType
  BY AbandonedHolds DEF OutboxInv, GivesUp
<1>5. /\ posting' = NoPost /\ ended' = TRUE /\ ending' \in BOOLEAN
      /\ UNCHANGED <<minted, decided, process, submitted, resend, engine, settled, up>>
  BY DEF GivesUp, database, passes, OutboxInv, Types
<1>6. Types'
  BY <1>1, <1>2, <1>3, <1>4, <1>5 DEF OutboxInv, Types
<1>7. /\ DecisionsHold' /\ NetHolds' /\ PostHolds' /\ SendsHold' /\ OnlineAhead'
      /\ Grows /\ Mutation' = Mutation /\ Flow' = {}
  BY <1>3, <1>4, <1>5, <1>6, CutHolds
<1>8. NumbersHold'
  BY DatabaseStays DEF OutboxInv
<1>9. EngineHolds(engine)' /\ SettledHolds'
  BY <1>5, <1>6, <1>7, EngineSame DEF OutboxInv
<1>10. \A i \in DOMAIN outcomes' : OutcomeHolds(outcomes[i])'
  BY <1>1, <1>2, <1>6, <1>7, OutcomesBecome DEF OutboxInv
<1>11. up
  BY DEF OutboxInv, PostHolds
<1>12. ConnectionHolds'
  BY <1>5, <1>7, <1>11 DEF OutboxInv, ConnectionHolds
<1>13. QED
  BY <1>6, <1>7, <1>8, <1>9, <1>10, <1>12 DEF OutboxInv

\* What a call asks for is never above an @online mutation of the flow.
LEMMA NotAboveOnline ==
  ASSUME Types, PostHolds, SendsHold, posting # NoPost, NEW m \in Flow, ~IsOutbox(m),
         NEW x \in PostIds
  PROVE  ~(x > m)
<1>1. PICK k \in DOMAIN posting.ids : posting.ids[k] = x
  BY DEF PostIds, Range
<1>2. x \in Nat /\ posting.ids \in Ids
  BY <1>1, FlowKnown DEF Ids, Id
<1>3. CASE m \in PostIds
  <2>1. PICK j \in DOMAIN posting.ids : posting.ids[j] = m
    BY <1>3 DEF PostIds, Range
  <2>2. Len(posting.ids) = 1
    BY <2>1 DEF PostHolds, IsCall
  <2>3. DOMAIN posting.ids = {1}
    BY <1>2, <2>2 DEF Ids
  <2>4. x = m
    BY <1>1, <2>1, <2>3
  <2>5. QED
    BY <1>2, <2>4
<1>4. CASE m \in SendIds
  <2>1. x < m
    BY <1>4 DEF SendsHold
  <2>2. m \in Nat
    BY FlowKnown DEF Types, Mutation
  <2>3. QED
    BY <1>2, <2>1, <2>2
<1>5. QED
  BY <1>3, <1>4 DEF Flow

\* A step of the transport: it leaves the database, the Engine and the app alone.
LEMMA TransportHolds ==
  ASSUME OutboxInv, Types', UNCHANGED <<database, process, passes, engine, settled, up>>,
         NetHolds', PostHolds', SendsHold', OnlineAhead', ended => ended', ending' => ended',
         Flow' \subseteq Flow, \A m \in Flow \ Flow' : Done(m), ending' = ending,
         \A i \in DOMAIN outcomes' : OutcomeHolds(outcomes[i])'
  PROVE  OutboxInv'
<1>1. Grows /\ Mutation' = Mutation /\ DecisionsHold' /\ NumbersHold'
  BY DatabaseStays DEF OutboxInv
<1>2. EngineHolds(engine)' /\ SettledHolds'
  BY <1>1, EngineSame DEF OutboxInv
<1>3. ConnectionHolds'
  <2>1. \A m \in engine.sent : m \in Mutation /\ (Done(m) => Done(m)')
    BY <1>1, Persists DEF OutboxInv, Types, EngineHolds
  <2>2. \A m \in engine.sent : Done(m) \/ m \in Flow' \/ ended
    BY DEF OutboxInv, ConnectionHolds
  <2>3. \A m \in engine'.sent : Done(m)' \/ m \in Flow' \/ ended'
    BY <2>1, <2>2
  <2>4. resend' => up' /\ Flow' = {}
    BY DEF OutboxInv, ConnectionHolds, passes
  <2>5. QED
    BY <2>3, <2>4 DEF OutboxInv, ConnectionHolds, passes
<1>4. QED
  BY <1>1, <1>2, <1>3 DEF OutboxInv

\* A call in flight is one.
LEMMA NoPostType == NoPost \notin PostType
<1>1. ASSUME NEW q \in PostType
      PROVE  q \in Post
  <2>1. q.ids \in Ids /\ q.answers \in Seq(Answer) /\ q.attempt \in Nat
        /\ q = [ids |-> q.ids, answers |-> q.answers, attempt |-> q.attempt]
    BY DEF PostType
  <2>2. q.ids \in Seq(Nat)
    <3>1. PICK ids : ids = q.ids
      OBVIOUS
    <3>2. ids \in Seq(Id)
      BY <2>1, <3>1 DEF Ids
    <3>3. ids \in [1..Len(ids) -> Id] /\ Len(ids) \in Nat
      BY <3>2
    <3>4. \A k \in 1..Len(ids) : ids[k] \in Nat
      BY <3>3 DEF Id
    <3>5. ids \in Seq(Nat)
      BY <3>3, <3>4
    <3>6. QED
      BY <3>1, <3>5
  <2>3. QED
    BY <2>1, <2>2 DEF Post
<1>2. QED
  BY <1>1, NoPostAssumption

\* A failed post tries again with what its call has still to be answered.
RetriesPost(lost) ==
  /\ posting' = [posting EXCEPT !.attempt = @ + 1]
  /\ net' = Abandoned(lost) \cup {NextRequest(posting)}
  /\ UNCHANGED <<outcomes, ended, ending, sends>>

LEMMA RetriesPostHolds ==
  ASSUME OutboxInv, posting # NoPost, NEW lost \in BOOLEAN, RetriesPost(lost),
         UNCHANGED <<database, process, passes, engine, settled, up>>
  PROVE  OutboxInv'
<1>1. PICK p \in PostType : p = posting
  BY DEF OutboxInv, Types
<1> DEFINE q == [p EXCEPT !.attempt = @ + 1]
           r == NextRequest(p)
<1>2. /\ q \in PostType /\ q.ids = p.ids /\ q.answers = p.answers /\ posting' = q
      /\ p.attempt \in Nat
  BY <1>1 DEF PostType, RetriesPost
<1>3. q # NoPost
  BY <1>2, NoPostType
<1>4. NextRequest(q) = r
  BY <1>2 DEF NextRequest
<1>5. /\ r \in RequestType /\ RequestHolds(r) /\ r.awaited = TRUE
      /\ Range(r.ids) \subseteq PostIds
  <2>1. /\ IsCall(p.ids) /\ Len(p.answers) < Len(p.ids) /\ PostIds = Range(p.ids)
        /\ \A k \in DOMAIN p.ids : Cleared(p.ids[k], Range(p.ids))
        /\ \A k \in DOMAIN p.answers : TrueAnswer(p.ids[k], p.answers[k])
    BY <1>1 DEF OutboxInv, PostHolds, PostIds
  <2>2. r \in RequestType /\ r.awaited = TRUE
    BY <2>1, NextRequestIs
  <2>3. RequestHolds(r) /\ Range(r.ids) \subseteq Range(p.ids)
    BY <2>1, NextRequestHolds
  <2>4. QED
    BY <2>1, <2>2, <2>3
<1>6. net' = Abandoned(lost) \cup {r}
  BY <1>1 DEF RetriesPost
<1> HIDE DEF q, r
<1>7. /\ Abandoned(lost) \subseteq RequestType
      /\ \A x \in Abandoned(lost) : RequestHolds(x) /\ x.awaited = FALSE
      /\ \A x \in Abandoned(lost) : \E y \in net : x.ids = y.ids
  BY AbandonedHolds DEF OutboxInv
<1>8. Types'
  <2>1. net' \subseteq RequestType
    BY <1>5, <1>6, <1>7
  <2>2. UNCHANGED <<minted, decided, process, submitted, resend, engine, settled, up, outcomes,
                    ended, ending, sends>>
    BY DEF RetriesPost, database, passes
  <2>3. QED
    BY <1>2, <2>1, <2>2 DEF OutboxInv, Types
<1>9. Grows /\ Mutation' = Mutation
  BY DatabaseStays DEF OutboxInv
<1>10. PostIds' = PostIds /\ SendIds' = SendIds /\ Flow' = Flow
  BY <1>1, <1>2, <1>3 DEF PostIds, SendIds, Flow, RetriesPost
<1>11. \A x \in net' : RequestHolds(x)'
  <2> SUFFICES ASSUME NEW x \in net'
               PROVE  RequestHolds(x)'
    OBVIOUS
  <2>1. x \in RequestType /\ RequestHolds(x)
    BY <1>5, <1>6, <1>7
  <2>2. QED
    BY <1>9, <2>1, <1>8, RequestStays DEF OutboxInv, Types
<1>12. NetHolds'
  <2>1. NextRequest(posting)' = r
    BY <1>2, <1>4
  <2>2. \A x \in net' : x.awaited => x = r
    BY <1>6, <1>7
  <2>3. posting' # NoPost
    BY <1>2, <1>3
  <2>4. QED
    BY <1>5, <1>6, <1>11, <2>1, <2>2, <2>3 DEF NetHolds
<1>13. PostHolds'
  <2>1. /\ up /\ IsCall(p.ids) /\ Len(p.answers) < Len(p.ids)
        /\ \A k \in DOMAIN p.ids : Cleared(p.ids[k], PostIds)
        /\ \A k \in DOMAIN p.answers : TrueAnswer(p.ids[k], p.answers[k])
    BY <1>1 DEF OutboxInv, PostHolds
  <2>2. minted' = minted /\ decided' = decided /\ up' = up
    BY DEF database
  <2>3. posting'.ids = p.ids /\ posting'.answers = p.answers
    BY <1>2
  <2>4. IsCall(p.ids)'
    BY <1>9, <2>1, <2>2 DEF IsCall, IsOutbox
  <2>5. \A k \in DOMAIN p.ids : Cleared(p.ids[k], PostIds)'
    BY <1>9, <1>10, <2>1, <2>2 DEF Cleared, IsOutbox, Done, WasDecided, Decisions
  <2>6. \A k \in DOMAIN p.answers : TrueAnswer(p.ids[k], p.answers[k])'
    BY <2>1, <2>2 DEF TrueAnswer, DecidedBy, Decisions, HeadAt, WasRejected
  <2>7. QED
    BY <2>1, <2>2, <2>3, <2>4, <2>5, <2>6 DEF PostHolds
<1>14. SendsHold'
  <2>1. minted' = minted /\ decided' = decided /\ up' = up /\ sends' = sends
    BY DEF database, RetriesPost
  <2>2. QED
    BY <1>9, <1>10, <2>1
    DEF OutboxInv, SendsHold, IsCall, Cleared, IsOutbox, Done, WasDecided, Decisions
<1>15. OnlineAhead'
  <2> SUFFICES ASSUME NEW m \in Flow, ~IsOutbox(m), NEW x \in Mutation, x > m
               PROVE  ~WasDecided(x) /\ \A y \in net' : x \notin Range(y.ids)
    BY <1>9, <1>10 DEF OnlineAhead, IsOutbox, WasDecided, Decisions, database
  <2>1. ~WasDecided(x) /\ \A y \in net : x \notin Range(y.ids)
    BY DEF OutboxInv, OnlineAhead
  <2>2. x \notin Range(r.ids)
    BY <1>5, NotAboveOnline DEF OutboxInv
  <2>3. QED
    BY <1>6, <1>7, <2>1, <2>2
<1>16. \A i \in DOMAIN outcomes' : OutcomeHolds(outcomes[i])'
  BY <1>8, <1>9, OutcomesStay DEF OutboxInv, RetriesPost
<1>17. QED
  BY <1>8, <1>10, <1>12, <1>13, <1>14, <1>15, <1>16, TransportHolds
  DEF RetriesPost, OutboxInv, ConnectionHolds

LEMMA PostFailsHolds ==
  ASSUME OutboxInv, PostFails
  PROVE  OutboxInv'
<1>1. posting # NoPost /\ UNCHANGED <<database, process, passes, engine, settled, up>>
  BY DEF PostFails
<1>2. PICK lost \in BOOLEAN : RetriesPost(lost) \/ GivesUp(lost)
  BY DEF PostFails, RetriesPost, GivesUp, Behind
<1>3. QED
  BY <1>1, <1>2, RetriesPostHolds, GivesUpHolds

-----------------------------------------------------------------------------
(* The transport's steps.                                                  *)

\* The first of the calls waiting, and the rest of them.
LEMMA SendsParts ==
  ASSUME Types, SendsHold, PostHolds, sends # <<>>
  PROVE  /\ sends[1] \in Ids /\ Tail(sends) \in Seq(Ids)
         /\ SendIds = Range(sends[1]) \cup UNION {Range(Tail(sends)[i]) : i \in DOMAIN Tail(sends)}
         /\ \A i \in DOMAIN Tail(sends) : i + 1 \in DOMAIN sends /\ Tail(sends)[i] = sends[i + 1]
         /\ 1 \in DOMAIN sends /\ DOMAIN sends \subseteq Nat /\ DOMAIN Tail(sends) \subseteq Nat
<1>1. sends \in Seq(Ids) /\ Len(sends) \in Nat /\ DOMAIN sends = 1..Len(sends) /\ Len(sends) # 0
  BY DEF Types
<1>2. 1 \in DOMAIN sends /\ sends[1] \in Ids
  BY <1>1
<1>3. /\ Tail(sends) \in Seq(Ids) /\ Len(Tail(sends)) = Len(sends) - 1
      /\ DOMAIN Tail(sends) = 1..(Len(sends) - 1)
      /\ \A i \in 1..(Len(sends) - 1) : Tail(sends)[i] = sends[i + 1]
  BY <1>1
<1>4. \A i \in DOMAIN Tail(sends) : i + 1 \in DOMAIN sends /\ Tail(sends)[i] = sends[i + 1]
  BY <1>1, <1>3
<1>5. \A i \in DOMAIN sends : i = 1 \/ (i - 1 \in DOMAIN Tail(sends) /\ sends[i] = Tail(sends)[i - 1])
  BY <1>1, <1>3
<1>6. SendIds = Range(sends[1]) \cup UNION {Range(Tail(sends)[i]) : i \in DOMAIN Tail(sends)}
  BY <1>2, <1>4, <1>5 DEF SendIds
<1>7. QED
  BY <1>1, <1>2, <1>3, <1>4, <1>6

LEMMA PumpHolds ==
  ASSUME OutboxInv, Pump
  PROVE  OutboxInv'
<1>0. PICK first \in Ids, rest \in Seq(Ids) : first = sends[1] /\ rest = Tail(sends)
  BY SendsParts DEF OutboxInv, Pump
<1> DEFINE q == [ids |-> first, answers |-> <<>>, attempt |-> 0]
           r == NextRequest(q)
<1>1. /\ posting = NoPost /\ sends # <<>> /\ posting' = q /\ net' = net \cup {r}
      /\ sends' = rest
      /\ UNCHANGED <<database, process, passes, engine, settled, up, ending, outcomes, ended>>
  BY <1>0 DEF Pump
<1>2. /\ first \in Ids /\ rest \in Seq(Ids) /\ 1 \in DOMAIN sends
      /\ SendIds = Range(first) \cup UNION {Range(rest[i]) : i \in DOMAIN rest}
      /\ \A i \in DOMAIN rest : i + 1 \in DOMAIN sends /\ rest[i] = sends[i + 1]
      /\ DOMAIN sends \subseteq Nat /\ DOMAIN rest \subseteq Nat
  BY <1>0, <1>1, SendsParts DEF OutboxInv
<1>3. q \in PostType /\ q.ids = first /\ q.answers = <<>> /\ q # NoPost
  <2>1. <<>> \in Seq(Answer)
    OBVIOUS
  <2>2. q \in PostType /\ q.ids = first /\ q.answers = <<>>
    BY <1>2, <2>1 DEF PostType
  <2>3. QED
    BY <2>2, NoPostType
<1> HIDE DEF q, r
<1>4. PostIds = {} /\ PostIds' = Range(first) /\ Flow' = Flow
      /\ SendIds' = UNION {Range(rest[i]) : i \in DOMAIN rest}
  BY <1>1, <1>2, <1>3 DEF PostIds, SendIds, Flow
<1>5. /\ up /\ IsCall(first) /\ first # <<>> /\ Len(first) \in Nat /\ Len(first) # 0
  BY <1>0, <1>1, <1>2 DEF OutboxInv, SendsHold, Ids
<1>5a. \A x \in Range(first), i \in DOMAIN rest : \A y \in Range(rest[i]) : x < y
  <2> SUFFICES ASSUME NEW x \in Range(first), NEW i \in DOMAIN rest, NEW y \in Range(rest[i])
               PROVE  x < y
    OBVIOUS
  <2>1. i \in Nat /\ i # 0
    OBVIOUS
  <2>2. i + 1 \in DOMAIN sends /\ 1 < i + 1
    BY <1>2, <2>1
  <2>3. PICK k \in DOMAIN sends[1], l \in DOMAIN sends[i + 1] : sends[1][k] = x /\ sends[i + 1][l] = y
    BY <1>0, <1>2 DEF Range
  <2>4. QED
    BY <1>2, <2>2, <2>3 DEF OutboxInv, SendsHold
<1>5b. \A x \in Range(first) : x \in Nat
  BY DEF Range, Ids, Id
<1>6. \A x \in Range(first) : Cleared(x, Range(first))
  <2> SUFFICES ASSUME NEW x \in Range(first), NEW y \in Mutation, y < x, IsOutbox(y), ~Done(y)
               PROVE  y \in Range(first)
    BY DEF Cleared
  <2>1. y \in SendIds
    BY <1>2, <1>4 DEF OutboxInv, SendsHold, Cleared, Flow
  <2>2. CASE y \in Range(first)
    BY <2>2
  <2>3. CASE \E i \in DOMAIN rest : y \in Range(rest[i])
    <3>1. x < y /\ x \in Nat /\ y \in Nat
      BY <1>5a, <1>5b, <2>3, MintedTypes DEF OutboxInv, Types
    <3>2. QED
      BY <3>1
  <2>4. QED
    BY <1>2, <2>1, <2>2, <2>3
<1>7. /\ r \in RequestType /\ RequestHolds(r) /\ r.awaited = TRUE
      /\ Range(r.ids) \subseteq Range(first)
  <2>1. /\ IsCall(q.ids) /\ Len(q.answers) < Len(q.ids)
        /\ \A k \in DOMAIN q.ids : Cleared(q.ids[k], Range(q.ids))
        /\ \A k \in DOMAIN q.answers : TrueAnswer(q.ids[k], q.answers[k])
    BY <1>3, <1>5, <1>6 DEF Range
  <2>2. r \in RequestType /\ r.awaited = TRUE
    BY <1>3, <2>1, NextRequestIs DEF r
  <2>3. RequestHolds(r) /\ Range(r.ids) \subseteq Range(q.ids)
    BY <1>3, <2>1, NextRequestHolds DEF r
  <2>4. QED
    BY <1>3, <2>2, <2>3
<1>8. Types'
  <2>1. net' \subseteq RequestType
    BY <1>1, <1>7 DEF OutboxInv, Types
  <2>2. UNCHANGED <<minted, decided, submitted, resend>>
    BY <1>1 DEF database, passes
  <2>3. QED
    BY <1>1, <1>2, <1>3, <2>1, <2>2 DEF OutboxInv, Types
<1>9. Grows /\ Mutation' = Mutation /\ minted' = minted /\ decided' = decided
  BY <1>1, DatabaseStays DEF OutboxInv, database
<1>10. \A x \in net' : RequestHolds(x)'
  <2> SUFFICES ASSUME NEW x \in net'
               PROVE  RequestHolds(x)'
    OBVIOUS
  <2>1. x \in RequestType /\ RequestHolds(x)
    BY <1>1, <1>7 DEF OutboxInv, Types, NetHolds
  <2>2. QED
    BY <1>9, <2>1, <1>8, RequestStays DEF OutboxInv, Types
<1>11. NetHolds'
  <2>1. NextRequest(posting)' = r
    BY <1>1 DEF r, NextRequest
  <2>2. \A x \in net' : x.awaited => x = r
    BY <1>1 DEF OutboxInv, NetHolds
  <2>3. QED
    BY <1>1, <1>3, <1>7, <1>10, <2>1, <2>2 DEF NetHolds
<1>12. PostHolds'
  <2>1. IsCall(first)'
    BY <1>5, <1>9 DEF IsCall, IsOutbox
  <2>2. \A x \in Range(first) : Cleared(x, Range(first))'
    BY <1>6, <1>9 DEF Cleared, IsOutbox, Done, WasDecided, Decisions
  <2>3. QED
    BY <1>1, <1>3, <1>4, <1>5, <2>1, <2>2 DEF PostHolds, Range
<1>13. SendsHold'
  <2>1. \A i \in DOMAIN rest : rest[i] # <<>> /\ IsCall(rest[i])'
    BY <1>2, <1>9 DEF OutboxInv, SendsHold, IsCall, IsOutbox
  <2>2. \A i, j \in DOMAIN rest : i < j =>
          \A k \in DOMAIN rest[i], l \in DOMAIN rest[j] : rest[i][k] < rest[j][l]
    <3> SUFFICES ASSUME NEW i \in DOMAIN rest, NEW j \in DOMAIN rest, i < j,
                        NEW k \in DOMAIN rest[i], NEW l \in DOMAIN rest[j]
                 PROVE  rest[i][k] < rest[j][l]
      OBVIOUS
    <3>1. i + 1 \in DOMAIN sends /\ j + 1 \in DOMAIN sends /\ i + 1 < j + 1
      BY <1>2
    <3>2. QED
      BY <1>2, <3>1 DEF OutboxInv, SendsHold
  <2>3. \A x \in Range(first), y \in SendIds' : x < y
    BY <1>4, <1>5a
  <2>4. \A x \in SendIds' : Cleared(x, Flow)'
    <3>1. SendIds' \subseteq SendIds
      BY <1>2, <1>4
    <3>2. QED
      BY <3>1, <1>4, <1>9 DEF OutboxInv, SendsHold, Cleared, IsOutbox, Done, WasDecided, Decisions
  <2>5. QED
    BY <1>1, <1>4, <1>5, <2>1, <2>2, <2>3, <2>4 DEF SendsHold
<1>14. OnlineAhead'
  <2> SUFFICES ASSUME NEW m \in Flow, ~IsOutbox(m), NEW x \in Mutation, x > m
               PROVE  ~WasDecided(x) /\ \A y \in net' : x \notin Range(y.ids)
    BY <1>4, <1>9 DEF OnlineAhead, IsOutbox, WasDecided, Decisions
  <2>1. ~WasDecided(x) /\ \A y \in net : x \notin Range(y.ids)
    BY DEF OutboxInv, OnlineAhead
  <2>2. x \notin Range(r.ids)
    <3> SUFFICES ASSUME x \in Range(first)
                 PROVE  FALSE
      BY <1>7
    <3>1. m \in Nat /\ x \in Nat /\ ~(x < m)
      BY FlowKnown, MintedTypes DEF OutboxInv, Types
    <3>2. m \in Range(first)
      BY <1>2, <1>4, <1>5a, <3>1 DEF Flow
    <3>3. PICK k \in DOMAIN first, l \in DOMAIN first : first[k] = x /\ first[l] = m
      BY <3>2 DEF Range
    <3>4. Len(first) = 1
      BY <1>5, <3>3 DEF IsCall
    <3>5. DOMAIN first = {1}
      BY <3>4 DEF Ids
    <3>6. x = m
      BY <3>3, <3>5
    <3>7. QED
      BY <3>1, <3>6
  <2>3. QED
    BY <1>1, <2>1, <2>2
<1>15. \A i \in DOMAIN outcomes' : OutcomeHolds(outcomes[i])'
  BY <1>1, <1>8, <1>9, OutcomesStay DEF OutboxInv
<1>16. QED
  BY <1>1, <1>4, <1>8, <1>11, <1>12, <1>13, <1>14, <1>15, TransportHolds
  DEF OutboxInv, ConnectionHolds

\* The answers to a request, after those its call had, answer the call in its order.
LEMMA AnsweredParts ==
  ASSUME OutboxInv, NEW r \in net, r.awaited, Len(r.answers) = Len(r.ids),
         NEW p \in PostType, p = posting
  PROVE  LET q == [p EXCEPT !.answers = @ \o r.answers, !.attempt = 0] IN
         /\ q \in PostType /\ q.ids = p.ids /\ Len(q.answers) <= Len(q.ids)
         /\ DOMAIN q.answers = 1..Len(q.answers) /\ DOMAIN q.ids = 1..Len(q.ids)
         /\ Len(q.answers) \in Nat /\ Len(q.ids) \in Nat
         /\ \A k \in DOMAIN q.answers : TrueAnswer(q.ids[k], q.answers[k])
<1> DEFINE answers == p.answers \o r.answers
           n == Len(p.answers)
           q == [p EXCEPT !.answers = @ \o r.answers, !.attempt = 0]
<1>1. posting # NoPost /\ r.ids = NextRequest(p).ids /\ r \in RequestType /\ RequestHolds(r)
  BY DEF OutboxInv, NetHolds, Types
<1>2. /\ Len(p.answers) < Len(p.ids)
      /\ \A k \in DOMAIN p.answers : TrueAnswer(p.ids[k], p.answers[k])
  BY <1>1 DEF OutboxInv, PostHolds
<1>3. /\ n \in Nat /\ Len(p.ids) \in Nat /\ DOMAIN p.ids = 1..Len(p.ids)
      /\ Len(r.ids) \in Nat /\ n + Len(r.ids) <= Len(p.ids) /\ DOMAIN r.ids = 1..Len(r.ids)
      /\ \A k \in DOMAIN r.ids : r.ids[k] = p.ids[n + k]
  BY <1>1, <1>2, NextRequestIs
<1>4. p.answers \in Seq(Answer) /\ r.answers \in Seq(Answer)
  BY <1>1 DEF PostType, RequestType
<1>5. /\ answers \in Seq(Answer) /\ Len(answers) = n + Len(r.answers)
      /\ \A k \in 1..Len(answers) :
           answers[k] = IF k <= n THEN p.answers[k] ELSE r.answers[k - n]
  <2>1. PICK a \in Seq(Answer), b \in Seq(Answer) : a = p.answers /\ b = r.answers
    BY <1>4
  <2>2. /\ a \o b \in Seq(Answer) /\ Len(a \o b) = Len(a) + Len(b)
        /\ \A k \in 1..Len(a \o b) : (a \o b)[k] = IF k <= Len(a) THEN a[k] ELSE b[k - Len(a)]
    OBVIOUS
  <2>3. QED
    BY <2>1, <2>2
<1> HIDE DEF answers
<1>6. q \in PostType /\ q.ids = p.ids /\ q.answers = answers
  BY <1>5 DEF PostType, answers
<1> HIDE DEF q, n
<1>7. Len(answers) = n + Len(r.ids)
  BY <1>5
<1>8. DOMAIN answers = 1..Len(answers) /\ DOMAIN p.answers = 1..n /\ DOMAIN r.answers = 1..Len(r.ids)
  BY <1>4, <1>5 DEF n
<1>9. \A k \in DOMAIN answers : TrueAnswer(p.ids[k], answers[k])
  <2> SUFFICES ASSUME NEW k \in DOMAIN answers
               PROVE  TrueAnswer(p.ids[k], answers[k])
    OBVIOUS
  <2>1. k \in Nat /\ k >= 1 /\ k <= n + Len(r.ids)
    BY <1>3, <1>7, <1>8
  <2>2. CASE k <= n
    BY <1>2, <1>3, <1>5, <1>8, <2>1, <2>2
  <2>3. CASE ~(k <= n)
    <3>1. PICK l \in DOMAIN r.answers : k = n + l /\ k - n = l
      <4>1. k - n \in 1..Len(r.ids) /\ k = n + (k - n)
        BY <1>3, <2>1, <2>3
      <4>2. QED
        BY <1>8, <4>1
    <3>2. TrueAnswer(r.ids[l], r.answers[l])
      BY <1>1 DEF RequestHolds
    <3>3. r.ids[l] = p.ids[k] /\ answers[k] = r.answers[l]
      BY <1>3, <1>5, <1>8, <2>3, <3>1
    <3>4. QED
      BY <3>2, <3>3
  <2>4. QED
    BY <2>2, <2>3
<1>10. Len(q.answers) <= Len(q.ids) /\ Len(q.answers) \in Nat
  BY <1>3, <1>6, <1>7
<1>11. QED
  BY <1>3, <1>6, <1>8, <1>9, <1>10 DEF q

\* What a call in flight leaves of the requests once one is answered.
LEMMA ReplyNetHolds ==
  ASSUME OutboxInv, Types', UNCHANGED database, NEW r \in net, r.awaited,
         NEW s, net' = (net \ {r}) \cup s,
         \A x \in s : RequestHolds(x)
  PROVE  /\ \A x \in net' : RequestHolds(x)'
         /\ \A x \in net \ {r} : x.awaited = FALSE
         /\ Grows /\ Mutation' = Mutation /\ minted' = minted /\ decided' = decided
<1>1. Grows /\ Mutation' = Mutation /\ minted' = minted /\ decided' = decided
  BY DatabaseStays DEF OutboxInv, database
<1>2. \A x \in net' : RequestHolds(x)'
  <2> SUFFICES ASSUME NEW x \in net'
               PROVE  RequestHolds(x)'
    OBVIOUS
  <2>1. x \in RequestType /\ RequestHolds(x)
    <3>1. net' \subseteq RequestType
      BY DEF Types
    <3>2. QED
      BY <3>1 DEF OutboxInv, NetHolds
  <2>2. minted \in Seq(MutationType) /\ decided \in Seq(Decision)
    BY DEF OutboxInv, Types
  <2>3. QED
    BY <1>1, <2>1, <2>2, RequestStays
<1>3. \A x \in net \ {r} : x.awaited = FALSE
  BY DEF OutboxInv, NetHolds, Types, RequestType
<1>4. QED
  BY <1>1, <1>2, <1>3

\* The last of a call's answers, and the call is done.
LEMMA CallEndsHolds ==
  ASSUME OutboxInv, NEW r \in net, r.awaited, NEW p \in PostType, p = posting, posting # NoPost,
         NEW q \in PostType, q.ids = p.ids, Len(q.answers) = Len(q.ids),
         \A k \in DOMAIN q.ids : TrueAnswer(q.ids[k], q.answers[k]),
         posting' = NoPost, net' = net \ {r},
         outcomes' = Append(outcomes, [ids |-> q.ids, failed |-> FALSE,
                                       answers |-> q.answers, current |-> TRUE]),
         UNCHANGED <<database, process, passes, engine, settled, up, ending, ended, sends>>
  PROVE  OutboxInv'
<1> DEFINE o == [ids |-> q.ids, failed |-> FALSE, answers |-> q.answers, current |-> TRUE]
<1>0. q.ids \in Ids /\ q.answers \in Seq(Answer)
  BY DEF PostType
<1>1. o \in OutcomeType
  BY <1>0 DEF OutcomeType
<1>2. OutcomeHolds(o)
  <2>1. IsCall(q.ids)
    BY DEF OutboxInv, PostHolds
  <2>2. Len(q.ids) \in Nat /\ DOMAIN q.answers = DOMAIN q.ids
    BY <1>0 DEF Ids
  <2>3. QED
    BY <2>1, <2>2 DEF OutcomeHolds, IsCall
<1> HIDE DEF o
<1>3. outcomes' = Append(outcomes, o)
  BY DEF o
<1>4. Append(outcomes, o) \in Seq(OutcomeType)
      /\ \A i \in DOMAIN Append(outcomes, o) : OutcomeHolds(Append(outcomes, o)[i])
  BY <1>1, <1>2 DEF OutboxInv, Types
<1>5. Types'
  <2>1. UNCHANGED <<minted, decided, submitted, resend>>
    BY DEF database, passes
  <2>2. QED
    BY <1>3, <1>4, <2>1 DEF OutboxInv, Types
<1>6. /\ \A x \in net' : RequestHolds(x)'
      /\ \A x \in net \ {r} : x.awaited = FALSE
      /\ Grows /\ Mutation' = Mutation /\ minted' = minted /\ decided' = decided
  <2>1. PICK s : s = {}
    OBVIOUS
  <2>2. net' = (net \ {r}) \cup s /\ \A x \in s : RequestHolds(x)
    BY <2>1
  <2>3. QED
    BY <1>5, <2>2, ReplyNetHolds
<1>7. NetHolds' /\ PostHolds'
  BY <1>6 DEF NetHolds, PostHolds
<1>8. PostIds' = {} /\ SendIds' = SendIds /\ Flow' = SendIds /\ Flow = PostIds \cup SendIds
      /\ PostIds = Range(p.ids)
  BY DEF PostIds, SendIds, Flow
<1>9. \A m \in PostIds : Done(m)
  BY <1>8, AnsweredIsDone DEF Range
<1>10. SendsHold'
  <2>1. \A i \in DOMAIN sends : sends[i] # <<>> /\ IsCall(sends[i])'
    BY <1>6 DEF OutboxInv, SendsHold, IsCall, IsOutbox
  <2>2. \A x \in SendIds : Cleared(x, SendIds)
    BY <1>8, <1>9 DEF OutboxInv, SendsHold, Cleared
  <2>3. \A x \in SendIds : Cleared(x, SendIds)'
    BY <1>6, <1>8, <2>2 DEF Cleared, IsOutbox, Done, WasDecided, Decisions
  <2>4. QED
    BY <1>8, <2>1, <2>3 DEF OutboxInv, SendsHold
<1>11. OnlineAhead'
  BY <1>6, <1>8 DEF OutboxInv, OnlineAhead, IsOutbox, WasDecided, Decisions
<1>12. \A i \in DOMAIN outcomes' : OutcomeHolds(outcomes[i])'
  BY <1>3, <1>4, <1>5, <1>6, OutcomesBecome DEF OutboxInv
<1>13. QED
  BY <1>5, <1>7, <1>8, <1>9, <1>10, <1>11, <1>12, TransportHolds DEF OutboxInv, ConnectionHolds

\* An answer that is not its call's last, and the call's next request.
LEMMA CallGoesOnHolds ==
  ASSUME OutboxInv, NEW r \in net, r.awaited, NEW p \in PostType, p = posting, posting # NoPost,
         NEW q \in PostType, q.ids = p.ids, Len(q.answers) < Len(q.ids),
         \A k \in DOMAIN q.answers : TrueAnswer(q.ids[k], q.answers[k]),
         posting' = q, net' = (net \ {r}) \cup {NextRequest(q)},
         UNCHANGED <<database, process, passes, engine, settled, up, ending, ended, sends,
                     outcomes>>
  PROVE  OutboxInv'
<1> DEFINE next == NextRequest(q)
<1>1. /\ up /\ IsCall(p.ids) /\ PostIds = Range(p.ids)
      /\ \A k \in DOMAIN p.ids : Cleared(p.ids[k], Range(p.ids))
  BY DEF OutboxInv, PostHolds, PostIds
<1>2. /\ next \in RequestType /\ next.awaited = TRUE /\ RequestHolds(next)
      /\ Range(next.ids) \subseteq PostIds
  <2>1. next \in RequestType /\ next.awaited = TRUE
    BY NextRequestIs
  <2>2. RequestHolds(next) /\ Range(next.ids) \subseteq Range(q.ids)
    BY <1>1, NextRequestHolds
  <2>3. QED
    BY <1>1, <2>1, <2>2
<1>3. q # NoPost
  BY NoPostType
<1>4. NextRequest(posting)' = next
  BY DEF NextRequest
<1> HIDE DEF next
<1>5. Types'
  <2>1. UNCHANGED <<minted, decided, submitted, resend>>
    BY DEF database, passes
  <2>2. net' \subseteq RequestType
    BY <1>2 DEF OutboxInv, Types, next
  <2>3. QED
    BY <2>1, <2>2 DEF OutboxInv, Types
<1>6. /\ \A x \in net' : RequestHolds(x)'
      /\ \A x \in net \ {r} : x.awaited = FALSE
      /\ Grows /\ Mutation' = Mutation /\ minted' = minted /\ decided' = decided
  <2>1. net' = (net \ {r}) \cup {next}
    BY DEF next
  <2>2. QED
    BY <1>2, <1>5, <2>1, ReplyNetHolds
<1>7. NetHolds'
  <2>1. \A x \in net' : x.awaited => x = next
    BY <1>6 DEF next
  <2>2. next \in net'
    BY DEF next
  <2>3. QED
    BY <1>2, <1>3, <1>4, <1>6, <2>1, <2>2 DEF NetHolds
<1>8. PostIds' = PostIds /\ SendIds' = SendIds /\ Flow' = Flow
  BY <1>1, <1>3 DEF PostIds, SendIds, Flow
<1>9. PostHolds'
  <2>1. IsCall(p.ids)'
    BY <1>1, <1>6 DEF IsCall, IsOutbox
  <2>2. \A k \in DOMAIN p.ids : Cleared(p.ids[k], PostIds)'
    BY <1>1, <1>6, <1>8 DEF Cleared, IsOutbox, Done, WasDecided, Decisions
  <2>3. \A k \in DOMAIN q.answers : TrueAnswer(q.ids[k], q.answers[k])'
    BY <1>6 DEF TrueAnswer, DecidedBy, Decisions, HeadAt, WasRejected
  <2>4. QED
    BY <1>1, <2>1, <2>2, <2>3 DEF PostHolds
<1>10. SendsHold'
  BY <1>6, <1>8 DEF OutboxInv, SendsHold, IsCall, Cleared, IsOutbox, Done, WasDecided, Decisions
<1>11. OnlineAhead'
  <2> SUFFICES ASSUME NEW m \in Flow, ~IsOutbox(m), NEW x \in Mutation, x > m
               PROVE  ~WasDecided(x) /\ \A y \in net' : x \notin Range(y.ids)
    BY <1>6, <1>8 DEF OnlineAhead, IsOutbox, WasDecided, Decisions
  <2>1. ~WasDecided(x) /\ \A y \in net : x \notin Range(y.ids)
    BY DEF OutboxInv, OnlineAhead
  <2>2. x \notin Range(next.ids)
    BY <1>2, NotAboveOnline DEF OutboxInv
  <2>3. QED
    BY <2>1, <2>2 DEF next
<1>12. \A i \in DOMAIN outcomes' : OutcomeHolds(outcomes[i])'
  BY <1>5, <1>6, OutcomesStay DEF OutboxInv
<1>13. QED
  BY <1>5, <1>7, <1>8, <1>9, <1>10, <1>11, <1>12, TransportHolds DEF OutboxInv, ConnectionHolds

LEMMA ReplyHolds ==
  ASSUME OutboxInv, Reply
  PROVE  OutboxInv'
<1>1. PICK r \in net :
        /\ r.awaited /\ Len(r.answers) = Len(r.ids)
        /\ LET post == [posting EXCEPT !.answers = @ \o r.answers, !.attempt = 0]
               over == Len(post.answers) = Len(post.ids)
           IN  /\ posting' = IF over THEN NoPost ELSE post
               /\ net' = (net \ {r}) \cup (IF over THEN {} ELSE {NextRequest(post)})
               /\ outcomes' = IF over
                    THEN Append(outcomes, [ids |-> post.ids, failed |-> FALSE,
                                           answers |-> post.answers, current |-> TRUE])
                    ELSE outcomes
        /\ UNCHANGED <<database, process, passes, engine, settled, up, ending, ended, sends>>
  BY DEF Reply
<1>2. posting # NoPost
  BY <1>1 DEF OutboxInv, NetHolds
<1>3. PICK p \in PostType : p = posting
  BY <1>2 DEF OutboxInv, Types
<1> DEFINE q == [p EXCEPT !.answers = @ \o r.answers, !.attempt = 0]
<1>4. /\ q \in PostType /\ q.ids = p.ids /\ Len(q.answers) <= Len(q.ids)
      /\ DOMAIN q.answers = 1..Len(q.answers) /\ DOMAIN q.ids = 1..Len(q.ids)
      /\ Len(q.answers) \in Nat /\ Len(q.ids) \in Nat
      /\ \A k \in DOMAIN q.answers : TrueAnswer(q.ids[k], q.answers[k])
  BY <1>1, <1>3, AnsweredParts
<1>5. LET over == Len(q.answers) = Len(q.ids) IN
      /\ posting' = IF over THEN NoPost ELSE q
      /\ net' = (net \ {r}) \cup (IF over THEN {} ELSE {NextRequest(q)})
      /\ outcomes' = IF over
           THEN Append(outcomes, [ids |-> q.ids, failed |-> FALSE,
                                  answers |-> q.answers, current |-> TRUE])
           ELSE outcomes
  BY <1>1, <1>3
<1>6. UNCHANGED <<database, process, passes, engine, settled, up, ending, ended, sends>>
  BY <1>1
<1> HIDE DEF q
<1>7. CASE Len(q.answers) = Len(q.ids)
  <2>1. net' = net \ {r}
    BY <1>5, <1>7
  <2>2. QED
    BY <1>1, <1>2, <1>3, <1>4, <1>5, <1>6, <1>7, <2>1, CallEndsHolds
<1>8. CASE Len(q.answers) # Len(q.ids)
  <2>1. Len(q.answers) < Len(q.ids)
    BY <1>4, <1>8
  <2>2. QED
    BY <1>1, <1>2, <1>3, <1>4, <1>5, <1>6, <1>8, <2>1, CallGoesOnHolds
<1>9. QED
  BY <1>7, <1>8

-----------------------------------------------------------------------------
(* The database's step.                                                    *)

\* The history after one more decision.
LEMMA DecisionAdded ==
  ASSUME decided \in Seq(Decision), NEW d \in Decision, decided' = decided \o <<d>>,
         NEW n \in Nat, n = Len(decided)
  PROVE  /\ DOMAIN decided = 1..n /\ DOMAIN decided' = 1..n + 1
         /\ decided' \in Seq(Decision) /\ decided'[n + 1] = d
         /\ \A i \in 1..n : decided'[i] = decided[i]
         /\ HeadAt(n + 1)' = IF d.outcome = "edit" THEN LogHead + 1 ELSE LogHead
<1> DEFINE E == {i \in 1..n : decided[i].outcome = "edit"}
           F == {i \in 1..n + 1 : decided'[i].outcome = "edit"}
<1>1. /\ n \in Nat /\ DOMAIN decided = 1..n /\ DOMAIN decided' = 1..n + 1
      /\ decided' \in Seq(Decision) /\ decided'[n + 1] = d
      /\ \A i \in 1..n : decided'[i] = decided[i]
  OBVIOUS
<1>2. IsFiniteSet(E)
  <2>1. IsFiniteSet(1..n)
    BY <1>1, FS_Interval
  <2>2. QED
    BY <2>1, FS_Subset
<1>3. LogHead = Cardinality(E) /\ HeadAt(n + 1)' = Cardinality(F)
  BY DEF LogHead, HeadAt
<1>4. CASE d.outcome = "edit"
  <2>1. F = E \cup {n + 1} /\ n + 1 \notin E
    BY <1>1, <1>4
  <2>2. Cardinality(F) = Cardinality(E) + 1
    BY <1>2, <2>1, FS_AddElement
  <2>3. QED
    BY <1>1, <1>3, <1>4, <2>2
<1>5. CASE d.outcome # "edit"
  <2>1. F = E
    BY <1>1, <1>5
  <2>2. QED
    BY <1>1, <1>3, <1>5, <2>1
<1>6. QED
  BY <1>4, <1>5

\* A number at or below its series' mark that the client counts on was decided.
LEMMA BelowMarkIs ==
  ASSUME OutboxInv, NEW m \in Mutation, minted[m].valid, BelowMark(m), IsOutbox(m) \/ m \in Flow
  PROVE  DecidedBy(m, LogHead)
<1>0. minted \in Seq(MutationType) /\ decided \in Seq(Decision)
  BY DEF OutboxInv, Types
<1>1. PICK i \in DOMAIN decided : /\ minted[decided[i].id].series = minted[m].series
                                  /\ minted[m].n <= minted[decided[i].id].n
  BY DEF BelowMark
<1> DEFINE x == decided[i].id
<1>2. x \in Mutation /\ Cleared(x, {})
  BY DEF OutboxInv, DecisionsHold
<1>3. m \in Nat /\ x \in Nat /\ minted[m].n \in Nat /\ minted[x].n \in Nat
  BY <1>0, <1>2, MintedTypes
<1> HIDE DEF x
<1>4. ~(x < m)
  BY <1>1, <1>2, <1>3 DEF OutboxInv, NumbersHold, x
<1>5. WasDecided(m)
  <2>1. CASE x = m
    BY <2>1 DEF x, WasDecided, Decisions
  <2>2. CASE m < x
    <3>1. WasDecided(x)
      BY DEF x, WasDecided, Decisions
    <3>2. CASE IsOutbox(m)
      BY <1>2, <2>2, <3>2 DEF Cleared, Done
    <3>3. CASE ~IsOutbox(m)
      BY <1>2, <1>3, <2>2, <3>1, <3>3 DEF OutboxInv, OnlineAhead
    <3>4. QED
      BY <3>2, <3>3
  <2>3. QED
    BY <1>3, <1>4, <2>1, <2>2
<1>6. PICK j \in Decisions(m) : TRUE
  BY <1>5 DEF WasDecided
<1>7. j \in Nat /\ Len(decided) \in Nat /\ j <= Len(decided)
  BY <1>0 DEF Decisions
<1>8. HeadAt(j) <= LogHead
  BY <1>7, HeadAtGrows DEF LogHead
<1>9. QED
  BY <1>8 DEF DecidedBy

\* What the database decides next in a request, it may decide.
LEMMA AskedIsCleared ==
  ASSUME Types, NEW r \in RequestType, RequestHolds(r), Len(r.answers) < Len(r.ids)
  PROVE  LET k == Len(r.answers) + 1 IN
         k \in DOMAIN r.ids /\ r.ids[k] \in Mutation /\ Cleared(r.ids[k], {})
<1> DEFINE k == Len(r.answers) + 1
           m == r.ids[k]
<1>1. r.ids \in Ids /\ r.answers \in Seq(Answer)
  BY DEF RequestType
<1>2. /\ Len(r.answers) \in Nat /\ Len(r.ids) \in Nat
      /\ DOMAIN r.ids = 1..Len(r.ids) /\ DOMAIN r.answers = 1..Len(r.answers)
  BY <1>1 DEF Ids
<1>3. k \in DOMAIN r.ids /\ k \in Nat /\ \A j \in DOMAIN r.ids : j < k => j \in DOMAIN r.answers
  BY <1>2
<1> HIDE DEF k
<1>4. m \in Mutation
  BY <1>3 DEF RequestHolds, IsCall
<1>5. Cleared(m, {})
  <2> SUFFICES ASSUME NEW y \in Mutation, y < m, IsOutbox(y), ~Done(y)
               PROVE  FALSE
    BY DEF Cleared
  <2>1. PICK j \in DOMAIN r.ids : r.ids[j] = y
    BY <1>3 DEF RequestHolds, Cleared, Range
  <2>2. j < k
    <3>1. y \in Nat /\ m \in Nat /\ j \in Nat
      BY <1>2, <1>4, MintedTypes DEF Types
    <3>2. k < j => m < y
      BY <1>3, <2>1 DEF RequestHolds, IsCall
    <3>3. k # j
      BY <3>1, <2>1
    <3>4. QED
      BY <1>3, <3>1, <3>2, <3>3
  <2>3. TrueAnswer(y, r.answers[j])
    BY <1>3, <2>1, <2>2 DEF RequestHolds
  <2>4. QED
    BY <2>3, AnsweredIsDone
<1>6. QED
  BY <1>3, <1>4, <1>5 DEF k

\* A mutation the database may decide, above its series' mark, is decided in order.
LEMMA DecidedInOrder ==
  ASSUME Types, Types', UNCHANGED minted, NumbersHold, DecisionsHold, NEW d \in Decision,
         decided' = decided \o <<d>>,
         d.id \in Mutation, Cleared(d.id, {}), minted[d.id].valid, ~BelowMark(d.id)
  PROVE  DecisionsHold' /\ Grows
<1> DEFINE m == d.id
<1>0. PICK n \in Nat : n = Len(decided)
  BY DEF Types
<1>1. /\ n \in Nat /\ DOMAIN decided = 1..n /\ DOMAIN decided' = 1..n + 1
      /\ decided'[n + 1] = d /\ \A i \in 1..n : decided'[i] = decided[i]
  BY <1>0, DecisionAdded DEF Types
<1>2. Grows
  BY <1>0, <1>1 DEF Types, Grows
<1>3. Mutation' = Mutation /\ \A x : IsOutbox(x)' <=> IsOutbox(x)
  BY DEF Mutation, IsOutbox
<1>4. \A x \in Mutation : Cleared(x, {}) => Cleared(x, {})'
  BY <1>2, Persists DEF Types
<1>5. \A i \in DOMAIN decided' : decided'[i].id \in Mutation /\ Cleared(decided[i].id, {})'
  <2> SUFFICES ASSUME NEW i \in DOMAIN decided'
               PROVE  decided'[i].id \in Mutation /\ Cleared(decided[i].id, {})'
    OBVIOUS
  <2>1. PICK x \in Mutation : x = decided'[i].id /\ Cleared(x, {})
    BY <1>1 DEF DecisionsHold
  <2>2. Cleared(x, {})'
    BY <1>4, <2>1
  <2>3. QED
    BY <2>1, <2>2 DEF Cleared
<1>6. ASSUME NEW i \in 1..n, IsOutbox(decided[i].id), IsOutbox(m)
      PROVE  decided[i].id < m
  <2> DEFINE y == decided[i].id
  <2>1. y \in Mutation /\ Cleared(y, {})
    BY <1>1, <1>6 DEF DecisionsHold
  <2>2. y \in Nat /\ m \in Nat /\ minted[m].n \in Nat
    BY <2>1, MintedTypes DEF Types
  <2>3. y # m
    BY <1>1, <1>6, <2>2 DEF BelowMark
  <2>4. ~(m < y)
    <3>1. ASSUME m < y
          PROVE  FALSE
      <4>1. WasDecided(m)
        BY <1>6, <2>1, <3>1 DEF Cleared, Done
      <4>2. PICK j \in DOMAIN decided : decided[j].id = m
        BY <4>1 DEF WasDecided, Decisions
      <4>3. QED
        BY <2>2, <4>2 DEF BelowMark
    <3>2. QED
      BY <3>1
  <2>5. QED
    BY <2>2, <2>3, <2>4
<1>7. CarriedOutInOrder'
  <2> SUFFICES ASSUME NEW i \in 1..n + 1, NEW j \in 1..n + 1, i < j,
                      IsOutbox(decided'[i].id), IsOutbox(decided'[j].id)
               PROVE  decided'[i].id < decided'[j].id
    BY <1>1, <1>3 DEF CarriedOutInOrder
  <2>1. i \in 1..n
    BY <1>1
  <2>2. CASE j \in 1..n
    BY <1>1, <2>1, <2>2 DEF DecisionsHold, CarriedOutInOrder
  <2>3. CASE j = n + 1
    BY <1>1, <1>6, <2>1, <2>3
  <2>4. QED
    BY <1>1, <2>2, <2>3
<1>8. QED
  BY <1>2, <1>3, <1>5, <1>7 DEF DecisionsHold

\* An answer as the client is told it.
AnswerOf(a) == IF a.kind = "ok" THEN [kind |-> "ok", position |-> a.position] ELSE [kind |-> "reject"]

\* What the database may answer a mutation, and what it decides by it.
LEMMA AnswersAre ==
  ASSUME Types, NEW m \in Mutation, NEW a \in Answers(m)
  PROVE  /\ AnswerOf(a) \in Answer /\ a.made \in Seq(Decision)
         /\ \/ /\ a.made = <<>>
               /\ \/ ~minted[m].valid /\ AnswerOf(a) = [kind |-> "reject"]
                  \/ /\ minted[m].valid /\ BelowMark(m)
                     /\ AnswerOf(a) = [kind |-> "ok", position |-> LogHead]
            \/ /\ minted[m].valid /\ ~BelowMark(m)
               /\ \E d \in Decision :
                    /\ d.id = m /\ a.made = <<d>>
                    /\ AnswerOf(a) = IF d.outcome = "edit"
                         THEN [kind |-> "ok", position |-> LogHead + 1]
                       ELSE IF d.outcome = "none" THEN [kind |-> "ok", position |-> LogHead]
                       ELSE [kind |-> "reject"]
<1>1. LogHead \in Nat /\ m \in Id
  <2>1. m \in Nat /\ m # 0
    BY DEF Types, Mutation
  <2>2. QED
    BY <2>1, LogHeadType DEF Types, Id
<1>2. \A p \in Nat : [kind |-> "ok", position |-> p] \in Answer
  BY DEF Answer
<1>3. [kind |-> "reject"] \in Answer
  BY DEF Answer
<1>4. CASE ~minted[m].valid
  <2>1. a = [kind |-> "reject", made |-> <<>>]
    BY <1>4 DEF Answers
  <2>2. a.made \in Seq(Decision)
    BY <2>1
  <2>3. QED
    BY <1>3, <1>4, <2>1, <2>2 DEF AnswerOf
<1>5. CASE minted[m].valid /\ BelowMark(m)
  <2>1. a = [kind |-> "ok", position |-> LogHead, made |-> <<>>]
    BY <1>5 DEF Answers
  <2>2. a.made \in Seq(Decision)
    BY <2>1
  <2>3. QED
    BY <1>1, <1>2, <1>5, <2>1, <2>2 DEF AnswerOf
<1>6. CASE minted[m].valid /\ ~BelowMark(m)
  <2> DEFINE d(o) == [id |-> m, outcome |-> o]
  <2>1. \A o \in {"edit", "none", "reject"} :
          d(o) \in Decision /\ <<d(o)>> \in Seq(Decision) /\ d(o).id = m /\ d(o).outcome = o
    BY <1>1 DEF Decision
  <2>2. \/ a = [kind |-> "ok", position |-> LogHead + 1, made |-> <<d("edit")>>]
        \/ a = [kind |-> "ok", position |-> LogHead, made |-> <<d("none")>>]
        \/ a = [kind |-> "reject", made |-> <<d("reject")>>]
    BY <1>6 DEF Answers
  <2> HIDE DEF d
  <2>3. CASE a = [kind |-> "ok", position |-> LogHead + 1, made |-> <<d("edit")>>]
    <3>1. a.made = <<d("edit")>> /\ AnswerOf(a) = [kind |-> "ok", position |-> LogHead + 1]
      BY <2>3 DEF AnswerOf
    <3>2. AnswerOf(a) \in Answer
      BY <1>1, <1>2, <3>1
    <3>3. d("edit") \in Decision /\ d("edit").id = m /\ d("edit").outcome = "edit"
      BY <2>1
    <3>4. QED
      BY <1>6, <2>1, <3>1, <3>2, <3>3
  <2>4. CASE a = [kind |-> "ok", position |-> LogHead, made |-> <<d("none")>>]
    <3>1. a.made = <<d("none")>> /\ AnswerOf(a) = [kind |-> "ok", position |-> LogHead]
      BY <2>4 DEF AnswerOf
    <3>2. AnswerOf(a) \in Answer
      BY <1>1, <1>2, <3>1
    <3>3. d("none") \in Decision /\ d("none").id = m /\ d("none").outcome = "none"
      BY <2>1
    <3>4. QED
      BY <1>6, <2>1, <3>1, <3>2, <3>3
  <2>5. CASE a = [kind |-> "reject", made |-> <<d("reject")>>]
    <3>1. a.made = <<d("reject")>> /\ AnswerOf(a) = [kind |-> "reject"]
      BY <2>5 DEF AnswerOf
    <3>2. d("reject") \in Decision /\ d("reject").id = m /\ d("reject").outcome = "reject"
      BY <2>1
    <3>3. QED
      BY <1>3, <1>6, <2>1, <3>1, <3>2
  <2>6. QED
    BY <2>2, <2>3, <2>4, <2>5
<1>7. QED
  BY <1>4, <1>5, <1>6

\* What the database answers is true, to whoever waits for it or counts on it.
LEMMA AnswersHold ==
  ASSUME OutboxInv, Types', UNCHANGED minted, NEW m \in Mutation, Cleared(m, {}),
         NEW a \in Answers(m), decided' = decided \o a.made, NEW answer, answer = AnswerOf(a)
  PROVE  /\ DecisionsHold' /\ Grows
         /\ IsOutbox(m) \/ m \in Flow => TrueAnswer(m, answer)'
         /\ \A x : WasDecided(x)' => WasDecided(x) \/ x = m
<1>0. /\ minted \in Seq(MutationType) /\ decided \in Seq(Decision)
      /\ minted' \in Seq(MutationType) /\ decided' \in Seq(Decision)
  BY DEF OutboxInv, Types
<1>1. CASE a.made = <<>>
  <2>1. decided' = decided
    BY <1>0, <1>1
  <2>2. Grows /\ DecisionsHold'
    BY <2>1, DatabaseStays DEF OutboxInv, database
  <2>3. IsOutbox(m) \/ m \in Flow => TrueAnswer(m, answer)
    <3>1. CASE ~minted[m].valid
      <4>1. answer = [kind |-> "reject"]
        BY <1>1, <3>1, AnswersAre DEF OutboxInv
      <4>2. QED
        BY <3>1, <4>1 DEF TrueAnswer, WasRejected
    <3>2. CASE minted[m].valid
      <4>1. BelowMark(m) /\ answer = [kind |-> "ok", position |-> LogHead]
        <5>1. \A d \in Decision : <<d>> # <<>>
          OBVIOUS
        <5>2. QED
          BY <1>1, <3>2, <5>1, AnswersAre DEF OutboxInv
      <4>2. QED
        BY <3>2, <4>1, BelowMarkIs DEF TrueAnswer
    <3>3. QED
      BY <3>1, <3>2
  <2>4. TrueAnswer(m, answer) => TrueAnswer(m, answer)'
    BY <1>0, <2>2, Persists
  <2>5. \A x : WasDecided(x)' => WasDecided(x)
    BY <2>1 DEF WasDecided, Decisions
  <2>6. QED
    BY <2>2, <2>3, <2>4, <2>5
<1>2. CASE a.made # <<>>
  <2>1. minted[m].valid /\ ~BelowMark(m)
    BY <1>2, AnswersAre DEF OutboxInv
  <2>2. PICK d \in Decision :
          /\ d.id = m /\ a.made = <<d>>
          /\ answer = IF d.outcome = "edit" THEN [kind |-> "ok", position |-> LogHead + 1]
                      ELSE IF d.outcome = "none" THEN [kind |-> "ok", position |-> LogHead]
                      ELSE [kind |-> "reject"]
    BY <1>2, AnswersAre DEF OutboxInv
  <2>3. DecisionsHold' /\ Grows
    BY <2>1, <2>2, DecidedInOrder DEF OutboxInv
  <2>4. PICK n \in Nat : n = Len(decided)
    BY <1>0
  <2>5. /\ DOMAIN decided = 1..n /\ DOMAIN decided' = 1..n + 1
        /\ decided'[n + 1] = d /\ \A i \in 1..n : decided'[i] = decided[i]
        /\ HeadAt(n + 1)' = IF d.outcome = "edit" THEN LogHead + 1 ELSE LogHead
    BY <1>0, <2>2, <2>4, DecisionAdded
  <2>6. n + 1 \in Decisions(m)'
    BY <2>2, <2>5 DEF Decisions
  <2>7. LogHead \in Nat
    BY <1>0, LogHeadType
  <2>8. TrueAnswer(m, answer)'
    <3>1. CASE d.outcome = "reject"
      BY <2>2, <2>5, <2>6, <3>1 DEF TrueAnswer, WasRejected
    <3>2. CASE d.outcome # "reject"
      <4>1. d.outcome \in {"edit", "none"}
        BY <3>2 DEF Decision
      <4>2. answer.kind = "ok" /\ HeadAt(n + 1)' <= answer.position
        BY <2>2, <2>5, <2>7, <4>1
      <4>3. QED
        BY <2>6, <4>2 DEF TrueAnswer, DecidedBy
    <3>3. QED
      BY <3>1, <3>2
  <2>9. \A x : WasDecided(x)' => WasDecided(x) \/ x = m
    BY <2>2, <2>5 DEF WasDecided, Decisions
  <2>10. QED
    BY <2>3, <2>8, <2>9
<1>3. QED
  BY <1>1, <1>2

\* Whoever waits for a request waits for a part of the flow.
LEMMA AwaitedIsFlow ==
  ASSUME OutboxInv, NEW r \in net, r.awaited, NEW k \in DOMAIN r.ids
  PROVE  r.ids[k] \in Flow
<1>1. posting # NoPost /\ r.ids = NextRequest(posting).ids
  BY DEF OutboxInv, NetHolds
<1>2. PICK p \in PostType : p = posting /\ Len(p.answers) < Len(p.ids)
  BY <1>1 DEF OutboxInv, Types, PostHolds
<1>3. Len(p.answers) + k \in DOMAIN p.ids /\ r.ids[k] = p.ids[Len(p.answers) + k]
  BY <1>1, <1>2, NextRequestIs
<1>4. QED
  BY <1>1, <1>2, <1>3 DEF Flow, PostIds, Range

\* A request's next answer.
LEMMA RequestAnswered ==
  ASSUME OutboxInv, Types', Grows, NEW r \in net, Len(r.answers) < Len(r.ids), NEW answer \in Answer,
         IsOutbox(r.ids[Len(r.answers) + 1]) \/ r.ids[Len(r.answers) + 1] \in Flow
           => TrueAnswer(r.ids[Len(r.answers) + 1], answer)'
  PROVE  LET rest == [r EXCEPT !.answers = Append(@, answer)] IN
         /\ rest \in RequestType /\ rest.ids = r.ids /\ rest.awaited = r.awaited
         /\ RequestHolds(rest)'
<1> DEFINE rest == [r EXCEPT !.answers = Append(@, answer)]
<1>0. /\ minted \in Seq(MutationType) /\ decided \in Seq(Decision)
      /\ minted' \in Seq(MutationType) /\ decided' \in Seq(Decision)
  BY DEF OutboxInv, Types
<1>1. r \in RequestType /\ RequestHolds(r) /\ r.ids \in Ids /\ r.answers \in Seq(Answer)
  BY DEF OutboxInv, Types, NetHolds, RequestType
<1>2. PICK b \in Seq(Answer), n \in Nat : b = r.answers /\ n = Len(b)
  BY <1>1
<1>3. /\ Append(b, answer) \in Seq(Answer) /\ Len(Append(b, answer)) = n + 1
      /\ DOMAIN Append(b, answer) = 1..n + 1 /\ DOMAIN b = 1..n
      /\ Append(b, answer)[n + 1] = answer /\ \A i \in 1..n : Append(b, answer)[i] = b[i]
  BY <1>2
<1>4. /\ rest \in RequestType /\ rest.ids = r.ids /\ rest.awaited = r.awaited
      /\ rest.answers = Append(b, answer)
  BY <1>1, <1>2, <1>3 DEF RequestType
<1> HIDE DEF rest
<1>5. /\ Len(r.ids) \in Nat /\ DOMAIN r.ids = 1..Len(r.ids) /\ n < Len(r.ids)
  BY <1>1, <1>2 DEF Ids
<1>6. RequestHolds(r)'
  BY <1>0, <1>1, RequestStays
<1>7. \A i \in 1..n + 1 :
        r.awaited \/ IsOutbox(r.ids[i])' => TrueAnswer(r.ids[i], Append(b, answer)[i])'
  <2> SUFFICES ASSUME NEW i \in 1..n + 1, r.awaited \/ IsOutbox(r.ids[i])'
               PROVE  TrueAnswer(r.ids[i], Append(b, answer)[i])'
    OBVIOUS
  <2>1. CASE i \in 1..n
    BY <1>2, <1>3, <1>6, <2>1 DEF RequestHolds
  <2>2. CASE i = n + 1
    <3>1. i \in DOMAIN r.ids
      BY <1>5, <2>2
    <3>2. r.awaited => r.ids[i] \in Flow
      BY <3>1, AwaitedIsFlow
    <3>3. r.ids[i] \in Mutation
      BY <1>1, <3>1 DEF RequestHolds, IsCall
    <3>4. IsOutbox(r.ids[i])' => IsOutbox(r.ids[i])
      BY <1>0, <3>3, MintedStays
    <3>5. TrueAnswer(r.ids[n + 1], answer)'
      BY <1>2, <2>2, <3>2, <3>4
    <3>6. QED
      BY <1>3, <2>2, <3>5
  <2>3. i \in 1..n \/ i = n + 1
    OBVIOUS
  <2>4. QED
    BY <2>1, <2>2, <2>3
<1>8. Len(Append(b, answer)) <= Len(r.ids)
  BY <1>3, <1>5
<1>9. RequestHolds(rest)'
  BY <1>3, <1>4, <1>6, <1>7, <1>8 DEF RequestHolds
<1>10. QED
  BY <1>4, <1>9 DEF rest

LEMMA DecideHolds ==
  ASSUME OutboxInv, NEW r \in net, Decide(r)
  PROVE  OutboxInv'
<1>1. r \in RequestType /\ RequestHolds(r) /\ Len(r.answers) < Len(r.ids)
  BY DEF OutboxInv, Types, NetHolds, Decide
<1>2. PICK k \in DOMAIN r.ids, m \in Mutation :
        k = Len(r.answers) + 1 /\ m = r.ids[k] /\ Cleared(m, {})
  BY <1>1, AskedIsCleared DEF OutboxInv
<1>3. PICK a \in Answers(m) :
        LET rest == [r EXCEPT !.answers = Append(@, AnswerOf(a))]
            over == ~r.awaited /\ Len(rest.answers) = Len(r.ids)
        IN  /\ decided' = decided \o a.made
            /\ net' = (net \ {r}) \cup (IF over THEN {} ELSE {rest})
  BY <1>2 DEF Decide, AnswerOf
<1>4. PICK answer : answer = AnswerOf(a)
  OBVIOUS
<1>5. answer \in Answer /\ a.made \in Seq(Decision)
  BY <1>4, AnswersAre DEF OutboxInv
<1> DEFINE rest == [r EXCEPT !.answers = Append(@, answer)]
<1>6. \/ net' = (net \ {r}) \cup {rest}
      \/ net' = net \ {r} /\ ~r.awaited
  BY <1>3, <1>4
<1>7. /\ UNCHANGED <<minted, process, passes, engine, settled, up, ending, outcomes, sends,
                     posting, ended, submitted, resend>>
      /\ decided' = decided \o a.made
  BY <1>3 DEF Decide, connection, passes
<1>8. rest \in RequestType
  <2>1. PICK b \in Seq(Answer) : b = r.answers
    BY <1>1 DEF RequestType
  <2>2. Append(b, answer) \in Seq(Answer)
    BY <1>5
  <2>3. QED
    BY <1>1, <2>1, <2>2 DEF RequestType
<1> HIDE DEF rest
<1>9. Types'
  <2>1. decided' \in Seq(Decision)
    <3>1. decided \in Seq(Decision)
      BY DEF OutboxInv, Types
    <3>2. QED
      BY <1>5, <1>7, <3>1
  <2>2. net' \subseteq RequestType
    BY <1>6, <1>8 DEF OutboxInv, Types
  <2>3. QED
    BY <1>7, <2>1, <2>2 DEF OutboxInv, Types
<1>10. /\ DecisionsHold' /\ Grows
       /\ IsOutbox(m) \/ m \in Flow => TrueAnswer(m, answer)'
       /\ \A x : WasDecided(x)' => WasDecided(x) \/ x = m
  BY <1>2, <1>4, <1>7, <1>9, AnswersHold
<1>11. rest.ids = r.ids /\ rest.awaited = r.awaited /\ RequestHolds(rest)'
  BY <1>1, <1>2, <1>5, <1>9, <1>10, RequestAnswered DEF rest
<1>12. Mutation' = Mutation /\ NumbersHold'
  BY <1>7 DEF Mutation, OutboxInv, NumbersHold
<1>13. PostHolds' /\ SendsHold'
  BY <1>7, <1>9, <1>10, PostStays, SendsStay DEF OutboxInv
<1>14. NetHolds'
  <2>1. \A x \in net \ {r} : RequestHolds(x)'
    <3> SUFFICES ASSUME NEW x \in net \ {r}
                 PROVE  RequestHolds(x)'
      OBVIOUS
    <3>1. x \in RequestType /\ RequestHolds(x)
      BY DEF OutboxInv, Types, NetHolds
    <3>2. QED
      BY <1>9, <1>10, <3>1, RequestStays DEF OutboxInv, Types
  <2>2. NextRequest(posting)' = NextRequest(posting)
    BY <1>7 DEF NextRequest
  <2>3. \A x \in net' : RequestHolds(x)'
    BY <1>6, <1>11, <2>1
  <2>4. \A x \in net' : x.awaited =>
          posting # NoPost /\ x.ids = NextRequest(posting).ids
    BY <1>6, <1>11 DEF OutboxInv, NetHolds
  <2>5. \A x, y \in net' : x.awaited /\ y.awaited => x = y
    BY <1>6, <1>11 DEF OutboxInv, NetHolds
  <2>6. posting # NoPost => \E x \in net' : x.awaited
    BY <1>6, <1>11 DEF OutboxInv, NetHolds
  <2>7. QED
    BY <1>7, <2>2, <2>3, <2>4, <2>5, <2>6 DEF NetHolds
<1>15. Flow' = Flow
  BY <1>7 DEF Flow, PostIds, SendIds
<1>16. OnlineAhead'
  <2> SUFFICES ASSUME NEW y \in Flow, ~IsOutbox(y), NEW x \in Mutation, x > y
               PROVE  ~WasDecided(x)' /\ \A z \in net' : x \notin Range(z.ids)
    BY <1>7, <1>12, <1>15 DEF OnlineAhead, IsOutbox
  <2>1. ~WasDecided(x) /\ \A z \in net : x \notin Range(z.ids)
    BY DEF OutboxInv, OnlineAhead
  <2>2. x # m
    BY <1>2, <2>1 DEF Range
  <2>3. QED
    BY <1>6, <1>10, <1>11, <2>1, <2>2
<1>17. EngineHolds(engine)' /\ SettledHolds'
  BY <1>7, <1>9, <1>10, <1>12, EngineSame DEF OutboxInv
<1>18. \A i \in DOMAIN outcomes' : OutcomeHolds(outcomes[i])'
  BY <1>7, <1>9, <1>10, OutcomesStay DEF OutboxInv
<1>19. ConnectionHolds'
  <2>1. Follows
    BY <1>7 DEF Follows, Trims
  <2>2. QED
    BY <1>7, <1>9, <1>10, <1>15, <2>1, ConnectionStays DEF OutboxInv, ConnectionHolds
<1>20. QED
  BY <1>9, <1>10, <1>12, <1>13, <1>14, <1>16, <1>17, <1>18, <1>19 DEF OutboxInv

-----------------------------------------------------------------------------
(* Submissions.                                                            *)

\* Where the calls of some mutations start and end.
Starts(ids, online) == {k \in DOMAIN ids : k = 1 \/ ids[k] \in online \/ ids[k - 1] \in online}
EndOf(ids, at, i) == IF i = Len(at) THEN Len(ids) ELSE at[i + 1] - 1

LEMMA CallsSplit ==
  ASSUME NEW ids \in Ids, NEW online, NEW at \in Ascending(Starts(ids, online))
  PROVE  /\ Len(ids) \in Nat /\ DOMAIN ids = 1..Len(ids)
         /\ Len(at) \in Nat /\ DOMAIN at = 1..Len(at)
         /\ \A i \in DOMAIN at : /\ at[i] \in 1..Len(ids) /\ EndOf(ids, at, i) \in 1..Len(ids)
                                 /\ at[i] <= EndOf(ids, at, i)
         /\ \A i, j \in DOMAIN at : i < j => EndOf(ids, at, i) < at[j]
         /\ \A k \in 1..Len(ids) : \E i \in DOMAIN at : at[i] <= k /\ k <= EndOf(ids, at, i)
         /\ \A i \in DOMAIN at : \A k \in at[i]..EndOf(ids, at, i) :
              ids[k] \in online => at[i] = EndOf(ids, at, i)
<1> DEFINE S == Starts(ids, online)
           n == Len(ids)
           End(i) == EndOf(ids, at, i)
<1>1. n \in Nat /\ DOMAIN ids = 1..n
  BY DEF Ids
<1>2. S \subseteq 1..n /\ S \in SUBSET Id
  BY <1>1 DEF Starts, Id
<1>3. IsFiniteSet(S)
  <2>1. IsFiniteSet(1..n)
    BY <1>1, FS_Interval
  <2>2. QED
    BY <1>2, <2>1, FS_Subset
<1>4. \A k \in 1..n : k \in S <=> k = 1 \/ ids[k] \in online \/ ids[k - 1] \in online
  BY <1>1 DEF Starts
<1> HIDE DEF S, n
<1>5. /\ at \in Seq(S) /\ Len(at) \in Nat /\ DOMAIN at = 1..Len(at) /\ Range(at) = S
      /\ \A i, j \in DOMAIN at : i < j => at[i] < at[j]
  BY <1>2, <1>3, AscendingIs DEF S
<1>6. \A i \in DOMAIN at : at[i] \in S /\ at[i] \in 1..n
  BY <1>2, <1>5 DEF Range
<1>7. \A i \in DOMAIN at : i # Len(at) => i + 1 \in DOMAIN at /\ i < i + 1
  BY <1>5
<1>8. \A i \in DOMAIN at : End(i) \in 1..n /\ at[i] <= End(i)
  <2> SUFFICES ASSUME NEW i \in DOMAIN at
               PROVE  End(i) \in 1..n /\ at[i] <= End(i)
    OBVIOUS
  <2>1. CASE i = Len(at)
    BY <1>1, <1>6, <2>1 DEF EndOf, n
  <2>2. CASE i # Len(at)
    <3>1. at[i] < at[i + 1] /\ at[i] \in 1..n /\ at[i + 1] \in 1..n
      BY <1>5, <1>6, <1>7, <2>2
    <3>2. End(i) = at[i + 1] - 1
      BY <2>2 DEF EndOf
    <3>3. QED
      BY <1>1, <3>1, <3>2
  <2>3. QED
    BY <2>1, <2>2
<1>9. \A i, j \in DOMAIN at : i < j => End(i) < at[j]
  <2> SUFFICES ASSUME NEW i \in DOMAIN at, NEW j \in DOMAIN at, i < j
               PROVE  End(i) < at[j]
    OBVIOUS
  <2>1. i # Len(at) /\ (i + 1 < j \/ i + 1 = j)
    BY <1>5
  <2>2. i + 1 \in DOMAIN at /\ at[i + 1] \in 1..n /\ at[j] \in 1..n
    BY <1>6, <1>7, <2>1
  <2>3. at[i + 1] <= at[j]
    BY <1>1, <1>5, <2>1, <2>2
  <2>4. End(i) = at[i + 1] - 1
    BY <2>1 DEF EndOf
  <2>5. QED
    BY <1>1, <2>2, <2>3, <2>4
<1>10. ASSUME NEW k \in 1..n
       PROVE  \E i \in DOMAIN at : at[i] <= k /\ k <= End(i)
  <2> DEFINE T == {i \in DOMAIN at : at[i] <= k}
  <2>1. 1 \in S
    BY <1>1, <1>4
  <2>2. PICK z \in DOMAIN at : at[z] = 1
    BY <1>5, <2>1 DEF Range
  <2>3. T \in SUBSET Nat /\ T # {} /\ \A i \in T : i <= Len(at)
    BY <1>1, <1>5, <2>2
  <2>4. PICK i \in T : \A j \in T : j <= i
    BY <1>5, <2>3, GreatestOf
  <2>5. CASE i = Len(at)
    BY <1>1, <2>5 DEF EndOf, n
  <2>6. CASE i # Len(at)
    <3>1. i + 1 \in DOMAIN at /\ i + 1 \notin T
      BY <1>5, <1>7, <2>4, <2>6
    <3>2. at[i + 1] \in 1..n /\ ~(at[i + 1] <= k)
      BY <1>6, <3>1
    <3>3. End(i) = at[i + 1] - 1
      BY <2>6 DEF EndOf
    <3>4. k <= End(i)
      BY <1>1, <3>2, <3>3
    <3>5. QED
      BY <3>4
  <2>7. QED
    BY <2>5, <2>6
\* A call has no start but its own.
<1>11. ASSUME NEW i \in DOMAIN at, NEW k \in at[i]..End(i), k \in S
       PROVE  k = at[i]
  <2>1. PICK j \in DOMAIN at : at[j] = k
    BY <1>5, <1>11 DEF Range
  <2>2. at[i] \in 1..n /\ End(i) \in 1..n /\ i \in Nat /\ j \in Nat /\ at[i] <= k /\ k <= End(i)
    BY <1>1, <1>5, <1>6, <1>8
  <2>3. i < j => End(i) < k
    BY <1>9, <2>1
  <2>4. j < i => k < at[i]
    <3>1. j < i => at[j] < at[i]
      BY <1>5
    <3>2. QED
      BY <2>1, <3>1
  <2> HIDE DEF End
  <2>5. i = j
    BY <1>1, <2>2, <2>3, <2>4
  <2>6. QED
    BY <2>1, <2>5
<1>12. ASSUME NEW i \in DOMAIN at, NEW k \in at[i]..End(i), ids[k] \in online
       PROVE  at[i] = End(i)
  <2> DEFINE last == End(i)
  <2>1. at[i] \in 1..n /\ last \in 1..n
    BY <1>6, <1>8
  <2> HIDE DEF last, End
  <2>2. k \in 1..n /\ k <= last
    BY <1>1, <2>1 DEF last
  <2>3. k \in S /\ k = at[i]
    BY <1>4, <1>11, <1>12, <2>2
  <2>4. k + 1 \in 1..n => k + 1 \in S
    <3>1. ids[k] = ids[(k + 1) - 1]
      BY <2>2
    <3>2. QED
      BY <1>4, <1>12, <3>1
  <2>5. ~(k + 1 <= last)
    <3> SUFFICES ASSUME k + 1 <= last
                 PROVE  FALSE
      OBVIOUS
    <3>1. k + 1 \in 1..n /\ k + 1 \in at[i]..End(i)
      BY <1>1, <2>1, <2>2, <2>3 DEF last
    <3>2. k + 1 = at[i]
      BY <1>11, <2>4, <3>1
    <3>3. QED
      BY <2>2, <2>3, <3>2
  <2>6. QED
    BY <1>1, <2>1, <2>2, <2>3, <2>5 DEF last
<1>13. QED
  BY <1>1, <1>5, <1>6, <1>8, <1>9, <1>10, <1>12 DEF n

\* The calls of some mutations carry each of them, in order, an @online one alone.
LEMMA CallsOfIs ==
  ASSUME NEW ids \in Ids, \A j, k \in DOMAIN ids : j < k => ids[j] < ids[k],
         NEW online, NEW calls \in CallsOf(ids, online)
  PROVE  /\ calls \in Seq(Ids)
         /\ \A i \in DOMAIN calls : calls[i] # <<>>
         /\ \A i \in DOMAIN calls : \A j, k \in DOMAIN calls[i] :
              j < k => calls[i][j] < calls[i][k]
         /\ \A i, j \in DOMAIN calls : i < j =>
              \A k \in DOMAIN calls[i], l \in DOMAIN calls[j] : calls[i][k] < calls[j][l]
         /\ UNION {Range(calls[i]) : i \in DOMAIN calls} = Range(ids)
         /\ \A i \in DOMAIN calls : \A k \in DOMAIN calls[i] :
              calls[i][k] \in online => Len(calls[i]) = 1
<1> DEFINE n == Len(ids)
<1>1. PICK at \in Ascending(Starts(ids, online)) :
        calls = [i \in DOMAIN at |-> SubSeq(ids, at[i], EndOf(ids, at, i))]
  BY DEF CallsOf, Starts, EndOf
<1> DEFINE End(i) == EndOf(ids, at, i)
<1>2. /\ n \in Nat /\ DOMAIN ids = 1..n
      /\ Len(at) \in Nat /\ DOMAIN at = 1..Len(at)
      /\ \A i \in DOMAIN at : at[i] \in 1..n /\ End(i) \in 1..n /\ at[i] <= End(i)
      /\ \A i, j \in DOMAIN at : i < j => End(i) < at[j]
      /\ \A k \in 1..n : \E i \in DOMAIN at : at[i] <= k /\ k <= End(i)
      /\ \A i \in DOMAIN at : \A k \in at[i]..End(i) : ids[k] \in online => at[i] = End(i)
  BY CallsSplit
<1> HIDE DEF n, End
<1>3. DOMAIN calls = DOMAIN at /\ \A i \in DOMAIN at : calls[i] = SubSeq(ids, at[i], End(i))
  BY <1>1 DEF End
<1>4. \A i \in DOMAIN at :
        /\ calls[i] \in Ids /\ Len(calls[i]) = End(i) - at[i] + 1
        /\ DOMAIN calls[i] = 1..(End(i) - at[i] + 1)
        /\ \A k \in DOMAIN calls[i] :
             /\ at[i] + k - 1 \in at[i]..End(i) /\ at[i] + k - 1 \in 1..n
             /\ calls[i][k] = ids[at[i] + k - 1]
  <2> SUFFICES ASSUME NEW i \in DOMAIN at
               PROVE  /\ calls[i] \in Ids /\ Len(calls[i]) = End(i) - at[i] + 1
                      /\ DOMAIN calls[i] = 1..(End(i) - at[i] + 1)
                      /\ \A k \in DOMAIN calls[i] :
                           /\ at[i] + k - 1 \in at[i]..End(i) /\ at[i] + k - 1 \in 1..n
                           /\ calls[i][k] = ids[at[i] + k - 1]
    OBVIOUS
  <2>1. PICK a \in 1..n, b \in 1..n : a = at[i] /\ b = End(i) /\ a <= b
    BY <1>2
  <2>2. /\ n \in Nat /\ a \in Int /\ b \in Int /\ b - a + 1 \in Nat
        /\ \A k \in 1..(b - a + 1) : a + k - 1 \in a..b /\ a + k - 1 \in 1..n
    <3>1. n \in Nat
      BY <1>2
    <3>2. QED
      BY <2>1, <3>1
  <2>3. \A k \in 1..n : ids[k] \in Id
    BY <1>2 DEF Ids
  <2> DEFINE sub == SubSeq(ids, a, b)
  <2>4. \A k \in a..b : ids[k] \in Id
    <3>1. \A k \in a..b : k \in 1..n
      BY <2>1, <2>2
    <3>2. QED
      BY <2>3, <3>1
  <2>5. /\ sub \in Seq(Id) /\ Len(sub) = b - a + 1
        /\ \A k \in 1..(b - a + 1) : sub[k] = ids[a + k - 1]
    BY <2>1, <2>2, <2>4, SubSeqProperties
  <2> HIDE DEF sub
  <2>6. sub \in Ids /\ DOMAIN sub = 1..(b - a + 1)
    BY <2>5 DEF Ids
  <2>7. calls[i] = sub
    BY <1>3, <2>1 DEF sub
  <2>8. QED
    BY <2>1, <2>2, <2>5, <2>6, <2>7
<1>4a. \A i \in DOMAIN at : at[i] \in Nat /\ End(i) \in Nat /\ at[i] <= End(i)
  <2>1. \A x \in 1..n : x \in Nat
    OBVIOUS
  <2>2. QED
    BY <1>2, <2>1, Zenon
<1>4b. \A i \in DOMAIN at : \A k \in DOMAIN calls[i] : k \in Nat
  BY <1>4
<1>4c. \A j, k \in 1..n : j < k => ids[j] < ids[k]
  <2>1. DOMAIN ids = 1..n
    BY <1>2
  <2>2. QED
    BY <2>1
<1>5. calls \in Seq(Ids)
  <2>1. DOMAIN calls = 1..Len(at) /\ Len(at) \in Nat
    BY <1>2, <1>3
  <2>2. calls \in [1..Len(at) -> Ids]
    BY <1>1, <1>4, <2>1
  <2>3. QED
    BY <2>1, <2>2
<1>6. \A i \in DOMAIN calls : calls[i] # <<>>
  <2> SUFFICES ASSUME NEW i \in DOMAIN at
               PROVE  calls[i] # <<>>
    BY <1>3
  <2>1. Len(calls[i]) # 0
    BY <1>4, <1>4a
  <2>2. QED
    BY <2>1
<1>7. \A i \in DOMAIN calls : \A j, k \in DOMAIN calls[i] : j < k => calls[i][j] < calls[i][k]
  <2> SUFFICES ASSUME NEW i \in DOMAIN at, NEW j \in DOMAIN calls[i], NEW k \in DOMAIN calls[i], j < k
               PROVE  calls[i][j] < calls[i][k]
    BY <1>3
  <2>1. at[i] + j - 1 \in 1..n /\ at[i] + k - 1 \in 1..n
    BY <1>4
  <2>2. at[i] + j - 1 < at[i] + k - 1
    BY <1>4a, <1>4b
  <2>3. ids[at[i] + j - 1] < ids[at[i] + k - 1]
    BY <1>4c, <2>1, <2>2
  <2>4. QED
    BY <1>4, <2>3
<1>8. \A i, j \in DOMAIN calls : i < j =>
        \A k \in DOMAIN calls[i], l \in DOMAIN calls[j] : calls[i][k] < calls[j][l]
  <2> SUFFICES ASSUME NEW i \in DOMAIN at, NEW j \in DOMAIN at, i < j,
                      NEW k \in DOMAIN calls[i], NEW l \in DOMAIN calls[j]
               PROVE  calls[i][k] < calls[j][l]
    BY <1>3
  <2> DEFINE x == at[i] + k - 1
             y == at[j] + l - 1
  <2>1. /\ x \in 1..n /\ y \in 1..n /\ x \in at[i]..End(i) /\ y \in at[j]..End(j)
        /\ calls[i][k] = ids[x] /\ calls[j][l] = ids[y]
    BY <1>4
  <2>2. End(i) < at[j] /\ End(i) \in 1..n /\ at[j] \in 1..n
    BY <1>2
  <2> HIDE DEF x, y
  <2>3. x < y
    BY <1>2, <2>1, <2>2
  <2>4. QED
    BY <1>4c, <2>1, <2>3
<1>9. UNION {Range(calls[i]) : i \in DOMAIN calls} = Range(ids)
  <2>1. ASSUME NEW i \in DOMAIN at, NEW k \in DOMAIN calls[i]
        PROVE  calls[i][k] \in Range(ids)
    BY <1>2, <1>4 DEF Range
  <2>2. ASSUME NEW k \in 1..n
        PROVE  \E i \in DOMAIN at : \E l \in DOMAIN calls[i] : calls[i][l] = ids[k]
    <3>1. PICK i \in DOMAIN at : at[i] <= k /\ k <= End(i)
      BY <1>2
    <3>2. at[i] \in Nat /\ End(i) \in Nat /\ k \in Nat
      BY <1>2, <1>4a
    <3>3. PICK l \in 1..(End(i) - at[i] + 1) : l = k - at[i] + 1 /\ at[i] + l - 1 = k
      BY <3>1, <3>2
    <3>4. l \in DOMAIN calls[i] /\ calls[i][l] = ids[k]
      BY <1>4, <3>3
    <3>5. QED
      BY <3>4
  <2>3. \A x \in Range(ids) : \E i \in DOMAIN calls : x \in Range(calls[i])
    <3> SUFFICES ASSUME NEW k \in DOMAIN ids
                 PROVE  \E i \in DOMAIN calls : ids[k] \in Range(calls[i])
      BY DEF Range
    <3>1. k \in 1..n
      BY <1>2
    <3>2. QED
      BY <1>3, <2>2, <3>1 DEF Range
  <2>4. \A i \in DOMAIN calls : Range(calls[i]) \subseteq Range(ids)
    BY <1>3, <2>1 DEF Range
  <2>5. QED
    BY <2>3, <2>4
<1>10. \A i \in DOMAIN calls : \A k \in DOMAIN calls[i] :
         calls[i][k] \in online => Len(calls[i]) = 1
  <2> SUFFICES ASSUME NEW i \in DOMAIN at, NEW k \in DOMAIN calls[i], calls[i][k] \in online
               PROVE  Len(calls[i]) = 1
    BY <1>3
  <2>1. at[i] = End(i) /\ End(i) \in Nat
    BY <1>2, <1>4, <1>4a
  <2>2. Len(calls[i]) = End(i) - at[i] + 1
    BY <1>4
  <2>3. QED
    BY <2>1, <2>2
<1>11. QED
  BY <1>5, <1>6, <1>7, <1>8, <1>9, <1>10

\* The submissions are numbered one after the other, after the others of their series.
LEMMA MintsHold ==
  ASSUME OutboxInv, OnSubmitted, NEW first \in Nat, first = Len(minted),
         NEW q \in Seq(Submission), q = submitted
  PROVE  /\ minted' \in Seq(MutationType) /\ Grows
         /\ Mutation = 1..first /\ Mutation' = 1..first + Len(q)
         /\ NumbersHold' /\ DecisionsHold'
         /\ \A i \in 1..Len(q) : IsOutbox(first + i)' <=> q[i].kind = "outbox"
<1> DEFINE C == {m \in Mutation : minted[m].series = process}
           numbered == Cardinality(C)
           new == [i \in DOMAIN q |-> [kind |-> q[i].kind, valid |-> q[i].valid,
                                       series |-> process, n |-> numbered + i]]
<1>1. /\ minted' = minted \o new /\ decided' = decided /\ process' = process
  BY DEF OnSubmitted
<1>2. /\ minted \in Seq(MutationType) /\ decided \in Seq(Decision) /\ process \in Nat
      /\ Len(q) \in Nat /\ DOMAIN q = 1..Len(q) /\ Mutation = 1..first
  BY DEF OutboxInv, Types, Mutation
<1>3. IsFiniteSet(C) /\ numbered \in Nat
  <2>1. IsFiniteSet(1..first)
    BY FS_Interval
  <2>2. IsFiniteSet(C)
    BY <1>2, <2>1, FS_Subset
  <2>3. QED
    BY <2>2, FS_CardinalityType
<1> HIDE DEF C, numbered
<1>4. \A i \in DOMAIN q : new[i] \in MutationType
  <2> SUFFICES ASSUME NEW i \in DOMAIN q
               PROVE  new[i] \in MutationType
    OBVIOUS
  <2>1. q[i] \in Submission /\ i \in Nat
    BY <1>2
  <2>2. q[i].kind \in {"outbox", "online"} /\ q[i].valid \in BOOLEAN /\ numbered + i \in Nat
    BY <1>3, <2>1 DEF Submission
  <2>3. QED
    BY <1>2, <2>2 DEF MutationType
<1>5. new \in Seq(MutationType) /\ Len(new) = Len(q) /\ DOMAIN new = 1..Len(q)
  BY <1>2, <1>4
<1>6. \A i \in 1..Len(q) : /\ new[i].series = process /\ new[i].n = numbered + i
                           /\ new[i].kind = q[i].kind
  BY <1>2
<1> HIDE DEF new
<1>7. /\ minted' \in Seq(MutationType) /\ Len(minted') = first + Len(q)
      /\ \A m \in 1..first : minted'[m] = minted[m]
      /\ \A m \in first + 1..first + Len(q) : minted'[m] = new[m - first]
  <2>1. /\ minted \o new \in Seq(MutationType) /\ Len(minted \o new) = first + Len(new)
        /\ \A m \in 1..first + Len(new) :
             (minted \o new)[m] = IF m <= first THEN minted[m] ELSE new[m - first]
    BY <1>2, <1>5
  <2>2. Len(new) = Len(q) /\ Len(q) \in Nat
    BY <1>2, <1>5
  <2>3. \A m \in 1..first : m \in 1..first + Len(q) /\ m <= first
    BY <2>2
  <2>4. \A m \in first + 1..first + Len(q) : m \in 1..first + Len(q) /\ ~(m <= first)
    BY <2>2
  <2> HIDE DEF new
  <2>5. QED
    BY <1>1, <2>1, <2>2, <2>3, <2>4
<1>8. Mutation' = 1..first + Len(q) /\ Grows
  BY <1>1, <1>2, <1>7 DEF Mutation, Grows
<1>9. \A i \in 1..Len(q) : minted'[first + i] = new[i]
  <2> SUFFICES ASSUME NEW i \in 1..Len(q)
               PROVE  minted'[first + i] = new[i]
    OBVIOUS
  <2>1. first + i \in first + 1..first + Len(q) /\ (first + i) - first = i
    BY <1>2
  <2>2. QED
    BY <1>7, <2>1
<1>10. \A i \in 1..Len(q) : IsOutbox(first + i)' <=> q[i].kind = "outbox"
  BY <1>6, <1>9 DEF IsOutbox
<1>11. DecisionsHold'
  <2>1. \A x \in Mutation : x \in Mutation' /\ (Cleared(x, {}) => Cleared(x, {})')
        /\ (IsOutbox(x)' <=> IsOutbox(x))
    BY <1>1, <1>2, <1>7, <1>8, Persists, MintedStays
  <2>2. QED
    BY <1>1, <2>1 DEF OutboxInv, DecisionsHold, CarriedOutInOrder, Cleared
<1>12. ASSUME NEW m \in Mutation'
       PROVE  m \in Mutation \/ \E i \in 1..Len(q) : m = first + i
  <2>1. m \in 1..first \/ (m - first \in 1..Len(q) /\ m = first + (m - first))
    BY <1>2, <1>8
  <2>2. QED
    BY <1>2, <2>1
<1>13. \A m \in Mutation : /\ m \in Nat /\ m <= first /\ minted[m].series \in Nat /\ minted[m].n \in Nat
                           /\ minted[m].series <= process
                           /\ (minted[m].series = process => minted[m].n <= numbered)
  <2>1. \A m \in Mutation : m \in Nat /\ minted[m].series \in Nat /\ minted[m].n \in Nat
    BY <1>2, MintedTypes
  <2>2. \A m \in Mutation : m <= first
    BY <1>2
  <2>3. QED
    BY <2>1, <2>2 DEF OutboxInv, NumbersHold, numbered, C
<1>14. Cardinality({x \in Mutation : minted[x].series = process})' = numbered + Len(q)
  <2> DEFINE D == {x \in Mutation' : minted'[x].series = process'}
             F == first + 1..first + Len(q)
  <2>1. IsFiniteSet(F) /\ Cardinality(F) = Len(q)
    <3>1. first + 1 \in Int /\ first + Len(q) \in Int
      BY <1>2
    <3>2. QED
      <4>1. PICK l \in Nat : l = Len(q)
        BY <1>2
      <4>2. PICK a \in Int, b \in Int : a = first + 1 /\ b = first + l
        OBVIOUS
      <4>3. IsFiniteSet(a..b) /\ Cardinality(a..b) = IF a > b THEN 0 ELSE b - a + 1
        BY FS_Interval
      <4>4. (IF a > b THEN 0 ELSE b - a + 1) = l
        BY <4>2
      <4>5. QED
        BY <4>1, <4>2, <4>3, <4>4
  <2>2. C \cap F = {}
    BY <1>2 DEF C
  <2>3. D = C \cup F
    <3>1. \A m \in Mutation' : m \in D <=> m \in C \cup F
      <4> SUFFICES ASSUME NEW m \in Mutation'
                   PROVE  m \in D <=> m \in C \cup F
        OBVIOUS
      <4>1. CASE m \in Mutation
        BY <1>1, <1>2, <1>7, <4>1 DEF C
      <4>2. CASE \E i \in 1..Len(q) : m = first + i
        <5>1. PICK i \in 1..Len(q) : m = first + i
          BY <4>2
        <5>2. minted'[m].series = process'
          BY <1>1, <1>6, <1>9, <5>1
        <5>3. m \in F
          BY <1>2, <5>1
        <5>4. QED
          BY <5>2, <5>3
      <4>3. QED
        BY <1>12, <4>1, <4>2
    <3>2. C \cup F \subseteq Mutation'
      BY <1>2, <1>8 DEF C
    <3>3. QED
      BY <3>1, <3>2
  <2>4. Cardinality(D) = Cardinality(C) + Cardinality(F)
    <3>1. Cardinality(D) = Cardinality(C) + Cardinality(F) - Cardinality({})
      BY <1>3, <2>1, <2>2, <2>3, FS_Union
    <3>2. Cardinality({}) = 0
      BY FS_EmptySet
    <3>3. QED
      BY <1>2, <1>3, <2>1, <3>1, <3>2 DEF numbered
  <2>5. QED
    BY <2>1, <2>4 DEF numbered
<1>15. NumbersHold'
  <2>1. \A m \in Mutation' : minted'[m].series <= process'
    <3> SUFFICES ASSUME NEW m \in Mutation'
                 PROVE  minted'[m].series <= process'
      OBVIOUS
    <3>1. CASE m \in Mutation
      BY <1>1, <1>2, <1>7, <1>13, <3>1
    <3>2. CASE \E i \in 1..Len(q) : m = first + i
      <4>1. PICK i \in 1..Len(q) : m = first + i
        BY <3>2
      <4>2. minted'[m].series = process
        BY <1>6, <1>9, <4>1
      <4>3. QED
        BY <1>1, <1>2, <4>2
    <3>3. QED
      BY <1>12, <3>1, <3>2
  <2>2. ASSUME NEW m \in Mutation', NEW x \in Mutation', m < x,
               minted'[m].series = minted'[x].series
        PROVE  minted'[m].n < minted'[x].n
    <3>1. CASE x \in Mutation
      <4>1. m \in Mutation
        BY <1>2, <1>8, <2>2, <3>1
      <4>2. minted'[m] = minted[m] /\ minted'[x] = minted[x]
        BY <1>2, <1>7, <3>1, <4>1
      <4>3. QED
        BY <2>2, <3>1, <4>1, <4>2 DEF OutboxInv, NumbersHold
    <3>2. CASE \E i \in 1..Len(q) : x = first + i
      <4>1. PICK i \in 1..Len(q) : x = first + i
        BY <3>2
      <4>2. minted'[x].series = process /\ minted'[x].n = numbered + i
        BY <1>6, <1>9, <4>1
      <4>3. CASE m \in Mutation
        <5>1. minted[m].series = process /\ minted'[m] = minted[m]
          BY <1>2, <1>7, <2>2, <4>2, <4>3
        <5>2. minted[m].n <= numbered /\ minted[m].n \in Nat
          BY <1>13, <4>3, <5>1
        <5>3. QED
          BY <1>2, <1>3, <4>2, <5>1, <5>2
      <4>4. CASE \E j \in 1..Len(q) : m = first + j
        <5>1. PICK j \in 1..Len(q) : m = first + j
          BY <4>4
        <5>2. minted'[m].n = numbered + j
          BY <1>6, <1>9, <5>1
        <5>3. j < i
          BY <1>2, <2>2, <4>1, <5>1
        <5>4. QED
          BY <1>2, <1>3, <4>2, <5>2, <5>3
      <4>5. QED
        BY <1>12, <4>3, <4>4
    <3>3. QED
      BY <1>12, <3>1, <3>2
  <2>3. ASSUME NEW m \in Mutation', minted'[m].series = process'
        PROVE  minted'[m].n <= numbered + Len(q)
    <3>1. CASE m \in Mutation
      <4>1. minted'[m] = minted[m] /\ minted[m].n <= numbered /\ minted[m].n \in Nat
        BY <1>1, <1>2, <1>7, <1>13, <2>3, <3>1
      <4>2. QED
        BY <1>2, <1>3, <4>1
    <3>2. CASE \E i \in 1..Len(q) : m = first + i
      <4>1. PICK i \in 1..Len(q) : m = first + i
        BY <3>2
      <4>2. minted'[m].n = numbered + i
        BY <1>6, <1>9, <4>1
      <4>3. QED
        BY <1>2, <1>3, <4>2
    <3>3. QED
      BY <1>12, <3>1, <3>2
  <2>4. QED
    BY <1>14, <2>1, <2>2, <2>3 DEF NumbersHold
<1>16. QED
  BY <1>2, <1>7, <1>8, <1>10, <1>11, <1>15

\* The @online mutations of k are those of e and some new ones, not answered yet.
OnlineOf(k, e, online) ==
  \A m \in DOMAIN k.online :
    \/ m \in DOMAIN e.online /\ k.online[m] = e.online[m]
    \/ m \in online /\ k.online[m] = [ack |-> -1, seen |-> FALSE]

\* The Engine with new mutations, which nothing is known of yet.
LEMMA KeptHolds ==
  ASSUME Types, minted' \in Seq(MutationType), decided' = decided, Grows,
         NEW e \in EngineType, EngineHolds(e), NEW fresh, NEW online \in SUBSET fresh,
         Mutation' = Mutation \cup fresh,
         \A m \in fresh : m \notin Mutation /\ (IsOutbox(m)' <=> m \notin online),
         NEW k \in EngineType, k.outbox = e.outbox \cup (fresh \ online), k.sent \subseteq k.outbox,
         k.acked = e.acked, k.cursor = e.cursor, k.applied = e.applied, k.frozen = e.frozen,
         OnlineOf(k, e, online)
  PROVE  EngineHolds(k)'
<1>1. /\ \A m \in Mutation : /\ m \in Mutation'
                             /\ IsOutbox(m)' <=> IsOutbox(m)
                             /\ WasRejected(m) => WasRejected(m)'
      /\ \A m, p : DecidedBy(m, p) => DecidedBy(m, p)'
  BY MintedStays, Persists DEF Types
<1>2. LogHead' = LogHead
  BY DEF LogHead, HeadAt
<1>3. e.outbox \subseteq Mutation /\ DOMAIN e.online \subseteq Mutation
  BY DEF EngineHolds
<1>4. k.outbox \subseteq {m \in Mutation : IsOutbox(m)}'
  BY <1>1 DEF EngineHolds
<1>5. DOMAIN k.online \subseteq {m \in Mutation : ~IsOutbox(m)}'
  BY <1>1, <1>3 DEF EngineHolds, OnlineOf
<1>6. \A m \in DOMAIN k.acked : DecidedBy(m, k.acked[m])'
  BY <1>1 DEF EngineHolds
<1>7. \A m \in DOMAIN k.online : /\ k.online[m].ack # -1 => DecidedBy(m, k.online[m].ack)'
                                 /\ k.online[m].seen => DecidedBy(m, k.applied)'
  BY <1>1 DEF EngineHolds, OnlineOf
<1>8. \A m \in Mutation' : IsOutbox(m)' /\ m \notin k.outbox =>
        DecidedBy(m, k.applied)' \/ WasRejected(m)'
  BY <1>1 DEF EngineHolds
<1>9. /\ k.sent \subseteq k.outbox /\ DOMAIN k.acked \subseteq k.outbox
      /\ k.applied <= k.cursor /\ k.cursor <= LogHead'
      /\ k.frozen \/ k.applied = k.cursor
  BY <1>2 DEF EngineHolds
<1>10. QED
  BY <1>4, <1>5, <1>6, <1>7, <1>8, <1>9 DEF EngineHolds

\* What the Engine hands to a connection: some of its outbox, and the new mutations.
HandedOf(e, fresh, online, S) ==
  [[e EXCEPT !.outbox = @ \cup (fresh \ online)] EXCEPT
     !.sent = @ \cup S \cup (fresh \ online),
     !.online = [m \in DOMAIN @ \cup online |->
                   IF m \in online THEN [ack |-> -1, seen |-> FALSE] ELSE @[m]]]

LEMMA HandedIs ==
  ASSUME NEW e \in EngineType, NEW fresh \in SUBSET Id, NEW online \in SUBSET fresh,
         NEW S \in SUBSET e.outbox
  PROVE  LET k == HandedOf(e, fresh, online, S) IN
         /\ k \in EngineType /\ k.outbox = e.outbox \cup (fresh \ online)
         /\ k.sent = e.sent \cup S \cup (fresh \ online)
         /\ k.acked = e.acked /\ k.cursor = e.cursor /\ k.applied = e.applied /\ k.frozen = e.frozen
         /\ OnlineOf(k, e, online)
<1> DEFINE maps == [m \in DOMAIN e.online \cup online |->
                      IF m \in online THEN [ack |-> -1, seen |-> FALSE] ELSE e.online[m]]
<1>1. DOMAIN e.online \in SUBSET Id /\ e.online \in [DOMAIN e.online -> OnlineType]
      /\ e.outbox \in SUBSET Id /\ e.sent \in SUBSET Id
  BY MapType DEF EngineType
<1>2. [ack |-> -1, seen |-> FALSE] \in OnlineType
  BY DEF OnlineType
<1>3. maps \in Maps(OnlineType)
  <2>1. DOMAIN maps \in SUBSET Id
    BY <1>1
  <2>2. maps \in [DOMAIN maps -> OnlineType]
    BY <1>1, <1>2
  <2>3. QED
    BY <2>1, <2>2, MapType
<1>4. \A m \in DOMAIN maps : \/ m \in DOMAIN e.online /\ maps[m] = e.online[m]
                             \/ m \in online /\ maps[m] = [ack |-> -1, seen |-> FALSE]
  OBVIOUS
<1>5. HandedOf(e, fresh, online, S)
        = [e EXCEPT !.outbox = @ \cup (fresh \ online), !.sent = @ \cup S \cup (fresh \ online),
                    !.online = maps]
  BY DEF HandedOf, EngineType
<1> HIDE DEF maps
<1>6. QED
  BY <1>1, <1>3, <1>4, <1>5 DEF EngineType, OnlineOf

\* What OnSubmitted does with new mutations, some of them @online.
SubmittedAs(e, new, fresh, online) ==
  \/ /\ up
     /\ \E pending \in IF resend THEN Pending(e) ELSE {<<>>} :
        \E calls \in CallsOf(pending \o new, online) :
          /\ Leaves(HandedOf(e, fresh, online, Range(pending)), NoOutcome)
          /\ sends' = IF ended THEN sends ELSE sends \o calls
          /\ outcomes' = IF ended THEN outcomes \o Fail(calls) ELSE outcomes
  \/ /\ ~up
     /\ Leaves([e EXCEPT !.outbox = @ \cup (fresh \ online)], [m \in online |-> "failed"])
     /\ UNCHANGED <<sends, outcomes>>

\* What OnSubmitted does.
LEMMA SubmittedIs ==
  ASSUME OutboxInv, OnSubmitted, NEW first \in Nat, first = Len(minted),
         NEW q \in Seq(Submission), q = submitted, NEW e \in EngineType, e = engine,
         NEW fresh, fresh = {first + i : i \in DOMAIN q},
         NEW online, online = {m \in fresh : q[m - first].kind = "online"},
         NEW new, new = [i \in DOMAIN q |-> first + i]
  PROVE  SubmittedAs(e, new, fresh, online)
<1> DEFINE numbered == Cardinality({m \in Mutation : minted[m].series = process})
           minting == [i \in DOMAIN q |-> [kind |-> q[i].kind, valid |-> q[i].valid,
                                       series |-> process, n |-> numbered + i]]
<1>1. {m \in fresh : minting[m - first].kind = "online"} = online
  <2>1. ASSUME NEW m \in fresh
        PROVE  minting[m - first].kind = q[m - first].kind
    <3>1. PICK i \in DOMAIN q : m = first + i
      OBVIOUS
    <3>2. i \in Nat
      OBVIOUS
    <3>3. m - first = i
      BY <3>1, <3>2
    <3>4. QED
      BY <3>3
  <2>2. QED
    BY <2>1
<1> DEFINE first0 == Len(minted)
           new0 == [i \in DOMAIN submitted |->
                      [kind |-> submitted[i].kind, valid |-> submitted[i].valid,
                       series |-> process, n |-> numbered + i]]
           fresh0 == {first0 + i : i \in DOMAIN submitted}
           online0 == {m \in fresh0 : new0[m - first0].kind = "online"}
           kept0 == [engine EXCEPT !.outbox = @ \cup (fresh0 \ online0)]
           handed0(pending) ==
             [kept0 EXCEPT
                !.sent = @ \cup Range(pending) \cup (fresh0 \ online0),
                !.online = [m \in DOMAIN @ \cup online0 |->
                              IF m \in online0 THEN [ack |-> -1, seen |-> FALSE] ELSE @[m]]]
           ids0(pending) == pending \o [i \in DOMAIN submitted |-> first0 + i]
<1>2. \/ /\ up
         /\ \E pending \in IF resend THEN Pending(engine) ELSE {<<>>} :
            \E calls \in CallsOf(ids0(pending), online0) :
              /\ Leaves(handed0(pending), NoOutcome)
              /\ sends' = IF ended THEN sends ELSE sends \o calls
              /\ outcomes' = IF ended THEN outcomes \o Fail(calls) ELSE outcomes
      \/ /\ ~up
         /\ Leaves(kept0, [m \in online0 |-> "failed"])
         /\ UNCHANGED <<sends, outcomes>>
  BY Zenon DEF OnSubmitted
<1>3. new0 = minting
  OBVIOUS
<1>4. first0 = first /\ fresh0 = fresh
  OBVIOUS
<1> HIDE DEF minting, new0, fresh0, first0
<1>5. online0 = online
  BY <1>1, <1>3, <1>4
<1> HIDE DEF online0
<1>6. kept0 = [e EXCEPT !.outbox = @ \cup (fresh \ online)]
  BY <1>4, <1>5
<1>7. \A p : handed0(p) = HandedOf(e, fresh, online, Range(p))
  BY <1>4, <1>5 DEF HandedOf
<1>8. \A p : ids0(p) = p \o new
  BY <1>4
<1> HIDE DEF kept0, handed0, ids0
<1>9. CASE ~up
  BY <1>2, <1>5, <1>6, <1>9 DEF SubmittedAs
<1>10. CASE up
  <2>1. PICK pending \in IF resend THEN Pending(engine) ELSE {<<>>} :
            \E calls \in CallsOf(ids0(pending), online0) :
              /\ Leaves(handed0(pending), NoOutcome)
              /\ sends' = IF ended THEN sends ELSE sends \o calls
              /\ outcomes' = IF ended THEN outcomes \o Fail(calls) ELSE outcomes
    BY <1>2, <1>10, Zenon
  <2>2. ids0(pending) = pending \o new
        /\ handed0(pending) = HandedOf(e, fresh, online, Range(pending))
    BY <1>7, <1>8
  <2>3. \E calls \in CallsOf(pending \o new, online) :
          /\ Leaves(HandedOf(e, fresh, online, Range(pending)), NoOutcome)
          /\ sends' = IF ended THEN sends ELSE sends \o calls
          /\ outcomes' = IF ended THEN outcomes \o Fail(calls) ELSE outcomes
    BY <2>1, <2>2, <1>5, Zenon
  <2>4. pending \in IF resend THEN Pending(e) ELSE {<<>>}
    OBVIOUS
  <2>5. QED
    BY <1>10, <2>3, <2>4, Zenon DEF SubmittedAs
<1>11. QED
  BY <1>9, <1>10

\* What a step numbers anew was not decided and is on no request: it is behind
\* every @online mutation of the flow.
LEMMA NewBehind ==
  ASSUME OutboxInv, Types', Grows, decided' = decided, net' = net,
         \A m \in Flow' : m \in Mutation' /\ (m \in Flow \/ m \notin Mutation \/ IsOutbox(m)')
  PROVE  OnlineAhead'
<1>1. \A x \in Mutation' : x \notin Mutation => ~WasDecided(x)' /\ \A r \in net : x \notin Range(r.ids)
  <2>1. \A i \in DOMAIN decided : decided[i].id \in Mutation
    BY DEF OutboxInv, DecisionsHold
  <2>2. \A r \in net : \A k \in DOMAIN r.ids : r.ids[k] \in Mutation
    BY DEF OutboxInv, NetHolds, RequestHolds, IsCall
  <2>3. QED
    BY <2>1, <2>2 DEF WasDecided, Decisions, Range
<1>2. \A x : WasDecided(x)' <=> WasDecided(x)
  BY DEF WasDecided, Decisions
<1>3. /\ \A m \in Mutation : IsOutbox(m)' <=> IsOutbox(m)
      /\ \A x \in Mutation', m \in Mutation : x <= m => x \in Mutation
      /\ Mutation \subseteq Nat /\ Mutation' \subseteq Nat
  <2>1. Mutation \subseteq Nat /\ Mutation' \subseteq Nat
    BY DEF OutboxInv, Types, Mutation
  <2>2. QED
    BY <2>1, MintedStays DEF OutboxInv, Types
<1>4. ASSUME NEW m \in Flow', ~IsOutbox(m)', NEW x \in Mutation', x > m
      PROVE  ~WasDecided(x)' /\ \A r \in net : x \notin Range(r.ids)
  <2>1. CASE x \notin Mutation
    BY <1>1, <2>1
  <2>2. CASE x \in Mutation
    <3>1. m \in Mutation'
      OBVIOUS
    <3>2. m <= x
      BY <1>3, <1>4, <3>1
    <3>3. m \in Mutation
      BY <1>3, <2>2, <3>1, <3>2
    <3>4. m \in Flow /\ ~IsOutbox(m)
      BY <1>3, <1>4, <3>3
    <3>5. QED
      BY <1>2, <1>4, <2>2, <3>4 DEF OutboxInv, OnlineAhead
  <2>3. QED
    BY <2>1, <2>2
<1>5. QED
  BY <1>4 DEF OnlineAhead

\* Mutations in the order of their numbers, calls of them in order, each @online one
\* alone, and what the calls carry.
Ascends(ids) == \A j, k \in DOMAIN ids : j < k => ids[j] < ids[k]
InOrder(calls) ==
  /\ \A i \in DOMAIN calls : calls[i] # <<>> /\ Ascends(calls[i])
  /\ \A i, j \in DOMAIN calls : i < j =>
       \A k \in DOMAIN calls[i], l \in DOMAIN calls[j] : calls[i][k] < calls[j][l]
Alone(calls) ==
  \A i \in DOMAIN calls : \A k \in DOMAIN calls[i] : ~IsOutbox(calls[i][k]) => Len(calls[i]) = 1
Carried(calls) == UNION {Range(calls[i]) : i \in DOMAIN calls}

\* What a pass sends again.
Resent(e) == IF resend THEN e.outbox \ (e.sent \cup DOMAIN e.acked) ELSE {}

\* The resend and the new calls go behind what the connection has still to carry.
LEMMA QueueHolds ==
  ASSUME OutboxInv, Types', Grows, decided' = decided, UNCHANGED <<net, posting, up>>,
         up, ~ended, NEW first \in Nat, Mutation = 1..first,
         NEW n \in Nat, Mutation' = 1..first + n,
         NEW fresh, fresh = first + 1..first + n,
         NEW e, e = engine, NEW old \in SUBSET e.outbox,
         old = Resent(e), NEW calls \in Seq(Ids), InOrder(calls), Alone(calls)',
         Carried(calls) = old \cup fresh,
         sends' = sends \o calls
  PROVE  SendsHold' /\ OnlineAhead' /\ Flow' = Flow \cup old \cup fresh
<1>0. /\ old = IF resend THEN e.outbox \ (e.sent \cup DOMAIN e.acked) ELSE {}
      /\ \A i \in DOMAIN calls : calls[i] # <<>>
      /\ \A i \in DOMAIN calls : \A j, k \in DOMAIN calls[i] : j < k => calls[i][j] < calls[i][k]
      /\ \A i, j \in DOMAIN calls : i < j =>
           \A k \in DOMAIN calls[i], l \in DOMAIN calls[j] : calls[i][k] < calls[j][l]
      /\ UNION {Range(calls[i]) : i \in DOMAIN calls} = old \cup fresh
      /\ \A i \in DOMAIN calls : \A k \in DOMAIN calls[i] :
           ~IsOutbox(calls[i][k])' => Len(calls[i]) = 1
  BY DEF Resent, InOrder, Alone, Carried, Ascends
<1> DEFINE s == Len(sends)
<1>1. /\ Flow \subseteq Mutation
      /\ sends \in Seq(Ids) /\ s \in Nat /\ DOMAIN sends = 1..s
      /\ \A i \in DOMAIN sends : \A k \in DOMAIN sends[i] : sends[i][k] \in SendIds
  BY FlowKnown DEF OutboxInv, Types
<1>2. /\ \A i \in DOMAIN calls : \A k \in DOMAIN calls[i] : calls[i][k] \in old \cup fresh
      /\ Len(calls) \in Nat /\ DOMAIN calls = 1..Len(calls)
  <2>1. \A i \in DOMAIN calls : \A k \in DOMAIN calls[i] :
          calls[i][k] \in UNION {Range(calls[j]) : j \in DOMAIN calls}
    BY DEF Range
  <2>2. QED
    BY <1>0, <2>1
<1>3. /\ old \subseteq Mutation
      /\ \A y \in old : IsOutbox(y)' /\ y \in Mutation' /\ resend
      /\ \A y \in fresh : y \in Mutation' /\ y \notin Mutation
  <2>1. old \subseteq {m \in Mutation : IsOutbox(m)}
    BY DEF OutboxInv, EngineHolds
  <2>2. \A y \in old : IsOutbox(y)' /\ y \in Mutation'
    BY <2>1, MintedStays DEF OutboxInv, Types
  <2>3. QED
    BY <1>0, <2>1, <2>2
<1>4. resend => Flow = {} /\ sends = <<>>
  <2> SUFFICES ASSUME resend
               PROVE  Flow = {} /\ sends = <<>>
    OBVIOUS
  <2>1. Flow = {}
    BY DEF OutboxInv, ConnectionHolds
  <2>2. \A i \in 1..s : DOMAIN sends[i] = {}
    BY <1>1, <2>1 DEF Flow
  <2>3. \A i \in 1..s : FALSE
    <3>1. \A i \in 1..s : sends[i] # <<>> /\ sends[i] \in Ids
      <4>1. \A i \in DOMAIN sends : sends[i] # <<>>
        BY DEF OutboxInv, SendsHold
      <4>2. \A i \in 1..s : i \in DOMAIN sends /\ sends[i] \in Ids
        BY <1>1
      <4>3. QED
        BY <4>1, <4>2
    <3>2. \A x \in Ids : DOMAIN x = {} => x = <<>>
      BY DEF Ids
    <3>3. QED
      BY <2>2, <3>1, <3>2
  <2>4. QED
    BY <1>1, <2>1, <2>3
<1>5. \A x \in Flow, y \in old \cup fresh : x < y
  <2>1. \A x \in Flow : x \in 1..first
    BY <1>1
  <2>2. \A y \in fresh : y \in Nat /\ first < y
    OBVIOUS
  <2>3. \A x \in Flow, y \in fresh : x < y
    BY <2>1, <2>2
  <2>4. QED
    BY <1>3, <1>4, <2>3
<1>6. /\ DOMAIN sends' = 1..s + Len(calls)
      /\ \A i \in DOMAIN sends : i \in DOMAIN sends' /\ sends'[i] = sends[i]
      /\ \A j \in DOMAIN calls : s + j \in DOMAIN sends' /\ sends'[s + j] = calls[j]
  BY <1>1, <1>2
<1>7. \A i \in DOMAIN sends' : i \in DOMAIN sends \/ \E j \in DOMAIN calls : i = s + j
  <2> SUFFICES ASSUME NEW i \in DOMAIN sends', i \notin DOMAIN sends
               PROVE  \E j \in DOMAIN calls : i = s + j
    OBVIOUS
  <2>1. i - s \in DOMAIN calls /\ i = s + (i - s)
    BY <1>1, <1>2, <1>6
  <2>2. QED
    BY <2>1
<1> HIDE DEF s
<1>8. PostIds' = PostIds /\ SendIds' = SendIds \cup old \cup fresh /\ Flow' = Flow \cup old \cup fresh
  <2>1. SendIds' = SendIds \cup old \cup fresh
    <3>1. ASSUME NEW x \in SendIds'
          PROVE  x \in SendIds \cup UNION {Range(calls[i]) : i \in DOMAIN calls}
      <4>1. PICK i \in DOMAIN sends' : x \in Range(sends'[i])
        BY <3>1 DEF SendIds
      <4>2. CASE i \in DOMAIN sends
        <5>1. x \in Range(sends[i])
          BY <1>6, <4>1, <4>2
        <5>2. QED
          BY <4>2, <5>1 DEF SendIds
      <4>3. CASE \E j \in DOMAIN calls : i = s + j
        <5>1. PICK j \in DOMAIN calls : i = s + j
          BY <4>3
        <5>2. x \in Range(calls[j])
          BY <1>6, <4>1, <5>1
        <5>3. QED
          BY <5>2
      <4>4. QED
        BY <1>7, <4>2, <4>3
    <3>2. ASSUME NEW x \in SendIds
          PROVE  x \in SendIds'
      <4>1. PICK i \in DOMAIN sends : x \in Range(sends[i])
        BY DEF SendIds
      <4>2. i \in DOMAIN sends' /\ x \in Range(sends'[i])
        BY <1>6, <4>1
      <4>3. QED
        BY <4>2 DEF SendIds
    <3>3. ASSUME NEW j \in DOMAIN calls, NEW x \in Range(calls[j])
          PROVE  x \in SendIds'
      <4>1. s + j \in DOMAIN sends' /\ x \in Range(sends'[s + j])
        BY <1>6
      <4>2. QED
        BY <4>1 DEF SendIds
    <3>4. SendIds' = SendIds \cup old \cup fresh
      BY <1>0, <3>1, <3>2, <3>3
    <3>5. QED
      BY <3>4
  <2>2. PostIds' = PostIds
    BY DEF PostIds
  <2>3. QED
    BY <2>1, <2>2 DEF Flow
<1>9. \A i \in DOMAIN sends' : sends'[i] # <<>> /\ IsCall(sends[i])'
  <2> SUFFICES ASSUME NEW i \in DOMAIN sends'
               PROVE  sends'[i] # <<>> /\ IsCall(sends[i])'
    OBVIOUS
  <2>1. PICK ids \in Ids : ids = sends'[i] /\ (i \in DOMAIN sends => ids = sends[i])
    BY <1>1, <1>6, <1>7
  <2>2. CASE i \in DOMAIN sends
    <3>1. ids # <<>> /\ IsCall(ids)
      BY <2>1, <2>2 DEF OutboxInv, SendsHold
    <3>2. IsCall(ids)'
      BY <3>1, CallStays DEF OutboxInv, Types
    <3>3. QED
      BY <2>1, <3>1, <3>2 DEF IsCall
  <2>3. CASE \E j \in DOMAIN calls : i = s + j
    <3>1. PICK j \in DOMAIN calls : i = s + j
      BY <2>3
    <3>2. sends'[i] = calls[j]
      BY <1>6, <3>1
    <3>3. \A k \in DOMAIN calls[j] : calls[j][k] \in Mutation'
      BY <1>2, <1>3
    <3>4. QED
      BY <1>0, <3>2, <3>3 DEF IsCall
  <2>4. QED
    BY <1>7, <2>2, <2>3
<1>10. ASSUME NEW i \in DOMAIN sends', NEW j \in DOMAIN sends', i < j,
              NEW k \in DOMAIN sends'[i], NEW l \in DOMAIN sends'[j]
       PROVE  sends'[i][k] < sends'[j][l]
  <2>0. i \in Nat /\ j \in Nat /\ s \in Nat
    BY <1>1, <1>2, <1>6
  <2>1. CASE j \in DOMAIN sends
    <3>1. i \in DOMAIN sends
      <4>1. \A b \in DOMAIN calls : b > 0
        BY <1>2
      <4>2. QED
        BY <1>1, <1>6, <1>10, <2>0, <2>1
    <3>2. sends'[i] = sends[i] /\ sends'[j] = sends[j]
      BY <1>6, <2>1, <3>1
    <3>3. QED
      BY <1>10, <2>1, <3>1, <3>2 DEF OutboxInv, SendsHold
  <2>2. CASE j \notin DOMAIN sends
    <3>1. PICK b \in DOMAIN calls : j = s + b
      BY <1>7, <2>2
    <3>2. sends'[j] = calls[b] /\ sends'[j][l] \in old \cup fresh
      BY <1>2, <1>6, <3>1
    <3>3. CASE i \in DOMAIN sends
      <4>1. sends'[i][k] \in Flow
        BY <1>1, <1>6, <3>3 DEF Flow
      <4>2. QED
        BY <1>5, <3>2, <4>1
    <3>4. CASE i \notin DOMAIN sends
      <4>1. PICK a \in DOMAIN calls : i = s + a
        BY <1>7, <3>4
      <4>2. a < b
        BY <1>2, <1>10, <2>0, <3>1, <4>1
      <4>3. sends'[i] = calls[a]
        BY <1>6, <4>1
      <4>4. QED
        BY <1>0, <3>2, <4>2, <4>3
    <3>5. QED
      BY <3>3, <3>4
  <2>3. QED
    BY <2>1, <2>2
<1>11. \A x \in PostIds', y \in SendIds' : x < y
  BY <1>5, <1>8 DEF OutboxInv, SendsHold, Flow
<1>12. \A y \in Mutation' : IsOutbox(y)' => Done(y)' \/ y \in Flow'
  <2> SUFFICES ASSUME NEW y \in Mutation', IsOutbox(y)', y \notin Flow'
               PROVE  Done(y)'
    OBVIOUS
  <2>1. y \in Mutation
    BY <1>8
  <2>2. IsOutbox(y) /\ (Done(y) => Done(y)')
    BY <2>1, MintedStays, Persists DEF OutboxInv, Types
  <2>3. y \notin Flow /\ y \notin old
    BY <1>8
  <2>4. CASE y \notin engine.outbox
    <3>1. DecidedBy(y, engine.applied) \/ WasRejected(y)
      BY <2>1, <2>2, <2>4 DEF OutboxInv, EngineHolds
    <3>2. QED
      BY <2>2, <3>1 DEF Done, DecidedBy, WasDecided, WasRejected
  <2>5. CASE y \in engine.sent
    BY <2>2, <2>3, <2>5 DEF OutboxInv, ConnectionHolds
  <2>6. CASE y \in DOMAIN engine.acked
    <3>1. DecidedBy(y, engine.acked[y])
      BY <2>6 DEF OutboxInv, EngineHolds
    <3>2. QED
      BY <2>2, <3>1 DEF Done, DecidedBy, WasDecided
  <2>7. CASE y \in engine.outbox /\ y \notin engine.sent /\ y \notin DOMAIN engine.acked
    <3>1. resend
      BY <2>7 DEF OutboxInv, ConnectionHolds
    <3>2. QED
      BY <1>0, <2>3, <2>7, <3>1
  <2>8. QED
    BY <2>4, <2>5, <2>6, <2>7
<1>13. \A x \in SendIds' : Cleared(x, Flow)'
  BY <1>12 DEF Cleared
<1>14. SendsHold'
  BY <1>9, <1>10, <1>11, <1>13 DEF SendsHold
<1>15. OnlineAhead'
  <2>1. \A m \in Flow' : m \in Mutation' /\ (m \in Flow \/ m \notin Mutation \/ IsOutbox(m)')
    <3>1. Mutation \subseteq Mutation'
      BY MintedStays DEF OutboxInv, Types
    <3>2. QED
      BY <1>1, <1>3, <1>8, <3>1
  <2>2. QED
    BY <2>1, NewBehind
<1>16. QED
  BY <1>8, <1>14, <1>15

\* The mutations a pass sends: those of the resend, and behind them the new ones.
LEMMA SentAre ==
  ASSUME NEW old \in SUBSET Id, IsFiniteSet(old), NEW new \in Ids, Ascends(new),
         \A x \in old, y \in Range(new) : x < y,
         NEW pending, pending \in Ascending(old) \/ (old = {} /\ pending = <<>>)
  PROVE  /\ pending \o new \in Ids /\ Ascends(pending \o new)
         /\ Range(pending) = old /\ Range(pending \o new) = old \cup Range(new)
<1> DEFINE ids == pending \o new
           p == Len(pending)
           n == Len(new)
<1>1. /\ pending \in Seq(old) /\ pending \in Ids /\ Range(pending) = old
      /\ \A j, k \in DOMAIN pending : j < k => pending[j] < pending[k]
  <2>1. CASE pending \in Ascending(old)
    BY <2>1, AscendingIs
  <2>2. CASE old = {} /\ pending = <<>>
    BY <2>2 DEF Range, Ids
  <2>3. QED
    BY <2>1, <2>2
<1>2. /\ p \in Nat /\ DOMAIN pending = 1..p /\ n \in Nat /\ DOMAIN new = 1..n
      /\ \A j \in 1..p : pending[j] \in old
      /\ \A j \in 1..n : new[j] \in Range(new)
  BY <1>1 DEF Ids, Range
<1>3. /\ ids \in Ids /\ DOMAIN ids = 1..p + n
      /\ \A j \in 1..p : j \in DOMAIN ids /\ ids[j] = pending[j]
      /\ \A j \in 1..n : p + j \in DOMAIN ids /\ ids[p + j] = new[j]
  <2>1. ids \in Ids /\ Len(ids) = p + n
    BY <1>1 DEF Ids
  <2>2. DOMAIN ids = 1..p + n
    BY <2>1 DEF Ids
  <2>3. \A j \in 1..p : j \in DOMAIN ids /\ ids[j] = pending[j]
    BY <1>1, <1>2 DEF Ids
  <2>4. \A j \in 1..n : p + j \in DOMAIN ids /\ ids[p + j] = new[j]
    BY <1>1, <1>2 DEF Ids
  <2>5. QED
    BY <2>1, <2>2, <2>3, <2>4
<1> HIDE DEF ids, p, n
<1>4. \A k \in DOMAIN ids : k \in 1..p \/ (\E j \in 1..n : k = p + j)
  <2> SUFFICES ASSUME NEW k \in DOMAIN ids, k \notin 1..p
               PROVE  \E j \in 1..n : k = p + j
    OBVIOUS
  <2>1. k - p \in 1..n /\ k = p + (k - p)
    BY <1>2, <1>3
  <2>2. QED
    BY <2>1
<1>5. ASSUME NEW j \in DOMAIN ids, NEW k \in DOMAIN ids, j < k
      PROVE  ids[j] < ids[k]
  <2>1. j \in Nat /\ k \in Nat
    BY <1>2, <1>3
  <2>2. CASE k \in 1..p
    <3>1. j \in 1..p
      BY <1>2, <1>3, <1>5, <2>1, <2>2
    <3>2. QED
      BY <1>1, <1>2, <1>3, <1>5, <2>2, <3>1
  <2>3. CASE \E b \in 1..n : k = p + b
    <3>1. PICK b \in 1..n : k = p + b
      BY <2>3
    <3>2. ids[k] = new[b]
      BY <1>3, <3>1
    <3>3. CASE j \in 1..p
      BY <1>2, <1>3, <3>2, <3>3
    <3>4. CASE \E a \in 1..n : j = p + a
      <4>1. PICK a \in 1..n : j = p + a
        BY <3>4
      <4>2. a < b
        BY <1>2, <1>5, <3>1, <4>1
      <4>3. ids[j] = new[a]
        BY <1>3, <4>1
      <4>4. QED
        BY <1>2, <3>2, <4>2, <4>3 DEF Ascends
    <3>5. QED
      BY <1>4, <3>3, <3>4
  <2>4. QED
    BY <1>4, <2>2, <2>3
<1>6. Range(ids) = old \cup Range(new)
  <2>1. ASSUME NEW k \in DOMAIN ids
        PROVE  ids[k] \in old \cup Range(new)
    <3>1. CASE k \in 1..p
      BY <1>2, <1>3, <3>1
    <3>2. CASE \E j \in 1..n : k = p + j
      BY <1>2, <1>3, <3>2
    <3>3. QED
      BY <1>4, <3>1, <3>2
  <2>2. ASSUME NEW x \in old
        PROVE  x \in Range(ids)
    <3>1. PICK j \in DOMAIN pending : pending[j] = x
      BY <1>1 DEF Range
    <3>2. j \in DOMAIN ids /\ ids[j] = x
      BY <1>2, <1>3, <3>1
    <3>3. QED
      BY <3>2 DEF Range
  <2>3. ASSUME NEW x \in Range(new)
        PROVE  x \in Range(ids)
    <3>1. PICK j \in 1..n : new[j] = x
      BY <1>2 DEF Range
    <3>2. p + j \in DOMAIN ids /\ ids[p + j] = x
      BY <1>3, <3>1
    <3>3. QED
      BY <3>2 DEF Range
  <2>4. QED
    BY <2>1, <2>2, <2>3 DEF Range
<1>7. QED
  BY <1>1, <1>3, <1>5, <1>6 DEF ids, Ascends

\* What the Engine and the app know after the submissions, and what is on its way
\* besides them.
LEMMA SubmittedLeaves ==
  ASSUME OutboxInv, OnSubmitted, minted' \in Seq(MutationType), Grows,
         sends' \in Seq(Ids), outcomes' \in Seq(OutcomeType),
         NEW k \in EngineType, EngineHolds(k)', k.applied = engine.applied,
         NEW outcome \in Maps({"reject", "failed"}), Leaves(k, outcome),
         \A m \in DOMAIN outcome : /\ m \in Mutation' /\ ~IsOutbox(m)'
                                   /\ outcome[m] = "reject" => WasRejected(m)'
  PROVE  /\ Types' /\ EngineHolds(engine)' /\ SettledHolds' /\ NetHolds' /\ PostHolds'
         /\ engine'.outbox = k.outbox /\ engine'.sent = k.sent /\ engine'.acked = k.acked
<1>1. /\ Types /\ UNCHANGED <<decided, net, process, up, ending, ended, posting>>
      /\ submitted' = <<>> /\ resend' = FALSE
  BY DEF OutboxInv, OnSubmitted
<1>2. PICK f \in Maps({"ok", "reject", "failed"}) : f = settled
  BY <1>1 DEF Types
<1>3. /\ engine' \in EngineType /\ settled' \in Maps({"ok", "reject", "failed"})
      /\ engine'.outbox = k.outbox /\ engine'.sent = k.sent /\ engine'.acked = k.acked
  BY <1>1, LeavesIs DEF Types
<1>4. Types'
  <2>1. <<>> \in Seq(Submission)
    OBVIOUS
  <2>2. QED
    BY <1>1, <1>3, <2>1 DEF Types
<1>5. SettledBy(f, k.applied)'
  <2>1. PICK p \in Nat : p = k.applied
    BY DEF EngineType
  <2>2. SettledBy(f, p)
    BY <1>2, <2>1 DEF OutboxInv, SettledHolds
  <2>3. SettledBy(f, p)'
    BY <1>1, <1>4, <2>2, SettledStays DEF Types
  <2>4. QED
    BY <2>1, <2>3
<1>6. EngineHolds(engine)' /\ SettledHolds'
  BY <1>2, <1>4, <1>5, LeavesHolds DEF Types
<1>7. NetHolds' /\ PostHolds'
  BY <1>1, <1>4, NetStays, PostStays DEF OutboxInv
<1>8. QED
  BY <1>3, <1>4, <1>6, <1>7

\* The submissions of a client without a connection: its @online mutations fail.
LEMMA OfflineHolds ==
  ASSUME OutboxInv, OnSubmitted, ~up,
         minted' \in Seq(MutationType), Grows, NumbersHold', DecisionsHold',
         NEW e \in EngineType, e = engine, NEW fresh \in SUBSET Id,
         Mutation' = Mutation \cup fresh, NEW online \in SUBSET fresh,
         \A m \in fresh : m \notin Mutation /\ (IsOutbox(m)' <=> m \notin online),
         Leaves([e EXCEPT !.outbox = @ \cup (fresh \ online)], [m \in online |-> "failed"]),
         UNCHANGED <<sends, outcomes>>
  PROVE  OutboxInv'
<1> DEFINE outcome == [m \in online |-> "failed"]
<1>1. PICK k \in EngineType : k = [e EXCEPT !.outbox = @ \cup (fresh \ online)]
  BY DEF EngineType
<1>2. /\ k.outbox = e.outbox \cup (fresh \ online) /\ k.sent = e.sent /\ k.acked = e.acked
      /\ k.online = e.online /\ k.cursor = e.cursor /\ k.applied = e.applied /\ k.frozen = e.frozen
  BY <1>1 DEF EngineType
<1>3. EngineHolds(e) /\ e.sent \subseteq e.outbox
  BY DEF OutboxInv, EngineHolds
<1>4. decided' = decided
  BY DEF OnSubmitted
<1>5. EngineHolds(k)'
  <2>1. OnlineOf(k, e, online)
    BY <1>2 DEF OnlineOf
  <2>2. Types
    BY DEF OutboxInv
  <2>3. QED
    BY <1>2, <1>3, <1>4, <2>1, <2>2, KeptHolds
<1>6. outcome \in Maps({"reject", "failed"})
  <2>1. DOMAIN outcome \in SUBSET Id /\ outcome \in [DOMAIN outcome -> {"reject", "failed"}]
    OBVIOUS
  <2>2. QED
    BY <2>1, MapType
<1>7. \A m \in DOMAIN outcome : /\ m \in Mutation' /\ ~IsOutbox(m)'
                                /\ outcome[m] = "reject" => WasRejected(m)'
  OBVIOUS
<1>8. Leaves(k, outcome)
  BY <1>1
<1>9. sends' \in Seq(Ids) /\ outcomes' \in Seq(OutcomeType)
  BY DEF OutboxInv, Types
<1> HIDE DEF outcome
<1>10. /\ Types' /\ EngineHolds(engine)' /\ SettledHolds' /\ NetHolds' /\ PostHolds'
       /\ engine'.sent = k.sent
  BY <1>2, <1>5, <1>6, <1>7, <1>8, <1>9, SubmittedLeaves
<1>11. UNCHANGED <<net, posting, up, ending, ended>> /\ resend' = FALSE
  BY DEF OnSubmitted
<1>12. sends = <<>> /\ posting = NoPost /\ e.sent = {} /\ ~ending
  BY DEF OutboxInv, SendsHold, PostHolds, ConnectionHolds
<1>13. Flow' = {}
  BY <1>11, <1>12 DEF Flow, PostIds, SendIds
<1>14. SendsHold'
  BY <1>10, <1>11, SendsStay DEF OutboxInv
<1>15. OnlineAhead' /\ ConnectionHolds'
  BY <1>2, <1>10, <1>11, <1>12, <1>13 DEF OnlineAhead, ConnectionHolds
<1>16. \A i \in DOMAIN outcomes' : OutcomeHolds(outcomes[i])'
  BY <1>10, OutcomesStay DEF OutboxInv
<1>17. QED
  BY <1>10, <1>14, <1>15, <1>16 DEF OutboxInv

LEMMA OnSubmittedHolds ==
  ASSUME OutboxInv, OnSubmitted
  PROVE  OutboxInv'
<1>1. PICK first \in Nat, q \in Seq(Submission), e \in EngineType :
        first = Len(minted) /\ q = submitted /\ e = engine
  BY DEF OutboxInv, Types
<1>1a. PICK fresh : fresh = {first + i : i \in DOMAIN q}
  OBVIOUS
<1>1b. PICK online : online = {m \in fresh : q[m - first].kind = "online"}
  OBVIOUS
<1>2. PICK n \in Nat : n = Len(q) /\ DOMAIN q = 1..n
  BY <1>1
<1>3. /\ minted' \in Seq(MutationType) /\ Grows
      /\ Mutation = 1..first /\ Mutation' = 1..first + n
      /\ NumbersHold' /\ DecisionsHold'
      /\ \A i \in 1..n : IsOutbox(first + i)' <=> q[i].kind = "outbox"
  BY <1>1, <1>2, MintsHold
<1>4. fresh = first + 1..first + n
  <2>1. \A i \in 1..n : first + i \in first + 1..first + n
    OBVIOUS
  <2>2. \A m \in first + 1..first + n : m - first \in 1..n /\ m = first + (m - first)
    OBVIOUS
  <2>3. QED
    BY <1>1a, <1>2, <2>1, <2>2
<1>5. /\ fresh \in SUBSET Id /\ online \in SUBSET fresh
      /\ Mutation' = Mutation \cup fresh
  BY <1>1b, <1>3, <1>4 DEF Id
<1>6. \A m \in fresh : m \notin Mutation /\ (IsOutbox(m)' <=> m \notin online)
  <2> SUFFICES ASSUME NEW m \in fresh
               PROVE  m \notin Mutation /\ (IsOutbox(m)' <=> m \notin online)
    OBVIOUS
  <2>1. PICK i \in 1..n : m = first + i
    BY <1>1a, <1>2
  <2>2. m \notin Mutation /\ m - first = i
    BY <1>3, <2>1
  <2>3. IsOutbox(m)' <=> q[i].kind = "outbox"
    BY <1>3, <2>1
  <2>4. q[i].kind \in {"outbox", "online"}
    <3>1. q[i] \in Submission
      BY <1>2
    <3>2. QED
      BY <3>1 DEF Submission
  <2>5. QED
    BY <1>1b, <2>2, <2>3, <2>4
<1>6a. PICK new : new = [i \in DOMAIN q |-> first + i]
  OBVIOUS
<1>7. SubmittedAs(e, new, fresh, online)
  BY <1>1, <1>1a, <1>1b, <1>6a, SubmittedIs
<1>8. CASE ~up
  BY <1>1, <1>3, <1>5, <1>6, <1>7, <1>8, OfflineHolds DEF SubmittedAs
<1>9. CASE up
  <2>1. PICK pending \in IF resend THEN Pending(e) ELSE {<<>>} :
          \E calls \in CallsOf(pending \o new, online) :
            /\ Leaves(HandedOf(e, fresh, online, Range(pending)), NoOutcome)
            /\ sends' = IF ended THEN sends ELSE sends \o calls
            /\ outcomes' = IF ended THEN outcomes \o Fail(calls) ELSE outcomes
    BY <1>7, <1>9, Zenon DEF SubmittedAs
  <2>1a. PICK old : old = Resent(e)
    OBVIOUS
  <2>1b. PICK ids : ids = pending \o new
    OBVIOUS
  <2>2. e.outbox \subseteq Mutation /\ EngineHolds(e) /\ e.sent \subseteq e.outbox
    BY <1>1 DEF OutboxInv, EngineHolds
  <2>3. old \in SUBSET (1..first) /\ old \in SUBSET e.outbox
    BY <1>3, <2>1a, <2>2 DEF Resent
  <2>4. pending \in Ascending(old) \/ (old = {} /\ pending = <<>>)
    BY <2>1, <2>1a DEF Pending, Resent
  <2>5. /\ ids \in Ids /\ Ascends(ids)
        /\ Range(pending) = old /\ Range(ids) = old \cup fresh
    <3>1. new \in Ids /\ Len(new) = n /\ DOMAIN new = 1..n /\ \A i \in 1..n : new[i] = first + i
      <4>1. \A i \in 1..n : first + i \in Id
        BY DEF Id
      <4>2. QED
        BY <1>2, <1>6a, <4>1 DEF Ids
    <3>2. Range(new) = fresh
      <4>1. Range(new) = {first + i : i \in 1..n}
        BY <3>1 DEF Range
      <4>2. QED
        BY <1>1a, <1>2, <4>1
    <3>3. Ascends(new)
      BY <3>1 DEF Ascends
    <3>4. \A x \in old, y \in Range(new) : x < y
      BY <1>4, <2>3, <3>2
    <3>5. old \in SUBSET Id /\ IsFiniteSet(old)
      <4>1. IsFiniteSet(1..first)
        BY FS_Interval
      <4>2. IsFiniteSet(old)
        BY <2>3, <4>1, FS_Subset
      <4>3. QED
        BY <2>3, <4>2 DEF Id
    <3>6. QED
      BY <2>1b, <2>4, <3>1, <3>2, <3>3, <3>4, <3>5, SentAre
  <2>6. PICK calls \in CallsOf(ids, online) :
            /\ Leaves(HandedOf(e, fresh, online, old), NoOutcome)
            /\ sends' = IF ended THEN sends ELSE sends \o calls
            /\ outcomes' = IF ended THEN outcomes \o Fail(calls) ELSE outcomes
    BY <2>1, <2>1b, <2>5, Zenon
  <2>7. /\ calls \in Seq(Ids)
        /\ InOrder(calls) /\ Carried(calls) = old \cup fresh
        /\ \A i \in DOMAIN calls : \A k \in DOMAIN calls[i] :
             calls[i][k] \in online => Len(calls[i]) = 1
    BY <2>5, CallsOfIs DEF InOrder, Carried, Ascends
  <2>8. PICK k \in EngineType :
          /\ k = HandedOf(e, fresh, online, old) /\ k.outbox = e.outbox \cup (fresh \ online)
          /\ k.sent = e.sent \cup old \cup (fresh \ online)
          /\ k.acked = e.acked /\ k.cursor = e.cursor /\ k.applied = e.applied /\ k.frozen = e.frozen
          /\ OnlineOf(k, e, online)
    <3> DEFINE h == HandedOf(e, fresh, online, old)
    <3>1. /\ h \in EngineType /\ h.outbox = e.outbox \cup (fresh \ online)
          /\ h.sent = e.sent \cup old \cup (fresh \ online)
          /\ h.acked = e.acked /\ h.cursor = e.cursor /\ h.applied = e.applied /\ h.frozen = e.frozen
          /\ OnlineOf(h, e, online)
      <4>1. fresh \in SUBSET Id
        BY <1>5
      <4>2. online \in SUBSET fresh
        BY <1>5
      <4>3. old \in SUBSET e.outbox
        BY <2>3
      <4>4. QED
        BY <4>1, <4>2, <4>3, HandedIs
    <3> HIDE DEF h
    <3>2. QED
      BY <3>1 DEF h
  <2>9. /\ UNCHANGED <<decided, net, posting, up, ending, ended>> /\ resend' = FALSE
    BY DEF OnSubmitted
  <2>10. EngineHolds(k)'
    <3>1. k.sent \subseteq k.outbox
      BY <2>2, <2>3, <2>8
    <3>2. Types /\ decided' = decided
      BY <2>9 DEF OutboxInv
    <3>3. QED
      BY <1>3, <1>5, <1>6, <2>2, <2>8, <3>1, <3>2, KeptHolds
  <2>11. \A i \in DOMAIN calls : \A l \in DOMAIN calls[i] :
           /\ calls[i][l] \in old \cup fresh /\ calls[i][l] \in Mutation'
           /\ ~IsOutbox(calls[i][l])' => Len(calls[i]) = 1
    <3>1. \A i \in DOMAIN calls : \A l \in DOMAIN calls[i] : calls[i][l] \in old \cup fresh
      <4>1. \A i \in DOMAIN calls : \A l \in DOMAIN calls[i] :
              calls[i][l] \in Carried(calls)
        BY DEF Range, Carried
      <4>2. QED
        BY <2>7, <4>1
    <3>2. \A m \in old : m \in Mutation' /\ IsOutbox(m)'
      BY <1>3, <2>2, <2>3, MintedStays DEF OutboxInv, Types, EngineHolds
    <3>3. \A m \in fresh : m \in Mutation' /\ (~IsOutbox(m)' => m \in online)
      BY <1>5, <1>6
    <3>4. QED
      BY <2>7, <3>1, <3>2, <3>3
  <2>12. sends' \in Seq(Ids)
    BY <2>6, <2>7 DEF OutboxInv, Types
  <2>13. /\ outcomes' \in Seq(OutcomeType)
         /\ ended => \A i \in DOMAIN outcomes' : OutcomeHolds(outcomes[i])'
    <3>1. /\ Fail(calls) \in Seq(OutcomeType)
          /\ DOMAIN Fail(calls) = DOMAIN calls
          /\ \A i \in DOMAIN calls : Fail(calls)[i].ids = calls[i] /\ Fail(calls)[i].answers = <<>>
      <4>1. \A i \in DOMAIN calls : calls[i] \in Ids
        BY <2>7
      <4>2. \A i \in DOMAIN calls : Fail(calls)[i] \in OutcomeType
        BY <4>1 DEF Fail, OutcomeType
      <4>3. QED
        BY <2>7, <4>2 DEF Fail
    <3>2. outcomes \in Seq(OutcomeType)
      BY DEF OutboxInv, Types
    <3>3. outcomes' \in Seq(OutcomeType)
      BY <2>6, <3>1, <3>2
    <3>4. ASSUME ended, NEW i \in DOMAIN outcomes'
          PROVE  OutcomeHolds(outcomes[i])'
      <4>1. outcomes' = outcomes \o Fail(calls)
        BY <2>6, <3>4
      <4>2. CASE i \in DOMAIN outcomes
        <5>1. PICK o \in OutcomeType : o = outcomes[i]
          BY <3>2, <4>2
        <5>2. OutcomeHolds(o)
          BY <4>2, <5>1 DEF OutboxInv
        <5>3. OutcomeHolds(o)'
          BY <1>3, <2>9, <5>2, OutcomeStays DEF OutboxInv, Types
        <5>4. outcomes'[i] = o
          BY <3>1, <3>2, <4>1, <4>2, <5>1
        <5>5. QED
          BY <5>3, <5>4 DEF OutcomeHolds
      <4>3. CASE i \notin DOMAIN outcomes
        <5>1. PICK j \in DOMAIN calls : outcomes'[i] = Fail(calls)[j]
          <6>1. i - Len(outcomes) \in DOMAIN Fail(calls)
                /\ outcomes'[i] = Fail(calls)[i - Len(outcomes)]
            BY <3>1, <3>2, <4>1, <4>3
          <6>2. QED
            BY <3>1, <6>1
        <5>2. outcomes'[i].ids = calls[j] /\ outcomes'[i].answers = <<>> /\ calls[j] \in Ids
          BY <2>7, <3>1, <5>1
        <5>3. Len(<<>>) <= Len(calls[j])
          BY <5>2 DEF Ids
        <5>4. QED
          BY <2>11, <5>2, <5>3 DEF OutcomeHolds
      <4>4. QED
        BY <4>2, <4>3
    <3>5. QED
      BY <3>3, <3>4
  <2>14. /\ Types' /\ EngineHolds(engine)' /\ SettledHolds' /\ NetHolds' /\ PostHolds'
         /\ engine'.outbox = k.outbox /\ engine'.sent = k.sent /\ engine'.acked = k.acked
    BY <1>1, <1>3, <2>6, <2>8, <2>10, <2>12, <2>13, NoOutcomeType, SubmittedLeaves
  <2>15. \A i \in DOMAIN outcomes' : OutcomeHolds(outcomes[i])'
    <3>1. CASE ~ended
      BY <1>3, <2>6, <2>14, <3>1, OutcomesStay DEF OutboxInv
    <3>2. QED
      BY <2>13, <3>1
  <2>16. SendsHold' /\ OnlineAhead' /\ Flow \subseteq Flow'
         /\ (~ended => old \cup fresh \subseteq Flow')
    <3>1. CASE ended
      <4>1. sends' = sends
        BY <2>6, <3>1
      <4>2. SendsHold'
        BY <1>3, <2>9, <2>14, <4>1, SendsStay DEF OutboxInv
      <4>3. Flow' = Flow
        BY <2>9, <4>1 DEF Flow, PostIds, SendIds
      <4>4. OnlineAhead'
        <5>1. Flow \subseteq Mutation /\ Mutation \subseteq Mutation'
          BY <1>5, FlowKnown DEF OutboxInv
        <5>2. QED
          BY <1>3, <2>9, <2>14, <4>3, <5>1, NewBehind
      <4>5. QED
        BY <3>1, <4>2, <4>3, <4>4
    <3>2. CASE ~ended
      <4>1. sends' = sends \o calls
        BY <2>6, <3>2
      <4>2. Alone(calls)'
        BY <2>11 DEF Alone
      <4>4. SendsHold' /\ OnlineAhead' /\ Flow' = Flow \cup old \cup fresh
        <5>1. decided' = decided /\ UNCHANGED <<net, posting, up>> /\ Types'
          BY <2>9, <2>14
        <5>2. e = engine /\ Grows /\ Mutation = 1..first /\ Mutation' = 1..first + n
          BY <1>1, <1>3
        <5>3. QED
          BY <1>4, <1>9, <2>3, <2>7, <3>2, <2>1a, <4>1, <4>2, <5>1, <5>2, QueueHolds
      <4>5. QED
        BY <4>4
    <3>3. QED
      BY <3>1, <3>2
  <2>17. ConnectionHolds'
    <3>1. \A m \in engine'.sent : Done(m)' \/ m \in Flow' \/ ended'
      <4>1. \A m \in e.sent : m \in Mutation /\ (Done(m) \/ m \in Flow \/ ended)
        BY <1>1, <2>2 DEF OutboxInv, ConnectionHolds
      <4>2. \A m \in e.sent : Done(m)' \/ m \in Flow' \/ ended'
        BY <1>3, <2>9, <2>14, <2>16, <4>1, Persists DEF OutboxInv, Types
      <4>3. QED
        BY <2>8, <2>9, <2>14, <2>16, <4>2
    <3>2. engine'.outbox \subseteq engine'.sent \cup DOMAIN engine'.acked
      <4>1. e.outbox \subseteq e.sent \cup DOMAIN e.acked \cup old
        BY <1>1, <1>9, <2>1a DEF OutboxInv, ConnectionHolds, Resent
      <4>2. QED
        BY <2>8, <2>14, <4>1
    <3>3. ending' => up' /\ ended'
      BY <2>9 DEF OutboxInv, ConnectionHolds
    <3>4. QED
      BY <1>9, <2>9, <3>1, <3>2, <3>3 DEF ConnectionHolds
  <2>18. QED
    BY <1>3, <2>14, <2>15, <2>16, <2>17 DEF OutboxInv
<1>10. QED
  BY <1>8, <1>9

-----------------------------------------------------------------------------
(* The theorems.                                                           *)

LEMMA StutterHolds ==
  ASSUME OutboxInv, UNCHANGED vars
  PROVE  OutboxInv'
<1>1. Untouched /\ UNCHANGED <<up, engine, settled, outcomes, resend, ending, ended, submitted>>
  BY DEF vars, passes, connection, Untouched
<1>2. Types'
  BY <1>1 DEF OutboxInv, Types, Untouched, database
<1>3. /\ NumbersHold' /\ DecisionsHold' /\ NetHolds' /\ PostHolds' /\ SendsHold' /\ OnlineAhead'
      /\ Grows /\ Mutation' = Mutation
  BY <1>1, <1>2, TransportStays
<1>4. EngineHolds(engine)' /\ SettledHolds'
  BY <1>1, <1>2, <1>3, EngineSame DEF OutboxInv
<1>5. \A i \in DOMAIN outcomes' : OutcomeHolds(outcomes[i])'
  BY <1>1, <1>2, <1>3, OutcomesStay DEF OutboxInv
<1>6. ConnectionHolds'
  <2>1. Flow' = Flow
    BY <1>1 DEF Untouched, Flow, PostIds, SendIds
  <2>2. QED
    BY <1>1, <1>2, <1>3, <2>1, ConnectionStays DEF OutboxInv, Follows, Trims, ConnectionHolds
<1>7. QED
  BY <1>2, <1>3, <1>4, <1>5, <1>6 DEF OutboxInv

LEMMA NextHolds ==
  ASSUME OutboxInv, [Next]_vars
  PROVE  OutboxInv'
<1>1. CASE Submits
  BY <1>1, SubmitHolds DEF Submits
<1>2. CASE Decides
  BY <1>2, DecideHolds DEF Decides
<1>3. CASE Feed
  BY <1>3, FeedNextHolds DEF Feed
<1>4. CASE Freeze
  BY <1>4, FreezeHolds
<1>5. CASE Land
  BY <1>5, LandHolds
<1>6. CASE Passes
  BY <1>6, OnSubmittedHolds, OnEndHolds, OnMutationOutcomesHolds, OnConnectHolds DEF Passes
<1>7. CASE Transport
  BY <1>7, PumpHolds, ReplyHolds DEF Transport
<1>8. CASE Fault
  BY <1>8, PostFailsHolds, StreamEndsHolds, RestartHolds DEF Fault
<1>9. CASE UNCHANGED vars
  BY <1>9, StutterHolds
<1>10. QED
  BY <1>1, <1>2, <1>3, <1>4, <1>5, <1>6, <1>7, <1>8, <1>9 DEF Next

\* The invariant holds of every behaviour: the Engine's passes, the send queue, the
\* requests on the wire and the database's answers keep it, whatever is lost or late
\* (skeleton.ts, http.ts, server.rs).
THEOREM OutboxInvariance == Spec => []OutboxInv
<1>1. Init => OutboxInv
  BY InitHolds
<1>2. OutboxInv /\ [Next]_vars => OutboxInv'
  BY NextHolds
<1>3. QED
  BY <1>1, <1>2, PTL DEF Spec

\* One request is awaited while a call is in flight, and none otherwise.
LEMMA AwaitedOne ==
  ASSUME OutboxInv
  PROVE  Cardinality({r \in net : r.awaited}) = IF posting = NoPost THEN 0 ELSE 1
<1> DEFINE A == {r \in net : r.awaited}
<1>1. CASE posting = NoPost
  <2>1. A = {}
    BY <1>1 DEF OutboxInv, NetHolds
  <2>2. QED
    BY <1>1, <2>1, FS_EmptySet
<1>2. CASE posting # NoPost
  <2>1. PICK r \in net : r.awaited
    BY <1>2 DEF OutboxInv, NetHolds
  <2>2. A = {r}
    BY <2>1 DEF OutboxInv, NetHolds
  <2>3. Cardinality({r}) = 1
    BY FS_Singleton
  <2>4. QED
    BY <1>2, <2>2, <2>3
<1>3. QED
  BY <1>1, <1>2

LEMMA InvDecided ==
  ASSUME OutboxInv
  PROVE  DecidedOnceInOrder
<1>1. TypeOK
  <2>1. /\ engine.outbox \subseteq {m \in Mutation : IsOutbox(m)}
        /\ engine.sent \subseteq engine.outbox /\ DOMAIN engine.acked \subseteq engine.outbox
        /\ DOMAIN engine.online \subseteq Mutation \ engine.outbox
        /\ engine.applied <= engine.cursor /\ engine.cursor <= LogHead
        /\ engine.frozen \/ engine.applied = engine.cursor
    BY DEF OutboxInv, EngineHolds
  <2>2. ending => up /\ ended
    BY DEF OutboxInv, ConnectionHolds
  <2>3. QED
    BY <2>1, <2>2, AwaitedOne DEF TypeOK
<1>2. NothingSkipped
  BY DEF OutboxInv, EngineHolds, SettledHolds, SettledBy, NothingSkipped, DecidedBy, WasDecided
<1>3. QED
  BY <1>1, <1>2 DEF OutboxInv, DecisionsHold, DecidedOnceInOrder

\* The outbox is decided in the order it was submitted, each mutation once, with none
\* passed over, however its requests are lost, late, split or resent, by a connection
\* or by a later process (http.ts #pump, server.rs decide).
THEOREM OutboxDecidedOnce == Spec => []DecidedOnceInOrder
<1>1. OutboxInv => DecidedOnceInOrder
  BY InvDecided
<1>2. QED
  BY <1>1, OutboxInvariance, PTL

\* A mutation leaves the outbox only once queries show its outcome or the database
\* refused it, in this process or a later one (skeleton.ts #releaseIn).
THEOREM OutboxLeavesShown == Spec => []LeavesOnlyShown
<1>1. OutboxInv => LeavesOnlyShown
  BY DEF OutboxInv, EngineHolds, LeavesOnlyShown, DecidedBy, Shown
<1>2. QED
  BY <1>1, OutboxInvariance, PTL

\* An @online mutation resolves ok only once its outcome shows, and reject only when
\* it made no edit (skeleton.ts #settleOnline).
THEOREM OutboxTellsTruth == Spec => []OnlineTellsTheTruth
<1>1. OutboxInv => OnlineTellsTheTruth
  BY DEF OutboxInv, SettledHolds, SettledBy, OnlineTellsTheTruth, DecidedBy, Shown
<1>2. QED
  BY <1>1, OutboxInvariance, PTL
=============================================================================
