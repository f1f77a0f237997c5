----------------------------- MODULE PoolProofs -----------------------------
(***************************************************************************)
(* Theorems about Pool, for any calls, workers and length of the queue.    *)
(*                                                                         *)
(* That no place is lost counts permits, calls and jobs.  Beside the count *)
(* the invariant says where each job is: in the queue once, or in one      *)
(* worker's hand, as its state tells, and what a call's state tells of its *)
(* job, so that each step moves one call or one job between two states.    *)
(***************************************************************************)
EXTENDS Pool, FiniteSetTheorems, SequenceTheorems, TLAPS

JobStates == {"none", "queued", "taken", "begun", "checked", "running", "done", "dropped"}
HandStates == {"taken", "begun", "checked", "running"}
CallStates == {"new", "acquiring", "placed", "queued", "started"} \cup WasAnswered

PoolTypeOK ==
  /\ stopped \in BOOLEAN /\ jobsOpen \in BOOLEAN /\ permits \in Nat
  /\ jobQueue \in Seq(Calls)
  /\ inHand \in [Workers -> Calls \cup {NoJob}]
  /\ job \in [Calls -> JobStates] /\ call \in [Calls -> CallStates]
  /\ unreached \subseteq Calls

\* A job is in the queue exactly while it is queued, and once.
QueueHolds ==
  /\ \A c \in Calls : job[c] = "queued" <=> \E i \in DOMAIN jobQueue : jobQueue[i] = c
  /\ \A i, j \in DOMAIN jobQueue : jobQueue[i] = jobQueue[j] => i = j

\* A job a worker received is in one worker's hand until it is done or dropped.
HandsHold ==
  /\ \A w \in Workers : inHand[w] # NoJob => job[inHand[w]] \in HandStates
  /\ \A v, w \in Workers : inHand[v] = inHand[w] /\ inHand[v] # NoJob => v = w
  /\ \A c \in Calls : job[c] \in HandStates => \E w \in Workers : inHand[w] = c

\* How far a call's job has come, by where the call stands.
CallsHold ==
  /\ \A c \in Calls : call[c] \in {"new", "acquiring", "placed", "busy"} => job[c] = "none"
  /\ \A c \in Calls : call[c] = "queued" => job[c] # "none"
  /\ \A c \in Calls : call[c] = "started" => job[c] \in {"running", "done"}
  /\ \A c \in Calls : call[c] = "ok" => job[c] = "done"

\* What the stop found queued stays unrun.
UnreachedHold ==
  /\ ~stopped => unreached = {}
  /\ \A c \in unreached : job[c] \in {"queued", "taken", "dropped"}

PlacesHold ==
  permits + Cardinality(InState(call, {"placed"}))
    + Cardinality(InState(job, {"queued", "taken"})) = QueuePlaces

PoolInv ==
  PoolTypeOK /\ QueueHolds /\ HandsHold /\ CallsHold /\ UnreachedHold /\ PlacesHold

-----------------------------------------------------------------------------
\* One call more, or one fewer.
LEMMA Counts ==
  ASSUME NEW A \in SUBSET Calls, NEW c \in Calls
  PROVE  /\ Cardinality(A) \in Nat
         /\ c \notin A => Cardinality(A \cup {c}) = Cardinality(A) + 1
         /\ c \in A => Cardinality(A \ {c}) = Cardinality(A) - 1
<1>1. IsFiniteSet(A)
  BY FS_Subset, PoolAssumption
<1>2. QED
  BY <1>1, FS_CardinalityType, FS_AddElement, FS_RemoveElement

\* A call comes to another state while no job does: it takes a place, gives one
\* back, or neither.
LEMMA CallMoves ==
  ASSUME PoolTypeOK, PlacesHold, NEW c \in Calls, NEW how \in CallStates,
         Becomes(c, how), UNCHANGED job, permits' \in Nat,
         \/ call[c] # "placed" /\ how # "placed" /\ permits' = permits
         \/ call[c] # "placed" /\ how = "placed" /\ permits' = permits - 1
         \/ call[c] = "placed" /\ how # "placed" /\ permits' = permits + 1
  PROVE  PlacesHold'
<1> DEFINE A == InState(call, {"placed"})
           B == InState(call', {"placed"})
           J == InState(job, {"queued", "taken"})
<1>1. call' = [call EXCEPT ![c] = how] /\ call \in [Calls -> CallStates]
  BY DEF Becomes, PoolTypeOK
<1>2. A \in SUBSET Calls /\ J \in SUBSET Calls /\ J' = J /\ (c \in A <=> call[c] = "placed")
  BY DEF InState
<1>3. /\ call[c] = "placed" /\ how # "placed" => B = A \ {c}
      /\ call[c] # "placed" /\ how = "placed" => B = A \cup {c}
      /\ call[c] # "placed" /\ how # "placed" => B = A
  BY <1>1 DEF InState
<1>4. permits + Cardinality(A) + Cardinality(J) = QueuePlaces /\ permits \in Nat
  BY DEF PlacesHold, PoolTypeOK
<1> HIDE DEF A, B, J
<1>5. Cardinality(J) \in Nat /\ Cardinality(A) \in Nat
  BY <1>2, Counts
<1>6. permits' + Cardinality(B) + Cardinality(J) = QueuePlaces
  <2>1. CASE call[c] # "placed" /\ how # "placed" /\ permits' = permits
    BY <1>3, <1>4, <2>1
  <2>2. CASE call[c] # "placed" /\ how = "placed" /\ permits' = permits - 1
    <3>1. Cardinality(B) = Cardinality(A) + 1
      BY <1>2, <1>3, <2>2, Counts
    <3>2. QED
      BY <1>4, <1>5, <2>2, <3>1
  <2>3. CASE call[c] = "placed" /\ how # "placed" /\ permits' = permits + 1
    <3>1. Cardinality(B) = Cardinality(A) - 1
      BY <1>2, <1>3, <2>3, Counts
    <3>2. QED
      BY <1>4, <1>5, <2>3, <3>1
  <2>4. QED
    BY <2>1, <2>2, <2>3
<1>7. QED
  BY <1>2, <1>6 DEF PlacesHold, B, J

Waiting == {"queued", "taken"}

\* A job comes to another state while no call does: it keeps its place, or gives
\* it back.
LEMMA JobMoves ==
  ASSUME PoolTypeOK, PlacesHold, NEW c \in Calls, NEW s \in JobStates,
         job' = [job EXCEPT ![c] = s], UNCHANGED call, permits' \in Nat,
         \/ (job[c] \in Waiting <=> s \in Waiting) /\ permits' = permits
         \/ job[c] \in Waiting /\ s \notin Waiting /\ permits' = permits + 1
  PROVE  PlacesHold'
<1> DEFINE A == InState(call, {"placed"})
           J == InState(job, Waiting)
           K == InState(job', Waiting)
<1>1. job \in [Calls -> JobStates]
  BY DEF PoolTypeOK
<1>2. A \in SUBSET Calls /\ J \in SUBSET Calls /\ A' = A /\ (c \in J <=> job[c] \in Waiting)
  BY DEF InState
<1>3. /\ job[c] \in Waiting /\ s \notin Waiting => K = J \ {c}
      /\ (job[c] \in Waiting <=> s \in Waiting) => K = J
  BY <1>1 DEF InState
<1>4. permits + Cardinality(A) + Cardinality(J) = QueuePlaces /\ permits \in Nat
  BY DEF PlacesHold, PoolTypeOK, Waiting
<1> HIDE DEF A, J, K
<1>5. Cardinality(J) \in Nat /\ Cardinality(A) \in Nat
  BY <1>2, Counts
<1>6. permits' + Cardinality(A) + Cardinality(K) = QueuePlaces
  <2>1. CASE (job[c] \in Waiting <=> s \in Waiting) /\ permits' = permits
    BY <1>3, <1>4, <2>1
  <2>2. CASE job[c] \in Waiting /\ s \notin Waiting /\ permits' = permits + 1
    <3>1. Cardinality(K) = Cardinality(J) - 1
      BY <1>2, <1>3, <2>2, Counts
    <3>2. QED
      BY <1>4, <1>5, <2>2, <3>1
  <2>3. QED
    BY <2>1, <2>2
<1>7. QED
  BY <1>2, <1>6 DEF PlacesHold, A, K, Waiting

-----------------------------------------------------------------------------
(* The steps.                                                              *)

LEMMA PoolInitially == PoolInit => PoolInv
<1> SUFFICES ASSUME PoolInit PROVE PoolInv
  OBVIOUS
<1> USE DEF PoolInit
<1>1. PoolTypeOK
  BY PoolAssumption, EmptySeq DEF PoolTypeOK, JobStates, CallStates
<1>2. QueueHolds /\ HandsHold /\ CallsHold /\ UnreachedHold
  BY EmptySeq DEF QueueHolds, HandsHold, CallsHold, UnreachedHold, HandStates
<1>3. PlacesHold
  <2>1. InState(call, {"placed"}) = {} /\ InState(job, {"queued", "taken"}) = {}
    BY DEF InState
  <2>2. Cardinality(InState(call, {"placed"})) = 0 /\ Cardinality(InState(job, {"queued", "taken"})) = 0
    BY <2>1, FS_EmptySet
  <2>3. permits = QueuePlaces /\ QueuePlaces \in Nat
    BY PoolAssumption
  <2>4. QED
    BY <2>2, <2>3 DEF PlacesHold
<1>4. QED
  BY <1>1, <1>2, <1>3 DEF PoolInv

\* A step of a call on its way to its place, or on its way back.
LEMMA CallStep ==
  ASSUME PoolInv, NEW c \in Calls, NEW how \in CallStates, Becomes(c, how),
         UNCHANGED <<stopped, jobsOpen, jobQueue, inHand, job, unreached>>, permits' \in Nat,
         \/ call[c] # "placed" /\ how # "placed" /\ permits' = permits
         \/ call[c] # "placed" /\ how = "placed" /\ permits' = permits - 1
         \/ call[c] = "placed" /\ how # "placed" /\ permits' = permits + 1,
         how \in {"new", "acquiring", "placed", "busy"} => job[c] = "none",
         how = "queued" => job[c] # "none",
         how = "started" => job[c] \in {"running", "done"},
         how = "ok" => job[c] = "done"
  PROVE  PoolInv'
<1>1. call' = [call EXCEPT ![c] = how] /\ call \in [Calls -> CallStates]
  BY DEF PoolInv, PoolTypeOK, Becomes
<1>2. PoolTypeOK'
  BY <1>1 DEF PoolInv, PoolTypeOK
<1>3. CallsHold'
  BY <1>1 DEF PoolInv, CallsHold
<1>4. QueueHolds' /\ HandsHold' /\ UnreachedHold'
  BY DEF PoolInv, QueueHolds, HandsHold, UnreachedHold
<1>5. PlacesHold'
  BY CallMoves DEF PoolInv
<1>6. QED
  BY <1>2, <1>3, <1>4, <1>5 DEF PoolInv

LEMMA CallPoolStep ==
  ASSUME PoolInv, NEW c \in Calls, CallPool(c)
  PROVE  PoolInv'
<1> USE DEF CallPool
<1>1. permits \in Nat /\ job[c] = "none"
  BY DEF PoolInv, PoolTypeOK, CallsHold
<1>2. CASE Becomes(c, "closed") /\ UNCHANGED permits
  BY <1>1, <1>2, CallStep DEF CallStates, WasAnswered
<1>3. CASE permits > 0 /\ permits' = permits - 1 /\ Becomes(c, "placed")
  BY <1>1, <1>3, CallStep DEF CallStates
<1>4. CASE Becomes(c, "busy") /\ UNCHANGED permits
  BY <1>1, <1>4, CallStep DEF CallStates, WasAnswered
<1>5. CASE Becomes(c, "acquiring") /\ UNCHANGED permits
  BY <1>1, <1>5, CallStep DEF CallStates
<1>6. QED
  BY <1>2, <1>3, <1>4, <1>5

LEMMA AcquirePlaceStep ==
  ASSUME PoolInv, NEW c \in Calls, AcquirePlace(c)
  PROVE  PoolInv'
<1> USE DEF AcquirePlace
<1>1. permits \in Nat /\ job[c] = "none"
  BY DEF PoolInv, PoolTypeOK, CallsHold
<1>2. CASE permits > 0 /\ permits' = permits - 1 /\ Becomes(c, "placed")
  BY <1>1, <1>2, CallStep DEF CallStates
<1>3. CASE Becomes(c, "closed") /\ UNCHANGED permits
  BY <1>1, <1>3, CallStep DEF CallStates, WasAnswered
<1>4. QED
  BY <1>2, <1>3

LEMMA AwaitStep ==
  ASSUME PoolInv, NEW c \in Calls, AwaitStart(c) \/ AwaitResult(c) \/ ClientLeaves(c)
  PROVE  PoolInv'
<1> USE DEF AwaitStart, AwaitResult, ClientLeaves
<1>1. permits \in Nat
  BY DEF PoolInv, PoolTypeOK
<1>2. CASE job[c] \in {"running", "done"} /\ Becomes(c, "started") /\ AwaitStart(c)
  BY <1>1, <1>2, CallStep DEF CallStates
<1>3. CASE Becomes(c, "closed") /\ AwaitStart(c)
  BY <1>1, <1>3, CallStep DEF CallStates, WasAnswered
<1>4. CASE AwaitResult(c)
  BY <1>1, <1>4, CallStep DEF CallStates, WasAnswered
<1>5. CASE ClientLeaves(c)
  BY <1>1, <1>5, CallStep DEF CallStates, WasAnswered
<1>6. QED
  BY <1>2, <1>3, <1>4, <1>5

\* The job takes its place into the queue.
LEMMA SendJobStep ==
  ASSUME PoolInv, NEW c \in Calls, SendJob(c)
  PROVE  PoolInv'
<1> USE DEF SendJob
<1>1. permits \in Nat /\ job[c] = "none" /\ jobQueue \in Seq(Calls)
      /\ job \in [Calls -> JobStates] /\ call \in [Calls -> CallStates]
  BY DEF PoolInv, PoolTypeOK, CallsHold
<1>2. CASE ~jobsOpen
  BY <1>1, <1>2, CallStep DEF CallStates, WasAnswered
<1>3. CASE jobsOpen
  <2>1. /\ jobQueue' = Append(jobQueue, c)
        /\ job' = [job EXCEPT ![c] = "queued"] /\ call' = [call EXCEPT ![c] = "queued"]
    BY <1>3 DEF Becomes
  <2>2. /\ jobQueue' \in Seq(Calls) /\ Len(jobQueue') = Len(jobQueue) + 1
        /\ DOMAIN jobQueue = 1..Len(jobQueue) /\ DOMAIN jobQueue' = 1..Len(jobQueue) + 1
        /\ \A i \in 1..Len(jobQueue) : jobQueue'[i] = jobQueue[i]
        /\ jobQueue'[Len(jobQueue) + 1] = c /\ Len(jobQueue) \in Nat
    BY <1>1, <2>1, AppendProperties, LenProperties
  <2>3. PoolTypeOK'
    BY <1>1, <1>3, <2>1, <2>2 DEF PoolInv, PoolTypeOK, JobStates, CallStates
  <2>4. QueueHolds'
    <3>1. ~\E i \in DOMAIN jobQueue : jobQueue[i] = c
      BY <1>1 DEF PoolInv, QueueHolds
    <3>2. \A d \in Calls : job'[d] = "queued" <=> \E i \in DOMAIN jobQueue' : jobQueue'[i] = d
      <4> TAKE d \in Calls
      <4>1. CASE d = c
        <5>1. job'[d] = "queued"
          BY <1>1, <2>1, <4>1
        <5>2. Len(jobQueue) + 1 \in DOMAIN jobQueue'
          BY <2>2
        <5>3. QED
          BY <2>2, <4>1, <5>1, <5>2
      <4>2. CASE d # c
        <5>1. job'[d] = "queued" <=> \E i \in DOMAIN jobQueue : jobQueue[i] = d
          BY <1>1, <2>1, <4>2 DEF PoolInv, QueueHolds
        <5>2. QED
          BY <2>2, <4>2, <5>1
      <4>3. QED
        BY <4>1, <4>2
    <3>3. \A i, j \in DOMAIN jobQueue' : jobQueue'[i] = jobQueue'[j] => i = j
      BY <2>2, <3>1 DEF PoolInv, QueueHolds
    <3>4. QED
      BY <3>2, <3>3 DEF QueueHolds
  <2>5. HandsHold'
    BY <1>1, <2>1 DEF PoolInv, HandsHold, HandStates, PoolTypeOK
  <2>6. CallsHold'
    BY <1>1, <2>1 DEF PoolInv, CallsHold
  <2>7. UnreachedHold'
    BY <1>1, <2>1 DEF PoolInv, UnreachedHold, PoolTypeOK
  <2>8. PlacesHold'
    <3> DEFINE A == InState(call, {"placed"})
               J == InState(job, {"queued", "taken"})
    <3>1. /\ A \in SUBSET Calls /\ J \in SUBSET Calls /\ c \in A /\ c \notin J
          /\ A' = A \ {c} /\ J' = J \cup {c}
      BY <1>1, <2>1 DEF InState
    <3>2. permits' = permits /\ permits + Cardinality(A) + Cardinality(J) = QueuePlaces
      BY <1>3 DEF PoolInv, PlacesHold
    <3> HIDE DEF A, J
    <3>3. /\ Cardinality(A) \in Nat /\ Cardinality(J) \in Nat
          /\ Cardinality(A') = Cardinality(A) - 1 /\ Cardinality(J') = Cardinality(J) + 1
      BY <3>1, Counts
    <3>4. permits' + Cardinality(A') + Cardinality(J') = QueuePlaces
      BY <1>1, <3>2, <3>3
    <3>5. QED
      BY <3>4 DEF PlacesHold, A, J
  <2>9. QED
    BY <2>3, <2>4, <2>5, <2>6, <2>7, <2>8 DEF PoolInv
<1>4. QED
  BY <1>2, <1>3

\* A worker receives the first job queued.
LEMMA ReceiveJobStep ==
  ASSUME PoolInv, NEW w \in Workers, ReceiveJob(w)
  PROVE  PoolInv'
<1> USE DEF ReceiveJob
<1> DEFINE c == Head(jobQueue)
<1>1. /\ permits \in Nat /\ jobQueue \in Seq(Calls) /\ inHand \in [Workers -> Calls \cup {NoJob}]
      /\ job \in [Calls -> JobStates] /\ call \in [Calls -> CallStates]
  BY DEF PoolInv, PoolTypeOK
<1>2. /\ c \in Calls /\ c = jobQueue[1] /\ Len(jobQueue) \in Nat \ {0}
      /\ DOMAIN jobQueue = 1..Len(jobQueue)
      /\ jobQueue' \in Seq(Calls) /\ DOMAIN jobQueue' = 1..Len(jobQueue) - 1
      /\ \A i \in 1..Len(jobQueue) - 1 : jobQueue'[i] = jobQueue[i + 1]
  <2>1. /\ c \in Calls /\ Tail(jobQueue) \in Seq(Calls) /\ Len(Tail(jobQueue)) = Len(jobQueue) - 1
        /\ \A i \in 1..Len(Tail(jobQueue)) : Tail(jobQueue)[i] = jobQueue[i + 1]
    BY <1>1, HeadTailProperties
  <2>2. c = jobQueue[1] /\ Len(jobQueue) \in Nat \ {0} /\ DOMAIN jobQueue = 1..Len(jobQueue)
    BY <1>1, EmptySeq, LenProperties
  <2>3. DOMAIN Tail(jobQueue) = 1..Len(Tail(jobQueue))
    BY <2>1, LenProperties
  <2>4. QED
    BY <2>1, <2>2, <2>3
<1>3. /\ inHand' = [inHand EXCEPT ![w] = c] /\ job' = [job EXCEPT ![c] = "taken"]
      /\ inHand[w] = NoJob /\ c # NoJob /\ job[c] = "queued"
  BY <1>2, PoolAssumption DEF PoolInv, QueueHolds
<1> HIDE DEF c
<1>4. PoolTypeOK'
  BY <1>1, <1>2, <1>3 DEF PoolInv, PoolTypeOK, JobStates
<1>5. QueueHolds'
  <2>1. \A i, j \in DOMAIN jobQueue : jobQueue[i] = jobQueue[j] => i = j
    BY DEF PoolInv, QueueHolds
  <2>2. \A i \in DOMAIN jobQueue' : jobQueue'[i] # c
    BY <1>2, <2>1
  <2>3. \A i, j \in DOMAIN jobQueue' : jobQueue'[i] = jobQueue'[j] => i = j
    BY <1>2, <2>1
  <2>4. \A d \in Calls : job'[d] = "queued" <=> \E i \in DOMAIN jobQueue' : jobQueue'[i] = d
    <3> TAKE d \in Calls
    <3>1. CASE d = c
      BY <1>1, <1>3, <2>2, <3>1
    <3>2. CASE d # c
      <4>1. job'[d] = job[d] /\ (job[d] = "queued" <=> \E i \in DOMAIN jobQueue : jobQueue[i] = d)
        BY <1>1, <1>3, <3>2 DEF PoolInv, QueueHolds
      <4>2. ASSUME NEW i \in DOMAIN jobQueue, jobQueue[i] = d
            PROVE  i - 1 \in DOMAIN jobQueue' /\ jobQueue'[i - 1] = d
        BY <1>2, <3>2, <4>2
      <4>3. ASSUME NEW i \in DOMAIN jobQueue', jobQueue'[i] = d
            PROVE  i + 1 \in DOMAIN jobQueue /\ jobQueue[i + 1] = d
        BY <1>2, <4>3
      <4>4. QED
        BY <4>1, <4>2, <4>3
    <3>3. QED
      BY <3>1, <3>2
  <2>5. QED
    BY <2>3, <2>4 DEF QueueHolds
<1>6. HandsHold'
  <2>1. \A v \in Workers : inHand[v] # c
    BY <1>3 DEF PoolInv, HandsHold, HandStates
  <2>2. \A v \in Workers : inHand'[v] = IF v = w THEN c ELSE inHand[v]
    BY <1>1, <1>3
  <2>3. \A d \in Calls : job'[d] = IF d = c THEN "taken" ELSE job[d]
    BY <1>1, <1>3
  <2>4. \A v \in Workers : inHand'[v] # NoJob => job'[inHand'[v]] \in HandStates
    BY <1>1, <1>2, <1>3, <2>1, <2>2, <2>3 DEF PoolInv, HandsHold, HandStates
  <2>5. \A u, v \in Workers : inHand'[u] = inHand'[v] /\ inHand'[u] # NoJob => u = v
    BY <2>1, <2>2 DEF PoolInv, HandsHold
  <2>6. \A d \in Calls : job'[d] \in HandStates => \E v \in Workers : inHand'[v] = d
    <3> SUFFICES ASSUME NEW d \in Calls, job'[d] \in HandStates
                 PROVE  \E v \in Workers : inHand'[v] = d
      OBVIOUS
    <3>1. CASE d = c
      BY <2>2, <3>1
    <3>2. CASE d # c
      <4>1. PICK v \in Workers : inHand[v] = d
        BY <2>3, <3>2 DEF PoolInv, HandsHold
      <4>2. v # w
        BY <1>3, <4>1, PoolAssumption
      <4>3. QED
        BY <2>2, <4>1, <4>2
    <3>3. QED
      BY <3>1, <3>2
  <2>7. QED
    BY <2>4, <2>5, <2>6 DEF HandsHold
<1>7. CallsHold'
  BY <1>1, <1>2, <1>3 DEF PoolInv, CallsHold
<1>8. UnreachedHold'
  BY <1>1, <1>2, <1>3 DEF PoolInv, UnreachedHold, PoolTypeOK
<1>9. PlacesHold'
  BY <1>1, <1>2, <1>3, JobMoves DEF PoolInv, JobStates, Waiting
<1>10. QED
  BY <1>4, <1>5, <1>6, <1>7, <1>8, <1>9 DEF PoolInv

\* A step of the job in a worker's hand, which stays there or leaves it.
LEMMA WorkerStep ==
  ASSUME PoolInv, NEW w \in Workers, NEW c, c = inHand[w], c # NoJob,
         NEW s \in JobStates \ {"none", "queued"}, job' = [job EXCEPT ![c] = s],
         \/ s \in HandStates /\ inHand' = inHand
         \/ s \notin HandStates /\ inHand' = [inHand EXCEPT ![w] = NoJob],
         UNCHANGED <<stopped, jobsOpen, jobQueue, call, unreached>>, permits' \in Nat,
         \/ (job[c] = "taken" <=> s = "taken") /\ permits' = permits
         \/ job[c] = "taken" /\ s # "taken" /\ permits' = permits + 1,
         call[c] = "started" => s \in {"running", "done"},
         call[c] = "ok" => s = "done",
         c \in unreached => s \in {"taken", "dropped"}
  PROVE  PoolInv'
<1>1. /\ permits \in Nat /\ jobQueue \in Seq(Calls) /\ inHand \in [Workers -> Calls \cup {NoJob}]
      /\ job \in [Calls -> JobStates] /\ call \in [Calls -> CallStates]
  BY DEF PoolInv, PoolTypeOK
<1>2. c \in Calls /\ job[c] \in HandStates
  BY <1>1 DEF PoolInv, HandsHold
<1>3. /\ \A d \in Calls : job'[d] = IF d = c THEN s ELSE job[d]
      /\ \A v \in Workers : inHand'[v] = IF v = w /\ s \notin HandStates THEN NoJob ELSE inHand[v]
  BY <1>1, <1>2
<1>4. PoolTypeOK'
  BY <1>1, <1>2 DEF PoolInv, PoolTypeOK
<1>5. QueueHolds'
  BY <1>2, <1>3 DEF PoolInv, QueueHolds, HandStates
<1>6. HandsHold'
  <2>1. \A v \in Workers : inHand[v] = c => v = w
    BY DEF PoolInv, HandsHold
  <2>2. \A v \in Workers : inHand'[v] # NoJob => job'[inHand'[v]] \in HandStates
    BY <1>1, <1>3, <2>1 DEF PoolInv, HandsHold
  <2>3. \A u, v \in Workers : inHand'[u] = inHand'[v] /\ inHand'[u] # NoJob => u = v
    BY <1>3 DEF PoolInv, HandsHold
  <2>4. \A d \in Calls : job'[d] \in HandStates => \E v \in Workers : inHand'[v] = d
    BY <1>3 DEF PoolInv, HandsHold
  <2>5. QED
    BY <2>2, <2>3, <2>4 DEF HandsHold
<1>7. CallsHold'
  BY <1>2, <1>3 DEF PoolInv, CallsHold, HandStates
<1>8. UnreachedHold'
  BY <1>3 DEF PoolInv, UnreachedHold, PoolTypeOK
<1>9. PlacesHold'
  BY <1>2, JobMoves DEF PoolInv, Waiting, HandStates
<1>10. QED
  BY <1>4, <1>5, <1>6, <1>7, <1>8, <1>9 DEF PoolInv

LEMMA BeginJobStep ==
  ASSUME PoolInv, NEW w \in Workers, BeginJob(w)
  PROVE  PoolInv'
<1> DEFINE c == inHand[w]
           s == IF stopped THEN "dropped" ELSE "begun"
<1>1. /\ permits \in Nat /\ inHand \in [Workers -> Calls \cup {NoJob}]
      /\ c \in Calls /\ job[c] = "taken" /\ c # NoJob
  BY DEF PoolInv, PoolTypeOK, BeginJob
<1>2. call[c] # "started" /\ call[c] # "ok" /\ (~stopped => c \notin unreached)
  BY <1>1 DEF PoolInv, CallsHold, UnreachedHold
<1>3. UNCHANGED <<stopped, jobsOpen, jobQueue, call, unreached>>
      /\ permits' \in Nat /\ permits' = permits + 1
  BY <1>1 DEF BeginJob
<1>4. job' = [job EXCEPT ![c] = s]
  BY DEF BeginJob
<1>5. \/ s \in HandStates /\ inHand' = inHand
      \/ s \notin HandStates /\ inHand' = [inHand EXCEPT ![w] = NoJob]
  BY <1>1 DEF BeginJob, HandStates
<1>6. /\ s \in JobStates \ {"none", "queued"} /\ s # "taken"
      /\ c \in unreached => s \in {"taken", "dropped"}
  BY <1>2 DEF JobStates
<1> HIDE DEF s
<1>7. QED
  BY <1>1, <1>2, <1>3, <1>4, <1>5, <1>6, WorkerStep

LEMMA CheckClientStep ==
  ASSUME PoolInv, NEW w \in Workers, CheckClient(w)
  PROVE  PoolInv'
<1> USE DEF CheckClient
<1> DEFINE c == inHand[w]
<1>1. /\ permits \in Nat /\ inHand \in [Workers -> Calls \cup {NoJob}]
      /\ c \in Calls /\ job[c] = "begun" /\ c # NoJob
  BY DEF PoolInv, PoolTypeOK
<1>2. call[c] # "started" /\ call[c] # "ok" /\ c \notin unreached
  BY <1>1 DEF PoolInv, CallsHold, UnreachedHold
<1>3. CASE call[c] \in WasAnswered
  <2>1. job' = [job EXCEPT ![c] = "dropped"] /\ inHand' = [inHand EXCEPT ![w] = NoJob]
    BY <1>3
  <2>2. QED
    BY <1>1, <1>2, <2>1, WorkerStep DEF JobStates, HandStates
<1>4. CASE call[c] \notin WasAnswered
  <2>1. job' = [job EXCEPT ![c] = "checked"] /\ inHand' = inHand
    BY <1>1, <1>4
  <2>2. QED
    BY <1>1, <1>2, <2>1, WorkerStep DEF JobStates, HandStates
<1>5. QED
  BY <1>3, <1>4

LEMMA StartJobStep ==
  ASSUME PoolInv, NEW w \in Workers, StartJob(w)
  PROVE  PoolInv'
<1> USE DEF StartJob
<1> DEFINE c == inHand[w]
<1>1. /\ permits \in Nat /\ inHand \in [Workers -> Calls \cup {NoJob}]
      /\ c \in Calls /\ job[c] = "checked" /\ c # NoJob
      /\ job' = [job EXCEPT ![c] = "running"]
  BY DEF PoolInv, PoolTypeOK
<1>2. call[c] # "ok" /\ c \notin unreached
  BY <1>1 DEF PoolInv, CallsHold, UnreachedHold
<1>3. QED
  BY <1>1, <1>2, WorkerStep DEF JobStates, HandStates

LEMMA FinishJobStep ==
  ASSUME PoolInv, NEW w \in Workers, FinishJob(w)
  PROVE  PoolInv'
<1> USE DEF FinishJob
<1> DEFINE c == inHand[w]
<1>1. /\ permits \in Nat /\ inHand \in [Workers -> Calls \cup {NoJob}]
      /\ c \in Calls /\ job[c] = "running" /\ c # NoJob
      /\ job' = [job EXCEPT ![c] = "done"] /\ inHand' = [inHand EXCEPT ![w] = NoJob]
  BY DEF PoolInv, PoolTypeOK
<1>2. c \notin unreached
  BY <1>1 DEF PoolInv, UnreachedHold
<1>3. QED
  BY <1>1, <1>2, WorkerStep DEF JobStates, HandStates

LEMMA StopStep ==
  ASSUME PoolInv, SignalStop \/ CloseQueue
  PROVE  PoolInv'
<1> USE DEF SignalStop, CloseQueue
<1>1. UNCHANGED <<permits, jobQueue, inHand, job, call>>
  OBVIOUS
<1>2. QueueHolds' /\ HandsHold' /\ CallsHold' /\ PlacesHold'
  <2>1. QueueHolds' /\ HandsHold' /\ CallsHold'
    BY <1>1 DEF PoolInv, QueueHolds, HandsHold, CallsHold
  <2>2. PlacesHold'
    BY <1>1 DEF PoolInv, PlacesHold, InState
  <2>3. QED
    BY <2>1, <2>2
<1>3. unreached' \subseteq Calls /\ UnreachedHold'
  <2>1. CASE SignalStop
    <3>1. \A c \in unreached' : \E i \in DOMAIN jobQueue : c = jobQueue[i]
      BY <2>1 DEF ToSet
    <3>2. \A i \in DOMAIN jobQueue : jobQueue[i] \in Calls
      BY DEF PoolInv, PoolTypeOK
    <3>3. \A c \in unreached' : c \in Calls /\ job[c] = "queued"
      BY <3>1, <3>2 DEF PoolInv, QueueHolds
    <3>4. QED
      BY <1>1, <2>1, <3>3 DEF UnreachedHold
  <2>2. CASE CloseQueue
    BY <1>1, <2>2 DEF PoolInv, UnreachedHold, PoolTypeOK
  <2>3. QED
    BY <2>1, <2>2
<1>4. PoolTypeOK'
  BY <1>1, <1>3 DEF PoolInv, PoolTypeOK
<1>5. QED
  BY <1>2, <1>3, <1>4 DEF PoolInv

LEMMA PoolStutters == PoolInv /\ UNCHANGED poolVars => PoolInv'
<1> SUFFICES ASSUME PoolInv, UNCHANGED poolVars PROVE PoolInv'
  OBVIOUS
<1>1. UNCHANGED <<stopped, jobsOpen, permits, jobQueue, inHand, job, call, unreached>>
  BY DEF poolVars
<1>2. PlacesHold'
  BY <1>1 DEF PoolInv, PlacesHold, InState
<1>3. PoolTypeOK' /\ QueueHolds' /\ HandsHold' /\ CallsHold' /\ UnreachedHold'
  BY <1>1 DEF PoolInv, PoolTypeOK, QueueHolds, HandsHold, CallsHold, UnreachedHold
<1>4. QED
  BY <1>2, <1>3 DEF PoolInv

-----------------------------------------------------------------------------
\* Where each job is and where each call stands fit together, however calls,
\* workers, clients that leave and the stop interleave, and no place is lost.
\* (Pool::run, try_run, queue_run, stop)
THEOREM PoolInvariance == PoolSpec => []PoolInv
<1>1. PoolInit => PoolInv
  BY PoolInitially
<1>2. PoolInv /\ [PoolNext]_poolVars => PoolInv'
  <2> SUFFICES ASSUME PoolInv, [PoolNext]_poolVars PROVE PoolInv'
    OBVIOUS
  <2>1. CASE \E c \in Calls : CallPool(c) \/ AcquirePlace(c) \/ SendJob(c) \/ AwaitStart(c)
                              \/ AwaitResult(c) \/ ClientLeaves(c)
    BY <2>1, CallPoolStep, AcquirePlaceStep, SendJobStep, AwaitStep
  <2>2. CASE \E w \in Workers : ReceiveJob(w) \/ BeginJob(w) \/ CheckClient(w) \/ StartJob(w)
                                \/ FinishJob(w)
    BY <2>2, ReceiveJobStep, BeginJobStep, CheckClientStep, StartJobStep, FinishJobStep
  <2>3. CASE SignalStop \/ CloseQueue
    BY <2>3, StopStep
  <2>4. CASE UNCHANGED poolVars
    BY <2>4, PoolStutters
  <2>5. QED
    BY <2>1, <2>2, <2>3, <2>4 DEF PoolNext
<1>3. QED
  BY <1>1, <1>2, PTL DEF PoolSpec

\* The workers have nothing to do: a queued call's job is done or dropped, and
\* a call that waits for a place has one to take.
LEMMA IdleWorkersOweNothing ==
  ASSUME PoolInv, Idle
  PROVE  /\ InState(call, {"queued"}) \subseteq InState(job, {"done", "dropped"})
         /\ permits > 0 \/ InState(call, {"placed"}) # {}
<1>1. \A c \in Calls : job[c] \in {"none", "done", "dropped"}
  <2>1. \A c \in Calls : job[c] # "queued"
    BY EmptySeq DEF PoolInv, QueueHolds, Idle
  <2>2. \A c \in Calls : job[c] \notin HandStates
    BY PoolAssumption DEF PoolInv, HandsHold, Idle
  <2>3. QED
    BY <2>1, <2>2 DEF PoolInv, PoolTypeOK, JobStates, HandStates
<1>2. InState(call, {"queued"}) \subseteq InState(job, {"done", "dropped"})
  BY <1>1 DEF PoolInv, CallsHold, InState
<1>3. Cardinality(InState(job, {"queued", "taken"})) = 0
  <2>1. InState(job, {"queued", "taken"}) = {}
    BY <1>1 DEF InState
  <2>2. QED
    BY <2>1, FS_EmptySet
<1>4. permits + Cardinality(InState(call, {"placed"})) > 0 /\ permits \in Nat
  <2>1. permits + Cardinality(InState(call, {"placed"}))
          + Cardinality(InState(job, {"queued", "taken"})) = QueuePlaces
    BY DEF PoolInv, PlacesHold
  <2>2. InState(call, {"placed"}) \in SUBSET Calls
    BY DEF InState
  <2>3. Cardinality(InState(call, {"placed"})) \in Nat
    <3>1. CASE Calls = {}
      BY <2>2, <3>1, FS_EmptySet
    <3>2. CASE Calls # {}
      BY <2>2, <3>2, Counts
    <3>3. QED
      BY <3>1, <3>2
  <2>4. permits \in Nat
    BY DEF PoolInv, PoolTypeOK
  <2>5. QED
    BY <1>3, <2>1, <2>3, <2>4, PoolAssumption
<1>5. permits > 0 \/ InState(call, {"placed"}) # {}
  BY <1>4, FS_EmptySet
<1>6. QED
  BY <1>2, <1>5

\* No place is lost or held twice, a job queued when the pool stops never runs,
\* a call answered ok has run, and idle workers leave no call waiting for them.
\* (Pool::run, try_run, queue_run, stop)
THEOREM PoolAlwaysHolds == PoolSpec => []PoolHolds
<1>1. PoolInv => PoolHolds
  <2> SUFFICES ASSUME PoolInv PROVE PoolHolds
    OBVIOUS
  <2>1. unreached \subseteq InState(job, {"queued", "taken", "dropped"})
    BY DEF PoolInv, UnreachedHold, PoolTypeOK, InState
  <2>2. /\ InState(call, {"ok"}) \subseteq InState(job, {"done"})
        /\ InState(call, {"started"}) \subseteq InState(job, {"running", "done"})
    BY DEF PoolInv, CallsHold, InState
  <2>3. QED
    BY <2>1, <2>2, IdleWorkersOweNothing DEF PoolInv, PlacesHold, PoolHolds
<1>2. QED
  BY <1>1, PoolInvariance, PTL

=============================================================================
