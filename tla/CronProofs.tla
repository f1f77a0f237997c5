----------------------------- MODULE CronProofs -----------------------------
(***************************************************************************)
(* Theorems about Cron, for any schedules, cap and minute.                 *)
(*                                                                         *)
(* While the scheduler runs its marks are those of the table, but for the  *)
(* slot it is firing, so what it decides lies past all it decided before.  *)
(* And its wake lies within the cap of the time it read, and at or before  *)
(* the next slot of each entry it has looked at.                           *)
(***************************************************************************)
EXTENDS Cron, NaturalsInduction, WellFoundedInduction, SequenceTheorems, TLAPS

Awake == {"looking", "firing", "decided"}
Marks == Nat \cup {NoMark}
Decision == [entry: CronEntries, slot: Nat, after: Nat, read: Nat]

CronTypeOK ==
  /\ wall \in WallTimes /\ readTime \in Nat /\ wake \in Nat /\ left \in Nat /\ steps \in Nat
  /\ cronPhase \in {"down", "asleep"} \cup Awake
  /\ series \in [CronEntries -> Marks] /\ marks \in [CronEntries -> Marks]
  /\ entry \in Nat \ {0}
  /\ steady \in [woke: BOOLEAN, slept: BOOLEAN]
  /\ decisions \in Seq(Decision)

\* The scheduler's marks, and what it fires.
MarksHold ==
  /\ cronPhase # "down" => \A i \in CronEntries : series[i] # NoMark
  /\ cronPhase \in {"looking", "decided", "asleep"} => marks = series
  /\ cronPhase \in {"firing", "decided"} => entry \in CronEntries
  /\ cronPhase = "firing" =>
       LET slot == LatestSlot(Schedules[entry], series[entry], readTime)
       IN  slot # NoSlotYet /\ marks = [series EXCEPT ![entry] = slot]

\* The next slot of an entry bounds a time.
ComesBefore(time, i) ==
  LET next == SlotAfter(Schedules[i], marks[i]) IN next = NoSlotYet \/ time <= next

\* How far the wake is set: within the cap, and by the entries looked at.
WakeHolds ==
  /\ cronPhase \in Awake =>
       /\ wake <= readTime + CronCap
       /\ steady.woke => readTime <= wall
       /\ \A i \in CronEntries : i < entry => ComesBefore(wake, i)
  /\ NeverOversleeps

\* What is decided stays at or below its entry's mark.
DecisionsHold ==
  /\ SlotsDecidedInOrder
  /\ \A j \in DOMAIN decisions : decisions[j].slot <= series[decisions[j].entry]

CronInv == CronTypeOK /\ MarksHold /\ WakeHolds /\ DecisionsHold

-----------------------------------------------------------------------------
(* Slots.                                                                  *)

LEMMA LeastIsLeast ==
  ASSUME NEW S \in SUBSET Nat, S # {}
  PROVE  Least(S) \in S /\ \A y \in S : Least(S) <= y
<1>1. PICK x \in S : \A y \in S : <<y, x>> \notin OpToRel(<, Nat)
  BY NatLessThanWellFounded, WFMin
<1>2. \A y \in S : x <= y
  <2> TAKE y \in S
  <2>1. y < x => <<y, x>> \in OpToRel(<, Nat)
    BY Zenon DEF OpToRel
  <2>2. ~(y < x)
    BY <1>1, <2>1, Zenon
  <2>3. x \in Nat /\ y \in Nat
    OBVIOUS
  <2>4. QED
    BY <2>2, <2>3
<1>3. QED
  BY <1>2 DEF Least

LEMMA GreatestIsGreatest ==
  ASSUME NEW S \in SUBSET Nat, S # {}, NEW bound \in Nat, \A y \in S : y <= bound
  PROVE  Greatest(S) \in S /\ \A y \in S : y <= Greatest(S)
<1> DEFINE T == {bound - y : y \in S}
<1>1. T \in SUBSET Nat /\ T # {}
  <2>1. \A y \in S : bound - y \in Nat
    OBVIOUS
  <2>2. QED
    BY <2>1
<1>2. PICK x \in S : Least(T) = bound - x
  BY <1>1, LeastIsLeast
<1>3. \A y \in S : bound - x <= bound - y
  BY <1>1, <1>2, LeastIsLeast
<1>4. \A y \in S : y <= x
  BY <1>3
<1>5. QED
  BY <1>4 DEF Greatest

\* The schedules, one by one.
LEMMA ScheduleType ==
  ASSUME NEW i \in CronEntries
  PROVE  /\ Schedules[i] \in [every: Nat, times: SUBSET WallTimes]
         /\ Schedules[i].every \in Nat /\ Schedules[i].times \subseteq Nat
<1>1. Schedules[i] \in [every: Nat, times: SUBSET WallTimes]
  <2>1. Schedules \in Seq([every: Nat, times: SUBSET WallTimes])
    BY ScheduleAssumption
  <2>2. QED
    BY <2>1, ElementOfSeq DEF CronEntries
<1>2. QED
  BY <1>1, ScheduleAssumption

\* An @every's slots, counted from its mark.
LEMMA EveryCounts ==
  ASSUME NEW mark \in Nat, NEW now \in Nat, NEW every \in Nat \ {0},
         NEW k \in Int, k = (now - mark) \div every, k > 0,
         NEW slot, slot = mark + k * every
  PROVE  slot \in Nat /\ slot > mark /\ (slot - mark) % every = 0 /\ slot <= now
<1>1. k * every \in Int /\ k * every > 0
  OBVIOUS
<1>2. (k * every) % every = 0
  OBVIOUS
<1>3. k * every <= now - mark
  OBVIOUS
<1>4. mark + k * every - mark = k * every
  BY <1>1
<1>5. QED
  BY <1>1, <1>2, <1>3, <1>4

LEMMA EverySkipsNone ==
  ASSUME NEW mark \in Nat, NEW now \in Nat, NEW every \in Nat \ {0},
         NEW k \in Int, k = (now - mark) \div every, k > 0,
         NEW slot, slot = mark + k * every,
         NEW t \in Nat, t > slot, t <= now, (t - mark) % every = 0
  PROVE  FALSE
<1> DEFINE q == (t - mark) \div every
<1>1. t - mark \in Int /\ q \in Int /\ k * every \in Int
  OBVIOUS
<1>2. t - mark = q * every
  BY <1>1
<1>3. q * every <= now - mark
  BY <1>2
<1>4. q <= k
  <2>1. \A a \in Int, b \in Int, e \in Nat \ {0} : b * e <= a => b <= a \div e
    OBVIOUS
  <2> HIDE DEF q
  <2>2. now - mark \in Int
    OBVIOUS
  <2>3. QED
    BY <1>1, <1>3, <2>1, <2>2
<1> HIDE DEF q
<1>5. q * every <= k * every
  BY <1>1, <1>4
<1>6. QED
  BY <1>1, <1>2, <1>5

\* The last slot due is one of the schedule, past the mark, and the last.
LEMMA LatestSlotIsLast ==
  ASSUME NEW s, s.every \in Nat, s.times \subseteq Nat, NEW mark \in Nat, NEW now \in Nat,
         NEW slot, slot = LatestSlot(s, mark, now), slot # NoSlotYet
  PROVE  /\ slot \in Nat /\ IsSlotAfter(s, mark, slot) /\ slot <= now
         /\ \A t \in Nat : t > slot /\ t <= now => ~IsSlotAfter(s, mark, t)
<1>1. CASE s.every > 0
  <2> DEFINE k == (now - mark) \div s.every
  <2>1. k > 0 /\ slot = mark + k * s.every /\ k \in Int
    BY <1>1 DEF LatestSlot
  <2> HIDE DEF k
  <2>2. k = (now - mark) \div s.every
    BY DEF k
  <2>3. ASSUME NEW e \in Nat \ {0}, s.every = e
        PROVE  slot \in Nat /\ slot > mark /\ (slot - mark) % e = 0 /\ slot <= now
    <3>1. k = (now - mark) \div e /\ slot = mark + k * e
      BY <2>1, <2>2, <2>3
    <3>2. QED
      BY <2>1, <3>1, EveryCounts
  <2>4. ASSUME NEW e \in Nat \ {0}, s.every = e, NEW t \in Nat, t > slot, t <= now
        PROVE  (t - mark) % e # 0
    BY <2>1, <2>2, <2>4, EverySkipsNone
  <2>5. s.every \in Nat \ {0}
    BY <1>1
  <2>6. QED
    BY <1>1, <2>3, <2>4, <2>5 DEF IsSlotAfter
<1>2. CASE ~(s.every > 0)
  <2> DEFINE due == {t \in s.times : mark < t /\ t <= now}
  <2>1. due # {} /\ slot = Greatest(due)
    BY <1>2 DEF LatestSlot
  <2>2. due \in SUBSET Nat /\ \A t \in due : t <= now
    OBVIOUS
  <2>3. slot \in due /\ \A t \in due : t <= slot
    <3> HIDE DEF due
    <3>1. QED
      BY <2>1, <2>2, GreatestIsGreatest
  <2>4. QED
    BY <1>2, <2>3 DEF IsSlotAfter
<1>3. QED
  BY <1>1, <1>2

\* The next slot, if there is one, is a time.
LEMMA SlotAfterType ==
  ASSUME NEW s, s.every \in Nat, s.times \subseteq Nat, NEW mark \in Nat
  PROVE  SlotAfter(s, mark) \in Nat \cup {NoSlotYet}
<1>1. CASE s.every > 0
  BY <1>1 DEF SlotAfter
<1>2. CASE ~(s.every > 0)
  <2> DEFINE later == {t \in s.times : t > mark}
  <2>1. later \in SUBSET Nat
    OBVIOUS
  <2>2. SlotAfter(s, mark) = IF later = {} THEN NoSlotYet ELSE Least(later)
    BY <1>2 DEF SlotAfter
  <2> HIDE DEF later
  <2>3. QED
    BY <2>1, <2>2, LeastIsLeast
<1>3. QED
  BY <1>1, <1>2

-----------------------------------------------------------------------------
(* The steps.                                                              *)

LEMMA CronTypes ==
  ASSUME CronInv
  PROVE  /\ wall \in Nat /\ readTime \in Nat /\ wake \in Nat /\ left \in Nat
         /\ series \in [CronEntries -> Marks] /\ marks \in [CronEntries -> Marks]
         /\ entry \in Nat \ {0} /\ steady.woke \in BOOLEAN /\ steady.slept \in BOOLEAN
         /\ decisions \in Seq(Decision) /\ DOMAIN decisions = 1..Len(decisions)
         /\ Len(decisions) \in Nat
<1>1. CronTypeOK /\ WallTimes \subseteq Nat
  BY ScheduleAssumption DEF CronInv
<1>2. QED
  BY <1>1, LenProperties DEF CronTypeOK

LEMMA CronInitially == CronInit => CronInv
<1> SUFFICES ASSUME CronInit PROVE CronInv
  OBVIOUS
<1> USE DEF CronInit
<1>1. wall \in Nat /\ NoMark \in Marks /\ decisions = <<>>
  BY ScheduleAssumption DEF Marks
<1>2. CronTypeOK
  <2>1. series \in [CronEntries -> Marks] /\ marks \in [CronEntries -> Marks]
    BY <1>1
  <2>2. decisions \in Seq(Decision)
    BY EmptySeq
  <2>3. steady \in [woke: BOOLEAN, slept: BOOLEAN]
    OBVIOUS
  <2>4. QED
    BY <1>1, <2>1, <2>2, <2>3 DEF CronTypeOK
<1>3. MarksHold /\ WakeHolds
  BY DEF MarksHold, WakeHolds, NeverOversleeps, Awake
<1>4. DecisionsHold
  BY <1>1, EmptySeq DEF DecisionsHold, SlotsDecidedInOrder
<1>5. QED
  BY <1>2, <1>3, <1>4 DEF CronInv

\* A step that decides nothing and lowers no mark of the table.
LEMMA DecisionsStay ==
  ASSUME CronInv, UNCHANGED decisions,
         \A i \in CronEntries : series'[i] \in Int /\ series[i] <= series'[i]
  PROVE  DecisionsHold'
<1>1. SlotsDecidedInOrder'
  BY DEF CronInv, DecisionsHold, SlotsDecidedInOrder
<1>2. \A j \in DOMAIN decisions : decisions[j].slot <= series'[decisions[j].entry]
  <2> TAKE j \in DOMAIN decisions
  <2>1. decisions[j] \in Decision
    BY CronTypes, ElementOfSeq
  <2>2. decisions[j].entry \in CronEntries /\ decisions[j].slot \in Nat
    BY <2>1 DEF Decision
  <2>3. decisions[j].slot <= series[decisions[j].entry]
    BY DEF CronInv, DecisionsHold
  <2>4. series[decisions[j].entry] \in Int
    BY <2>2, CronTypes DEF Marks, NoMark
  <2>5. QED
    BY <2>2, <2>3, <2>4
<1>3. QED
  BY <1>1, <1>2 DEF DecisionsHold

\* Waking, where the marks are the table's.
LEMMA WakesHold ==
  ASSUME CronInv, Wakes, wall' = wall, steps' \in Nat, decisions' = decisions,
         series' \in [CronEntries -> Nat], marks' = series'
  PROVE  CronTypeOK' /\ MarksHold' /\ WakeHolds'
<1> USE DEF Wakes
<1>1. wall \in Nat /\ wall + CronCap \in Nat /\ CronCap \in Nat
  BY CronTypes, ScheduleAssumption
<1>2. CronTypeOK'
  <2>1. series' \in [CronEntries -> Marks]
    BY DEF Marks
  <2>2. steady' \in [woke: BOOLEAN, slept: BOOLEAN]
    OBVIOUS
  <2>3. QED
    BY <1>1, <2>1, <2>2 DEF CronInv, CronTypeOK, Awake
<1>3. MarksHold'
  BY DEF MarksHold, NoMark
<1>4. WakeHolds'
  <2>1. \A i \in CronEntries : ~(i < 1)
    BY DEF CronEntries
  <2>2. cronPhase' = "looking" /\ entry' = 1 /\ readTime' = wall /\ wake' = wall + CronCap
    OBVIOUS
  <2>3. NeverOversleeps'
    BY <2>2 DEF NeverOversleeps
  <2>4. wake' <= readTime' + CronCap /\ readTime' <= wall'
    BY <1>1, <2>2
  <2>5. QED
    BY <2>1, <2>2, <2>3, <2>4 DEF WakeHolds
<1>5. QED
  BY <1>2, <1>3, <1>4

LEMMA StartCronStep == CronInv /\ StartCron => CronInv'
<1> SUFFICES ASSUME CronInv, StartCron PROVE CronInv'
  OBVIOUS
<1> USE DEF StartCron
<1>1. \A i \in CronEntries : series'[i] \in Nat /\ series[i] <= series'[i]
  <2> TAKE i \in CronEntries
  <2>1. wall \in Nat /\ WholeMinute \in Nat \ {0} /\ series[i] \in Marks
    BY CronTypes, ScheduleAssumption
  <2>2. wall - (wall % WholeMinute) \in Nat
    <3>1. \A a \in Nat, e \in Nat \ {0} : a - (a % e) \in Nat
      OBVIOUS
    <3>2. QED
      BY <2>1, <3>1
  <2>3. series'[i] = IF series[i] = NoMark THEN wall - (wall % WholeMinute) ELSE series[i]
    BY DEF Armed
  <2>4. QED
    BY <2>1, <2>2, <2>3 DEF Marks, NoMark
<1>2. series' \in [CronEntries -> Nat]
  <2>1. series' = [i \in CronEntries |-> series'[i]]
    BY DEF Armed
  <2>2. QED
    BY <1>1, <2>1
<1>3. steps' \in Nat
  BY DEF CronInv, CronTypeOK
<1>4. CronTypeOK' /\ MarksHold' /\ WakeHolds'
  BY <1>2, <1>3, WakesHold
<1>5. DecisionsHold'
  BY <1>1, DecisionsStay
<1>6. QED
  BY <1>4, <1>5 DEF CronInv

\* Once awake the marks are times.
LEMMA AwakeMarks ==
  ASSUME CronInv, cronPhase # "down"
  PROVE  series \in [CronEntries -> Nat]
BY CronTypes DEF CronInv, MarksHold, Marks

LEMMA SeriesKept ==
  ASSUME CronInv, UNCHANGED <<series, decisions>>
  PROVE  DecisionsHold'
BY CronTypes, DecisionsStay DEF Marks, NoMark

LEMMA WakeUpStep == CronInv /\ WakeUp => CronInv'
<1> SUFFICES ASSUME CronInv, WakeUp PROVE CronInv'
  OBVIOUS
<1> USE DEF WakeUp
<1>1. series \in [CronEntries -> Nat] /\ marks = series
  BY AwakeMarks DEF CronInv, MarksHold
<1>2. steps' \in Nat
  BY DEF CronInv, CronTypeOK
<1>3. CronTypeOK' /\ MarksHold' /\ WakeHolds'
  BY <1>1, <1>2, WakesHold
<1>4. DecisionsHold'
  BY SeriesKept
<1>5. QED
  BY <1>3, <1>4 DEF CronInv

\* What the entry looked at has due.
LEMMA DueSlot ==
  ASSUME CronInv, cronPhase = "looking", entry \in CronEntries, Due(entry) # NoSlotYet
  PROVE  /\ Due(entry) = LatestSlot(Schedules[entry], series[entry], readTime)
         /\ Due(entry) \in Nat
<1>1. marks = series /\ series[entry] \in Nat
  BY AwakeMarks DEF CronInv, MarksHold
<1>2. Due(entry) = LatestSlot(Schedules[entry], series[entry], readTime)
  BY <1>1 DEF Due
<1>3. Schedules[entry].every \in Nat /\ Schedules[entry].times \subseteq Nat /\ readTime \in Nat
  BY ScheduleType, CronTypes
<1>4. Due(entry) \in Nat
  BY <1>1, <1>2, <1>3, LatestSlotIsLast
<1>5. QED
  BY <1>2, <1>4

LEMMA FireSlotStep == CronInv /\ FireSlot => CronInv'
<1> SUFFICES ASSUME CronInv, FireSlot PROVE CronInv'
  OBVIOUS
<1> USE DEF FireSlot
<1> DEFINE slot == Due(entry)
<1>1. /\ marks = series /\ slot \in Nat /\ slot # NoSlotYet
      /\ slot = LatestSlot(Schedules[entry], series[entry], readTime)
      /\ marks' = [marks EXCEPT ![entry] = slot] /\ entry \in Nat
  BY DueSlot DEF CronInv, MarksHold, CronEntries
<1> HIDE DEF slot
<1>2. CronTypeOK'
  BY <1>1 DEF CronInv, CronTypeOK, Awake, Marks
<1>3. MarksHold'
  BY <1>1 DEF CronInv, MarksHold
<1>4. WakeHolds'
  <2>1. \A i \in CronEntries : i < entry => marks'[i] = marks[i]
    BY <1>1 DEF CronEntries
  <2>2. \A i \in CronEntries : i < entry => ComesBefore(wake, i)'
    BY <2>1 DEF CronInv, WakeHolds, ComesBefore, Awake
  <2>3. QED
    BY <2>2 DEF CronInv, WakeHolds, NeverOversleeps, Awake
<1>5. DecisionsHold'
  BY SeriesKept
<1>6. QED
  BY <1>2, <1>3, <1>4, <1>5 DEF CronInv

\* The slot decided is the last one due of its entry, past all it decided.
LEMMA DecideTickStep == CronInv /\ DecideTick => CronInv'
<1> SUFFICES ASSUME CronInv, DecideTick PROVE CronInv'
  OBVIOUS
<1> USE DEF DecideTick
<1> DEFINE slot == marks[entry]
           d == [entry |-> entry, slot |-> slot, after |-> series[entry], read |-> readTime]
<1>1. /\ entry \in CronEntries /\ series[entry] \in Nat /\ readTime \in Nat
      /\ slot = LatestSlot(Schedules[entry], series[entry], readTime) /\ slot # NoSlotYet
      /\ marks = [series EXCEPT ![entry] = slot] /\ series \in [CronEntries -> Nat]
  BY AwakeMarks, CronTypes DEF CronInv, MarksHold
<1>2. /\ slot \in Nat /\ IsSlotAfter(Schedules[entry], series[entry], slot) /\ slot <= readTime
      /\ \A t \in Nat : t > slot /\ t <= readTime
           => ~IsSlotAfter(Schedules[entry], series[entry], t)
  BY <1>1, ScheduleType, LatestSlotIsLast
<1>3. slot > series[entry]
  BY <1>2 DEF IsSlotAfter
<1>4. series' = [series EXCEPT ![entry] = slot] /\ decisions' = Append(decisions, d)
  BY <1>1, <1>2, <1>3
<1>5. series' = marks
  BY <1>1, <1>4
<1>6. d \in Decision
  BY <1>1, <1>2 DEF Decision
<1> DEFINE n == Len(decisions)
<1>7. /\ decisions' \in Seq(Decision) /\ Len(decisions') = n + 1
      /\ DOMAIN decisions' = 1..n + 1 /\ decisions'[n + 1] = d /\ n \in Nat
      /\ \A j \in 1..n : decisions'[j] = decisions[j] /\ decisions[j] \in Decision
  <2>1. decisions \in Seq(Decision) /\ n \in Nat
    BY CronTypes
  <2>2. /\ decisions' \in Seq(Decision) /\ Len(decisions') = n + 1 /\ decisions'[n + 1] = d
        /\ \A j \in 1..n : decisions'[j] = decisions[j]
    BY <1>4, <1>6, <2>1, AppendProperties
  <2>3. \A j \in 1..n : decisions[j] \in Decision
    BY <2>1, ElementOfSeq
  <2>4. DOMAIN decisions' = 1..n + 1
    BY <2>2, LenProperties
  <2>5. QED
    BY <2>1, <2>2, <2>3, <2>4
<1> HIDE DEF n
<1>8. CronTypeOK'
  BY <1>5, <1>7 DEF CronInv, CronTypeOK, Awake
<1>9. MarksHold'
  BY <1>1, <1>2, <1>5 DEF MarksHold, NoMark
<1>10. WakeHolds'
  BY DEF CronInv, WakeHolds, NeverOversleeps, Awake, ComesBefore
<1>11. DecisionsHold'
  <2>1. \A j \in 1..n : decisions[j].slot <= series[decisions[j].entry]
    BY CronTypes DEF CronInv, DecisionsHold, n
  <2>2. ASSUME NEW j \in 1..n, decisions[j].entry = entry PROVE decisions[j].slot < slot
    <3>1. decisions[j].slot \in Nat
      BY <1>7 DEF Decision
    <3>2. decisions[j].slot <= series[entry]
      BY <2>1, <2>2
    <3>3. slot \in Nat /\ series[entry] \in Nat /\ slot > series[entry]
      BY <1>1, <1>2, <1>3
    <3> HIDE DEF slot, DecideTick
    <3>4. QED
      BY <3>1, <3>2, <3>3
  <2>3. ASSUME NEW i \in 1..n + 1
        PROVE  LET e == decisions'[i]
                   s == Schedules[e.entry]
               IN  /\ IsSlotAfter(s, e.after, e.slot) /\ e.slot <= e.read
                   /\ ~\E t \in WallTimes : t > e.slot /\ t <= e.read /\ IsSlotAfter(s, e.after, t)
                   /\ \A j \in 1..(i - 1) : decisions'[j].entry = e.entry
                                              => decisions'[j].slot < e.slot
    <3>1. CASE i = n + 1
      <4>1. decisions'[i] = d /\ \A j \in 1..(i - 1) : decisions'[j] = decisions[j]
        BY <1>7, <3>1
      <4>2. /\ d.entry = entry /\ d.slot = slot /\ d.after = series[entry] /\ d.read = readTime
        OBVIOUS
      <4>3. WallTimes \subseteq Nat /\ 1..(i - 1) = 1..n
        BY <1>7, <3>1, ScheduleAssumption
      <4> HIDE DEF d, slot
      <4>4. QED
        BY <1>2, <2>2, <4>1, <4>2, <4>3
    <3>2. CASE i \in 1..n
      <4>1. decisions'[i] = decisions[i] /\ \A j \in 1..(i - 1) : decisions'[j] = decisions[j]
        BY <1>7, <3>2
      <4>2. SlotsDecidedInOrder
        BY DEF CronInv, DecisionsHold
      <4>3. QED
        BY <3>2, <4>1, <4>2 DEF SlotsDecidedInOrder, n
    <3>3. QED
      BY <1>7, <3>1, <3>2
  <2>4. SlotsDecidedInOrder'
    BY <1>7, <2>3 DEF SlotsDecidedInOrder
  <2>5. \A j \in 1..n + 1 : decisions'[j].slot <= series'[decisions'[j].entry]
    <3> TAKE j \in 1..n + 1
    <3>1. CASE j = n + 1
      BY <1>1, <1>2, <1>4, <1>7, <3>1
    <3>2. CASE j \in 1..n
      <4>1. decisions'[j] = decisions[j] /\ decisions[j].entry \in CronEntries
            /\ decisions[j].slot \in Nat
        BY <1>7, <3>2 DEF Decision
      <4>2. CASE decisions[j].entry = entry
        <5>1. series'[entry] = slot
          BY <1>1, <1>4
        <5>2. decisions[j].slot < slot
          BY <2>2, <3>2, <4>2
        <5> HIDE DEF slot
        <5>3. QED
          BY <1>2, <4>1, <4>2, <5>1, <5>2
      <4>3. CASE decisions[j].entry # entry
        BY <1>1, <1>4, <2>1, <3>2, <4>1, <4>3
      <4>4. QED
        BY <4>2, <4>3
    <3>3. QED
      BY <1>7, <3>1, <3>2
  <2>6. QED
    BY <1>7, <2>4, <2>5 DEF DecisionsHold
<1>12. QED
  BY <1>8, <1>9, <1>10, <1>11 DEF CronInv

LEMMA NextEntryStep == CronInv /\ NextEntry => CronInv'
<1> SUFFICES ASSUME CronInv, NextEntry PROVE CronInv'
  OBVIOUS
<1> USE DEF NextEntry
<1>1. entry \in CronEntries /\ cronPhase \in {"looking", "decided"} /\ marks = series
      /\ marks[entry] \in Nat /\ wake \in Nat
  BY AwakeMarks, CronTypes DEF CronInv, MarksHold
<1> DEFINE next == SlotAfter(Schedules[entry], marks[entry])
<1>2. next \in Nat \cup {NoSlotYet}
  BY <1>1, ScheduleType, SlotAfterType
<1>3. /\ wake' \in Nat /\ wake' <= wake
      /\ next = NoSlotYet \/ wake' <= next
  <2>1. CASE next = NoSlotYet
    BY <1>1, <2>1
  <2>2. CASE next # NoSlotYet
    <3>1. wake' = Least({wake, next}) /\ {wake, next} \in SUBSET Nat
      BY <1>1, <1>2, <2>2
    <3> HIDE DEF next
    <3>2. Least({wake, next}) \in {wake, next} /\ \A y \in {wake, next} : Least({wake, next}) <= y
      BY <3>1, LeastIsLeast
    <3>3. QED
      BY <3>1, <3>2
  <2>3. QED
    BY <2>1, <2>2
<1>4. ComesBefore(wake', entry)
  BY <1>3 DEF ComesBefore
<1>5. CronTypeOK'
  BY <1>3 DEF CronInv, CronTypeOK, Awake
<1>6. MarksHold'
  BY <1>1 DEF CronInv, MarksHold
<1>7. WakeHolds'
  <2>1. \A i \in CronEntries : i < entry => ComesBefore(wake, i)
    BY <1>1 DEF CronInv, WakeHolds, Awake
  <2>2. \A i \in CronEntries : i < entry => ComesBefore(wake', i)
    <3> SUFFICES ASSUME NEW i \in CronEntries, i < entry PROVE ComesBefore(wake', i)
      OBVIOUS
    <3>1. SlotAfter(Schedules[i], marks[i]) \in Nat \cup {NoSlotYet}
      BY <1>1, AwakeMarks, ScheduleType, SlotAfterType
    <3>2. QED
      BY <1>1, <1>3, <2>1, <3>1 DEF ComesBefore
  <2>3. \A i \in CronEntries : i < entry + 1 => ComesBefore(wake', i)
    <3>1. \A i \in CronEntries : i < entry + 1 => i < entry \/ i = entry
      BY <1>1 DEF CronEntries
    <3>2. QED
      BY <1>4, <2>2, <3>1
  <2>4. \A i \in CronEntries : i < entry' => ComesBefore(wake, i)'
    BY <2>3 DEF ComesBefore
  <2>5. wake <= readTime + CronCap /\ readTime \in Nat /\ (steady.woke => readTime <= wall)
    BY <1>1, CronTypes DEF CronInv, WakeHolds, Awake
  <2>6. wake' <= readTime' + CronCap /\ (steady'.woke => readTime' <= wall')
    BY <1>1, <1>3, <2>5, ScheduleAssumption
  <2>7. cronPhase' = "looking"
    OBVIOUS
  <2>8. NeverOversleeps'
    BY <2>7 DEF NeverOversleeps
  <2>9. QED
    BY <2>4, <2>6, <2>8 DEF WakeHolds
<1>8. DecisionsHold'
  BY SeriesKept
<1>9. QED
  BY <1>5, <1>6, <1>7, <1>8 DEF CronInv

\* Every entry was looked at, so the wake is bounded by them all.
LEMMA FallAsleepStep == CronInv /\ FallAsleep => CronInv'
<1> SUFFICES ASSUME CronInv, FallAsleep PROVE CronInv'
  OBVIOUS
<1> USE DEF FallAsleep
<1>1. wall \in Nat /\ wake \in Nat /\ readTime \in Nat /\ CronCap \in Nat
  BY CronTypes, ScheduleAssumption
<1>2. /\ wake <= readTime + CronCap /\ (steady.woke => readTime <= wall)
      /\ \A i \in CronEntries : ComesBefore(wake, i)
  <2>1. \A i \in CronEntries : i < entry
    <3>1. Len(Schedules) \in Nat /\ entry \in Nat \ {0} /\ entry \notin 1..Len(Schedules)
      BY CronTypes, ScheduleAssumption, LenProperties DEF CronEntries
    <3>2. QED
      BY <3>1 DEF CronEntries
  <2>2. QED
    BY <2>1 DEF CronInv, WakeHolds, Awake
<1>3. left' \in Nat /\ (left' = 0 \/ wall + left' = wake)
  BY <1>1
<1>4. steady' = [steady EXCEPT !.slept = TRUE] /\ steady'.woke = steady.woke
      /\ steady' \in [woke: BOOLEAN, slept: BOOLEAN]
  BY DEF CronInv, CronTypeOK
<1>5. CronTypeOK'
  BY <1>3, <1>4 DEF CronInv, CronTypeOK
<1>6. MarksHold'
  BY DEF CronInv, MarksHold
<1>7. NeverOversleeps'
  <2>1. steady.woke => left' <= CronCap
    BY <1>1, <1>2, <1>3
  <2>2. \A i \in CronEntries : LET next == SlotAfter(Schedules[i], marks[i])
                               IN  next = NoSlotYet \/ wall + left' <= next \/ left' = 0
    BY <1>2, <1>3 DEF ComesBefore
  <2>3. QED
    BY <1>4, <2>1, <2>2 DEF NeverOversleeps
<1>8. WakeHolds'
  BY <1>7 DEF WakeHolds, Awake
<1>9. DecisionsHold'
  BY SeriesKept
<1>10. QED
  BY <1>5, <1>6, <1>8, <1>9 DEF CronInv

LEMMA TimePassesStep == CronInv /\ TimePasses => CronInv'
<1> SUFFICES ASSUME CronInv, TimePasses PROVE CronInv'
  OBVIOUS
<1> USE DEF TimePasses
<1>1. wall \in Nat /\ wall' = wall + 1 /\ left \in Nat /\ CronCap \in Nat /\ readTime \in Nat
      /\ left' \in Nat /\ left' <= left
  BY CronTypes, ScheduleAssumption
<1>2. CronTypeOK'
  BY <1>1 DEF CronInv, CronTypeOK
<1>3. MarksHold'
  BY DEF CronInv, MarksHold
<1>4. NeverOversleeps'
  <2>1. CASE cronPhase = "asleep"
    <3>1. wall' + left' = wall + left /\ NeverOversleeps
      BY <1>1, <2>1 DEF CronInv, WakeHolds
    <3>2. steady.woke => left' <= CronCap
      BY <1>1, <2>1, <3>1 DEF NeverOversleeps
    <3>3. steady.woke /\ steady.slept =>
            \A i \in CronEntries : LET next == SlotAfter(Schedules[i], marks[i])
                                   IN  next = NoSlotYet \/ wall' + left' <= next \/ left' = 0
      BY <2>1, <3>1 DEF NeverOversleeps
    <3>4. QED
      BY <3>2, <3>3 DEF NeverOversleeps
  <2>2. CASE cronPhase # "asleep"
    BY <2>2 DEF NeverOversleeps
  <2>3. QED
    BY <2>1, <2>2
<1>5. WakeHolds'
  <2>1. CASE cronPhase \in Awake
    <3>1. /\ wake <= readTime + CronCap /\ (steady.woke => readTime <= wall)
          /\ \A i \in CronEntries : i < entry => ComesBefore(wake, i)
      BY <2>1 DEF CronInv, WakeHolds
    <3>2. steady.woke => readTime <= wall'
      BY <1>1, <3>1
    <3>3. \A i \in CronEntries : i < entry => ComesBefore(wake, i)'
      BY <3>1 DEF ComesBefore
    <3>4. QED
      BY <1>4, <3>1, <3>2, <3>3 DEF WakeHolds
  <2>2. CASE cronPhase \notin Awake
    BY <1>4, <2>2 DEF WakeHolds
  <2>3. QED
    BY <2>1, <2>2
<1>6. DecisionsHold'
  BY SeriesKept
<1>7. QED
  BY <1>2, <1>3, <1>5, <1>6 DEF CronInv

\* A step of the clock under a sleep leaves the cap, and under a firing nothing
\* but what a clock that ran on promises.
LEMMA WallSteppedStep == CronInv /\ WallStepped => CronInv'
<1> SUFFICES ASSUME CronInv, WallStepped PROVE CronInv'
  OBVIOUS
<1> USE DEF WallStepped
<1>1. wall \in Nat /\ wall' \in Nat /\ wall' \in WallTimes /\ readTime \in Nat
  BY CronTypes, ScheduleAssumption
<1>2. steady'.woke = (steady.woke /\ (cronPhase = "asleep" \/ wall' > wall)) /\ steady'.slept = FALSE
  OBVIOUS
<1>3. CronTypeOK'
  <2>1. (steady.woke /\ (cronPhase = "asleep" \/ wall' > wall)) \in BOOLEAN
    OBVIOUS
  <2>2. steady' \in [woke: BOOLEAN, slept: BOOLEAN]
    BY <2>1
  <2>3. QED
    BY <1>1, <2>2 DEF CronInv, CronTypeOK
<1>4. MarksHold'
  BY DEF CronInv, MarksHold
<1>5. NeverOversleeps'
  BY <1>2 DEF CronInv, WakeHolds, NeverOversleeps
<1>6. WakeHolds'
  <2>1. CASE cronPhase \in Awake
    <3>1. /\ wake <= readTime + CronCap /\ (steady.woke => readTime <= wall)
          /\ \A i \in CronEntries : i < entry => ComesBefore(wake, i)
      BY <2>1 DEF CronInv, WakeHolds
    <3>2. steady'.woke => readTime <= wall'
      <4>1. cronPhase # "asleep"
        BY <2>1 DEF Awake
      <4>2. steady'.woke => steady.woke /\ wall' > wall
        BY <1>2, <4>1, Zenon
      <4>3. steady.woke => readTime <= wall
        BY <3>1
      <4>4. readTime <= wall /\ wall' > wall => readTime <= wall'
        BY <1>1
      <4>5. QED
        BY <4>2, <4>3, <4>4, Zenon
    <3>3. \A i \in CronEntries : i < entry => ComesBefore(wake, i)'
      BY <3>1 DEF ComesBefore
    <3>4. QED
      BY <1>5, <3>1, <3>2, <3>3 DEF WakeHolds
  <2>2. CASE cronPhase \notin Awake
    BY <1>5, <2>2 DEF WakeHolds
  <2>3. QED
    BY <2>1, <2>2
<1>7. DecisionsHold'
  BY SeriesKept
<1>8. QED
  BY <1>3, <1>4, <1>6, <1>7 DEF CronInv

LEMMA CronDiesStep == CronInv /\ CronDies => CronInv'
<1> SUFFICES ASSUME CronInv, CronDies PROVE CronInv'
  OBVIOUS
<1> USE DEF CronDies
<1>1. CronTypeOK' /\ MarksHold'
  BY DEF CronInv, CronTypeOK, MarksHold
<1>2. WakeHolds'
  BY DEF WakeHolds, NeverOversleeps, Awake
<1>3. DecisionsHold'
  BY SeriesKept
<1>4. QED
  BY <1>1, <1>2, <1>3 DEF CronInv

LEMMA CronStutters == CronInv /\ UNCHANGED cronVars => CronInv'
<1> SUFFICES ASSUME CronInv, UNCHANGED cronVars PROVE CronInv'
  OBVIOUS
<1> USE DEF cronVars
<1>1. CronTypeOK' /\ MarksHold'
  BY DEF CronInv, CronTypeOK, MarksHold
<1>2. WakeHolds'
  BY DEF CronInv, WakeHolds, NeverOversleeps, ComesBefore
<1>3. DecisionsHold'
  BY SeriesKept
<1>4. QED
  BY <1>1, <1>2, <1>3 DEF CronInv

-----------------------------------------------------------------------------
\* The scheduler's marks are the table's but for the slot it fires, and its wake
\* lies by the next slot of each entry it has looked at, whenever the clock is
\* set and wherever the process dies.  (Scheduler::run, handle_tick, arm)
THEOREM CronInvariance == CronSpec => []CronInv
<1>1. CronInv /\ [CronNext]_cronVars => CronInv'
  BY StartCronStep, WakeUpStep, FireSlotStep, DecideTickStep, NextEntryStep, FallAsleepStep,
     TimePassesStep, WallSteppedStep, CronDiesStep, CronStutters DEF CronNext
<1>2. QED
  BY <1>1, CronInitially, PTL DEF CronSpec

\* Every decided slot is one of its schedule, past all decided before it, and
\* the last one due when the scheduler woke; and the scheduler asleep wakes by
\* the next slot of every entry.  (Schedule::latest, handle_tick, Scheduler::run)
THEOREM CronAlwaysHolds == CronSpec => []CronHolds
<1>1. CronInv => CronHolds
  BY DEF CronInv, WakeHolds, DecisionsHold, CronHolds
<1>2. QED
  BY <1>1, CronInvariance, PTL

=============================================================================
