-------------------------------- MODULE Cron --------------------------------
(***************************************************************************)
(* The cron scheduler (db/src/cron.rs) over the writer's series marks      *)
(* (db/src/core/writer.rs).  It sleeps on the monotonic clock and reads    *)
(* the wall clock, which may be stepped either way at any time and runs on *)
(* while the process is down.                                              *)
(*                                                                         *)
(* A spec's calendar is the set of times it names, the local times, zones  *)
(* and gaps it comes from left out.  A hook's edits are EditLog's.         *)
(***************************************************************************)
EXTENDS Integers, Sequences, FiniteSets

CONSTANTS
  Schedules,    \* each entry's schedule: [every, times], every 0 for a spec
  CronCap,      \* the longest sleep
  WholeMinute,  \* a minute, which the mark of a new entry is cut to
  WallTimes,    \* times the wall clock may show
  MaxSteps      \* steps of the wall clock, crashes and starts

CronEntries == 1..Len(Schedules)
NoMark == -1
NoSlotYet == -1

ASSUME ScheduleAssumption ==
  /\ CronCap \in Nat \ {0} /\ WholeMinute \in Nat \ {0}
  /\ WallTimes \subseteq Nat /\ MaxSteps \in Nat
  /\ Schedules \in Seq([every: Nat, times: SUBSET WallTimes])

VARIABLES
  wall,       \* the wall clock, in seconds
  series,     \* the series table: each entry's mark, the last of its slots decided
  cronPhase,  \* the scheduler: "down", "looking", "firing", "decided", "asleep"
  marks,      \* its marks
  entry,      \* the entry it looks at
  readTime,   \* the time it read when it woke
  wake,       \* when it will wake, as far as it has looked
  left,       \* what is left of its sleep
  steady,     \* whether the wall clock has only run on since it woke, and since it fell asleep
  decisions,  \* history: every slot decided, with its entry and what it woke to
  steps       \* steps, crashes and starts so far

cronVars == <<wall, series, cronPhase, marks, entry, readTime, wake, left, steady,
              decisions, steps>>

Least(S) == CHOOSE x \in S : \A y \in S : x <= y
Greatest(S) == CHOOSE x \in S : \A y \in S : y <= x

\* The first slot after a time, if there is one.
SlotAfter(s, after) ==
  IF s.every > 0 THEN after + s.every
  ELSE LET later == {t \in s.times : t > after} IN IF later = {} THEN NoSlotYet ELSE Least(later)

\* Mutant of LatestSlot: an @every's slots are counted from now.
MutLatestSlot(s, mark, now) ==
  IF s.every > 0
  THEN IF now - mark >= s.every THEN now ELSE NoSlotYet
  ELSE LET due == {t \in s.times : mark < t /\ t <= now}
       IN  IF due = {} THEN NoSlotYet ELSE Greatest(due)

\* The last slot after mark and at or before now, if there is one.
LatestSlot(s, mark, now) ==
  IF s.every > 0
  THEN LET k == (now - mark) \div s.every IN IF k > 0 THEN mark + k * s.every ELSE NoSlotYet
  ELSE LET due == {t \in s.times : mark < t /\ t <= now}
       IN  IF due = {} THEN NoSlotYet ELSE Greatest(due)

Due(i) == LatestSlot(Schedules[i], marks[i], readTime)

CronInit ==
  /\ wall \in WallTimes /\ cronPhase = "down" /\ steps = 0
  /\ series = [i \in CronEntries |-> NoMark] /\ marks = series
  /\ entry = 1 /\ readTime = wall /\ wake = wall /\ left = 0
  /\ steady = [woke |-> TRUE, slept |-> TRUE] /\ decisions = <<>>

\* The time of a wake is read, and the first entry looked at.
Wakes ==
  /\ cronPhase' = "looking"
  /\ entry' = 1
  /\ readTime' = wall
  /\ wake' = wall + CronCap
  /\ left' = 0
  /\ steady' = [woke |-> TRUE, slept |-> TRUE]

\* The table once an entry without a mark got the minute's.
Armed ==
  [i \in CronEntries |-> IF series[i] = NoMark THEN wall - (wall % WholeMinute) ELSE series[i]]

\* The server starts, arms its entries, and the scheduler runs from their marks.
StartCron ==
  /\ cronPhase = "down" /\ steps < MaxSteps
  /\ series' = Armed
  /\ marks' = series'
  /\ steps' = steps + 1
  /\ Wakes
  /\ UNCHANGED <<wall, decisions>>

WakeUp ==
  /\ cronPhase = "asleep" /\ left = 0
  /\ Wakes
  /\ UNCHANGED <<wall, series, marks, decisions, steps>>

\* The entry looked at has a slot due, which becomes its mark before it fires.
FireSlot ==
  /\ cronPhase = "looking" /\ entry \in CronEntries
  /\ Due(entry) # NoSlotYet
  /\ marks' = [marks EXCEPT ![entry] = Due(entry)]
  /\ cronPhase' = "firing"
  /\ UNCHANGED <<wall, series, entry, readTime, wake, left, steady, decisions, steps>>

\* The writer decides the tick, unless its slot was decided already.
DecideTick ==
  /\ cronPhase = "firing"
  /\ cronPhase' = "decided"
  /\ IF marks[entry] <= series[entry]
     THEN UNCHANGED <<series, decisions>>
     ELSE /\ series' = [series EXCEPT ![entry] = marks[entry]]
          /\ decisions' = Append(decisions,
               [entry |-> entry, slot |-> marks[entry], after |-> series[entry], read |-> readTime])
  /\ UNCHANGED <<wall, marks, entry, readTime, wake, left, steady, steps>>

\* The entry's next slot bounds the sleep, and the next entry is looked at.
NextEntry ==
  /\ \/ cronPhase = "decided"
     \/ cronPhase = "looking" /\ entry \in CronEntries /\ Due(entry) = NoSlotYet
  /\ LET next == SlotAfter(Schedules[entry], marks[entry])
     IN  wake' = IF next = NoSlotYet THEN wake ELSE Least({wake, next})
  /\ entry' = entry + 1
  /\ cronPhase' = "looking"
  /\ UNCHANGED <<wall, series, marks, readTime, left, steady, decisions, steps>>

\* It sleeps from the time the firing finished.
FallAsleep ==
  /\ cronPhase = "looking" /\ entry \notin CronEntries
  /\ left' = IF wake > wall THEN wake - wall ELSE 0
  /\ cronPhase' = "asleep"
  /\ steady' = [steady EXCEPT !.slept = TRUE]
  /\ UNCHANGED <<wall, series, marks, entry, readTime, wake, decisions, steps>>

\* Time passes while it sleeps, while a hook runs, and while it is down.
TimePasses ==
  /\ wall + 1 \in WallTimes
  /\ cronPhase \in {"down", "firing"} \/ (cronPhase = "asleep" /\ left > 0)
  /\ wall' = wall + 1
  /\ left' = IF cronPhase = "asleep" THEN left - 1 ELSE left
  /\ UNCHANGED <<series, cronPhase, marks, entry, readTime, wake, steady, decisions, steps>>

\* The wall clock is set, or the machine was suspended meanwhile.
WallStepped ==
  /\ steps < MaxSteps
  /\ wall' \in WallTimes \ {wall}
  /\ steady' = [woke |-> steady.woke /\ (cronPhase = "asleep" \/ wall' > wall), slept |-> FALSE]
  /\ steps' = steps + 1
  /\ UNCHANGED <<series, cronPhase, marks, entry, readTime, wake, left, decisions>>

\* The process ends, whatever it was at: what the writer decided stays.
CronDies ==
  /\ cronPhase # "down" /\ steps < MaxSteps
  /\ cronPhase' = "down"
  /\ steps' = steps + 1
  /\ UNCHANGED <<wall, series, marks, entry, readTime, wake, left, steady, decisions>>

CronNext ==
  \/ StartCron \/ WakeUp \/ FireSlot \/ DecideTick \/ NextEntry \/ FallAsleep
  \/ TimePasses \/ WallStepped \/ CronDies

CronSpec == CronInit /\ [][CronNext]_cronVars

-----------------------------------------------------------------------------
\* A slot of the schedule after mark, an @every's anchored at it.
IsSlotAfter(s, mark, slot) ==
  slot > mark /\ IF s.every > 0 THEN (slot - mark) % s.every = 0 ELSE slot \in s.times

\* Every decided slot is one of its schedule, past every slot of its entry
\* decided before it, already due, and the last one due when the scheduler
\* woke, across restarts and clocks set back.  (Schedule::latest, handle_tick)
SlotsDecidedInOrder ==
  \A i \in 1..Len(decisions) :
    LET d == decisions[i]
        s == Schedules[d.entry]
    IN  /\ IsSlotAfter(s, d.after, d.slot) /\ d.slot <= d.read
        /\ ~\E t \in WallTimes : t > d.slot /\ t <= d.read /\ IsSlotAfter(s, d.after, t)
        /\ \A j \in 1..(i - 1) : decisions[j].entry = d.entry => decisions[j].slot < d.slot

\* Asleep, it wakes by the next slot of every entry, and where the clock is set
\* under it, within the cap: a tick is late by no more.  A clock set back while a
\* hook runs lengthens the sleep that follows.  (Scheduler::run)
NeverOversleeps ==
  cronPhase = "asleep" =>
    /\ steady.woke => left <= CronCap
    /\ steady.woke /\ steady.slept =>
         \A i \in CronEntries : LET next == SlotAfter(Schedules[i], marks[i])
                                IN  next = NoSlotYet \/ wall + left <= next \/ left = 0

CronHolds == SlotsDecidedInOrder /\ NeverOversleeps
=============================================================================
