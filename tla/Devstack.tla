------------------------------ MODULE Devstack ------------------------------
(***************************************************************************)
(* The supervisor of a development stack (devstack.mts, which every        *)
(* example carries): stages that stand up in order and come down in        *)
(* reverse, one advance() that drives them all from their state, one slot  *)
(* for the pre and post steps, containers that outlive their supervisor,   *)
(* and the running.json a later run cleans up from.                        *)
(*                                                                         *)
(* A handler of the supervisor is one action: Node runs one at a time.     *)
(* What it drives, the children and the containers, moves between them,    *)
(* and a kill may also cut a turn short, between the start of a process    *)
(* and the write that names it.                                            *)
(***************************************************************************)
EXTENDS Integers, Sequences, FiniteSets, SequencesExt

CONSTANTS
  Docker,          \* one BOOLEAN for each stage, in boot order: is it a container?
  Pre, Post,       \* how many steps each stage has
  CommandKeys,     \* the hotkeys of one-off commands
  NoSlot,
  Faults,          \* what may go wrong
  MaxFaults, MaxKeys,  \* bounds: of what goes wrong, of keys and signals,
  MaxEvents            \* and of both together

N == Len(Docker)
Stages == 1..N

ASSUME DevstackAssumption ==
  /\ Docker \in Seq(BOOLEAN)
  /\ Pre \in [Stages -> Nat] /\ Post \in [Stages -> Nat]
  /\ MaxFaults \in Nat /\ MaxKeys \in Nat /\ MaxEvents \in Nat

VARIABLES
  run,        \* "live", "finished" when a quit is complete, "dead" when it was cut
              \* short, "recovering" before the first turn of a later run
  scheduled,  \* a turn of advance() is asked for
  stages,     \* the state of each stage
  slot,       \* the step in flight, or NoSlot
  target,     \* the stage to walk to, whether to quit, and the hotkeys pressed
  commands,   \* the one-off commands
  oneshot,    \* the headless mode's state
  tracker,    \* running.json, and what it is to name
  world,      \* the children and the containers
  faults, keys

vars == <<run, scheduled, stages, slot, target, commands, oneshot, tracker, world, faults, keys>>

\* A stage that is down.  Its proc is "none", or "running", "dying" once it was
\* sent its signal, or "exited".
Down == [preDone |-> 0, postDone |-> 0, postStarted |-> FALSE, up |-> FALSE, crashed |-> FALSE,
         container |-> FALSE, started |-> FALSE, wantDown |-> FALSE, killSent |-> FALSE,
         rmStarted |-> FALSE, rmPending |-> FALSE, proc |-> "none"]

\* Outside the supervisor.  A child is "none", "alive" or "ended", its event
\* yet to come; a box, a container, is "none", "created", "running" or
\* "stopped"; told are those that were sent their signal.  Docker is asked to
\* create, start and remove boxes, and late by an earlier run; foreign boxes are
\* those of which no one was told or that recovery left, stuck ones docker
\* failed to remove.  Of earlier runs' processes that live, a later run
\* signalled some and has forgotten others; what became of those of the excused
\* stages, a fault decided.
Quiet == [child |-> [i \in Stages |-> "none"], box |-> [i \in Stages |-> "none"],
          told |-> {}, asked |-> {}, late |-> {}, foreign |-> {}, stuck |-> {},
          signalled |-> {}, forgotten |-> {}, excused |-> {}]

\* What running.json is to name, what it names, whether its last write failed,
\* and the entries of an earlier run that recovery has yet to come to.
Untracked == [running |-> <<>>, file |-> <<>>, failed |-> FALSE, old |-> <<>>]

TrackerWrite(t, running, ok) ==
  [t EXCEPT !.running = running, !.file = IF ok THEN running ELSE @, !.failed = ~ok]

Pid(i) == <<"pid", i>>
Box(i) == <<"container", i>>

(***************************************************************************)
(* The stages.  What advance() does runs over a record of what it changes: *)
(* the stages, the slot, running.json and the world; whether the walk is   *)
(* parked, as a return from advanceStages leaves it; whether running.json  *)
(* can be written; and the moments at which a process is started and not   *)
(* yet tracked.                                                            *)
(***************************************************************************)
FullyDown(s, i) ==
  /\ s.stages[i].proc = "none" /\ ~s.stages[i].container
  /\ s.slot # NoSlot => s.slot.stage # i

Park(s) == [s EXCEPT !.parked = TRUE]

\* Mutant of ResetRun: it leaves killSent set.
MutResetRun(s, i) ==
  [s EXCEPT !.stages[i] = [Down EXCEPT !.killSent = s.stages[i].killSent]]

ResetRun(s, i) == [s EXCEPT !.stages[i] = Down]

ConsumeStep(s) ==
  LET i == s.slot.stage
      free == [s EXCEPT !.slot = NoSlot]
  IN  CASE s.slot = NoSlot \/ ~s.slot.settled -> s
        [] s.slot # NoSlot /\ s.slot.settled ->
             CASE s.slot.aborted -> free
               [] ~s.slot.aborted /\ ~s.slot.ok -> [free EXCEPT !.stages[i].crashed = TRUE]
               [] ~s.slot.aborted /\ s.slot.ok /\ s.slot.kind = "pre" ->
                    [free EXCEPT !.stages[i].preDone = @ + 1]
               [] ~s.slot.aborted /\ s.slot.ok /\ s.slot.kind = "post" ->
                    [free EXCEPT !.stages[i].postDone = @ + 1]
               [] OTHER -> free

\* A step of a stage that crashed has nothing left to contribute.
AbortCrashed(s) ==
  IF s.slot # NoSlot /\ s.stages[s.slot.stage].crashed THEN [s EXCEPT !.slot.aborted = TRUE] ELSE s

StartStep(s, i, kind) ==
  [s EXCEPT !.slot = [stage |-> i, kind |-> kind, aborted |-> FALSE, settled |-> FALSE, ok |-> FALSE],
            !.world.asked = @ \cup (CASE kind = "dockerCreate" -> {<<"create", i>>}
                                     [] kind = "dockerStart" -> {<<"start", i>>}
                                     [] OTHER -> {}),
            !.parked = TRUE]

\* Mutant of SpawnMain: the process is not written to running.json.
MutSpawnMain(s, i) ==
  [s EXCEPT !.stages[i].proc = "running", !.world.child[i] = "alive", !.world.told = @ \ {Pid(i)}]

\* The long-running process; a container's is the follower of its logs.  A
\* spawn that fails is a child that ends at once.  An entry the file still has
\* of the stage names a process that is gone.
SpawnMain(s, i) ==
  LET spawned == [s EXCEPT !.stages[i].proc = "running", !.world.child[i] = "alive",
                           !.world.told = @ \ {Pid(i)}, !.tracker.file = Remove(@, Pid(i))]
  IN  [spawned EXCEPT
         !.moments = Append(@, [stage |-> i, tracker |-> spawned.tracker, world |-> spawned.world]),
         !.tracker = TrackerWrite(@, Append(@.running, Pid(i)), s.writable)]

StandUp(s, i) ==
  LET st == s.stages[i] IN
  CASE s.slot # NoSlot -> Park(s)
    [] s.slot = NoSlot /\ st.preDone < Pre[i] -> StartStep(s, i, "pre")
    [] s.slot = NoSlot /\ st.preDone >= Pre[i] /\ Docker[i] /\ ~st.container ->
         StartStep(s, i, "dockerCreate")
    [] s.slot = NoSlot /\ st.preDone >= Pre[i] /\ Docker[i] /\ st.container /\ ~st.started ->
         StartStep(s, i, "dockerStart")
    [] OTHER ->
         LET spawned == IF st.postStarted THEN s
                        ELSE SpawnMain([s EXCEPT !.stages[i].postStarted = TRUE], i)
         IN  IF st.postDone < Post[i] THEN StartStep(spawned, i, "post")
             ELSE [spawned EXCEPT !.stages[i].up = TRUE]

SendKill(s, i) ==
  [s EXCEPT !.stages[i].killSent = TRUE,
            !.world.told = @ \cup {IF Docker[i] THEN Box(i) ELSE Pid(i)}]

\* Mutant of TearDown: it does not wait for the container's removal.
MutTearDown(s, i) ==
  LET st == s.stages[i]
      told == IF st.proc = "none" /\ st.started /\ ~st.killSent THEN SendKill(s, i) ELSE s
  IN  IF s.slot # NoSlot /\ s.slot.stage = i THEN Park([s EXCEPT !.slot.aborted = TRUE])
      ELSE CASE st.proc \in {"running", "dying"} ->
                  Park(IF st.killSent THEN s ELSE SendKill([s EXCEPT !.stages[i].proc = "dying"], i))
             [] st.proc \notin {"running", "dying"} /\ st.container /\ ~st.rmStarted ->
                  Park([told EXCEPT !.stages[i].rmStarted = TRUE, !.stages[i].rmPending = TRUE,
                                    !.world.asked = @ \cup {<<"rm", i>>}])
             [] OTHER -> ResetRun(told, i)

\* A step in flight is aborted and waited for, the process is sent its signal
\* and waited for, and the container is removed and waited for.
TearDown(s, i) ==
  LET st == s.stages[i]
      told == IF st.proc = "none" /\ st.started /\ ~st.killSent THEN SendKill(s, i) ELSE s
  IN  IF s.slot # NoSlot /\ s.slot.stage = i THEN Park([s EXCEPT !.slot.aborted = TRUE])
      ELSE CASE st.proc \in {"running", "dying"} ->
                  Park(IF st.killSent THEN s ELSE SendKill([s EXCEPT !.stages[i].proc = "dying"], i))
             [] st.proc \notin {"running", "dying"} /\ st.container /\ ~st.rmStarted ->
                  Park([told EXCEPT !.stages[i].rmStarted = TRUE, !.stages[i].rmPending = TRUE,
                                    !.world.asked = @ \cup {<<"rm", i>>}])
             [] st.proc \notin {"running", "dying"} /\ st.container /\ st.rmPending -> Park(told)
             [] OTHER -> ResetRun(told, i)

EffectiveTarget == IF target.quit THEN 0 ELSE target.idx

\* One stage above the target, and one at or below it.
WalkDown(s, i) ==
  IF s.parked \/ (FullyDown(s, i) /\ ~s.stages[i].wantDown) THEN s
  ELSE TearDown([s EXCEPT !.stages[i].wantDown = TRUE], i)

\* Mutant of WalkUp: a crashed stage does not park the walk.
MutWalkUp(s, i) ==
  LET down == IF s.parked \/ ~s.stages[i].wantDown THEN s ELSE TearDown(s, i) IN
  CASE down.parked -> down
    [] ~down.parked /\ (down.stages[i].crashed \/ down.stages[i].up) -> down
    [] OTHER -> StandUp(down, i)

WalkUp(s, i) ==
  LET down == IF s.parked \/ ~s.stages[i].wantDown THEN s ELSE TearDown(s, i) IN
  CASE down.parked -> down
    [] ~down.parked /\ down.stages[i].crashed -> Park(down)
    [] ~down.parked /\ ~down.stages[i].crashed /\ down.stages[i].up -> down
    [] OTHER -> StandUp(down, i)

AdvanceStages(s) ==
  LET upTo(n) == [i \in 1..n |-> i]
      above == Reverse(SelectSeq(upTo(N), LAMBDA i : i > EffectiveTarget))
      below == upTo(EffectiveTarget)
  IN  FoldLeft(WalkUp, FoldLeft(WalkDown, AbortCrashed(ConsumeStep(s)), above), below)

(***************************************************************************)
(* advance()                                                               *)
(***************************************************************************)
\* A hotkey starts its command unless it is still there; what has ended is
\* swept, and a quit kills the rest.
AdvanceCommands ==
  LET started == [k \in CommandKeys |->
                    IF k \in target.pressed /\ ~target.quit /\ commands[k] = "none"
                    THEN "running" ELSE commands[k]]
  IN  [k \in CommandKeys |->
         CASE started[k] = "exited" -> "none"
           [] started[k] = "running" /\ target.quit -> "killing"
           [] OTHER -> started[k]]

\* Headless, the first crash fails the run, and fails it once.
AdvanceOneshot(s) ==
  LET first == IF oneshot.first < 0 THEN target.idx ELSE oneshot.first
      fails == target.idx # first \/ \E i \in Stages : s.stages[i].crashed
  IN  IF ~oneshot.on \/ oneshot.failing THEN oneshot
      ELSE [oneshot EXCEPT !.first = first, !.failing = fails,
                           !.up = @ \/ (~fails /\ (first = 0 \/ s.stages[first].up))]

Now(writable) ==
  [stages |-> stages, slot |-> slot, tracker |-> tracker, world |-> world, parked |-> FALSE,
   writable |-> writable, moments |-> <<>>]

\* What a turn leaves: the walk of the stages, the commands, and the headless mode.
Turn(writable) ==
  LET s == AdvanceStages(Now(writable))
      shot == AdvanceOneshot(s)
      quit == target.quit \/ (shot.failing /\ ~oneshot.failing)
  IN  [walk |-> [s EXCEPT !.parked = FALSE], commands |-> AdvanceCommands, oneshot |-> shot,
       target |-> [target EXCEPT !.quit = quit, !.pressed = {}],
       done |-> /\ quit /\ \A i \in Stages : FullyDown(s, i)
                /\ \A k \in CommandKeys : AdvanceCommands[k] = "none"]

Fault(kind) ==
  /\ kind \in Faults /\ faults < MaxFaults /\ faults + keys < MaxEvents
  /\ faults' = faults + 1

\* A write of running.json that fails is logged, and leaves the file as it was.
Writes(ok) == IF ok THEN UNCHANGED faults ELSE Fault("write")

Advance ==
  /\ run = "live" /\ scheduled
  /\ \E ok \in BOOLEAN :
       LET turn == Turn(ok) IN
         /\ Writes(ok) /\ (~ok => turn.walk.moments # <<>>)
         /\ stages' = turn.walk.stages /\ slot' = turn.walk.slot
         /\ tracker' = turn.walk.tracker /\ world' = turn.walk.world
         /\ commands' = turn.commands /\ oneshot' = turn.oneshot /\ target' = turn.target
         /\ run' = IF turn.done THEN "finished" ELSE run
         /\ scheduled' = (turn.oneshot.failing /\ ~oneshot.failing)
  /\ UNCHANGED keys

(***************************************************************************)
(* Steps.  A step, a command or a check that is tried again and again      *)
(* until its deadline, ends well or badly, and soon when it is aborted;    *)
(* the two that docker carries out do not hear of that.                    *)
(***************************************************************************)
Settle(ok) ==
  /\ slot' = [slot EXCEPT !.settled = TRUE, !.ok = ok]
  /\ scheduled' = TRUE
  /\ UNCHANGED <<run, target, commands, oneshot, world, keys>>

InFlight(kinds) == run = "live" /\ slot # NoSlot /\ ~slot.settled /\ slot.kind \in kinds

StepCompletes ==
  /\ InFlight({"pre", "post"})
  /\ Settle(TRUE) /\ UNCHANGED <<stages, tracker, faults>>

StepFails ==
  /\ InFlight({"pre", "post"}) /\ ~slot.aborted /\ Fault("step")
  /\ Settle(FALSE) /\ UNCHANGED <<stages, tracker>>

StepIsAborted ==
  /\ InFlight({"pre", "post"}) /\ slot.aborted
  /\ Settle(FALSE) /\ UNCHANGED <<stages, tracker, faults>>

\* The container docker made, if its answer was good: not one that held the
\* name, or of which nothing was heard.
Made(i) == world.box[i] # "none" /\ i \notin world.foreign \cup world.stuck

\* Mutant of CreateSettles: the container is not written to running.json.
MutCreateSettles ==
  LET i == slot.stage IN
  /\ InFlight({"dockerCreate"}) /\ <<"create", i>> \notin world.asked
  /\ Settle(Made(i))
  /\ stages' = [stages EXCEPT ![i].container = Made(i)]
  /\ UNCHANGED <<tracker, faults>>

CreateSettles ==
  LET i == slot.stage IN
  /\ InFlight({"dockerCreate"}) /\ <<"create", i>> \notin world.asked
  /\ Settle(Made(i))
  /\ stages' = [stages EXCEPT ![i].container = Made(i)]
  /\ \E ok \in BOOLEAN :
       /\ Writes(ok) /\ (~ok => Made(i))
       /\ tracker' = IF Made(i) THEN TrackerWrite(tracker, Append(tracker.running, Box(i)), ok)
                     ELSE tracker

StartSettles ==
  LET i == slot.stage
      started == world.box[i] \in {"running", "stopped"}
  IN  /\ InFlight({"dockerStart"}) /\ <<"start", i>> \notin world.asked
      /\ Settle(started)
      /\ stages' = [stages EXCEPT ![i].started = started]
      /\ UNCHANGED <<tracker, faults>>

(***************************************************************************)
(* Docker, which carries out what it was asked for whether or not its      *)
(* supervisor still lives, or fails to                                     *)
(***************************************************************************)
Elsewhere == <<run, scheduled, stages, slot, target, commands, oneshot, keys>>

Answered(from, op, i) ==
  /\ <<op, i>> \in world[from]
  /\ UNCHANGED Elsewhere

\* A name that is taken is refused.  An entry of a container that is gone names
\* none that is made after it.
BoxIsCreated(from, i) ==
  /\ Answered(from, "create", i) /\ UNCHANGED faults
  /\ LET heard == [world EXCEPT ![from] = @ \ {<<"create", i>>}]
     IN  IF world.box[i] # "none" THEN world' = heard /\ UNCHANGED tracker
         ELSE /\ world' = [heard EXCEPT !.box[i] = "created", !.told = @ \ {Box(i)},
                                        !.foreign = IF from = "asked" THEN @ ELSE @ \cup {i}]
              /\ tracker' = [tracker EXCEPT !.file = Remove(@, Box(i)), !.old = Remove(@, Box(i))]

\* docker create answers badly, before it made the container or after.
CreateFails(i) ==
  /\ Answered("asked", "create", i) /\ Fault("docker")
  /\ LET heard == [world EXCEPT !.asked = @ \ {<<"create", i>>}]
     IN  \/ world' = heard /\ UNCHANGED tracker
         \/ /\ world.box[i] = "none"
            /\ world' = [heard EXCEPT !.box[i] = "created", !.told = @ \ {Box(i)}, !.foreign = @ \cup {i}]
            /\ tracker' = [tracker EXCEPT !.file = Remove(@, Box(i))]

BoxIsStarted(from, i) ==
  /\ Answered(from, "start", i) /\ UNCHANGED <<tracker, faults>>
  /\ world' = [world EXCEPT ![from] = @ \ {<<"start", i>>},
                            !.box[i] = IF @ = "created" THEN "running" ELSE @]

StartFails(i) ==
  /\ Answered("asked", "start", i) /\ Fault("docker") /\ UNCHANGED tracker
  /\ world' = [world EXCEPT !.asked = @ \ {<<"start", i>>}]

\* With the container goes what docker is still asked of it.
Gone(w, i) ==
  LET void == {<<"start", i>>, <<"rm", i>>} IN
  [w EXCEPT !.box[i] = "none", !.told = @ \ {Box(i)}, !.asked = @ \ void, !.late = @ \ void,
            !.foreign = @ \ {i}, !.stuck = @ \ {i}]

\* A container that was started is waited for, and removed by force when that
\* takes too long.
BoxIsRemoved(from, i) ==
  /\ Answered(from, "rm", i) /\ UNCHANGED <<tracker, faults>>
  /\ world' = Gone(world, i)

RmFails(i) ==
  /\ Answered("asked", "rm", i) /\ Fault("docker") /\ UNCHANGED tracker
  /\ world' = [world EXCEPT !.asked = @ \ {<<"rm", i>>}, !.stuck = @ \cup {i}]

(***************************************************************************)
(* The children and the containers                                         *)
(***************************************************************************)
\* A child ends of its signal, a follower with its container too, and either on
\* its own.
ChildEnds(i) ==
  /\ world.child[i] = "alive"
  /\ Pid(i) \in world.told \/ (Docker[i] /\ world.box[i] \in {"none", "stopped"})
  /\ world' = [world EXCEPT !.child[i] = "ended"]
  /\ UNCHANGED <<Elsewhere, tracker, faults>>

ChildCrashes(i) ==
  /\ world.child[i] = "alive"
  /\ Fault(IF Docker[i] THEN "follower" ELSE "child")
  /\ world' = [world EXCEPT !.child[i] = "ended"]
  /\ UNCHANGED <<Elsewhere, tracker>>

\* So does a process of an earlier run, in its own time.
OrphanEnds(i) ==
  /\ i \in world.signalled \/ (i \in world.forgotten /\ Docker[i] /\ world.box[i] \in {"none", "stopped"})
  /\ world' = [world EXCEPT !.signalled = @ \ {i},
                            !.forgotten = IF i \in world.signalled THEN @ ELSE @ \ {i}]
  /\ UNCHANGED <<Elsewhere, tracker, faults>>

\* A container stops of its signal, or on its own.
BoxObeys(i) ==
  /\ world.box[i] = "running" /\ Box(i) \in world.told
  /\ world' = [world EXCEPT !.box[i] = "stopped"]
  /\ UNCHANGED <<Elsewhere, tracker, faults>>

BoxStops(i) ==
  /\ world.box[i] = "running" /\ Fault("child")
  /\ world' = [world EXCEPT !.box[i] = "stopped"]
  /\ UNCHANGED <<Elsewhere, tracker>>

\* The close event of a child: a crash unless its end was asked for.
ChildExited(i) ==
  /\ run = "live" /\ world.child[i] = "ended" /\ stages[i].proc \in {"running", "dying"}
  /\ world' = [world EXCEPT !.child[i] = "none", !.told = @ \ {Pid(i)}]
  /\ stages' = [stages EXCEPT ![i].proc = "exited", ![i].crashed = @ \/ stages[i].proc = "running"]
  /\ \E ok \in BOOLEAN :
       Writes(ok) /\ tracker' = TrackerWrite(tracker, Remove(tracker.running, Pid(i)), ok)
  /\ scheduled' = TRUE
  /\ UNCHANGED <<run, slot, target, commands, oneshot, keys>>

\* Mutant of RmSettles: nothing asks for a turn.
MutRmSettles(i) ==
  /\ run = "live" /\ stages[i].rmPending /\ <<"rm", i>> \notin world.asked
  /\ stages' = [stages EXCEPT ![i].rmPending = FALSE]
  /\ \E ok \in BOOLEAN :
       Writes(ok) /\ tracker' = TrackerWrite(tracker, Remove(tracker.running, Box(i)), ok)
  /\ UNCHANGED <<run, scheduled, slot, target, commands, oneshot, world, keys>>

\* Whether or not docker removed the container, it is tracked no more.
RmSettles(i) ==
  /\ run = "live" /\ stages[i].rmPending /\ <<"rm", i>> \notin world.asked
  /\ stages' = [stages EXCEPT ![i].rmPending = FALSE]
  /\ \E ok \in BOOLEAN :
       Writes(ok) /\ tracker' = TrackerWrite(tracker, Remove(tracker.running, Box(i)), ok)
  /\ scheduled' = TRUE
  /\ UNCHANGED <<run, slot, target, commands, oneshot, world, keys>>

CommandEnds(k) ==
  /\ run = "live" /\ commands[k] \in {"running", "killing"}
  /\ commands' = [commands EXCEPT ![k] = "exited"]
  /\ scheduled' = TRUE
  /\ UNCHANGED <<run, stages, slot, target, oneshot, tracker, world, faults, keys>>

(***************************************************************************)
(* Keys and signals                                                        *)
(***************************************************************************)
Pressed == keys < MaxKeys /\ faults + keys < MaxEvents /\ keys' = keys + 1

Input == run = "live" /\ Pressed /\ scheduled' = TRUE

\* A crashed stage is restarted by its own key; any other key is a target.
SetTargetOrRestart(i) ==
  /\ Input /\ ~oneshot.on
  /\ IF target.quit THEN UNCHANGED <<stages, target>>
     ELSE IF i > 0 /\ stages[i].crashed
     THEN stages' = [stages EXCEPT ![i].wantDown = TRUE] /\ UNCHANGED target
     ELSE target' = [target EXCEPT !.idx = i] /\ UNCHANGED stages
  /\ UNCHANGED <<run, slot, commands, oneshot, tracker, world, faults>>

PressCommand(k) ==
  /\ Input /\ ~oneshot.on
  /\ target' = [target EXCEPT !.pressed = @ \cup {k}]
  /\ UNCHANGED <<run, stages, slot, commands, oneshot, tracker, world, faults>>

\* What a quit that is asked for twice leaves to its children: their signals.
KillEverything ==
  LET boxes == {Box(i) : i \in {j \in Stages : Docker[j] /\ stages[j].started}}
      procs == {Pid(i) : i \in {j \in Stages : ~Docker[j] /\ stages[j].proc \in {"running", "dying"}}}
  IN  [world EXCEPT !.told = @ \cup boxes \cup procs]

(***************************************************************************)
(* Death and recovery                                                      *)
(***************************************************************************)
\* The supervisor's memory is gone, and its last word on its children w and on
\* running.json t; docker goes on, and what it created unheard no one knows of.
Die(t, w) ==
  LET unheard == {i \in Stages : Made(i) /\ ~stages[i].container} IN
  /\ run' = "dead" /\ scheduled' = FALSE
  /\ stages' = [i \in Stages |-> Down] /\ slot' = NoSlot
  /\ target' = [idx |-> N, quit |-> FALSE, pressed |-> {}]
  /\ commands' = [k \in CommandKeys |-> "none"]
  /\ oneshot' = [oneshot EXCEPT !.first = -1, !.up = FALSE, !.failing = FALSE]
  /\ tracker' = [t EXCEPT !.running = <<>>, !.old = <<>>]
  /\ world' = [w EXCEPT !.late = @ \cup w.asked, !.asked = {}, !.foreign = @ \cup unheard,
                        !.excused = @ \cup IF t.failed THEN Stages ELSE {}]

RequestQuit ==
  /\ run = "live" /\ Pressed /\ UNCHANGED faults
  /\ IF target.quit THEN Die(tracker, KillEverything)
     ELSE /\ target' = [target EXCEPT !.quit = TRUE] /\ scheduled' = TRUE
          /\ UNCHANGED <<run, stages, slot, commands, oneshot, tracker, world>>

Panic ==
  /\ run = "live" /\ Fault("panic") /\ UNCHANGED keys
  /\ Die(tracker, KillEverything)

\* From outside, between two handlers or two commands of recovery.
Killed ==
  /\ run \in {"live", "recovering"} /\ Fault("killed") /\ UNCHANGED keys
  /\ Die(tracker, world)

\* And in a turn, of which nothing is left but a process no file names.
KilledInTurn ==
  /\ run = "live" /\ scheduled /\ Fault("killed") /\ UNCHANGED keys
  /\ \E moment \in Range(Turn(TRUE).walk.moments) :
       Die(moment.tracker, [moment.world EXCEPT !.excused = @ \cup {moment.stage}])

\* Mutant of Restart: running.json is cleared before its processes are killed.
MutRestart ==
  /\ run = "dead" /\ run' = "recovering"
  /\ tracker' = [tracker EXCEPT !.old = Reverse(tracker.file), !.file = <<>>]
  /\ UNCHANGED <<scheduled, stages, slot, target, commands, oneshot, world, faults, keys>>

\* A later run takes the lock that death released, and before its first stage
\* goes through running.json, the newest entry first.
Restart ==
  /\ run = "dead" /\ run' = "recovering"
  /\ tracker' = [tracker EXCEPT !.old = Reverse(tracker.file)]
  /\ UNCHANGED <<scheduled, stages, slot, target, commands, oneshot, world, faults, keys>>

NextEntry(entry) ==
  /\ run = "recovering" /\ tracker.old # <<>> /\ Head(tracker.old) = entry
  /\ tracker' = [tracker EXCEPT !.old = Tail(@)]
  /\ UNCHANGED Elsewhere

\* A process that is there is sent its signal, and not waited for; one whose
\* arguments do not match, as another's would not, is left.
RecoverPid(i) ==
  /\ NextEntry(Pid(i))
  /\ \/ /\ world' = IF world.child[i] = "alive" THEN [world EXCEPT !.told = @ \cup {Pid(i)}] ELSE world
        /\ UNCHANGED faults
     \/ /\ world.child[i] = "alive" /\ Fault("mismatch")
        /\ world' = [world EXCEPT !.excused = @ \cup {i}]

\* A container that runs is sent its signal and given some time to stop, and
\* then removed, which docker refuses for one that still runs.
RecoverContainer(i) ==
  /\ NextEntry(Box(i))
  /\ \/ /\ world' = IF world.box[i] = "none" THEN world ELSE Gone(world, i)
        /\ UNCHANGED faults
     \/ /\ world.box[i] = "running" /\ "slow" \in Faults
        /\ world' = [world EXCEPT !.told = @ \cup {Box(i)}]
        /\ UNCHANGED faults
     \/ world.box[i] # "none" /\ Fault("docker") /\ UNCHANGED world

\* The slate is clean, and the first turn asked for.  What still lives, of
\* processes and containers, is an earlier run's.
Begin ==
  LET alive == {i \in Stages : world.child[i] = "alive"}
      told == {i \in alive : Pid(i) \in world.told}
      boxes == {i \in Stages : world.box[i] # "none"}
  IN  /\ run = "recovering" /\ tracker.old = <<>>
      /\ run' = "live" /\ scheduled' = TRUE
      /\ world' = [world EXCEPT !.child = [i \in Stages |-> "none"],
                                !.signalled = @ \cup told, !.forgotten = @ \cup (alive \ told),
                                !.told = @ \cap {Box(i) : i \in boxes},
                                !.foreign = boxes, !.stuck = {}]
      /\ \E ok \in BOOLEAN :
           /\ Writes(ok)
           /\ tracker' = [TrackerWrite(tracker, <<>>, ok) EXCEPT
                            !.file = SelectSeq(@, LAMBDA e : e \in {Box(i) : i \in boxes})]
      /\ UNCHANGED <<stages, slot, target, commands, oneshot, keys>>

Init ==
  /\ run = "live" /\ scheduled = TRUE
  /\ stages = [i \in Stages |-> Down] /\ slot = NoSlot
  /\ \E i \in 0..N : target = [idx |-> i, quit |-> FALSE, pressed |-> {}]
  /\ commands = [k \in CommandKeys |-> "none"]
  /\ \E on \in BOOLEAN : oneshot = [on |-> on, first |-> -1, up |-> FALSE, failing |-> FALSE]
  /\ tracker = Untracked /\ world = Quiet /\ faults = 0 /\ keys = 0

DockerDoes(from, i) == BoxIsCreated(from, i) \/ BoxIsStarted(from, i) \/ BoxIsRemoved(from, i)

Next ==
  \/ Advance
  \/ StepCompletes \/ StepFails \/ StepIsAborted \/ CreateSettles \/ StartSettles
  \/ \E i \in Stages : \/ DockerDoes("asked", i) \/ DockerDoes("late", i)
                        \/ CreateFails(i) \/ StartFails(i) \/ RmFails(i)
                        \/ ChildEnds(i) \/ ChildCrashes(i) \/ OrphanEnds(i) \/ BoxObeys(i)
                        \/ BoxStops(i) \/ ChildExited(i) \/ RmSettles(i)
                        \/ RecoverPid(i) \/ RecoverContainer(i)
  \/ \E k \in CommandKeys : CommandEnds(k) \/ PressCommand(k)
  \/ \E i \in 0..N : SetTargetOrRestart(i)
  \/ RequestQuit \/ Panic \/ Killed \/ KilledInTurn \/ Restart \/ Begin

Spec == Init /\ [][Next]_vars

\* A turn alone ends with none asked for.
TurnEnds == run = "live" /\ scheduled /\ scheduled' = FALSE

\* Node runs the turn it was asked for and hears of what ends, and what was
\* signalled or aborted ends; docker and the commands of recovery answer.  A step
\* that nobody aborts may take for ever.
Fairness ==
  /\ WF_scheduled(TurnEnds) /\ WF_vars(StepIsAborted)
  /\ WF_vars(CreateSettles) /\ WF_vars(StartSettles) /\ WF_vars(Begin)
  /\ \A i \in Stages : /\ WF_vars(DockerDoes("asked", i)) /\ WF_vars(ChildEnds(i))
                        /\ WF_vars(ChildExited(i)) /\ WF_vars(RmSettles(i))
                        /\ WF_vars(BoxObeys(i)) /\ WF_vars(RecoverPid(i) \/ RecoverContainer(i))
  /\ \A k \in CommandKeys : WF_vars(CommandEnds(k) /\ commands[k] = "killing")

FairSpec == Spec /\ Fairness

(***************************************************************************)
(* Properties                                                              *)
(***************************************************************************)
TypeOK ==
  /\ run \in {"live", "finished", "dead", "recovering"} /\ scheduled \in BOOLEAN
  /\ \A i \in Stages : /\ stages[i].preDone \in 0..Pre[i] /\ stages[i].postDone \in 0..Post[i]
                        /\ stages[i].proc \in {"none", "running", "dying", "exited"}
  /\ slot # NoSlot => slot.stage \in Stages
  /\ target.idx \in 0..N /\ target.pressed \subseteq CommandKeys
  /\ Range(tracker.running \o tracker.file \o tracker.old)
       \subseteq {Pid(i) : i \in Stages} \cup {Box(i) : i \in Stages}
  /\ world.late \cup world.asked \subseteq {"create", "start", "rm"} \X Stages

\* A supervisor that sleeps has nothing to do: whatever happened to its stages,
\* its steps and its commands since its last turn asked for another, and one
\* turn does all that can be done.  (schedule, advance)
NothingForgotten ==
  run = "live" /\ ~scheduled =>
    LET turn == Turn(TRUE) IN
      /\ turn.walk = Now(TRUE) /\ turn.commands = commands /\ turn.oneshot = oneshot
      /\ turn.target = target /\ ~turn.done

\* A stage that is down has left nothing behind: no child of it lives, docker is
\* asked nothing for it, and no container of it is there but one that recovery
\* left, that docker failed to remove or of which it told no one.  (isFullyDown,
\* resetRun, advanceTearDown)
DownLeavesNothing ==
  run = "live" =>
    \A i \in Stages :
      FullyDown(Now(TRUE), i) =>
        /\ world.child[i] = "none" /\ \A op \in {"create", "start", "rm"} : <<op, i>> \notin world.asked
        /\ world.box[i] # "none" => i \in world.foreign \cup world.stuck

\* At any moment, one of death and of recovery included, running.json names every
\* process of a stage that lives and every container docker told of, unless its
\* last write failed; a process it does not name for another reason is one whose
\* supervisor was killed in the turn that started it.  What a write failed to
\* name, the next is to.  (trackPid, trackContainer)
WhatLivesIsTracked ==
  LET named(what, i) ==
        /\ run = "live" => what \in Range(tracker.running)
        /\ \/ what \in Range(tracker.file) \/ tracker.failed
           \/ run # "live" /\ i \in world.excused
      known(i) == i \notin world.foreign \cup world.stuck
                  /\ ~(slot # NoSlot /\ slot.stage = i /\ slot.kind = "dockerCreate" /\ ~slot.settled)
  IN  \A i \in Stages :
        /\ world.child[i] = "alive" => named(Pid(i), i)
        /\ world.box[i] # "none" /\ known(i) => named(Box(i), i)

\* A later run signals every process an earlier one left, however often it is itself
\* killed over it, but for one started in the turn of a kill, one running.json could
\* not be written for, and one whose arguments do not match.  (recoverOrphans)
RecoveryForgetsNone == world.forgotten \subseteq world.excused

\* What the supervisor believes of its stages, what running.json names and what
\* lives outside agree, across its death and its recovery.
BooksAreRight == TypeOK /\ DownLeavesNothing /\ WhatLivesIsTracked /\ RecoveryForgetsNone

\* A stage starts on nothing while one below it is not up, and a process that
\* did not fail is sent its signal only when every stage above it is down,
\* whatever keys came in the meantime.  (advanceStages)
BootsInOrder ==
  [][run' = "live" /\ run = "live" =>
       \A i \in Stages :
         /\ FullyDown(Now(TRUE), i) /\ ~FullyDown(Now(TRUE)', i) =>
              \A j \in 1..i - 1 : stages'[j].up /\ ~stages'[j].crashed
         /\ stages[i].proc = "running" /\ stages'[i].proc = "dying" /\ ~stages[i].crashed =>
              \A j \in i + 1..N : FullyDown(Now(TRUE)', j)]_vars

\* At rest: what is above the target is down, and what is not above it is up,
\* but for a stage that failed, and a step of it that is under way.  Headless,
\* no stage stays failed.
AtRest ==
  /\ oneshot.on => \A i \in Stages : ~stages[i].crashed
  /\ \A i \in EffectiveTarget + 1..N : FullyDown(Now(TRUE), i) /\ ~stages[i].wantDown
  /\ \A i \in 1..EffectiveTarget :
       \/ stages[i].up \/ \E j \in 1..i : stages[j].crashed
       \/ slot # NoSlot /\ slot.kind \in {"pre", "post"} /\ ~slot.aborted /\ slot.stage <= i

\* The stack comes to rest at its target, and a quit comes to its end, however
\* often the target moved, stages failed or the supervisor died.  (advance)
WalksToTarget == <>[](run \in {"finished", "dead"} \/ (run = "live" /\ AtRest /\ ~target.quit))
=============================================================================
