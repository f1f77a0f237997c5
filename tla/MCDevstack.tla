---------------------------- MODULE MCDevstack ------------------------------
(***************************************************************************)
(* The library example's stack: a database in a container that is built    *)
(* first and checked last, and a user interface.  Its log is checked       *)
(* beside it in the same run: a behaviour is of one part, and leaves the   *)
(* other's variables alone.                                                *)
(***************************************************************************)
EXTENDS Devstack, Timeline

VARIABLE part

MCDocker == <<TRUE, FALSE>>
MCPre == <<1, 0>>
MCPost == <<1, 0>>

\* Ends of lines of each kind, one of them cut in two.
MCChunks == {<<2, 1>>, <<1, CR>>, <<LF, 2, 2, 1>>}
MCDeltas == {-1, 2}

\* The part that stands aside: a stack that quit before it began, an empty log.
StackRests ==
  /\ run = "finished" /\ scheduled = FALSE
  /\ stages = [i \in Stages |-> Down] /\ slot = NoSlot
  /\ target = [idx |-> 0, quit |-> TRUE, pressed |-> {}]
  /\ commands = [k \in CommandKeys |-> "none"]
  /\ oneshot = [on |-> FALSE, first |-> -1, up |-> FALSE, failing |-> FALSE]
  /\ tracker = Untracked /\ world = Quiet /\ faults = 0 /\ keys = 0

LogRests == LogInit /\ headless /\ view.width = Max(Widths)

MCInit ==
  \/ part = "stack" /\ Init /\ LogRests
  \/ part = "log" /\ LogInit /\ view.width = Max(Widths) /\ StackRests

MCNext ==
  \/ part = "stack" /\ Next /\ UNCHANGED <<part, timelineVars>>
  \/ part = "log" /\ LogNext /\ UNCHANGED <<part, vars>>

MCSpec == MCInit /\ [][MCNext]_<<part, vars, timelineVars>> /\ Fairness
=============================================================================
