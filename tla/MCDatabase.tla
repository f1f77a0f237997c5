----------------------------- MODULE MCDatabase -----------------------------
(***************************************************************************)
(* The database process, for TLC: its writer's edit log, and what stands   *)
(* beside it, its signing keys, its cron scheduler, its pool of workers,   *)
(* and the sessions whose tokens it signs and refuses.  One run checks     *)
(* them side by side: a behaviour is of one part, and leaves the others'   *)
(* variables alone.                                                        *)
(***************************************************************************)
EXTENDS MCEditLog, Keys, Cron, Pool, Session

VARIABLE part

\* One entry every third second, and one of a spec.
MCSchedules == <<[every |-> 3, times |-> {}], [every |-> 0, times |-> {2, 4, 7}]>>

allVars == <<part, vars, keysVars, cronVars, poolVars, sessionVars>>

MCInit ==
  /\ part \in {"writer", "keys", "cron", "pool", "session"}
  /\ Init /\ KeysInit /\ CronInit /\ PoolInit /\ SessionInit
  /\ (part # "cron" => wall = 0) /\ (part # "keys" => clock = 0)

\* A part may come to the end of its bounds; the writer never stops.
MCNext ==
  \/ part = "writer" /\ Next /\ UNCHANGED <<part, keysVars, cronVars, poolVars, sessionVars>>
  \/ part = "keys" /\ KeysNext /\ UNCHANGED <<part, vars, cronVars, poolVars, sessionVars>>
  \/ part = "cron" /\ CronNext /\ UNCHANGED <<part, vars, keysVars, poolVars, sessionVars>>
  \/ part = "pool" /\ PoolNext /\ UNCHANGED <<part, vars, keysVars, cronVars, sessionVars>>
  \/ part = "session" /\ SessionNext /\ UNCHANGED <<part, vars, keysVars, cronVars, poolVars>>
  \/ part # "writer" /\ UNCHANGED allVars

MCSpec == MCInit /\ [][MCNext]_allVars
=============================================================================
