-------------------------------- MODULE Pool --------------------------------
(***************************************************************************)
(* The worker pool that hashes passwords and checks large bodies           *)
(* (db/src/pool.rs): a fixed set of threads behind a queue whose places    *)
(* are a semaphore's permits.  A call either is refused when the queue is  *)
(* full or waits for a place; its client may leave at any await, and the   *)
(* pool may stop at any time.                                              *)
(***************************************************************************)
EXTENDS Integers, FiniteSets, SequencesExt

CONSTANTS
  Calls,         \* calls of the pool, each made once
  Refusing,      \* those made with try_run, the others with queue_run
  Workers,       \* worker threads
  QueuePlaces,   \* the queue's length
  NoJob

\* Both pools have places for twice their workers.
ASSUME PoolAssumption ==
  /\ IsFiniteSet(Calls) /\ Refusing \subseteq Calls
  /\ QueuePlaces \in Nat \ {0}
  /\ NoJob \notin Calls

VARIABLES
  stopped,    \* the flag that the pool has stopped
  jobsOpen,   \* the pool still holds its end of the queue
  permits,    \* places nobody holds
  acquiring,  \* calls that wait for a place, in order
  jobQueue,   \* calls whose job is queued
  inHand,     \* the call whose job each worker has received
  job,        \* each call's job: "none", "queued", "taken", "begun", "checked",
              \* "running", "done", "dropped"
  call,       \* each call: "new", "acquiring", "placed", "queued", "started", or how it ended
  unreached   \* history: calls whose job was queued when the pool stopped

poolVars == <<stopped, jobsOpen, permits, acquiring, jobQueue, inHand, job, call, unreached>>

WasAnswered == {"ok", "busy", "closed", "left"}

PoolInit ==
  /\ stopped = FALSE /\ jobsOpen = TRUE /\ permits = QueuePlaces
  /\ acquiring = <<>> /\ jobQueue = <<>> /\ inHand = [w \in Workers |-> NoJob]
  /\ job = [c \in Calls |-> "none"] /\ call = [c \in Calls |-> "new"] /\ unreached = {}

Becomes(c, how) == call' = [call EXCEPT ![c] = how]

\* try_run and queue_run up to the place.
CallPool(c) ==
  /\ call[c] = "new"
  /\ \/ stopped /\ Becomes(c, "closed") /\ UNCHANGED <<permits, acquiring>>
     \/ /\ ~stopped /\ permits > 0 /\ acquiring = <<>>
        /\ permits' = permits - 1 /\ Becomes(c, "placed") /\ UNCHANGED acquiring
     \/ /\ ~stopped
        /\ permits = 0 \/ acquiring # <<>>
        /\ IF c \in Refusing
           THEN Becomes(c, "busy") /\ UNCHANGED acquiring
           ELSE Becomes(c, "acquiring") /\ acquiring' = Append(acquiring, c)
        /\ UNCHANGED permits
  /\ UNCHANGED <<stopped, jobsOpen, jobQueue, inHand, job, unreached>>

\* The first waiting call gets the place that came free, or sees that the pool
\* stopped.
AcquirePlace(c) ==
  /\ call[c] = "acquiring"
  /\ \/ /\ permits > 0 /\ Head(acquiring) = c
        /\ permits' = permits - 1 /\ Becomes(c, "placed")
     \/ stopped /\ Becomes(c, "closed") /\ UNCHANGED permits
  /\ acquiring' = Remove(acquiring, c)
  /\ UNCHANGED <<stopped, jobsOpen, jobQueue, inHand, job, unreached>>

\* The job is queued with its place, unless the pool closed the queue.
SendJob(c) ==
  /\ call[c] = "placed"
  /\ IF jobsOpen
     THEN /\ jobQueue' = Append(jobQueue, c)
          /\ job' = [job EXCEPT ![c] = "queued"]
          /\ Becomes(c, "queued") /\ UNCHANGED permits
     ELSE /\ permits' = permits + 1
          /\ Becomes(c, "closed") /\ UNCHANGED <<jobQueue, job>>
  /\ UNCHANGED <<stopped, jobsOpen, acquiring, inHand, unreached>>

\* A queued call hears that its job started, before it looks at the flag; that
\* the job was dropped; or that the pool stopped.
AwaitStart(c) ==
  /\ call[c] = "queued"
  /\ \/ job[c] \in {"running", "done"} /\ Becomes(c, "started")
     \/ job[c] = "dropped" /\ Becomes(c, "closed")
     \/ job[c] \in {"queued", "taken", "begun", "checked"} /\ stopped /\ Becomes(c, "closed")
  /\ UNCHANGED <<stopped, jobsOpen, permits, acquiring, jobQueue, inHand, job, unreached>>

AwaitResult(c) ==
  /\ call[c] = "started" /\ job[c] = "done"
  /\ Becomes(c, "ok")
  /\ UNCHANGED <<stopped, jobsOpen, permits, acquiring, jobQueue, inHand, job, unreached>>

\* The client goes away where its call awaits.
ClientLeaves(c) ==
  /\ call[c] \in {"acquiring", "queued", "started"}
  /\ Becomes(c, "left")
  /\ acquiring' = Remove(acquiring, c)
  /\ UNCHANGED <<stopped, jobsOpen, permits, jobQueue, inHand, job, unreached>>

ReceiveJob(w) ==
  /\ inHand[w] = NoJob /\ jobQueue # <<>>
  /\ inHand' = [inHand EXCEPT ![w] = Head(jobQueue)]
  /\ job' = [job EXCEPT ![Head(jobQueue)] = "taken"]
  /\ jobQueue' = Tail(jobQueue)
  /\ UNCHANGED <<stopped, jobsOpen, permits, acquiring, call, unreached>>

\* Mutant of BeginJob: the worker does not look whether the pool stopped.
MutBeginJob(w) ==
  /\ inHand[w] # NoJob /\ job[inHand[w]] = "taken"
  /\ permits' = permits + 1
  /\ job' = [job EXCEPT ![inHand[w]] = "begun"]
  /\ UNCHANGED inHand
  /\ UNCHANGED <<stopped, jobsOpen, acquiring, jobQueue, call, unreached>>

\* The worker drops the job where the pool has stopped, or begins it; either
\* way its place is given up.
BeginJob(w) ==
  /\ inHand[w] # NoJob /\ job[inHand[w]] = "taken"
  /\ permits' = permits + 1
  /\ job' = [job EXCEPT ![inHand[w]] = IF stopped THEN "dropped" ELSE "begun"]
  /\ inHand' = [inHand EXCEPT ![w] = IF stopped THEN NoJob ELSE @]
  /\ UNCHANGED <<stopped, jobsOpen, acquiring, jobQueue, call, unreached>>

\* The job of a client that has left, or was answered, is skipped.
CheckClient(w) ==
  /\ inHand[w] # NoJob /\ job[inHand[w]] = "begun"
  /\ LET skips == call[inHand[w]] \in WasAnswered
     IN  /\ job' = [job EXCEPT ![inHand[w]] = IF skips THEN "dropped" ELSE "checked"]
         /\ inHand' = [inHand EXCEPT ![w] = IF skips THEN NoJob ELSE @]
  /\ UNCHANGED <<stopped, jobsOpen, permits, acquiring, jobQueue, call, unreached>>

StartJob(w) ==
  /\ inHand[w] # NoJob /\ job[inHand[w]] = "checked"
  /\ job' = [job EXCEPT ![inHand[w]] = "running"]
  /\ UNCHANGED <<stopped, jobsOpen, permits, acquiring, jobQueue, inHand, call, unreached>>

FinishJob(w) ==
  /\ inHand[w] # NoJob /\ job[inHand[w]] = "running"
  /\ job' = [job EXCEPT ![inHand[w]] = "done"]
  /\ inHand' = [inHand EXCEPT ![w] = NoJob]
  /\ UNCHANGED <<stopped, jobsOpen, permits, acquiring, jobQueue, call, unreached>>

\* stop: the flag first, then the pool's end of the queue.
SignalStop ==
  /\ ~stopped
  /\ stopped' = TRUE
  /\ unreached' = ToSet(jobQueue)
  /\ UNCHANGED <<jobsOpen, permits, acquiring, jobQueue, inHand, job, call>>

CloseQueue ==
  /\ stopped /\ jobsOpen
  /\ jobsOpen' = FALSE
  /\ UNCHANGED <<stopped, permits, acquiring, jobQueue, inHand, job, call, unreached>>

PoolNext ==
  \/ \E c \in Calls : CallPool(c) \/ AcquirePlace(c) \/ SendJob(c) \/ AwaitStart(c)
                      \/ AwaitResult(c) \/ ClientLeaves(c)
  \/ \E w \in Workers : ReceiveJob(w) \/ BeginJob(w) \/ CheckClient(w) \/ StartJob(w)
                        \/ FinishJob(w)
  \/ SignalStop \/ CloseQueue

PoolSpec == PoolInit /\ [][PoolNext]_poolVars

-----------------------------------------------------------------------------
InState(f, states) == {c \in Calls : f[c] \in states}

\* No worker has anything to do.
Idle == jobQueue = <<>> /\ \A w \in Workers : inHand[w] = NoJob

\* No place is lost or held twice, whoever leaves and whenever the pool stops;
\* a job still queued when it stops never runs; a call answered ok has run; and
\* once the workers have nothing to do no call waits for them: its job is done
\* or dropped, or a place is free or about to be used.
\* (Pool::run, try_run, queue_run, stop)
PoolHolds ==
  /\ permits + Cardinality(InState(call, {"placed"}))
       + Cardinality(InState(job, {"queued", "taken"})) = QueuePlaces
  /\ unreached \subseteq InState(job, {"queued", "taken", "dropped"})
  /\ InState(call, {"ok"}) \subseteq InState(job, {"done"})
  /\ InState(call, {"started"}) \subseteq InState(job, {"running", "done"})
  /\ Idle => /\ InState(call, {"queued"}) \subseteq InState(job, {"done", "dropped"})
             /\ InState(call, {"acquiring"}) = {} \/ permits > 0 \/ InState(call, {"placed"}) # {}
=============================================================================
