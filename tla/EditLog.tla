------------------------------ MODULE EditLog ------------------------------
(***************************************************************************)
(* The database's writer (db/src/core/writer.rs) over its SQLite store     *)
(* (db/src/store.rs): calls queue up, the writer takes the whole queue as  *)
(* one batch, decides its mutations one after the other inside one         *)
(* transaction, and only after COMMIT answers them.  A decision writes     *)
(* the mutation's edits - one per slice it touched, all at one position -  *)
(* into the log, the slice rows, the key-value store and its series' mark. *)
(*                                                                         *)
(* A database is a record of four tables.  `txn' is what the writer sees,  *)
(* inside its open transaction; `disk' is what a restart, and a reader's   *)
(* transaction, finds.  A decider is arbitrary code, so it is any sequence *)
(* of buffer writes, and any verdict.                                      *)
(***************************************************************************)
EXTENDS WriteBuffer, Sequences, FiniteSets

CONSTANTS
  Mutations,   \* what clients and the scheduler may submit
  Invalid,     \* those among them whose data the schema refuses
  Series,      \* series names, cron entries' among them
  NoSeries,    \* the series of an unnumbered mutation
  NoExpect,    \* a mutation that expects nothing of a slice
  Boot,        \* the label of bootstrap's edits
  MaxPosition, \* bound on positions
  MaxWrites,   \* bound on the buffer writes of one decision
  MaxQueue,    \* bound on the calls waiting and in the batch
  MaxCrashes   \* bound on crashes

(* A mutation has a kind, "submit" or "tick", its series and number there  *)
(* (a tick's slot), and what it expects: NoExpect or a slice and its seq.  *)
(* A number names one mutation of its series, as clients number them.      *)
ASSUME MutationsAssumption ==
  /\ \A m \in Mutations :
       /\ m.kind \in {"submit", "tick"}
       /\ m.series \in Series \cup {NoSeries}
       /\ m.n \in Nat
       /\ m.expect # NoExpect =>
            m.expect.slice \in Slices /\ m.expect.seq \in Nat
       /\ m.kind = "tick" => m.series # NoSeries /\ m.expect = NoExpect
  /\ \A m, o \in Mutations :
       m.series # NoSeries /\ m.series = o.series /\ m.n = o.n => m = o
  /\ Boot \notin Mutations
  /\ NoSeries \notin Series
  /\ Invalid \subseteq Mutations

ASSUME BoundsAssumption ==
  /\ MaxPosition \in Nat /\ MaxWrites \in Nat /\ MaxQueue \in Nat
  /\ MaxCrashes \in Nat

VARIABLES
  queue,     \* calls waiting at the writer
  batch,     \* calls the writer took and has not decided
  phase,     \* "idle", "open", "deciding", "bootstrap"
  buf,       \* the write buffer of the decision running
  writes,    \* buffer writes made in it
  txn,       \* the tables as the writer's transaction sees them
  disk,      \* the tables as last committed
  position,  \* the writer's last position
  after,     \* answers held behind the batch's commit
  answers,   \* history: every answer to a numbered mutation that went out
  seen,      \* history: the store a decider writing straight to it would see
  crashes    \* crashes so far

vars == <<queue, batch, phase, buf, writes, txn, disk, position, after,
          answers, seen, crashes>>

-----------------------------------------------------------------------------
(* The tables.                                                             *)

Lives == {"normal", "birth", "death"}
NoRow == [birth |-> 0, death |-> 0, seq |-> 0, pos |-> 0]
Row == [birth: Nat, death: Nat, seq: Nat, pos: Nat]
Label == Mutations \cup {Boot}
Edit == [position: Nat \ {0}, slice: Slices, seq: Nat \ {0}, life: Lives,
         ops: Entries, id: Label]
Tables == [kv: KeyValues, rows: [Slices -> Row], log: SUBSET Edit,
           marks: [Series -> Nat]]

EmptyTables ==
  [kv |-> [s \in Slices |-> [f \in Fields |-> Absent]],
   rows |-> [s \in Slices |-> NoRow],
   log |-> {},
   marks |-> [x \in Series |-> 0]]

\* slice_state: a row without a death; a slice never born has no row.
IsLive(row) == row.birth # 0 /\ row.death = 0

\* Store::max_position.
HeadOf(log) ==
  IF log = {} THEN 0
  ELSE CHOOSE p \in {e.position : e \in log} : \A e \in log : e.position <= p

-----------------------------------------------------------------------------
(* commit_slice and commit_edits: a buffer becomes edits.                  *)

\* Mutant of LifeOf: a deleted slice dies even when the buffer sets keys of it.
LifeOfDeletionsDie(t, live) ==
  IF t.del # "kept" THEN "death" ELSE IF live THEN "normal" ELSE "birth"

LifeOf(t, live) ==
  IF t.del # "kept" THEN (IF Sets(t) THEN "birth" ELSE "death")
  ELSE IF live THEN "normal" ELSE "birth"

\* Whether a touched slice is edited: an unborn or deleted slice that gains no
\* key is not.
IsEdited(t, live) == t # NoTouch /\ (live \/ (LifeOf(t, live) # "death" /\ Sets(t)))

Edited(d, b) == {s \in Slices : IsEdited(b[s], IsLive(d.rows[s]))}

\* Mutant of NewRow: a birth starts the slice's seqs over.
NewRowRestartsSeq(row, life, p) ==
  [birth |-> IF life = "birth" THEN p ELSE row.birth,
   death |-> IF life = "birth" THEN 0
             ELSE IF life = "death" /\ row.death = 0 THEN p ELSE row.death,
   seq   |-> IF life = "birth" THEN 1 ELSE row.seq + 1,
   pos   |-> p]

\* slice_birth creates or revives the row, slice_death ends it, and
\* slice_next_seq takes the next seq at the position.
NewRow(row, life, p) ==
  [birth |-> IF life = "birth" THEN p ELSE row.birth,
   death |-> IF life = "birth" THEN 0
             ELSE IF life = "death" /\ row.death = 0 THEN p ELSE row.death,
   seq   |-> row.seq + 1,
   pos   |-> p]

\* A birth carries the sets alone, a death nothing, a normal edit every write.
Carried(t, life) ==
  [f \in Fields |->
     IF life = "death" \/ (life = "birth" /\ t.entries[f] = Deleted)
     THEN Untouched ELSE t.entries[f]]

\* Mutant of Applied: a birth does not clear what the slice held.
AppliedKeepsOnBirth(contents, life, ops) ==
  [f \in Fields |->
     IF ops[f] \in Values THEN ops[f]
     ELSE IF life = "death" \/ ops[f] = Deleted THEN Absent
     ELSE contents[f]]

\* The slice's keys after an edit: a birth or a death clears it first.
Applied(contents, life, ops) ==
  [f \in Fields |->
     IF ops[f] \in Values THEN ops[f]
     ELSE IF life # "normal" \/ ops[f] = Deleted THEN Absent
     ELSE contents[f]]

EditOf(d, b, s, id, p) ==
  LET row == d.rows[s]
      life == LifeOf(b[s], IsLive(row))
  IN  [position |-> p, slice |-> s, seq |-> row.seq + 1, life |-> life,
       ops |-> Carried(b[s], life), id |-> id]

\* slice_erase: the erased slice's edits below this one's position go.
Erased(d, b, p) ==
  {e \in d.log : /\ e.slice \in Edited(d, b)
                 /\ b[e.slice].del = "erased"
                 /\ e.position < p}

CommitEdits(d, b, id, p) ==
  [kv |-> [s \in Slices |->
             IF s \in Edited(d, b)
             THEN LET e == EditOf(d, b, s, id, p) IN Applied(d.kv[s], e.life, e.ops)
             ELSE d.kv[s]],
   rows |-> [s \in Slices |->
               IF s \in Edited(d, b)
               THEN NewRow(d.rows[s], EditOf(d, b, s, id, p).life, p)
               ELSE d.rows[s]],
   log |-> (d.log \ Erased(d, b, p)) \cup {EditOf(d, b, s, id, p) : s \in Edited(d, b)},
   marks |-> d.marks]

\* Mutant of PositionAfter: a mutation that edits nothing takes a position too.
PositionAfterAlways(d, b, p) == p + 1

\* The mutation's first edit takes the next position; a mutation that edits
\* nothing takes none.
PositionAfter(d, b, p) == IF Edited(d, b) = {} THEN p ELSE p + 1

\* Mutant of Marked: a decision leaves no mark.
MarkedNever(d, m) == d

\* series_mark raises the mark, never lowers it; an unnumbered mutation has none.
Marked(d, m) ==
  [kv |-> d.kv, rows |-> d.rows, log |-> d.log,
   marks |-> [x \in Series |->
                IF x = m.series /\ m.n > d.marks[x] THEN m.n ELSE d.marks[x]]]

\* Mutant of WasDecided: off by one at the mark.
WasDecidedBelow(d, m) == m.series # NoSeries /\ m.n < d.marks[m.series]

\* The dedup check, against the transaction, so it sees the batch's decisions.
WasDecided(d, m) == m.series # NoSeries /\ m.n <= d.marks[m.series]

\* Mutant of Conflicts: it reads the slice as last committed.
ConflictsOnDisk(d, m) ==
  m.expect # NoExpect /\ disk.rows[m.expect.slice].seq # m.expect.seq

\* check_expect: whether the expected slice is at another seq than the one named.
Conflicts(d, m) == m.expect # NoExpect /\ d.rows[m.expect.slice].seq # m.expect.seq

-----------------------------------------------------------------------------
(* The writer.                                                             *)

\* write_ok names the head; write_reason, of a reject or a conflict, no position.
Answer(m, kind) ==
  [m |-> m, kind |-> kind, position |-> IF kind = "ok" THEN position ELSE 0]
Answers == [m: Mutations, kind: {"ok", "reject", "conflict"}, position: Nat]

\* Mutant of OpenOn: it takes the log's head for the next position.
OpenOnHeadAsNext(d) ==
  /\ queue' = <<>> /\ batch' = <<>> /\ buf' = EmptyBuffer /\ writes' = 0
  /\ txn' = d
  /\ position' = IF HeadOf(d.log) = 0 THEN 0 ELSE HeadOf(d.log) - 1
  /\ phase' = IF HeadOf(d.log) = 0 THEN "bootstrap" ELSE "idle"
  /\ after' = <<>>
  /\ seen' = d.kv

\* Writer::open: the tables as they were committed, the head of their log, and
\* bootstrap to run first on an empty log.
OpenOn(d) ==
  /\ queue' = <<>>
  /\ batch' = <<>>
  /\ buf' = EmptyBuffer
  /\ writes' = 0
  /\ txn' = d
  /\ position' = HeadOf(d.log)
  /\ phase' = IF HeadOf(d.log) = 0 THEN "bootstrap" ELSE "idle"
  /\ after' = <<>>
  /\ seen' = d.kv

Init ==
  /\ queue = <<>>
  /\ batch = <<>>
  /\ phase = "bootstrap"
  /\ buf = EmptyBuffer
  /\ writes = 0
  /\ txn = EmptyTables
  /\ disk = EmptyTables
  /\ position = 0
  /\ after = <<>>
  /\ answers = {}
  /\ seen = EmptyTables.kv
  /\ crashes = 0

\* A client or the scheduler hands the writer a mutation; a client that saw no
\* answer sends it again, so the same one may come any number of times.
Submit(m) ==
  /\ phase # "bootstrap"
  /\ Len(queue) + Len(batch) < MaxQueue
  /\ queue' = Append(queue, m)
  /\ UNCHANGED <<batch, phase, buf, writes, txn, disk, position, after, answers,
                 seen, crashes>>

\* run_loop takes everything waiting, and BEGIN opens its transaction.
BeginBatch ==
  /\ phase = "idle"
  /\ queue # <<>>
  /\ batch' = queue
  /\ queue' = <<>>
  /\ phase' = "open"
  /\ UNCHANGED <<buf, writes, txn, disk, position, after, answers, seen, crashes>>

\* Ends the turn of the batch's first call with the outcomes given.
Finish(outcomes) ==
  /\ batch' = Tail(batch)
  /\ after' = after \o outcomes
  /\ UNCHANGED <<queue, disk, answers, crashes>>

\* handle_submit refuses data that does not parse before anything is read, and
\* leaves the mark alone.
RefuseData ==
  /\ phase = "open" /\ batch # <<>>
  /\ Head(batch) \in Invalid
  /\ Finish(<<Answer(Head(batch), "reject")>>)
  /\ UNCHANGED <<phase, buf, writes, txn, position, seen>>

\* A number at or below the mark was decided already: ok at the head.
AnswerDuplicate ==
  /\ phase = "open" /\ batch # <<>>
  /\ Head(batch) \notin Invalid
  /\ WasDecided(txn, Head(batch))
  /\ Finish(<<Answer(Head(batch), "ok")>>)
  /\ UNCHANGED <<phase, buf, writes, txn, position, seen>>

\* The first call of the batch is a mutation to decide now.
ToDecide(m) ==
  /\ phase = "open" /\ batch # <<>>
  /\ m = Head(batch)
  /\ m \notin Invalid
  /\ ~WasDecided(txn, m)

\* check_proof: the sender's credentials changed, so the call goes back to be
\* proven again, its mutation undecided.
BounceProof ==
  /\ \E m \in Mutations : ToDecide(m) /\ m.kind = "submit"
  /\ Finish(<<>>)
  /\ UNCHANGED <<phase, buf, writes, txn, position, seen>>

\* A decision that never reaches the decider: the proof failed, the expected
\* slice is not the sender's to see, or it stands at another seq.
RejectEarly ==
  \E m \in Mutations :
    /\ ToDecide(m)
    /\ m.kind = "submit"
    /\ \/ Finish(<<Answer(m, "reject")>>)
       \/ Conflicts(txn, m) /\ Finish(<<Answer(m, "conflict")>>)
    /\ txn' = Marked(txn, m)
    /\ UNCHANGED <<phase, buf, writes, position, seen>>

StartDecider ==
  \E m \in Mutations :
    /\ ToDecide(m)
    /\ ~Conflicts(txn, m)
    /\ phase' = "deciding"
    /\ seen' = txn.kv
    /\ UNCHANGED <<queue, batch, buf, writes, txn, disk, position, after, answers,
                   crashes>>

\* The decider, or bootstrap, sets a key, deletes one, or deletes a slice.
DeciderPuts(s, f, v) ==
  /\ phase \in {"deciding", "bootstrap"}
  /\ writes < MaxWrites
  /\ buf' = Put(buf, s, f, v)
  /\ seen' = [seen EXCEPT ![s] = [seen[s] EXCEPT ![f] = IF v = Deleted THEN Absent ELSE v]]
  /\ writes' = writes + 1
  /\ UNCHANGED <<queue, batch, phase, txn, disk, position, after, answers, crashes>>

DeciderDeletesSlice(s, erase) ==
  /\ phase \in {"deciding", "bootstrap"}
  /\ writes < MaxWrites
  /\ buf' = DeleteSlice(buf, s, erase)
  /\ seen' = [seen EXCEPT ![s] = [f \in Fields |-> Absent]]
  /\ writes' = writes + 1
  /\ UNCHANGED <<queue, batch, phase, txn, disk, position, after, answers, crashes>>

EndDecision ==
  /\ phase' = "open"
  /\ seen' = txn'.kv
  /\ buf' = EmptyBuffer
  /\ writes' = 0

\* Mutant of DeciderRejects: a reject moves no mark.
DeciderRejectsUnmarked ==
  /\ phase = "deciding"
  /\ txn' = txn
  /\ EndDecision
  /\ Finish(<<Answer(Head(batch), "reject")>>)
  /\ UNCHANGED position

\* A reject, a throw, or a cron hook's failure discards the buffer; the mark
\* moves all the same.
DeciderRejects ==
  /\ phase = "deciding"
  /\ txn' = Marked(txn, Head(batch))
  /\ EndDecision
  /\ Finish(<<Answer(Head(batch), "reject")>>)
  /\ UNCHANGED position

\* The decider carried the mutation out: its buffer is committed as its edits
\* and it is answered ok at the head after them.
DeciderAccepts ==
  /\ phase = "deciding"
  /\ PositionAfter(txn, buf, position) <= MaxPosition
  /\ LET m == Head(batch)
         p == PositionAfter(txn, buf, position)
     IN  /\ position' = p
         /\ txn' = Marked(CommitEdits(txn, buf, m, p), m)
         /\ Finish(<<[Answer(m, "ok") EXCEPT !.position = p]>>)
  /\ EndDecision

Numbered(outcomes) == {i \in DOMAIN outcomes : outcomes[i].m.series # NoSeries}

\* Mutant of CommitBatch: it does not wait for the batch's last call.
CommitBatchEarly ==
  /\ phase = "open"
  /\ disk' = txn
  /\ answers' = answers \cup {after[i] : i \in Numbered(after)}
  /\ after' = <<>>
  /\ phase' = "idle"
  /\ UNCHANGED <<queue, batch, buf, writes, txn, position, seen, crashes>>

\* The end of run_batch: COMMIT, and only then the answers.
CommitBatch ==
  /\ phase = "open"
  /\ batch = <<>>
  /\ disk' = txn
  /\ answers' = answers \cup {after[i] : i \in Numbered(after)}
  /\ after' = <<>>
  /\ phase' = "idle"
  /\ UNCHANGED <<queue, batch, buf, writes, txn, position, seen, crashes>>

\* bootstrap runs in a transaction of its own before anything is served.
Bootstrap ==
  /\ phase = "bootstrap"
  /\ LET p == PositionAfter(txn, buf, position) IN
     /\ p <= MaxPosition
     /\ position' = p
     /\ txn' = CommitEdits(txn, buf, Boot, p)
     /\ disk' = CommitEdits(txn, buf, Boot, p)
  /\ phase' = "idle"
  /\ buf' = EmptyBuffer
  /\ writes' = 0
  /\ seen' = txn'.kv
  /\ UNCHANGED <<queue, batch, after, answers, crashes>>

\* The process dies and is started again: the open transaction rolls back, and
\* the calls it had taken, with the answers it owed, are gone.
Crash ==
  /\ crashes < MaxCrashes
  /\ crashes' = crashes + 1
  /\ OpenOn(disk)
  /\ UNCHANGED <<disk, answers>>

Next ==
  \/ \E m \in Mutations : Submit(m)
  \/ BeginBatch
  \/ RefuseData
  \/ AnswerDuplicate
  \/ BounceProof
  \/ RejectEarly
  \/ StartDecider
  \/ \E s \in Slices, f \in Fields, v \in Values \cup {Deleted} : DeciderPuts(s, f, v)
  \/ \E s \in Slices, erase \in BOOLEAN : DeciderDeletesSlice(s, erase)
  \/ DeciderRejects
  \/ DeciderAccepts
  \/ CommitBatch
  \/ Bootstrap
  \/ Crash

Spec == Init /\ [][Next]_vars

-----------------------------------------------------------------------------
(* Properties.                                                             *)

TypeOK ==
  /\ queue \in Seq(Mutations)
  /\ batch \in Seq(Mutations)
  /\ phase \in {"idle", "open", "deciding", "bootstrap"}
  /\ phase \in {"idle", "bootstrap"} => batch = <<>>
  /\ phase = "deciding" => batch # <<>>
  /\ buf \in Buffer
  /\ writes \in Nat
  /\ txn \in Tables
  /\ disk \in Tables
  /\ position \in Nat
  /\ after \in Seq(Answers)
  /\ answers \subseteq Answers
  /\ seen \in KeyValues
  /\ crashes \in Nat

EditsOf(d, s) == {e \in d.log : e.slice = s}

\* An edit decides what field f holds when it writes it, or clears the slice.
Decides(e, f) == e.life # "normal" \/ e.ops[f] # Untouched

Outcome(e, f) == IF e.ops[f] \in Values THEN e.ops[f] ELSE Absent

\* The edits of a slice are in one order by seq and by position, no two share
\* either, and its row stands at the last one.
EditsInOrder(d) ==
  /\ \A e1, e2 \in d.log :
       e1.slice = e2.slice =>
         /\ e1.seq = e2.seq => e1 = e2
         /\ e1.seq < e2.seq => e1.position < e2.position
  /\ \A e \in d.log : e.seq <= d.rows[e.slice].seq /\ e.position <= d.rows[e.slice].pos
  /\ \A s \in Slices :
       d.rows[s].seq > 0 =>
         \E e \in d.log : /\ e.slice = s
                          /\ e.seq = d.rows[s].seq
                          /\ e.position = d.rows[s].pos
                          /\ IsLive(d.rows[s]) <=> e.life # "death"

\* Every seq from the oldest edit the log keeps to the row's is there, and what
\* an erasure leaves starts over at a reset, so that a client that reads the log
\* from any point sees a gap only where it is told to start over.
SeqsDense(d) ==
  \A s \in Slices :
    LET seqs == {e.seq : e \in EditsOf(d, s)} IN
    /\ \A q \in seqs : \A r \in q..d.rows[s].seq : r \in seqs
    /\ \A e \in EditsOf(d, s) : (e.seq - 1) \notin seqs => e.life # "normal"

\* The store is the log's: a key holds what the last edit to decide it left.
ReplaysLog(d) ==
  \A s \in Slices, f \in Fields :
    \/ /\ \A e \in EditsOf(d, s) : ~Decides(e, f)
       /\ d.kv[s][f] = Absent
    \/ \E e \in EditsOf(d, s) :
         /\ Decides(e, f)
         /\ \A o \in EditsOf(d, s) : Decides(o, f) => o.seq <= e.seq
         /\ d.kv[s][f] = Outcome(e, f)

\* The store, the slice rows and the log always tell one story, in the writer's
\* transaction and on disk: commit_slice writes the three separately, and an
\* erasure deletes log rows the store was built from (commit_slice, slice_erase).
StoreReplaysLog == ReplaysLog(txn) /\ ReplaysLog(disk)

\* Seqs order a slice's edits and stay dense across deaths, rebirths and
\* erasures, which is what a client's gap detection rests on.
SeqsChain ==
  /\ EditsInOrder(txn) /\ SeqsDense(txn)
  /\ EditsInOrder(disk) /\ SeqsDense(disk)

\* The writer keeps its position in memory and recovers it as the log's head, so
\* no erasure may ever delete the head: a restart would give its position to
\* another mutation (slice_erase, max_position, Writer::open).
HeadSurvives == HeadOf(txn.log) = position

\* The key-value store, the slice rows, the log and the writer's position tell
\* one story through births, deaths, rebirths and erasures: what every reader of
\* one of them takes for granted of the others.
TablesAgree == StoreReplaysLog /\ SeqsChain /\ HeadSurvives

\* A position that reached the disk is never given to other edits: a client's
\* cursor at it, and a page read up to it, stay good across crashes.
CommittedPositionsStand ==
  [][\A e \in disk'.log \ disk.log : e.position > HeadOf(disk.log)]_vars

\* However often a numbered mutation is sent, in one batch, in two, or across a
\* crash that lost its answer, it is carried out at one position at most
\* (run_mutation's dedup check against the open transaction, series_mark).
CarriedOutOnce ==
  \A e1, e2 \in txn.log :
    e1.id = e2.id /\ e1.id # Boot /\ e1.id.series # NoSeries
      => e1.position = e2.position

\* An ok goes out only when the mutation can never run again, and its position
\* covers every edit the mutation made, all of them on disk: a client that has
\* applied through it may drop its prediction (decide's write_ok, run_batch).
OkIsDurable ==
  \A a \in answers :
    a.kind = "ok" =>
      /\ WasDecided(disk, a.m)
      /\ a.position <= HeadOf(disk.log)
      /\ \A e \in txn.log : e.id = a.m => e.position <= a.position

\* A mutation answered reject or conflict leaves no edit, not even when it is
\* sent again (clear_buffer, and the mark that every decision moves).
RejectedLeavesNothing ==
  \A a \in answers :
    a.kind # "ok" => \A e \in txn.log : e.id # a.m

\* No lost update: a mutation that expected its slice at a seq and edits it
\* takes exactly the next seq (check_expect under group commit).
ExpectationHolds ==
  \A e \in txn.log :
    e.id # Boot =>
      (e.id.expect # NoExpect /\ e.id.expect.slice = e.slice
         => e.seq = e.id.expect.seq + 1)

\* While a decider runs, its reads through the buffer are those of a store it
\* wrote to directly (find, deleted, delete_slice).
ReadsOwnWrites ==
  phase \in {"deciding", "bootstrap"} =>
    \A s \in Slices, f \in Fields : ReadThrough(buf, txn.kv, s, f) = seen[s][f]

\* What a decision commits is the store the decider left: turning the buffer
\* into lifecycles and operations loses nothing of it (commit_slice, touched).
CommitsWhatWasWritten ==
  [][(phase \in {"deciding", "bootstrap"} /\ txn'.log # txn.log /\ ~Crash)
       => (txn'.kv = seen)]_vars

=============================================================================
