--------------------------- MODULE EditLogProofs ---------------------------
(***************************************************************************)
(* Theorems about EditLog for every set of slices, keys, mutations and     *)
(* series, and every bound.                                                *)
(*                                                                         *)
(* The heart is Sound(d): the tables d hold one consistent story.          *)
(* CommitKeepsSound shows that turning any buffer into edits, at any fresh *)
(* position, keeps it; everything else about the store follows.            *)
(***************************************************************************)
EXTENDS EditLog, TLAPS

\* p is the log's last position, 0 when it is empty.
IsHead(log, p) ==
  /\ \A e \in log : e.position <= p
  /\ p # 0 => \E e \in log : e.position = p

LEMMA HeadIsUnique ==
  ASSUME NEW log \in SUBSET Edit, NEW p \in Nat, IsHead(log, p)
  PROVE  HeadOf(log) = p
<1>1. CASE log = {}
  BY <1>1 DEF IsHead, HeadOf
<1>2. CASE log # {}
  <2>1. p \in {e.position : e \in log}
    BY <1>2 DEF IsHead, Edit
  <2>2. \A q \in {e.position : e \in log} : (\A e \in log : e.position <= q) => q = p
    BY <1>2, <2>1 DEF IsHead, Edit
  <2>3. QED
    BY <1>2, <2>1, <2>2 DEF IsHead, HeadOf
<1>3. QED
  BY <1>1, <1>2

-----------------------------------------------------------------------------
(* The types of what a commit writes.                                      *)

LEMMA EmptyTablesType == EmptyTables \in Tables
  BY DEF EmptyTables, Tables, KeyValues, Contents, Row, NoRow

LEMMA EmptyBufferType == EmptyBuffer \in Buffer
  BY DEF EmptyBuffer, NoTouch, Nothing, Buffer, Touch, Entries

LEMMA EditOfType ==
  ASSUME NEW d \in Tables, NEW b \in Buffer, NEW s \in Slices,
         NEW id \in Label, NEW p \in Nat \ {0}
  PROVE  EditOf(d, b, s, id, p) \in Edit
<1>1. b[s] \in Touch /\ d.rows[s] \in Row
  BY DEF Buffer, Tables
<1>2. LifeOf(b[s], IsLive(d.rows[s])) \in Lives
  BY DEF LifeOf, Lives
<1>3. Carried(b[s], LifeOf(b[s], IsLive(d.rows[s]))) \in Entries
  BY <1>1 DEF Carried, Entries, Touch
<1>4. d.rows[s].seq + 1 \in Nat \ {0}
  BY <1>1 DEF Row
<1>5. QED
  BY <1>2, <1>3, <1>4 DEF EditOf, Edit

LEMMA CommitType ==
  ASSUME NEW d \in Tables, NEW b \in Buffer, NEW id \in Label, NEW p \in Nat \ {0}
  PROVE  /\ CommitEdits(d, b, id, p) \in Tables
         /\ CommitEdits(d, b, id, p).marks = d.marks
         /\ CommitEdits(d, b, id, p).log =
              (d.log \ Erased(d, b, p))
                \cup {EditOf(d, b, s, id, p) : s \in Edited(d, b)}
         /\ \A s \in Edited(d, b) :
              /\ CommitEdits(d, b, id, p).rows[s] =
                   NewRow(d.rows[s], LifeOf(b[s], IsLive(d.rows[s])), p)
              /\ CommitEdits(d, b, id, p).kv[s] =
                   Applied(d.kv[s], LifeOf(b[s], IsLive(d.rows[s])),
                           Carried(b[s], LifeOf(b[s], IsLive(d.rows[s]))))
         /\ \A s \in Slices \ Edited(d, b) :
              /\ CommitEdits(d, b, id, p).rows[s] = d.rows[s]
              /\ CommitEdits(d, b, id, p).kv[s] = d.kv[s]
<1> DEFINE life(s) == LifeOf(b[s], IsLive(d.rows[s]))
           kv == [s \in Slices |->
                    IF s \in Edited(d, b)
                    THEN Applied(d.kv[s], life(s), Carried(b[s], life(s)))
                    ELSE d.kv[s]]
           rows == [s \in Slices |->
                      IF s \in Edited(d, b) THEN NewRow(d.rows[s], life(s), p)
                      ELSE d.rows[s]]
           log == (d.log \ Erased(d, b, p))
                    \cup {EditOf(d, b, s, id, p) : s \in Edited(d, b)}
<1>1. CommitEdits(d, b, id, p) = [kv |-> kv, rows |-> rows, log |-> log, marks |-> d.marks]
  BY DEF CommitEdits, EditOf
<1>2. kv \in KeyValues
  <2>1. ASSUME NEW s \in Slices PROVE Applied(d.kv[s], life(s), Carried(b[s], life(s))) \in Contents
    BY DEF Applied, Contents, Tables, KeyValues
  <2>2. QED
    BY <2>1 DEF KeyValues, Tables
<1>3. rows \in [Slices -> Row]
  <2>1. ASSUME NEW s \in Slices PROVE NewRow(d.rows[s], life(s), p) \in Row
    BY DEF NewRow, Row, Tables
  <2>2. QED
    BY <2>1 DEF Tables
<1>4. log \in SUBSET Edit
  BY EditOfType DEF Tables, Edited
<1> HIDE DEF kv, rows, log
<1>5. /\ CommitEdits(d, b, id, p).kv = kv
      /\ CommitEdits(d, b, id, p).rows = rows
      /\ CommitEdits(d, b, id, p).log = log
      /\ CommitEdits(d, b, id, p).marks = d.marks
      /\ CommitEdits(d, b, id, p) \in Tables
  BY <1>1, <1>2, <1>3, <1>4 DEF Tables
<1> USE DEF kv, rows, log
<1>6. Edited(d, b) \subseteq Slices
  BY DEF Edited
<1>7. QED
  BY <1>5, <1>6

-----------------------------------------------------------------------------
(* One consistent story.                                                   *)

\* A slice without a row is all zeroes, and one that is not live has no keys.
RowsAgree(d) ==
  \A s \in Slices :
    /\ d.rows[s].birth = 0 \/ d.rows[s].seq = 0 => d.rows[s] = NoRow
    /\ ~IsLive(d.rows[s]) => \A f \in Fields : d.kv[s][f] = Absent

Sound(d) ==
  /\ d \in Tables
  /\ RowsAgree(d)
  /\ EditsInOrder(d)
  /\ SeqsDense(d)
  /\ ReplaysLog(d)

LEMMA EmptyTablesSound == Sound(EmptyTables)
<1>1. EmptyTables.log = {} /\ \A s \in Slices : /\ EmptyTables.rows[s] = NoRow
                                                /\ \A f \in Fields : EmptyTables.kv[s][f] = Absent
  BY DEF EmptyTables
<1>2. RowsAgree(EmptyTables)
  BY <1>1 DEF RowsAgree
<1>3. EditsInOrder(EmptyTables)
  BY <1>1 DEF EditsInOrder, NoRow
<1>4. SeqsDense(EmptyTables)
  BY <1>1 DEF SeqsDense, EditsOf
<1>5. ReplaysLog(EmptyTables)
  BY <1>1 DEF ReplaysLog, EditsOf
<1>6. QED
  BY EmptyTablesType, <1>2, <1>3, <1>4, <1>5 DEF Sound

(* A commit's effect on one slice, with p past every edit of the log.      *)
LEMMA CommitSlice ==
  ASSUME NEW d \in Tables, Sound(d), NEW b \in Buffer, NEW id \in Label,
         NEW p \in Nat \ {0}, \A e \in d.log : e.position < p,
         NEW s \in Slices
  PROVE  LET c == CommitEdits(d, b, id, p)
             n == EditOf(d, b, s, id, p)
         IN  /\ s \notin Edited(d, b) =>
                  /\ EditsOf(c, s) = EditsOf(d, s)
                  /\ c.rows[s] = d.rows[s]
                  /\ c.kv[s] = d.kv[s]
             /\ s \in Edited(d, b) =>
                  /\ c.rows[s] = NewRow(d.rows[s], n.life, p)
                  /\ c.kv[s] = Applied(d.kv[s], n.life, n.ops)
                  /\ b[s].del = "erased" => EditsOf(c, s) = {n} /\ n.life # "normal"
                  /\ b[s].del # "erased" => EditsOf(c, s) = EditsOf(d, s) \cup {n}
<1> DEFINE c == CommitEdits(d, b, id, p)
           n == EditOf(d, b, s, id, p)
<1>1. n.slice = s /\ n.life = LifeOf(b[s], IsLive(d.rows[s]))
      /\ n.ops = Carried(b[s], LifeOf(b[s], IsLive(d.rows[s])))
  BY DEF EditOf
<1>2. \A r \in Edited(d, b) : EditOf(d, b, r, id, p).slice = r
  BY DEF EditOf
<1>3. c.log = (d.log \ Erased(d, b, p)) \cup {EditOf(d, b, r, id, p) : r \in Edited(d, b)}
  BY CommitType
<1>4. \A e \in d.log : e \in Erased(d, b, p) <=>
         e.slice \in Edited(d, b) /\ b[e.slice].del = "erased"
  BY DEF Erased
<1>5. CASE s \notin Edited(d, b)
  <2>1. EditsOf(c, s) = EditsOf(d, s)
    BY <1>2, <1>3, <1>4, <1>5 DEF EditsOf
  <2>2. QED
    BY <1>5, <2>1, CommitType
<1>6. CASE s \in Edited(d, b)
  <2>1. c.rows[s] = NewRow(d.rows[s], n.life, p) /\ c.kv[s] = Applied(d.kv[s], n.life, n.ops)
    BY <1>1, <1>6, CommitType
  <2>2. ASSUME b[s].del = "erased"
        PROVE  EditsOf(c, s) = {n} /\ n.life # "normal"
    <3>1. EditsOf(c, s) = {n}
      BY <1>1, <1>2, <1>3, <1>4, <1>6, <2>2 DEF EditsOf
    <3>2. n.life # "normal"
      BY <1>1, <2>2 DEF LifeOf
    <3>3. QED
      BY <3>1, <3>2
  <2>3. ASSUME b[s].del # "erased"
        PROVE  EditsOf(c, s) = EditsOf(d, s) \cup {n}
    BY <1>1, <1>2, <1>3, <1>4, <1>6, <2>3 DEF EditsOf
  <2>4. QED
    BY <1>6, <2>1, <2>2, <2>3
<1>7. QED
  BY <1>5, <1>6

\* The facts about a new edit that every part of the proof needs.
LEMMA NewEdit ==
  ASSUME NEW d \in Tables, Sound(d), NEW b \in Buffer, NEW id \in Label,
         NEW p \in Nat \ {0}, NEW s \in Edited(d, b)
  PROVE  LET n == EditOf(d, b, s, id, p)
             row == d.rows[s]
         IN  /\ n \in Edit /\ n.slice = s /\ n.position = p /\ n.id = id
             /\ n.seq = row.seq + 1 /\ row.seq \in Nat
             /\ IsLive(NewRow(row, n.life, p)) <=> n.life # "death"
             /\ n.life = "normal" => IsLive(row)
             /\ n.life = "death" => \A f \in Fields : n.ops[f] \notin Values
             /\ NewRow(row, n.life, p).seq = row.seq + 1
             /\ NewRow(row, n.life, p).pos = p
             /\ NewRow(row, n.life, p).birth # 0
<1> DEFINE n == EditOf(d, b, s, id, p)
           row == d.rows[s]
<1>1. s \in Slices /\ b[s] \in Touch /\ row \in Row
  BY DEF Edited, Buffer, Tables
<1>2. IsLive(row) \/ n.life = "birth"
  BY DEF Edited, IsEdited, EditOf, LifeOf
<1>3. n.life \in Lives /\ (n.life = "normal" => IsLive(row))
  BY <1>2 DEF EditOf, LifeOf, Lives
<1>4. IsLive(NewRow(row, n.life, p)) <=> n.life # "death"
  BY <1>1, <1>2, <1>3 DEF IsLive, NewRow, Row, Lives
<1>5. NewRow(row, n.life, p).birth # 0
  BY <1>1, <1>2, <1>3 DEF IsLive, NewRow, Row, Lives
<1>6. n.life = "death" => \A f \in Fields : n.ops[f] \notin Values
  BY MarkersAreNoValues DEF EditOf, Carried
<1>7. n \in Edit /\ n.slice = s /\ n.position = p /\ n.id = id /\ n.seq = row.seq + 1
  BY <1>1, EditOfType DEF EditOf
<1>8. NewRow(row, n.life, p).seq = row.seq + 1 /\ NewRow(row, n.life, p).pos = p /\ row.seq \in Nat
  BY <1>1 DEF NewRow, Row
<1>9. QED
  BY <1>3, <1>4, <1>5, <1>6, <1>7, <1>8

LEMMA CommitKeepsOrder ==
  ASSUME NEW d \in Tables, Sound(d), NEW b \in Buffer, NEW id \in Label,
         NEW p \in Nat \ {0}, \A e \in d.log : e.position < p
  PROVE  EditsInOrder(CommitEdits(d, b, id, p))
<1> DEFINE c == CommitEdits(d, b, id, p)
           new(s) == EditOf(d, b, s, id, p)
<1>1. c \in Tables /\ c.log = (d.log \ Erased(d, b, p)) \cup {new(s) : s \in Edited(d, b)}
  BY CommitType
<1>2. \A s \in Edited(d, b) :
        /\ s \in Slices /\ new(s) \in Edit /\ new(s).slice = s
        /\ new(s).position = p /\ new(s).seq = d.rows[s].seq + 1
        /\ d.rows[s].seq \in Nat
        /\ c.rows[s].seq = d.rows[s].seq + 1 /\ c.rows[s].pos = p
        /\ IsLive(c.rows[s]) <=> new(s).life # "death"
  <2>1. TAKE s \in Edited(d, b)
  <2>2. s \in Slices /\ c.rows[s] = NewRow(d.rows[s], new(s).life, p)
    BY CommitType DEF Edited, EditOf
  <2>3. QED
    BY <2>2, NewEdit
<1>3. \A e \in d.log : /\ e \in Edit /\ e.position < p
                       /\ e.seq <= d.rows[e.slice].seq /\ e.position <= d.rows[e.slice].pos
  BY DEF Sound, EditsInOrder, Tables
<1>4. \A s \in Slices \ Edited(d, b) : c.rows[s] = d.rows[s]
  BY CommitType
<1>5. ASSUME NEW e1 \in c.log, NEW e2 \in c.log, e1.slice = e2.slice
      PROVE  /\ e1.seq = e2.seq => e1 = e2
             /\ e1.seq < e2.seq => e1.position < e2.position
  <2>1. CASE e1 \in d.log /\ e2 \in d.log
    BY <1>5, <2>1 DEF Sound, EditsInOrder
  <2>2. CASE e1 \notin d.log /\ e2 \notin d.log
    BY <1>1, <1>2, <1>5, <2>2 DEF Edit
  <2>3. CASE e1 \in d.log /\ e2 \notin d.log
    <3>1. PICK s \in Edited(d, b) : e2 = new(s)
      BY <1>1, <2>3
    <3>2. e1.seq <= d.rows[s].seq /\ e1.seq \in Nat
      BY <1>2, <1>3, <1>5, <2>3, <3>1 DEF Edit
    <3>3. QED
      BY <1>2, <1>3, <2>3, <3>1, <3>2 DEF Edit
  <2>4. CASE e1 \notin d.log /\ e2 \in d.log
    <3>1. PICK s \in Edited(d, b) : e1 = new(s)
      BY <1>1, <2>4
    <3>2. e2.seq <= d.rows[s].seq /\ e2.seq \in Nat
      BY <1>2, <1>3, <1>5, <2>4, <3>1 DEF Edit
    <3>3. QED
      BY <1>2, <1>3, <2>4, <3>1, <3>2 DEF Edit
  <2>5. QED
    BY <2>1, <2>2, <2>3, <2>4
<1>6. ASSUME NEW e \in c.log
      PROVE  e.seq <= c.rows[e.slice].seq /\ e.position <= c.rows[e.slice].pos
  <2>1. CASE e \notin d.log
    BY <1>1, <1>2, <2>1
  <2>2. CASE e \in d.log /\ e.slice \in Edited(d, b)
    BY <1>2, <1>3, <2>2 DEF Edit
  <2>3. CASE e \in d.log /\ e.slice \notin Edited(d, b)
    BY <1>3, <1>4, <2>3 DEF Edit
  <2>4. QED
    BY <2>1, <2>2, <2>3
<1>7. ASSUME NEW s \in Slices, c.rows[s].seq > 0
      PROVE  \E e \in c.log : /\ e.slice = s
                              /\ e.seq = c.rows[s].seq
                              /\ e.position = c.rows[s].pos
                              /\ IsLive(c.rows[s]) <=> e.life # "death"
  <2>1. CASE s \in Edited(d, b)
    BY <1>1, <1>2, <2>1
  <2>2. CASE s \notin Edited(d, b)
    <3>1. PICK e \in d.log : /\ e.slice = s
                             /\ e.seq = d.rows[s].seq
                             /\ e.position = d.rows[s].pos
                             /\ IsLive(d.rows[s]) <=> e.life # "death"
      BY <1>4, <1>7, <2>2 DEF Sound, EditsInOrder
    <3>2. e \in c.log
      BY <1>1, <2>2, <3>1 DEF Erased
    <3>3. QED
      BY <1>4, <2>2, <3>1, <3>2
  <2>3. QED
    BY <2>1, <2>2
<1>8. QED
  BY <1>5, <1>6, <1>7 DEF EditsInOrder

LEMMA CommitKeepsDense ==
  ASSUME NEW d \in Tables, Sound(d), NEW b \in Buffer, NEW id \in Label,
         NEW p \in Nat \ {0}, \A e \in d.log : e.position < p
  PROVE  SeqsDense(CommitEdits(d, b, id, p))
<1> DEFINE c == CommitEdits(d, b, id, p)
           new(s) == EditOf(d, b, s, id, p)
<1> SUFFICES ASSUME NEW s \in Slices
             PROVE  /\ \A q \in {e.seq : e \in EditsOf(c, s)} :
                         \A r \in q..c.rows[s].seq : r \in {e.seq : e \in EditsOf(c, s)}
                    /\ \A e \in EditsOf(c, s) :
                         (e.seq - 1) \notin {o.seq : o \in EditsOf(c, s)} => e.life # "normal"
  BY DEF SeqsDense
<1>1. CASE s \notin Edited(d, b)
  BY <1>1, CommitSlice DEF Sound, SeqsDense
<1>2. CASE s \in Edited(d, b)
  <2> DEFINE n == new(s)
             old == {e.seq : e \in EditsOf(d, s)}
  <2>1. /\ n.seq = d.rows[s].seq + 1 /\ d.rows[s].seq \in Nat
        /\ c.rows[s].seq = n.seq
        /\ n.life = "normal" => IsLive(d.rows[s])
    BY <1>2, NewEdit, CommitSlice
  <2>2. \A e \in EditsOf(d, s) : e.seq \in Nat /\ e.seq <= d.rows[s].seq
    BY DEF EditsOf, Sound, EditsInOrder, Tables, Edit
  <2>3. CASE b[s].del = "erased"
    <3>1. EditsOf(c, s) = {n} /\ n.life # "normal"
      BY <1>2, <2>3, CommitSlice
    <3>2. QED
      BY <2>1, <3>1
  <2>4. CASE b[s].del # "erased"
    <3>1. EditsOf(c, s) = EditsOf(d, s) \cup {n}
      BY <1>2, <2>4, CommitSlice
    <3>2. /\ \A q \in old : \A r \in q..d.rows[s].seq : r \in old
          /\ \A e \in EditsOf(d, s) : (e.seq - 1) \notin old => e.life # "normal"
      BY DEF Sound, SeqsDense
    <3>3. d.rows[s].seq > 0 => d.rows[s].seq \in old
      BY DEF Sound, EditsInOrder, EditsOf
    <3>4. n.life = "normal" => d.rows[s].seq > 0
      BY <2>1 DEF Sound, RowsAgree, NoRow, IsLive
    <3>5. {e.seq : e \in EditsOf(c, s)} = old \cup {n.seq}
      BY <3>1
    <3>6. ASSUME NEW q \in old \cup {n.seq}, NEW r \in q..n.seq
          PROVE  r \in old \cup {n.seq}
      BY <2>1, <2>2, <3>2, <3>6
    <3>7. ASSUME NEW e \in EditsOf(c, s), (e.seq - 1) \notin old \cup {n.seq}
          PROVE  e.life # "normal"
      <4>1. CASE e = n
        BY <2>1, <3>3, <3>4, <3>7, <4>1
      <4>2. CASE e \in EditsOf(d, s)
        BY <3>2, <3>7, <4>2
      <4>3. QED
        BY <3>1, <4>1, <4>2
    <3>8. QED
      BY <2>1, <3>5, <3>6, <3>7
  <2>5. QED
    BY <2>3, <2>4
<1>3. QED
  BY <1>1, <1>2

LEMMA CommitKeepsReplay ==
  ASSUME NEW d \in Tables, Sound(d), NEW b \in Buffer, NEW id \in Label,
         NEW p \in Nat \ {0}, \A e \in d.log : e.position < p
  PROVE  ReplaysLog(CommitEdits(d, b, id, p))
<1> DEFINE c == CommitEdits(d, b, id, p)
<1> SUFFICES ASSUME NEW s \in Slices, NEW f \in Fields
             PROVE  \/ /\ \A e \in EditsOf(c, s) : ~Decides(e, f)
                       /\ c.kv[s][f] = Absent
                    \/ \E e \in EditsOf(c, s) :
                         /\ Decides(e, f)
                         /\ \A o \in EditsOf(c, s) : Decides(o, f) => o.seq <= e.seq
                         /\ c.kv[s][f] = Outcome(e, f)
  BY DEF ReplaysLog
<1>1. CASE s \notin Edited(d, b)
  <2>1. EditsOf(c, s) = EditsOf(d, s) /\ c.kv[s] = d.kv[s]
    BY <1>1, CommitSlice
  <2>2. QED
    BY <2>1 DEF Sound, ReplaysLog
<1>2. CASE s \in Edited(d, b)
  <2> DEFINE n == EditOf(d, b, s, id, p)
  <2>1. n \in Edit /\ n.seq = d.rows[s].seq + 1 /\ d.rows[s].seq \in Nat
    BY <1>2, NewEdit
  <2>2. c.kv[s][f] = IF n.ops[f] \in Values THEN n.ops[f]
                     ELSE IF n.life # "normal" \/ n.ops[f] = Deleted THEN Absent
                     ELSE d.kv[s][f]
    <3>1. c.kv[s] = Applied(d.kv[s], n.life, n.ops)
      BY <1>2, CommitSlice
    <3> HIDE DEF n, c
    <3>2. Applied(d.kv[s], n.life, n.ops)[f] =
            IF n.ops[f] \in Values THEN n.ops[f]
            ELSE IF n.life # "normal" \/ n.ops[f] = Deleted THEN Absent
            ELSE d.kv[s][f]
      BY DEF Applied
    <3>3. QED
      BY <3>1, <3>2
  <2>3. n \in EditsOf(c, s) /\ \A e \in EditsOf(c, s) : e = n \/ e \in EditsOf(d, s)
    BY <1>2, CommitSlice
  <2>4. \A e \in EditsOf(d, s) : e.seq \in Nat /\ e.seq < n.seq
    BY <2>1 DEF EditsOf, Sound, EditsInOrder, Tables, Edit
  <2>5. CASE Decides(n, f)
    <3>1. \A o \in EditsOf(c, s) : o.seq <= n.seq
      BY <2>1, <2>3, <2>4
    <3>2. c.kv[s][f] = Outcome(n, f)
      BY <2>1, <2>2, <2>5, MarkersAreNoValues DEF Outcome, Decides, Edit, Entries
    <3>3. QED
      BY <2>3, <2>5, <3>1, <3>2
  <2>6. CASE ~Decides(n, f)
    <3>1. n.life = "normal" /\ c.kv[s][f] = d.kv[s][f]
      BY <2>2, <2>6, MarkersAreNoValues DEF Decides
    <3>2. EditsOf(c, s) = EditsOf(d, s) \cup {n}
      BY <1>2, <3>1, CommitSlice
    <3>3. QED
      BY <2>6, <3>1, <3>2 DEF Sound, ReplaysLog
  <2>7. QED
    BY <2>5, <2>6
<1>3. QED
  BY <1>1, <1>2

THEOREM CommitKeepsSound ==
  ASSUME NEW d \in Tables, Sound(d), NEW b \in Buffer, NEW id \in Label,
         NEW p \in Nat \ {0}, \A e \in d.log : e.position < p
  PROVE  Sound(CommitEdits(d, b, id, p))
<1> DEFINE c == CommitEdits(d, b, id, p)
<1>1. ASSUME NEW s \in Slices
      PROVE  /\ c.rows[s].birth = 0 \/ c.rows[s].seq = 0 => c.rows[s] = NoRow
             /\ ~IsLive(c.rows[s]) => \A f \in Fields : c.kv[s][f] = Absent
  <2>1. CASE s \notin Edited(d, b)
    BY <2>1, CommitSlice DEF Sound, RowsAgree
  <2>2. CASE s \in Edited(d, b)
    <3> DEFINE n == EditOf(d, b, s, id, p)
    <3>1. c.rows[s] = NewRow(d.rows[s], n.life, p) /\ c.kv[s] = Applied(d.kv[s], n.life, n.ops)
      BY <2>2, CommitSlice
    <3>2. c.rows[s].birth # 0 /\ c.rows[s].seq # 0
      BY <2>2, <3>1, NewEdit
    <3>3. ASSUME ~IsLive(c.rows[s]), NEW f \in Fields
          PROVE  c.kv[s][f] = Absent
      <4>1. n.life = "death" /\ n.ops[f] \notin Values
        BY <2>2, <3>1, <3>3, NewEdit
      <4>2. QED
        BY <3>1, <4>1 DEF Applied
    <3>4. QED
      BY <3>2, <3>3
  <2>3. QED
    BY <2>1, <2>2
<1>2. RowsAgree(c)
  BY <1>1 DEF RowsAgree
<1>3. QED
  BY <1>2, CommitType, CommitKeepsOrder, CommitKeepsDense, CommitKeepsReplay DEF Sound

-----------------------------------------------------------------------------
(* What a decision writes.                                                 *)

\* A buffer that edits nothing changes nothing.
LEMMA CommitNothing ==
  ASSUME NEW d \in Tables, NEW b \in Buffer, NEW id \in Label, NEW p, Edited(d, b) = {}
  PROVE  CommitEdits(d, b, id, p) = d
<1>1. Erased(d, b, p) = {}
  BY DEF Erased
<1>2. d = [kv |-> d.kv, rows |-> d.rows, log |-> d.log, marks |-> d.marks]
      /\ d.kv = [s \in Slices |-> d.kv[s]]
      /\ d.rows = [s \in Slices |-> d.rows[s]]
  BY DEF Tables, KeyValues
<1>3. (d.log \ {}) \cup {EditOf(d, b, s, id, p) : s \in {}} = d.log
  OBVIOUS
<1>4. QED
  BY <1>1, <1>2, <1>3 DEF CommitEdits

\* A commit leaves in the store what reading through the buffer showed.
LEMMA CommitLeavesWhatWasRead ==
  ASSUME NEW d \in Tables, Sound(d), NEW b \in Buffer, NEW id \in Label,
         NEW p \in Nat \ {0}, NEW s \in Slices, NEW f \in Fields
  PROVE  CommitEdits(d, b, id, p).kv[s][f] = ReadThrough(b, d.kv, s, f)
<1> DEFINE c == CommitEdits(d, b, id, p)
           live == IsLive(d.rows[s])
           life == LifeOf(b[s], live)
           entry == b[s].entries[f]
<1>1. b[s] \in Touch /\ entry \in Values \cup {Deleted, Untouched}
      /\ b[s].del \in {"kept", "deleted", "erased"}
  BY DEF Buffer, Touch, Entries
<1>2. ~live => d.kv[s][f] = Absent
  BY DEF Sound, RowsAgree
<1>3. ReadThrough(b, d.kv, s, f) =
        IF entry \in Values THEN entry
        ELSE IF entry = Deleted \/ b[s].del # "kept" THEN Absent
        ELSE d.kv[s][f]
  BY DEF ReadThrough
<1>4. CASE s \in Edited(d, b)
  <2>1. c.kv[s] = Applied(d.kv[s], life, Carried(b[s], life))
    BY <1>4, CommitType
  <2>2. Carried(b[s], life)[f] =
          IF life = "death" \/ (life = "birth" /\ entry = Deleted) THEN Untouched ELSE entry
    BY DEF Carried
  <2>3. Applied(d.kv[s], life, Carried(b[s], life))[f] =
          IF Carried(b[s], life)[f] \in Values THEN Carried(b[s], life)[f]
          ELSE IF life # "normal" \/ Carried(b[s], life)[f] = Deleted THEN Absent
          ELSE d.kv[s][f]
    BY DEF Applied
  <2>4. life = "death" => entry \notin Values /\ b[s].del # "kept"
    BY DEF LifeOf, Sets
  <2>5. life = "birth" => b[s].del # "kept" \/ ~live
    BY DEF LifeOf
  <2>6. life = "normal" => b[s].del = "kept"
    BY DEF LifeOf
  <2>7. life \in {"normal", "birth", "death"}
    BY DEF LifeOf
  <2>8. c.kv[s][f] = Applied(d.kv[s], life, Carried(b[s], life))[f]
    BY <2>1
  <2>9. CASE entry \in Values
    <3>1. life # "death" /\ entry # Deleted
      BY <2>4, <2>9, MarkersAreNoValues
    <3>2. Carried(b[s], life)[f] = entry
      BY <2>2, <3>1
    <3>3. QED
      BY <1>3, <2>3, <2>8, <2>9, <3>2
  <2>10. CASE entry \notin Values
    <3>1. Carried(b[s], life)[f] \notin Values
      BY <1>1, <2>2, <2>10, MarkersAreNoValues
    <3>2. CASE life = "normal"
      <4>1. Carried(b[s], life)[f] = entry
        BY <2>2, <3>2
      <4>2. QED
        BY <1>3, <2>3, <2>6, <2>8, <2>10, <3>2, <4>1
    <3>3. CASE life # "normal"
      <4>1. c.kv[s][f] = Absent
        BY <2>3, <2>8, <3>1, <3>3
      <4>2. b[s].del # "kept" \/ d.kv[s][f] = Absent
        BY <1>2, <2>4, <2>5, <2>7, <3>3
      <4>3. QED
        BY <1>3, <2>10, <4>1, <4>2
    <3>4. QED
      BY <3>2, <3>3
  <2>11. QED
    BY <2>9, <2>10
<1>5. CASE s \notin Edited(d, b)
  <2>1. c.kv[s] = d.kv[s]
    BY <1>5, CommitType
  <2>2. CASE b[s] = NoTouch
    BY <1>3, <2>1, <2>2, MarkersAreNoValues DEF NoTouch, Nothing
  <2>3. CASE b[s] # NoTouch
    <3>1. ~live /\ (life = "death" \/ ~Sets(b[s]))
      BY <1>5, <2>3 DEF Edited, IsEdited
    <3>2. entry \notin Values
      BY <3>1 DEF LifeOf, Sets
    <3>3. QED
      BY <1>2, <1>3, <2>1, <3>1, <3>2
  <2>4. QED
    BY <2>2, <2>3
<1>6. QED
  BY <1>4, <1>5

\* Everything the rest needs to know of one decision's commit.
LEMMA DecisionCommits ==
  ASSUME NEW d \in Tables, Sound(d), NEW b \in Buffer, NEW id \in Label,
         NEW q \in Nat, IsHead(d.log, q)
  PROVE  LET p == PositionAfter(d, b, q)
             c == CommitEdits(d, b, id, p)
         IN  /\ p \in Nat /\ q <= p
             /\ Sound(c)
             /\ IsHead(c.log, p)
             /\ c.marks = d.marks
             /\ \A e \in c.log :
                  \/ e \in d.log
                  \/ /\ e.id = id /\ e.position = p /\ p > q
                     /\ e.seq = d.rows[e.slice].seq + 1
             /\ \A s \in Slices, f \in Fields : c.kv[s][f] = ReadThrough(b, d.kv, s, f)
             /\ (c.log = d.log => c = d)
<1> DEFINE p == PositionAfter(d, b, q)
           c == CommitEdits(d, b, id, p)
<1>1. CASE Edited(d, b) = {}
  <2>1. c = d /\ p = q
    BY <1>1, CommitNothing DEF PositionAfter
  <2>2. ASSUME NEW s \in Slices, NEW f \in Fields
        PROVE  c.kv[s][f] = ReadThrough(b, d.kv, s, f)
    <3>1. CommitEdits(d, b, id, 1) = d
      BY <1>1, CommitNothing
    <3>2. QED
      BY <2>1, <3>1, CommitLeavesWhatWasRead
  <2>3. QED
    BY <2>1, <2>2
<1>2. CASE Edited(d, b) # {}
  <2>1. p = q + 1 /\ p \in Nat \ {0}
    BY <1>2 DEF PositionAfter
  <2>2. \A e \in d.log : e \in Edit /\ e.position < p
    BY <2>1 DEF IsHead, Tables, Edit
  <2>3. Sound(c)
    BY <2>1, <2>2, CommitKeepsSound
  <2>4. /\ c.marks = d.marks
        /\ c.log = (d.log \ Erased(d, b, p)) \cup {EditOf(d, b, s, id, p) : s \in Edited(d, b)}
    BY <2>1, CommitType
  <2>5. ASSUME NEW s \in Edited(d, b)
        PROVE  LET n == EditOf(d, b, s, id, p)
               IN  /\ n.id = id /\ n.position = p /\ n.slice = s
                   /\ n.seq = d.rows[s].seq + 1
                   /\ n \in c.log /\ n \notin d.log
    BY <2>1, <2>2, <2>4 DEF EditOf
  <2>6. IsHead(c.log, p)
    <3>1. \A e \in c.log : e.position <= p
      BY <2>1, <2>2, <2>4, <2>5 DEF Edit
    <3>2. \E e \in c.log : e.position = p
      BY <1>2, <2>5
    <3>3. QED
      BY <3>1, <3>2 DEF IsHead
  <2>7. \A e \in c.log : \/ e \in d.log
                         \/ /\ e.id = id /\ e.position = p /\ p > q
                            /\ e.seq = d.rows[e.slice].seq + 1
    BY <2>1, <2>4, <2>5
  <2>8. c.log # d.log
    BY <1>2, <2>5
  <2>9. \A s \in Slices, f \in Fields : c.kv[s][f] = ReadThrough(b, d.kv, s, f)
    BY <2>1, CommitLeavesWhatWasRead
  <2>10. QED
    BY <2>1, <2>3, <2>4, <2>6, <2>7, <2>8, <2>9
<1>3. QED
  BY <1>1, <1>2

-----------------------------------------------------------------------------
(* The inductive invariant.                                                *)

\* A numbered mutation with an edit is at or below its series' mark, and all its
\* edits are at one position, each where its expectation said.
Numbering(d) ==
  /\ \A e \in d.log :
       e.id # Boot /\ e.id.series # NoSeries => e.id.n <= d.marks[e.id.series]
  /\ \A e1, e2 \in d.log :
       e1.id = e2.id /\ e1.id # Boot /\ e1.id.series # NoSeries
         => e1.position = e2.position
  /\ \A e \in d.log :
       e.id # Boot => (e.id.expect # NoExpect /\ e.id.expect.slice = e.slice
                         => e.seq = e.id.expect.seq + 1)

\* What an answer to a numbered mutation says stays true of the tables.
Honest(d, a) ==
  a.m.series # NoSeries =>
    /\ a.kind = "ok" =>
         /\ WasDecided(d, a.m)
         /\ \A e \in d.log : e.id = a.m => e.position <= a.position
    /\ a.kind # "ok" =>
         /\ WasDecided(d, a.m) \/ a.m \in Invalid
         /\ \A e \in d.log : e.id # a.m

\* The tables on disk and in the transaction.
TablesInv ==
  /\ Sound(txn) /\ Sound(disk)
  /\ Numbering(txn) /\ Numbering(disk)
  /\ IsHead(txn.log, position)
  /\ IsHead(disk.log, HeadOf(disk.log)) /\ HeadOf(disk.log) \in Nat
  /\ HeadOf(disk.log) <= position
  /\ \A e \in txn.log \ disk.log : e.position > HeadOf(disk.log)
  /\ \A d \in {txn, disk} : \A e \in d.log : e.id \notin Invalid

\* Where the writer stands.
PhaseInv ==
  /\ phase \in {"idle", "bootstrap"} => txn = disk /\ after = <<>>
  /\ phase = "bootstrap" => position = 0
  /\ phase \in {"idle", "open"} => buf = EmptyBuffer
  /\ phase = "deciding" =>
       /\ Head(batch) \notin Invalid
       /\ ~WasDecided(txn, Head(batch))
       /\ ~Conflicts(txn, Head(batch))
  /\ ReadsOwnWrites

AnswersInv ==
  /\ \A i \in DOMAIN after : Honest(txn, after[i]) /\ after[i].position <= position
  /\ \A a \in answers :
       /\ Honest(txn, a) /\ Honest(disk, a)
       /\ a.position <= HeadOf(disk.log)
       /\ a.m.series # NoSeries

IInv == TypeOK /\ TablesInv /\ PhaseInv /\ AnswersInv

LEMMA EmptyBufferReads ==
  ASSUME NEW kv \in KeyValues, NEW s \in Slices, NEW f \in Fields
  PROVE  ReadThrough(EmptyBuffer, kv, s, f) = kv[s][f]
  BY MarkersAreNoValues DEF ReadThrough, EmptyBuffer, NoTouch, Nothing

LEMMA InitIInv == Init => IInv
<1> SUFFICES ASSUME Init PROVE IInv
  OBVIOUS
<1>1. EmptyTables.log = {} /\ HeadOf({}) = 0
  BY DEF EmptyTables, HeadOf
<1>2. TypeOK
  BY EmptyTablesType, EmptyBufferType DEF Init, TypeOK, Tables
<1>3. Numbering(EmptyTables)
  BY <1>1 DEF Numbering
<1>4. TablesInv
  BY <1>1, <1>3, EmptyTablesSound DEF Init, TablesInv, IsHead
<1>5. PhaseInv
  BY EmptyTablesType, EmptyBufferReads DEF Init, PhaseInv, ReadsOwnWrites, Tables
<1>6. AnswersInv
  BY DEF Init, AnswersInv
<1>7. QED
  BY <1>2, <1>4, <1>5, <1>6 DEF IInv

\* A mark only rises, and nothing else of the tables changes.
LEMMA MarkedTables ==
  ASSUME NEW d \in Tables, NEW m \in Mutations
  PROVE  /\ Marked(d, m) \in Tables
         /\ Marked(d, m).kv = d.kv /\ Marked(d, m).rows = d.rows
         /\ Marked(d, m).log = d.log
         /\ \A x \in Series : d.marks[x] <= Marked(d, m).marks[x]
         /\ m.series # NoSeries => WasDecided(Marked(d, m), m)
<1>1. m.n \in Nat /\ m.series \in Series \cup {NoSeries}
  BY MutationsAssumption
<1>2. Marked(d, m).marks \in [Series -> Nat]
  BY <1>1 DEF Marked, Tables
<1>3. QED
  BY <1>1, <1>2 DEF Marked, Tables, WasDecided

LEMMA MarkedSound ==
  ASSUME NEW d \in Tables, NEW m \in Mutations, Sound(d)
  PROVE  Sound(Marked(d, m))
<1>1. /\ Marked(d, m) \in Tables /\ Marked(d, m).kv = d.kv
      /\ Marked(d, m).rows = d.rows /\ Marked(d, m).log = d.log
  BY MarkedTables
<1>2. QED
  BY <1>1 DEF Sound, RowsAgree, EditsInOrder, SeqsDense, ReplaysLog, EditsOf

LEMMA MarkedInv ==
  ASSUME NEW d \in Tables, NEW m \in Mutations, Sound(d), Numbering(d)
  PROVE  /\ Sound(Marked(d, m))
         /\ Numbering(Marked(d, m))
         /\ \A a : a.m \in Mutations /\ Honest(d, a) => Honest(Marked(d, m), a)
<1> DEFINE c == Marked(d, m)
<1>1. /\ c \in Tables /\ c.kv = d.kv /\ c.rows = d.rows /\ c.log = d.log
      /\ \A x \in Series : d.marks[x] <= c.marks[x] /\ d.marks[x] \in Nat /\ c.marks[x] \in Nat
  BY MarkedTables DEF Tables
<1> HIDE DEF c
<1>2. Sound(c)
  BY MarkedSound DEF c
<1>3. Numbering(c)
  <2>1. ASSUME NEW e \in d.log, e.id # Boot, e.id.series # NoSeries
        PROVE  e.id.series \in Series /\ e.id.n \in Nat
    BY <2>1, MutationsAssumption DEF Tables, Edit, Label
  <2>2. QED
    BY <1>1, <2>1 DEF Numbering
<1>4. ASSUME NEW a, a.m \in Mutations, Honest(d, a)
      PROVE  Honest(c, a)
  BY <1>1, <1>4, MutationsAssumption DEF Honest, WasDecided
<1>5. QED
  BY <1>2, <1>3, <1>4 DEF c

-----------------------------------------------------------------------------
(* One lemma per group of actions: each keeps the invariant.               *)

LEMMA PutReads ==
  ASSUME NEW b \in Buffer, NEW kv \in KeyValues, NEW s \in Slices, NEW f \in Fields,
         NEW v \in Values \cup {Deleted}
  PROVE  /\ Put(b, s, f, v) \in Buffer
         /\ \A r \in Slices, g \in Fields :
              ReadThrough(Put(b, s, f, v), kv, r, g) =
                IF r = s /\ g = f THEN (IF v = Deleted THEN Absent ELSE v)
                ELSE ReadThrough(b, kv, r, g)
<1> DEFINE c == Put(b, s, f, v)
           t == [entries |-> [b[s].entries EXCEPT ![f] = v], del |-> b[s].del]
<1>1. b[s] \in Touch /\ t \in Touch
  BY DEF Buffer, Touch, Entries
<1>2. c = [b EXCEPT ![s] = t]
  BY DEF Put
<1>3. c \in Buffer
  BY <1>1, <1>2 DEF Buffer
<1>4. \A r \in Slices : c[r] = IF r = s THEN t ELSE b[r]
  BY <1>2 DEF Buffer
<1>5. \A g \in Fields : t.entries[g] = IF g = f THEN v ELSE b[s].entries[g]
  BY <1>1 DEF Touch, Entries
<1>6. t.del = b[s].del
  OBVIOUS
<1> HIDE DEF c, t
<1>7. ASSUME NEW r \in Slices, NEW g \in Fields
      PROVE  ReadThrough(c, kv, r, g) =
               IF r = s /\ g = f THEN (IF v = Deleted THEN Absent ELSE v)
               ELSE ReadThrough(b, kv, r, g)
  <2>1. CASE r = s /\ g = f
    BY <1>4, <1>5, <2>1, MarkersAreNoValues DEF ReadThrough
  <2>2. CASE r = s /\ g # f
    <3>1. c[r] = t /\ t.entries[g] = b[r].entries[g] /\ t.del = b[r].del
      BY <1>4, <1>5, <1>6, <2>2
    <3>2. ReadThrough(c, kv, r, g) = ReadThrough(b, kv, r, g)
      BY <3>1 DEF ReadThrough
    <3>3. QED
      BY <2>2, <3>2
  <2>3. CASE r # s
    BY <1>4, <2>3 DEF ReadThrough
  <2>4. QED
    BY <2>1, <2>2, <2>3
<1>8. QED
  BY <1>3, <1>7 DEF c

LEMMA DeleteReads ==
  ASSUME NEW b \in Buffer, NEW kv \in KeyValues, NEW s \in Slices, NEW erase \in BOOLEAN
  PROVE  /\ DeleteSlice(b, s, erase) \in Buffer
         /\ \A r \in Slices, g \in Fields :
              ReadThrough(DeleteSlice(b, s, erase), kv, r, g) =
                IF r = s THEN Absent ELSE ReadThrough(b, kv, r, g)
<1> DEFINE c == DeleteSlice(b, s, erase)
           t == [entries |-> Nothing, del |-> Joined(b[s].del, erase)]
<1>1. t \in Touch /\ t.del # "kept"
  BY DEF Touch, Entries, Nothing, Joined
<1>2. c \in Buffer /\ \A r \in Slices : c[r] = IF r = s THEN t ELSE b[r]
  BY <1>1 DEF DeleteSlice, Buffer
<1>3. \A g \in Fields : t.entries[g] = Untouched
  BY DEF Nothing
<1> HIDE DEF c, t
<1>4. ASSUME NEW r \in Slices, NEW g \in Fields
      PROVE  ReadThrough(c, kv, r, g) = IF r = s THEN Absent ELSE ReadThrough(b, kv, r, g)
  <2>1. CASE r = s
    BY <1>1, <1>2, <1>3, <2>1, MarkersAreNoValues DEF ReadThrough
  <2>2. CASE r # s
    BY <1>2, <2>2 DEF ReadThrough
  <2>3. QED
    BY <2>1, <2>2
<1>5. QED
  BY <1>2, <1>4 DEF c

\* Calls come and go, and the tables stay.
LEMMA QueueInv ==
  ASSUME IInv, (\E m \in Mutations : Submit(m)) \/ BeginBatch
  PROVE  IInv'
<1>1. TypeOK'
  <2>1. CASE BeginBatch
    BY <2>1 DEF IInv, TypeOK, BeginBatch
  <2>2. ASSUME NEW m \in Mutations, Submit(m)
        PROVE  TypeOK'
    BY <2>2 DEF IInv, TypeOK, Submit
  <2>3. QED
    BY <2>1, <2>2
<1>2. UNCHANGED <<buf, txn, disk, position, after, answers, seen>>
  BY DEF Submit, BeginBatch
<1>3. TablesInv' /\ AnswersInv'
  BY <1>2 DEF IInv, TablesInv, AnswersInv
<1>4. PhaseInv'
  <2>1. CASE BeginBatch
    BY <1>2, <2>1 DEF IInv, PhaseInv, BeginBatch, ReadsOwnWrites
  <2>2. CASE \E m \in Mutations : Submit(m)
    BY <1>2, <2>2 DEF IInv, PhaseInv, Submit, ReadsOwnWrites
  <2>3. QED
    BY <2>1, <2>2
<1>5. QED
  BY <1>1, <1>3, <1>4 DEF IInv

\* A call that ends with the answers given, the log unchanged: the tables are
\* the same or a mark rose, and the answers are honest.
LEMMA FinishInv ==
  ASSUME IInv, phase \in {"open", "deciding"}, batch # <<>>,
         NEW outcomes \in Seq(Answers),
         Finish(outcomes), phase' = "open", buf' = EmptyBuffer, writes' \in Nat,
         position' = position, seen' \in KeyValues,
         txn' = txn \/ \E m \in Mutations : txn' = Marked(txn, m),
         \A i \in DOMAIN outcomes : Honest(txn', outcomes[i]) /\ outcomes[i].position <= position
  PROVE  IInv'
<1>1. txn' \in Tables /\ Sound(txn') /\ Numbering(txn') /\ txn'.log = txn.log
      /\ \A a : a.m \in Mutations /\ Honest(txn, a) => Honest(txn', a)
  <2>1. Sound(txn) /\ Numbering(txn) /\ txn \in Tables
    BY DEF IInv, TypeOK, TablesInv
  <2>2. QED
    BY <2>1, MarkedTables, MarkedInv
<1>2. TypeOK'
  <2>1. after' \in Seq(Answers)
    BY DEF Finish, IInv, TypeOK
  <2>2. batch' \in Seq(Mutations)
    BY DEF Finish, IInv, TypeOK
  <2>3. QED
    BY <1>1, <2>1, <2>2, EmptyBufferType DEF Finish, IInv, TypeOK
<1>3. TablesInv'
  BY <1>1 DEF Finish, IInv, TablesInv
<1>4. PhaseInv'
  BY DEF PhaseInv, ReadsOwnWrites
<1>5. AnswersInv'
  <2>1. ASSUME NEW i \in DOMAIN after'
        PROVE  Honest(txn', after'[i]) /\ after'[i].position <= position
    <3>1. CASE i \in DOMAIN after
      <4>1. after'[i] = after[i] /\ after[i] \in Answers
        BY <3>1 DEF Finish, IInv, TypeOK
      <4>2. Honest(txn, after[i]) /\ after[i].position <= position
        BY <3>1 DEF IInv, AnswersInv
      <4>3. after[i].m \in Mutations
        BY <4>1 DEF Answers
      <4>4. QED
        BY <1>1, <4>1, <4>2, <4>3
    <3>2. CASE i \notin DOMAIN after
      <4>1. \E j \in DOMAIN outcomes : after'[i] = outcomes[j]
        <5>1. i \in Len(after) + 1 .. Len(after) + Len(outcomes)
          BY <3>2 DEF Finish, IInv, TypeOK
        <5>2. i - Len(after) \in DOMAIN outcomes /\ after'[i] = outcomes[i - Len(after)]
          BY <3>2, <5>1 DEF Finish, IInv, TypeOK
        <5>3. QED
          BY <5>2
      <4>2. QED
        BY <4>1
    <3>3. QED
      BY <3>1, <3>2
  <2>2. ASSUME NEW a \in answers
        PROVE  Honest(txn', a)
    <3>1. a.m \in Mutations
      BY DEF IInv, TypeOK, Answers
    <3>2. Honest(txn, a)
      BY DEF IInv, AnswersInv
    <3>3. QED
      BY <1>1, <3>1, <3>2
  <2>3. QED
    BY <2>1, <2>2 DEF Finish, IInv, AnswersInv
<1>6. QED
  BY <1>2, <1>3, <1>4, <1>5 DEF IInv

\* A numbered mutation above its mark has no edit yet.
LEMMA NoEditYet ==
  ASSUME NEW d \in Tables, Numbering(d), NEW m \in Mutations,
         ~WasDecided(d, m), m.series # NoSeries
  PROVE  \A e \in d.log : e.id # m
<1>1. m # Boot
  BY MutationsAssumption
<1>2. QED
  BY <1>1 DEF Numbering, WasDecided

LEMMA HeadOfBatch ==
  ASSUME IInv, batch # <<>>
  PROVE  Head(batch) \in Mutations /\ Tail(batch) \in Seq(Mutations)
  BY DEF IInv, TypeOK

\* FinishInv for one answer.
LEMMA FinishOneInv ==
  ASSUME IInv, phase \in {"open", "deciding"}, batch # <<>>,
         NEW a \in Answers, Finish(<<a>>), phase' = "open", buf' = EmptyBuffer,
         writes' \in Nat, position' = position, seen' \in KeyValues,
         txn' = txn \/ \E m \in Mutations : txn' = Marked(txn, m),
         Honest(txn', a), a.position <= position
  PROVE  IInv'
<1> DEFINE outcomes == <<a>>
<1>1. outcomes \in Seq(Answers) /\ \A i \in DOMAIN outcomes : outcomes[i] = a
  OBVIOUS
<1>2. Finish(outcomes)
  OBVIOUS
<1>3. \A i \in DOMAIN outcomes : Honest(txn', outcomes[i]) /\ outcomes[i].position <= position
  BY <1>1
<1> HIDE DEF outcomes
<1>4. QED
  BY <1>1, <1>2, <1>3, FinishInv

\* A call refused, bounced or rejected changes no edit.
LEMMA RefusalsInv ==
  ASSUME IInv, RefuseData \/ AnswerDuplicate \/ BounceProof \/ RejectEarly \/ DeciderRejects
  PROVE  IInv'
<1>1. /\ txn \in Tables /\ Numbering(txn) /\ Sound(txn) /\ position \in Nat
      /\ seen \in KeyValues /\ writes \in Nat /\ txn.kv \in KeyValues
  BY DEF IInv, TypeOK, TablesInv, Tables
<1>2. batch # <<>> /\ phase \in {"open", "deciding"}
  BY DEF IInv, TypeOK, RefuseData, AnswerDuplicate, BounceProof, RejectEarly,
         DeciderRejects, ToDecide
<1> DEFINE m == Head(batch)
<1>3. m \in Mutations
  BY <1>2, HeadOfBatch
<1>4. phase = "open" => buf = EmptyBuffer
  BY DEF IInv, PhaseInv
<1>5. \A kind \in {"ok", "reject", "conflict"} :
        /\ Answer(m, kind) \in Answers
        /\ Answer(m, kind).m = m /\ Answer(m, kind).kind = kind
        /\ Answer(m, kind).position <= position
        /\ kind = "ok" => Answer(m, kind).position = position
  BY <1>1, <1>3 DEF Answer, Answers
<1>6. ASSUME ~WasDecided(txn, m), NEW kind \in {"reject", "conflict"}
      PROVE  Honest(Marked(txn, m), Answer(m, kind))
  <2>1. ASSUME m.series # NoSeries
        PROVE  /\ WasDecided(Marked(txn, m), m)
               /\ \A e \in Marked(txn, m).log : e.id # m
    BY <1>1, <1>3, <1>6, <2>1, MarkedTables, NoEditYet
  <2>2. QED
    BY <1>5, <2>1 DEF Honest
<1> HIDE DEF m
<1>7. CASE RefuseData
  <2>1. Honest(txn, Answer(m, "reject"))
    BY <1>3, <1>5, <1>7 DEF Honest, RefuseData, IInv, TablesInv, m
  <2>2. /\ phase' = "open" /\ buf' = EmptyBuffer /\ writes' \in Nat /\ txn' = txn
        /\ position' = position /\ seen' \in KeyValues /\ Finish(<<Answer(m, "reject")>>)
    BY <1>1, <1>4, <1>7 DEF RefuseData, m
  <2>3. Answer(m, "reject") \in Answers /\ Answer(m, "reject").position <= position
    BY <1>1, <1>5
  <2>4. QED
    BY <1>2, <2>1, <2>2, <2>3, FinishOneInv
<1>8. CASE AnswerDuplicate
  <2>1. WasDecided(txn, m) /\ \A e \in txn.log : e.position <= position
    BY <1>8 DEF AnswerDuplicate, IInv, TablesInv, IsHead, m
  <2>2. Honest(txn, Answer(m, "ok"))
    BY <1>5, <2>1 DEF Honest
  <2>3. /\ phase' = "open" /\ buf' = EmptyBuffer /\ writes' \in Nat /\ txn' = txn
        /\ position' = position /\ seen' \in KeyValues /\ Finish(<<Answer(m, "ok")>>)
    BY <1>1, <1>4, <1>8 DEF AnswerDuplicate, m
  <2>4. Answer(m, "ok") \in Answers /\ Answer(m, "ok").position <= position
    BY <1>1, <1>5
  <2>5. QED
    BY <1>2, <2>2, <2>3, <2>4, FinishOneInv
<1>9. CASE BounceProof
  <2>1. /\ phase' = "open" /\ buf' = EmptyBuffer /\ writes' \in Nat /\ txn' = txn
        /\ position' = position /\ seen' \in KeyValues /\ Finish(<<>>)
    BY <1>1, <1>4, <1>9 DEF BounceProof, ToDecide
  <2>2. <<>> \in Seq(Answers) /\ DOMAIN <<>> = {}
    OBVIOUS
  <2>3. QED
    BY <1>2, <2>1, <2>2, FinishInv
<1>10. CASE RejectEarly
  <2>1. ~WasDecided(txn, m) /\ txn' = Marked(txn, m)
    BY <1>10 DEF RejectEarly, ToDecide, m
  <2>2. PICK kind \in {"reject", "conflict"} : Finish(<<Answer(m, kind)>>)
    BY <1>10 DEF RejectEarly, ToDecide, m
  <2>3. phase = "open" /\ phase' = phase /\ buf' = buf /\ writes' = writes
        /\ position' = position /\ seen' = seen
    BY <1>10 DEF RejectEarly, ToDecide
  <2>4. Honest(txn', Answer(m, kind)) /\ Answer(m, kind).position <= position
    BY <1>1, <1>5, <1>6, <2>1
  <2>5. Answer(m, kind) \in Answers
    BY <1>5
  <2>6. QED
    BY <1>1, <1>2, <1>3, <1>4, <2>1, <2>2, <2>3, <2>4, <2>5, FinishOneInv
<1>11. CASE DeciderRejects
  <2>1. ~WasDecided(txn, m)
    BY <1>11 DEF DeciderRejects, IInv, PhaseInv, m
  <2>2. txn' = Marked(txn, m) /\ Finish(<<Answer(m, "reject")>>)
    BY <1>11 DEF DeciderRejects, m
  <2>3. /\ phase' = "open" /\ buf' = EmptyBuffer /\ writes' = 0
        /\ position' = position /\ seen' \in KeyValues
    BY <1>1, <1>3, <1>11, <2>2, MarkedTables DEF DeciderRejects, EndDecision
  <2>4. Honest(txn', Answer(m, "reject")) /\ Answer(m, "reject").position <= position
    BY <1>1, <1>5, <1>6, <2>1, <2>2
  <2>5. Answer(m, "reject") \in Answers
    BY <1>5
  <2>6. QED
    BY <1>1, <1>2, <1>3, <2>2, <2>3, <2>4, <2>5, FinishOneInv
<1>12. QED
  BY <1>7, <1>8, <1>9, <1>10, <1>11

-----------------------------------------------------------------------------
(* A decision.                                                             *)

LEMMA DecidingInv ==
  ASSUME IInv, \/ StartDecider
               \/ \E s \in Slices, f \in Fields, v \in Values \cup {Deleted} : DeciderPuts(s, f, v)
               \/ \E s \in Slices, erase \in BOOLEAN : DeciderDeletesSlice(s, erase)
  PROVE  IInv'
<1>1. UNCHANGED <<queue, batch, txn, disk, position, after, answers, crashes>>
  BY DEF StartDecider, DeciderPuts, DeciderDeletesSlice
<1>2. TablesInv' /\ AnswersInv'
  BY <1>1 DEF IInv, TablesInv, AnswersInv
<1>3. txn.kv \in KeyValues /\ buf \in Buffer /\ seen \in KeyValues /\ writes \in Nat
  BY DEF IInv, TypeOK, Tables
<1>4. CASE StartDecider
  <2>1. /\ phase' = "deciding" /\ seen' = txn.kv /\ buf' = buf /\ writes' = writes
        /\ phase = "open" /\ batch # <<>>
        /\ Head(batch) \notin Invalid /\ ~WasDecided(txn, Head(batch))
        /\ ~Conflicts(txn, Head(batch))
    BY <1>4 DEF StartDecider, ToDecide
  <2>2. TypeOK'
    BY <1>1, <1>3, <2>1 DEF IInv, TypeOK
  <2>3. PhaseInv'
    <3>1. buf' = EmptyBuffer
      BY <2>1 DEF IInv, PhaseInv
    <3>2. ReadsOwnWrites'
      BY <1>1, <1>3, <2>1, <3>1, EmptyBufferReads DEF ReadsOwnWrites
    <3>3. QED
      BY <1>1, <2>1, <3>2 DEF PhaseInv
  <2>4. QED
    BY <1>2, <2>2, <2>3 DEF IInv
<1>5. ASSUME phase \in {"deciding", "bootstrap"}, phase' = phase, writes' \in Nat,
             buf' \in Buffer, seen' \in KeyValues,
             \A s \in Slices, f \in Fields : ReadThrough(buf', txn.kv, s, f) = seen'[s][f]
      PROVE  IInv'
  <2>1. TypeOK'
    BY <1>1, <1>5 DEF IInv, TypeOK
  <2>2. PhaseInv'
    BY <1>1, <1>5 DEF IInv, PhaseInv, ReadsOwnWrites
  <2>3. QED
    BY <1>2, <2>1, <2>2 DEF IInv
<1>6. phase \in {"deciding", "bootstrap"} =>
        \A s \in Slices, f \in Fields : ReadThrough(buf, txn.kv, s, f) = seen[s][f]
  BY DEF IInv, PhaseInv, ReadsOwnWrites
<1>7. ASSUME NEW s \in Slices, NEW f \in Fields, NEW v \in Values \cup {Deleted},
             DeciderPuts(s, f, v)
      PROVE  IInv'
  <2> DEFINE held == IF v = Deleted THEN Absent ELSE v
  <2>1. /\ phase \in {"deciding", "bootstrap"} /\ phase' = phase /\ writes' \in Nat
        /\ buf' = Put(buf, s, f, v)
        /\ seen' = [seen EXCEPT ![s] = [seen[s] EXCEPT ![f] = held]]
    BY <1>3, <1>7 DEF DeciderPuts
  <2>2. held \in Values \cup {Absent}
    OBVIOUS
  <2> HIDE DEF held
  <2>3. seen' \in KeyValues
    BY <1>3, <2>1, <2>2 DEF KeyValues, Contents
  <2>4. \A r \in Slices, g \in Fields :
          seen'[r][g] = IF r = s /\ g = f THEN held ELSE seen[r][g]
    BY <1>3, <2>1 DEF KeyValues, Contents
  <2>5. QED
    BY <1>3, <1>5, <1>6, <2>1, <2>3, <2>4, PutReads DEF held
<1>8. ASSUME NEW s \in Slices, NEW erase \in BOOLEAN, DeciderDeletesSlice(s, erase)
      PROVE  IInv'
  <2>1. /\ phase \in {"deciding", "bootstrap"} /\ phase' = phase /\ writes' \in Nat
        /\ buf' = DeleteSlice(buf, s, erase)
        /\ seen' = [seen EXCEPT ![s] = [f \in Fields |-> Absent]]
    BY <1>3, <1>8 DEF DeciderDeletesSlice
  <2>2. seen' \in KeyValues
    BY <1>3, <2>1 DEF KeyValues, Contents
  <2>3. \A r \in Slices, g \in Fields :
          seen'[r][g] = IF r = s THEN Absent ELSE seen[r][g]
    BY <1>3, <2>1 DEF KeyValues
  <2>4. QED
    BY <1>3, <1>5, <1>6, <2>1, <2>2, <2>3, DeleteReads
<1>9. QED
  BY <1>4, <1>7, <1>8

LEMMA AcceptInv ==
  ASSUME IInv, DeciderAccepts
  PROVE  IInv'
<1> DEFINE m == Head(batch)
           p == PositionAfter(txn, buf, position)
           c == CommitEdits(txn, buf, m, p)
           answer == [Answer(m, "ok") EXCEPT !.position = p]
<1>1. /\ phase = "deciding" /\ batch # <<>>
      /\ position' = p /\ txn' = Marked(c, m) /\ Finish(<<answer>>)
      /\ phase' = "open" /\ seen' = txn'.kv /\ buf' = EmptyBuffer /\ writes' = 0
  BY DEF DeciderAccepts, EndDecision, IInv, TypeOK
<1>2. m \in Mutations /\ m \in Label /\ m # Boot /\ Tail(batch) \in Seq(Mutations)
  BY <1>1, HeadOfBatch, MutationsAssumption DEF Label
<1>3. m \notin Invalid /\ ~WasDecided(txn, m) /\ ~Conflicts(txn, m)
  BY <1>1 DEF IInv, PhaseInv
<1>4. /\ txn \in Tables /\ disk \in Tables /\ buf \in Buffer /\ position \in Nat
      /\ Sound(txn) /\ Numbering(txn) /\ IsHead(txn.log, position)
      /\ HeadOf(disk.log) <= position /\ HeadOf(disk.log) \in Nat
  BY DEF IInv, TypeOK, TablesInv
<1>5. /\ p \in Nat /\ position <= p
      /\ Sound(c) /\ c \in Tables
      /\ IsHead(c.log, p)
      /\ c.marks = txn.marks
      /\ \A e \in c.log :
           \/ e \in txn.log
           \/ /\ e.id = m /\ e.position = p /\ p > position
              /\ e.seq = txn.rows[e.slice].seq + 1
  BY <1>2, <1>4, DecisionCommits DEF Sound
<1>6. answer \in Answers /\ answer.m = m /\ answer.kind = "ok" /\ answer.position = p
  BY <1>2, <1>4, <1>5 DEF Answer, Answers
<1> HIDE DEF m, p, c, answer
<1>7. /\ txn' \in Tables /\ txn'.log = c.log /\ Sound(txn')
      /\ \A x \in Series : /\ txn.marks[x] <= txn'.marks[x]
                           /\ txn.marks[x] \in Nat /\ txn'.marks[x] \in Nat
      /\ m.series # NoSeries => WasDecided(txn', m)
  BY <1>1, <1>2, <1>4, <1>5, MarkedTables, MarkedSound DEF Tables
<1>8. \A o \in Mutations : WasDecided(txn, o) => WasDecided(txn', o) /\ o # m
  BY <1>3, <1>7, MutationsAssumption DEF WasDecided
<1>9. Numbering(txn')
  <2>1. ASSUME NEW e \in c.log, e.id # Boot, e.id.series # NoSeries
        PROVE  e.id.n <= txn'.marks[e.id.series]
    <3>1. e.id \in Mutations
      BY <1>5, <2>1 DEF Tables, Edit, Label
    <3>2. CASE e \in txn.log
      <4>1. WasDecided(txn, e.id)
        BY <1>4, <2>1, <3>2 DEF Numbering, WasDecided
      <4>2. WasDecided(txn', e.id)
        BY <1>8, <3>1, <4>1
      <4>3. QED
        BY <4>2 DEF WasDecided
    <3>3. CASE e \notin txn.log
      <4>1. e.id = m
        BY <1>5, <3>3
      <4>2. QED
        BY <1>7, <2>1, <4>1 DEF WasDecided
    <3>4. QED
      BY <3>2, <3>3
  <2>2. ASSUME NEW e1 \in c.log, NEW e2 \in c.log, e1.id = e2.id,
               e1.id # Boot, e1.id.series # NoSeries
        PROVE  e1.position = e2.position
    <3>1. CASE e1.id = m
      <4>1. \A e \in txn.log : e.id # m
        BY <1>2, <1>3, <1>4, <2>2, <3>1, NoEditYet
      <4>2. QED
        BY <1>5, <2>2, <3>1, <4>1
    <3>2. CASE e1.id # m
      BY <1>4, <1>5, <2>2, <3>2 DEF Numbering
    <3>3. QED
      BY <3>1, <3>2
  <2>3. ASSUME NEW e \in c.log, e.id # Boot, e.id.expect # NoExpect,
               e.id.expect.slice = e.slice
        PROVE  e.seq = e.id.expect.seq + 1
    <3>1. CASE e \in txn.log
      BY <1>4, <2>3, <3>1 DEF Numbering
    <3>2. CASE e \notin txn.log
      BY <1>3, <1>5, <2>3, <3>2 DEF Conflicts
    <3>3. QED
      BY <3>1, <3>2
  <2>4. QED
    BY <1>7, <2>1, <2>2, <2>3 DEF Numbering
<1>10. TablesInv'
  <2>1. disk' = disk
    BY <1>1 DEF Finish
  <2>2. \A e \in c.log \ disk.log : e.position > HeadOf(disk.log)
    <3>1. TAKE e \in c.log \ disk.log
    <3>2. CASE e \in txn.log
      BY <3>2 DEF IInv, TablesInv
    <3>3. CASE e \notin txn.log
      BY <1>4, <1>5, <3>3
    <3>4. QED
      BY <3>2, <3>3
  <2>3. \A e \in c.log : e.id \notin Invalid
    BY <1>3, <1>5 DEF IInv, TablesInv
  <2>4. QED
    BY <1>1, <1>4, <1>5, <1>7, <1>9, <2>1, <2>2, <2>3 DEF IInv, TablesInv
<1>11. ASSUME NEW a, a.m \in Mutations, Honest(txn, a)
       PROVE  Honest(txn', a)
  <2>1. ASSUME a.m.series # NoSeries, a.kind = "ok"
        PROVE  /\ WasDecided(txn', a.m)
               /\ \A e \in c.log : e.id = a.m => e.position <= a.position
    BY <1>5, <1>8, <1>11, <2>1 DEF Honest
  <2>2. ASSUME a.m.series # NoSeries, a.kind # "ok"
        PROVE  /\ WasDecided(txn', a.m) \/ a.m \in Invalid
               /\ \A e \in c.log : e.id # a.m
    BY <1>3, <1>5, <1>8, <1>11, <2>2 DEF Honest
  <2>3. QED
    BY <1>7, <2>1, <2>2 DEF Honest
<1>12. Honest(txn', answer)
  BY <1>5, <1>6, <1>7 DEF Honest, IsHead
<1>13. AnswersInv'
  <2>1. after \in Seq(Answers) /\ after' = after \o <<answer>>
    BY <1>1 DEF Finish, IInv, TypeOK
  <2>2. ASSUME NEW i \in DOMAIN after'
        PROVE  Honest(txn', after'[i]) /\ after'[i].position <= p
    <3>1. CASE i \in DOMAIN after
      <4>1. after'[i] = after[i] /\ after[i] \in Answers
        BY <2>1, <3>1
      <4>2. Honest(txn, after[i]) /\ after[i].position <= position
        BY <3>1 DEF IInv, AnswersInv
      <4>3. after[i].m \in Mutations /\ after[i].position \in Nat
        BY <4>1 DEF Answers
      <4>4. QED
        BY <1>4, <1>5, <1>11, <4>1, <4>2, <4>3
    <3>2. CASE i \notin DOMAIN after
      <4>1. after'[i] = answer
        BY <1>6, <2>1, <2>2, <3>2
      <4>2. QED
        BY <1>5, <1>6, <1>12, <4>1
    <3>3. QED
      BY <3>1, <3>2
  <2>3. ASSUME NEW a \in answers
        PROVE  Honest(txn', a)
    <3>1. a.m \in Mutations
      BY DEF IInv, TypeOK, Answers
    <3>2. Honest(txn, a)
      BY DEF IInv, AnswersInv
    <3>3. QED
      BY <1>11, <3>1, <3>2
  <2>4. QED
    BY <1>1, <2>2, <2>3 DEF Finish, IInv, AnswersInv
<1>14. TypeOK'
  <2>1. after' \in Seq(Answers) /\ batch' \in Seq(Mutations)
    BY <1>1, <1>2, <1>6 DEF Finish, IInv, TypeOK, m
  <2>2. txn'.kv \in KeyValues
    BY <1>7 DEF Tables
  <2>3. QED
    BY <1>1, <1>4, <1>5, <1>7, <2>1, <2>2, EmptyBufferType DEF Finish, IInv, TypeOK
<1>15. PhaseInv'
  BY <1>1 DEF PhaseInv, ReadsOwnWrites
<1>16. QED
  BY <1>10, <1>13, <1>14, <1>15 DEF IInv

LEMMA CommitBatchInv ==
  ASSUME IInv, CommitBatch
  PROVE  IInv'
<1>1. /\ disk' = txn /\ txn' = txn /\ position' = position /\ after' = <<>>
      /\ phase' = "idle" /\ batch' = <<>> /\ buf' = buf /\ phase = "open"
      /\ answers' = answers \cup {after[i] : i \in Numbered(after)}
  BY DEF CommitBatch
<1>2. HeadOf(txn.log) = position /\ position \in Nat
  <2>1. txn.log \in SUBSET Edit /\ position \in Nat /\ IsHead(txn.log, position)
    BY DEF IInv, TypeOK, TablesInv, Tables
  <2>2. QED
    BY <2>1, HeadIsUnique
<1>3. TablesInv'
  BY <1>1, <1>2 DEF IInv, TablesInv
<1>4. \A i \in Numbered(after) : /\ after[i] \in Answers /\ Honest(txn, after[i])
                                /\ after[i].position <= position
                                /\ after[i].m.series # NoSeries
  BY DEF Numbered, IInv, TypeOK, AnswersInv
<1>5. AnswersInv'
  <2>1. ASSUME NEW a \in answers'
        PROVE  Honest(txn, a) /\ a.position <= position /\ a.m.series # NoSeries
    <3>1. CASE a \in answers
      <4>1. Honest(txn, a) /\ a.position <= HeadOf(disk.log) /\ a.m.series # NoSeries
        BY <3>1 DEF IInv, AnswersInv
      <4>2. HeadOf(disk.log) <= position /\ HeadOf(disk.log) \in Nat /\ a.position \in Nat
        BY <3>1 DEF IInv, TablesInv, TypeOK, Answers
      <4>3. QED
        BY <1>2, <4>1, <4>2
    <3>2. CASE a \notin answers
      BY <1>1, <1>4, <3>2
    <3>3. QED
      BY <3>1, <3>2
  <2>2. QED
    BY <1>1, <1>2, <2>1 DEF AnswersInv
<1>6. TypeOK'
  BY <1>1, <1>4 DEF CommitBatch, IInv, TypeOK
<1>7. PhaseInv'
  BY <1>1 DEF IInv, PhaseInv, ReadsOwnWrites
<1>8. QED
  BY <1>3, <1>5, <1>6, <1>7 DEF IInv

LEMMA BootstrapInv ==
  ASSUME IInv, Bootstrap
  PROVE  IInv'
<1> DEFINE p == PositionAfter(txn, buf, position)
           c == CommitEdits(txn, buf, Boot, p)
<1>1. /\ phase = "bootstrap" /\ position' = p /\ txn' = c /\ disk' = c
      /\ phase' = "idle" /\ buf' = EmptyBuffer /\ writes' = 0 /\ seen' = txn'.kv
      /\ UNCHANGED <<queue, batch, after, answers, crashes>>
  BY DEF Bootstrap
<1>2. /\ position = 0 /\ txn = disk /\ after = <<>> /\ txn \in Tables /\ buf \in Buffer
      /\ Sound(txn) /\ Numbering(txn) /\ IsHead(txn.log, position)
  BY <1>1 DEF IInv, TypeOK, TablesInv, PhaseInv
<1>3. Boot \in Label /\ Boot \notin Mutations /\ Invalid \subseteq Mutations
  BY MutationsAssumption DEF Label
<1>4. /\ p \in Nat /\ position <= p
      /\ Sound(c) /\ c \in Tables
      /\ IsHead(c.log, p)
      /\ c.marks = txn.marks
      /\ \A e \in c.log : e \in txn.log \/ e.id = Boot
  BY <1>2, <1>3, DecisionCommits DEF Sound
<1> HIDE DEF p, c
<1>5. HeadOf(c.log) = p
  BY <1>4, HeadIsUnique DEF Tables
<1>6. Numbering(c)
  BY <1>2, <1>4 DEF Numbering
<1>7. TablesInv'
  <2>1. \A e \in c.log : e.id \notin Invalid
    BY <1>2, <1>3, <1>4 DEF IInv, TablesInv
  <2>2. QED
    BY <1>1, <1>4, <1>5, <1>6, <2>1 DEF TablesInv
<1>8. AnswersInv'
  <2>1. ASSUME NEW a \in answers
        PROVE  Honest(c, a) /\ a.position <= p /\ a.m.series # NoSeries
    <3>1. a.m \in Mutations /\ a.position \in Nat
      BY DEF IInv, TypeOK, Answers
    <3>2. Honest(txn, a) /\ a.position <= HeadOf(disk.log) /\ a.m.series # NoSeries
      BY DEF IInv, AnswersInv
    <3>3. HeadOf(disk.log) <= position /\ HeadOf(disk.log) \in Nat
      BY DEF IInv, TablesInv
    <3>4. \A e \in c.log : e.id = a.m => e \in txn.log
      BY <1>3, <1>4, <3>1
    <3>5. Honest(c, a)
      BY <1>4, <3>2, <3>4 DEF Honest, WasDecided
    <3>6. QED
      BY <1>2, <1>4, <3>1, <3>2, <3>3, <3>5
  <2>2. QED
    BY <1>1, <1>2, <1>5, <2>1 DEF AnswersInv
<1>9. TypeOK'
  <2>1. c.kv \in KeyValues
    BY <1>4 DEF Tables
  <2>2. QED
    BY <1>1, <1>4, <2>1, EmptyBufferType DEF IInv, TypeOK
<1>10. PhaseInv'
  BY <1>1, <1>2 DEF PhaseInv, ReadsOwnWrites
<1>11. QED
  BY <1>7, <1>8, <1>9, <1>10 DEF IInv

LEMMA CrashInv ==
  ASSUME IInv, Crash
  PROVE  IInv'
<1>1. /\ queue' = <<>> /\ batch' = <<>> /\ buf' = EmptyBuffer /\ writes' = 0
      /\ txn' = disk /\ disk' = disk /\ position' = HeadOf(disk.log)
      /\ phase' = IF HeadOf(disk.log) = 0 THEN "bootstrap" ELSE "idle"
      /\ after' = <<>> /\ seen' = disk.kv /\ answers' = answers /\ crashes' \in Nat
  BY DEF Crash, OpenOn, IInv, TypeOK
<1>2. /\ IsHead(disk.log, HeadOf(disk.log)) /\ HeadOf(disk.log) \in Nat
      /\ Sound(disk) /\ Numbering(disk) /\ disk \in Tables /\ disk.kv \in KeyValues
  BY DEF IInv, TablesInv, Sound, Tables
<1>3. TypeOK'
  BY <1>1, <1>2, EmptyBufferType DEF IInv, TypeOK
<1>4. TablesInv'
  BY <1>1, <1>2 DEF IInv, TablesInv
<1>5. PhaseInv'
  <2>1. ReadsOwnWrites'
    BY <1>1, <1>2, EmptyBufferReads DEF ReadsOwnWrites
  <2>2. QED
    BY <1>1, <2>1 DEF PhaseInv
<1>6. AnswersInv'
  BY <1>1 DEF IInv, AnswersInv
<1>7. QED
  BY <1>3, <1>4, <1>5, <1>6 DEF IInv

LEMMA NextIInv == IInv /\ [Next]_vars => IInv'
<1> SUFFICES ASSUME IInv, [Next]_vars PROVE IInv'
  OBVIOUS
<1>1. CASE UNCHANGED vars
  BY <1>1 DEF vars, IInv, TypeOK, TablesInv, PhaseInv, AnswersInv, ReadsOwnWrites
<1>2. CASE Next
  BY <1>2, QueueInv, RefusalsInv, DecidingInv, AcceptInv, CommitBatchInv,
     BootstrapInv, CrashInv DEF Next
<1>3. QED
  BY <1>1, <1>2

-----------------------------------------------------------------------------
(* The theorems.                                                           *)

\* IInv is inductive: it holds in every state the writer reaches.
THEOREM Invariance == Spec => []IInv
  BY InitIInv, NextIInv, PTL DEF Spec

\* Every variable keeps its type, and no call waits in a batch outside one.
THEOREM TypeCorrect == Spec => []TypeOK
<1>1. IInv => TypeOK
  BY DEF IInv
<1>2. QED
  BY <1>1, Invariance, PTL

\* The store, the rows and the log tell one story, on disk and in the writer's
\* transaction, through deaths, rebirths and erasures (commit_slice).
THEOREM StoreAlwaysReplaysLog == Spec => []StoreReplaysLog
<1>1. IInv => StoreReplaysLog
  BY DEF IInv, TablesInv, Sound, StoreReplaysLog
<1>2. QED
  BY <1>1, Invariance, PTL

\* The seqs of a slice order its edits and have no gap a client is not told of.
THEOREM SeqsAlwaysChain == Spec => []SeqsChain
<1>1. IInv => SeqsChain
  BY DEF IInv, TablesInv, Sound, SeqsChain
<1>2. QED
  BY <1>1, Invariance, PTL

\* The position in the writer's memory is the one a restart would recover.
THEOREM HeadAlwaysSurvives == Spec => []HeadSurvives
<1>1. IInv => HeadSurvives
  BY HeadIsUnique DEF IInv, TypeOK, TablesInv, Tables, HeadSurvives
<1>2. QED
  BY <1>1, Invariance, PTL

\* The tables and the writer's position agree in every reachable state.
THEOREM TablesAlwaysAgree == Spec => []TablesAgree
<1>1. StoreReplaysLog /\ SeqsChain /\ HeadSurvives => TablesAgree
  BY DEF TablesAgree
<1>2. QED
  BY <1>1, StoreAlwaysReplaysLog, SeqsAlwaysChain, HeadAlwaysSurvives, PTL

\* A numbered mutation is carried out at one position at most, however often it
\* is sent (run_mutation, series_mark).
THEOREM AtMostOnce == Spec => []CarriedOutOnce
<1>1. IInv => CarriedOutOnce
  BY DEF IInv, TablesInv, Numbering, CarriedOutOnce
<1>2. QED
  BY <1>1, Invariance, PTL

\* An ok that went out is on disk, with every edit of its mutation.
THEOREM OkAlwaysDurable == Spec => []OkIsDurable
<1>1. IInv => OkIsDurable
  BY DEF IInv, AnswersInv, Honest, OkIsDurable
<1>2. QED
  BY <1>1, Invariance, PTL

\* A refused mutation never leaves an edit.
THEOREM RejectionsLeaveNothing == Spec => []RejectedLeavesNothing
<1>1. IInv => RejectedLeavesNothing
  BY DEF IInv, AnswersInv, Honest, RejectedLeavesNothing
<1>2. QED
  BY <1>1, Invariance, PTL

\* A mutation that expects its slice at a seq edits it at the next one.
THEOREM ExpectationsHold == Spec => []ExpectationHolds
<1>1. IInv => ExpectationHolds
  BY DEF IInv, TablesInv, Numbering, ExpectationHolds
<1>2. QED
  BY <1>1, Invariance, PTL

\* A decider reads its own writes (WriteBuffer::find and deleted).
THEOREM DecidersReadTheirWrites == Spec => []ReadsOwnWrites
<1>1. IInv => ReadsOwnWrites
  BY DEF IInv, PhaseInv
<1>2. QED
  BY <1>1, Invariance, PTL

\* No committed position is ever given to other edits, crashes included.
THEOREM PositionsStand == Spec => CommittedPositionsStand
<1>1. IInv /\ IInv' /\ [Next]_vars
        => [\A e \in disk'.log \ disk.log : e.position > HeadOf(disk.log)]_vars
  <2> SUFFICES ASSUME IInv, Next
               PROVE  \A e \in disk'.log \ disk.log : e.position > HeadOf(disk.log)
    BY DEF vars
  <2>1. CASE CommitBatch
    BY <2>1 DEF CommitBatch, IInv, TablesInv
  <2>2. CASE Bootstrap
    <3> DEFINE p == PositionAfter(txn, buf, position)
               c == CommitEdits(txn, buf, Boot, p)
    <3>1. /\ disk' = c /\ position = 0 /\ txn = disk /\ txn \in Tables /\ buf \in Buffer
          /\ Sound(txn) /\ IsHead(txn.log, position) /\ Boot \in Label
      BY <2>2 DEF Bootstrap, IInv, TypeOK, TablesInv, PhaseInv, Label
    <3>2. \A e \in c.log : e \in txn.log \/ (e.position = p /\ p > position)
      BY <3>1, DecisionCommits
    <3>3. HeadOf(txn.log) = position
      BY <3>1, HeadIsUnique DEF Tables
    <3>4. QED
      BY <3>1, <3>2, <3>3
  <2>3. CASE ~CommitBatch /\ ~Bootstrap
    <3>1. disk' = disk
      BY <2>3 DEF Next, Submit, BeginBatch, RefuseData, AnswerDuplicate, BounceProof,
                  RejectEarly, StartDecider, DeciderPuts, DeciderDeletesSlice,
                  DeciderRejects, DeciderAccepts, Crash, Finish
    <3>2. QED
      BY <3>1
  <2>4. QED
    BY <2>1, <2>2, <2>3
<1>2. QED
  BY <1>1, Invariance, PTL DEF Spec, CommittedPositionsStand

LEMMA SameContents ==
  ASSUME NEW k1 \in KeyValues, NEW k2 \in KeyValues,
         \A s \in Slices, f \in Fields : k1[s][f] = k2[s][f]
  PROVE  k1 = k2
<1>1. ASSUME NEW s \in Slices
      PROVE  k1[s] = k2[s]
  <2>1. k1[s] \in [Fields -> Values \cup {Absent}] /\ k2[s] \in [Fields -> Values \cup {Absent}]
    BY DEF KeyValues, Contents
  <2>2. QED
    BY <2>1
<1>2. QED
  BY <1>1 DEF KeyValues

\* What is committed is the store the decider left by its own reads: lifecycles
\* and operations lose none of its writes (commit_slice, touched).
THEOREM CommitsAreFaithful == Spec => CommitsWhatWasWritten
<1>1. IInv /\ [Next]_vars
        => [(phase \in {"deciding", "bootstrap"} /\ txn'.log # txn.log /\ ~Crash)
              => (txn'.kv = seen)]_vars
  <2> SUFFICES ASSUME IInv, Next, phase \in {"deciding", "bootstrap"},
                      txn'.log # txn.log, ~Crash
               PROVE  txn'.kv = seen
    BY DEF vars
  <2>1. /\ txn \in Tables /\ buf \in Buffer /\ position \in Nat /\ seen \in KeyValues
        /\ Sound(txn) /\ IsHead(txn.log, position)
        /\ \A s \in Slices, f \in Fields : ReadThrough(buf, txn.kv, s, f) = seen[s][f]
    BY DEF IInv, TypeOK, TablesInv, PhaseInv, ReadsOwnWrites
  <2>2. ASSUME NEW id \in Label
        PROVE  /\ CommitEdits(txn, buf, id, PositionAfter(txn, buf, position)) \in Tables
               /\ CommitEdits(txn, buf, id, PositionAfter(txn, buf, position)).kv = seen
    <3> DEFINE c == CommitEdits(txn, buf, id, PositionAfter(txn, buf, position))
    <3>1. c \in Tables /\ \A s \in Slices, f \in Fields : c.kv[s][f] = seen[s][f]
      BY <2>1, DecisionCommits DEF Sound
    <3> HIDE DEF c
    <3>2. c.kv = seen
      BY <2>1, <3>1, SameContents DEF Tables
    <3>3. QED
      BY <3>1, <3>2 DEF c
  <2>3. CASE DeciderAccepts
    <3>1. Head(batch) \in Mutations /\ Head(batch) \in Label
      BY <2>3, HeadOfBatch DEF DeciderAccepts, IInv, TypeOK, Label
    <3>2. QED
      BY <2>2, <2>3, <3>1, MarkedTables DEF DeciderAccepts
  <2>4. CASE Bootstrap
    BY <2>2, <2>4 DEF Bootstrap, Label
  <2>5. CASE ~DeciderAccepts /\ ~Bootstrap
    <3>1. DeciderRejects => txn'.log = txn.log
      BY MarkedTables, HeadOfBatch, <2>1 DEF DeciderRejects, IInv, TypeOK
    <3>2. phase # "open" /\ phase # "idle"
      OBVIOUS
    <3>3. txn' = txn \/ DeciderRejects
      BY <2>5, <3>2 DEF Next, Submit, BeginBatch, RefuseData, AnswerDuplicate,
                  BounceProof, RejectEarly, ToDecide, StartDecider, DeciderPuts,
                  DeciderDeletesSlice, CommitBatch
    <3>4. QED
      BY <3>1, <3>3
  <2>6. QED
    BY <2>3, <2>4, <2>5
<1>2. QED
  BY <1>1, Invariance, PTL DEF Spec, CommitsWhatWasWritten

=============================================================================
