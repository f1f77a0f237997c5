------------------------------ MODULE KeyList -------------------------------
(***************************************************************************)
(* The in-memory store's sorted list of keys, cut into blocks              *)
(* (skeleton.ts, KeyList), and the commits that keep it beside the values  *)
(* (InMemStore).  Keys are numbered in their order.                        *)
(***************************************************************************)
EXTENDS Naturals, Sequences, FiniteSets, SequencesExt

CONSTANTS
  ListKeys,   \* the keys there may be
  Block,      \* a block holds at most 2 * Block keys, and at least Block / 4
  Share,      \* a commit that changes more than one key in Share sorts them all
  Changes     \* the keys a commit may change at once

ASSUME KeyListAssumption ==
  /\ ListKeys \subseteq Nat /\ Changes \subseteq SUBSET ListKeys
  /\ Block \in Nat \ {0} /\ Share \in Nat \ {0}

VARIABLES
  values,   \* the keys the store holds a value of
  blocks    \* the key list

listVars == <<values, blocks>>

Sorted(S) == [i \in 1..Cardinality(S) |-> CHOOSE k \in S : Cardinality({j \in S : j < k}) = i - 1]

Halves(s) ==
  <<SubSeq(s, 1, Len(s) \div 2), SubSeq(s, Len(s) \div 2 + 1, Len(s))>>

Ceiling(a, b) == (a + b - 1) \div b

\* A list over sorted keys, in blocks of even size.
Of(sorted) ==
  LET n == Len(sorted)
      size == Ceiling(n, Ceiling(n, Block))
      cut(i) == SubSeq(sorted, i * size + 1, IF (i + 1) * size < n THEN (i + 1) * size ELSE n)
  IN  IF n = 0 THEN <<>> ELSE [i \in 1..Ceiling(n, size) |-> cut(i - 1)]

\* The first index the test no longer holds for.
Bisect(n, before(_)) ==
  CHOOSE i \in 1..n + 1 : (i = n + 1 \/ ~before(i)) /\ \A j \in 1..i - 1 : before(j)

\* The place of the first key at or above key, as a block and an index into it.
Seek(bs, key) ==
  LET b == Bisect(Len(bs), LAMBDA i : Last(bs[i]) < key)
  IN  [block |-> b,
       index |-> IF b > Len(bs) THEN 1 ELSE Bisect(Len(bs[b]), LAMBDA i : bs[b][i] < key)]

Spliced(bs, b, count, new) == SubSeq(bs, 1, b - 1) \o new \o SubSeq(bs, b + count, Len(bs))

\* Insert a key the list does not hold; a block grown too long splits in two.
Add(bs, key) ==
  LET found == Seek(bs, key)
      b == IF found.block > Len(bs) THEN Len(bs) ELSE found.block
      i == IF found.block > Len(bs) THEN Len(bs[b]) + 1 ELSE found.index
      block == InsertAt(bs[b], i, key)
  IN  IF bs = <<>> THEN <<<<key>>>>
      ELSE Spliced(bs, b, 1, IF Len(block) > 2 * Block THEN Halves(block) ELSE <<block>>)

\* Mutant of RemoveKey: a block that loses its last key stays, empty.
MutRemoveKey(bs, key) ==
  LET at == Seek(bs, key)
      block == RemoveAt(bs[at.block], at.index)
  IN  Spliced(bs, at.block, 1, <<block>>)

\* Remove a key the list holds; a block grown too short joins a neighbour,
\* and splits again if the pair is too long.
RemoveKey(bs, key) ==
  LET at == Seek(bs, key)
      block == RemoveAt(bs[at.block], at.index)
      kept == Spliced(bs, at.block, 1, <<block>>)
      joined == IF at.block < Len(bs) THEN at.block ELSE at.block - 1
      pair == kept[joined] \o kept[joined + 1]
  IN  CASE 4 * Len(block) >= Block -> kept
        [] 4 * Len(block) < Block /\ Len(bs) = 1 -> IF block = <<>> THEN <<>> ELSE kept
        [] OTHER -> Spliced(kept, joined, 2, IF Len(pair) > 2 * Block THEN Halves(pair) ELSE <<pair>>)

\* A transaction's updates: keys that appear and keys that go are placed one by
\* one, unless one sort of them all costs less.
Commit(sets, dels) ==
  LET now == (values \ dels) \cup sets
      removed == values \cap dels
      added == sets \ values
      less == FoldLeft(RemoveKey, blocks, SetToSeq(removed))
  IN  /\ values' = now
      /\ blocks' = IF Share * (Cardinality(added) + Cardinality(removed)) > Cardinality(now)
                   THEN Of(Sorted(now))
                   ELSE FoldLeft(Add, less, SetToSeq(added))

ListInit == values = {} /\ blocks = <<>>

ListNext == \E ks \in Changes, sets \in BOOLEAN :
              Commit(IF sets THEN ks ELSE {}, IF sets THEN {} ELSE ks)

\* The list holds the store's keys in order, whatever order they came and went
\* in, in blocks that are never empty, never too long, and, but for a block cut
\* from a sort or an only block, never too short.  (KeyList, InMemStore.#commit)
ListHoldsTheKeys ==
  /\ FlattenSeq(blocks) = Sorted(values)
  /\ \A b \in 1..Len(blocks) :
       Len(blocks[b]) \in 1..2 * Block /\ (Len(blocks) > 1 => 4 * Len(blocks[b]) >= Block)
=============================================================================
