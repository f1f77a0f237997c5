------------------------------- MODULE Unions -------------------------------
(***************************************************************************)
(* The union solver of the code generators (typespec/core/src/solver.ts)   *)
(* over the types of a model (ptypes.ts): from a union's members, the      *)
(* decision tree a reader follows to the member a value belongs to.        *)
(*                                                                         *)
(* Types, literals and solutions are tagged tuples.  The members of a      *)
(* union are a sequence, in first-seen order; a struct is a function from  *)
(* its field names.  Intake types and names are left out, and so is what   *)
(* an error says: a union is unsolvable.                                   *)
(***************************************************************************)
EXTENDS Integers, FiniteSets, Sequences, SequencesExt

\* Types.
NullType == <<"null">>
IntType == <<"int">>
StrType == <<"str">>
BoolType == <<"bool">>
DateType == <<"date">>
JsonType == <<"json">>
LitType(lit) == <<"lit", lit>>
StructType(fields) == <<"struct", fields>>
RecordType(item) == <<"record", item>>
ArrayType(item) == <<"array", item>>
TupleType(items) == <<"tuple", items>>
UnionType(types) == <<"union", types>>

Required(type) == [type |-> type, optional |-> FALSE]
Optional(type) == [type |-> type, optional |-> TRUE]

MembersOf(t) == IF t[1] = "union" THEN t[2] ELSE <<t>>

\* A sequence with its repeats dropped.
FirstSeen(seq) == FoldLeft(LAMBDA seen, e : IF e \in ToSet(seen) THEN seen ELSE Append(seen, e), <<>>, seq)

\* Nested unions are flattened and repeats dropped; one member is itself.
Union(types) ==
  LET Flat == FirstSeen(FlattenSeq([i \in 1..Len(types) |-> MembersOf(types[i])]))
  IN  IF Len(Flat) = 1 THEN Flat[1] ELSE UnionType(Flat)

LitJson(lit) == CASE lit[1] = "str" -> "string" [] lit[1] = "int" -> "int" [] lit[1] = "bool" -> "boolean"

\* The json type a type is encoded as.
JsonOf(t) ==
  CASE t[1] = "null" -> "null"
    [] t[1] = "int" -> "int"
    [] t[1] \in {"str", "date"} -> "string"
    [] t[1] = "bool" -> "boolean"
    [] t[1] = "json" -> "*"
    [] t[1] = "lit" -> LitJson(t[2])
    [] t[1] \in {"struct", "record"} -> "object"
    [] t[1] \in {"array", "tuple"} -> "array"

-----------------------------------------------------------------------------
\* Solutions.

NoSolution == <<"none">>
Unsolvable == <<"unsolvable">>
TheOnly(t) == <<"match", t>>
CheckJson(options) == <<"jsontype", options>>
CheckLit(options) == <<"literal", options>>
CheckLength(options, default) == <<"length", options, default>>
GetIndex(i, solution) == <<"index", i, solution>>
GetField(key, solution) == <<"field", key, solution>>
HasField(solutions) == <<"hasfield", solutions>>

\* What is made of the solutions of parts, unless one has none.
Whole(options, Made(_)) ==
  IF \E k \in DOMAIN options : options[k] = Unsolvable THEN Unsolvable ELSE Made(options)

\* Members told apart by their literals.
ByLiteral(types, LitOf(_), Sub(_)) ==
  [lit \in {LitOf(types[i]) : i \in DOMAIN types} |-> Sub(SelectSeq(types, LAMBDA t : LitOf(t) = lit))]

SolveLiterals(types) == CheckLit(ByLiteral(types, LAMBDA t : t[2], LAMBDA ts : TheOnly(ts[1])))

FieldLit(t, key) == t[2][key].type[2]
HasLit(t, key) == key \in DOMAIN t[2] /\ t[2][key].type[1] = "lit"

\* The keys every member has a literal under, optional or not.
CommonKeys(types) ==
  {k \in UNION {DOMAIN types[i][2] : i \in DOMAIN types} : \A i \in DOMAIN types : HasLit(types[i], k)}

OneOf(types) ==
  \A i \in DOMAIN types :
    Cardinality(DOMAIN types[i][2]) = 1 /\ \A k \in DOMAIN types[i][2] : ~types[i][2][k].optional
OnlyKey(t) == CHOOSE k \in DOMAIN t[2] : TRUE

RECURSIVE SolveStructs(_)

\* By the one key each struct has, in first-seen order.
SolveOneOf(types, keys) ==
  LET Of(k) == SelectSeq(types, LAMBDA t : OnlyKey(t) = k)
      Keyed(solutions) == HasField([i \in 1..Len(keys) |-> <<keys[i], solutions[i]>>])
  IN  Whole([i \in 1..Len(keys) |-> SolveStructs(Of(keys[i]))], Keyed)

SolveByKey(types, key) ==
  Whole(ByLiteral(types, LAMBDA t : FieldLit(t, key), SolveStructs),
        LAMBDA options : GetField(key, CheckLit(options)))

\* By the one key whose literals are all different, or "v" for want of another; or else
\* by the one beside "v".
DiscriminatorOf(common, perfect) ==
  IF perfect = {"v"} \/ (perfect = {} /\ "v" \notin common) THEN perfect
  ELSE IF perfect # {} THEN perfect \ {"v"} ELSE common \ {"v"}

PerfectKeys(types, common) ==
  {k \in common : \A i, j \in DOMAIN types : i # j => FieldLit(types[i], k) # FieldLit(types[j], k)}

SolveByDiscriminator(types, keys) ==
  IF Cardinality(keys) # 1 THEN Unsolvable ELSE SolveByKey(types, CHOOSE k \in keys : TRUE)

SolveStructs(types) ==
  LET Common == CommonKeys(types)
  IN  IF Len(types) = 1 THEN TheOnly(types[1])
      ELSE IF OneOf(types) /\ \E i \in DOMAIN types : OnlyKey(types[i]) # OnlyKey(types[1])
      THEN SolveOneOf(types, FirstSeen([i \in DOMAIN types |-> OnlyKey(types[i])]))
      ELSE SolveByDiscriminator(types, DiscriminatorOf(Common, PerfectKeys(types, Common)))

\* What an array or a tuple may hold, by its length and at an index.
MaybeEmpty(t) == t[1] = "array" \/ t[2] = <<>>
FitsLength(t, n) == t[1] = "array" \/ Len(t[2]) = n
TypeAt(t, i) == IF t[1] = "array" THEN t[2] ELSE t[2][i]

\* A mutant of Overlap: the types themselves are compared, and not their members.
MutOverlap(types) ==
  \E i, j \in DOMAIN types : i # j /\ types[i] = types[j]

\* Whether two of these types, which may be unions, share a member.
Overlap(types) ==
  \E i, j \in DOMAIN types : i # j /\ ToSet(MembersOf(types[i])) \cap ToSet(MembersOf(types[j])) # {}

RECURSIVE MatchedIn(_)
\* What a solution may match.
MatchedIn(s) ==
  CASE s[1] = "none" -> {}
    [] s[1] = "match" -> {s[2]}
    [] s[1] \in {"jsontype", "literal"} -> UNION {MatchedIn(s[2][k]) : k \in DOMAIN s[2]}
    [] s[1] = "length" -> UNION {MatchedIn(s[2][k]) : k \in DOMAIN s[2]} \cup MatchedIn(s[3])
    [] s[1] \in {"index", "field"} -> MatchedIn(s[3])
    [] s[1] = "hasfield" -> UNION {MatchedIn(s[2][i][2]) : i \in DOMAIN s[2]}

RECURSIVE Pruned(_, _)

\* A branch, whose parts are pruned, that leads to one match is that match.
PrunedTo(possible, branch) ==
  IF branch # Unsolvable /\ Cardinality(possible) = 1 THEN TheOnly(CHOOSE t \in possible : TRUE) ELSE branch

\* A solution of items as one of what holds them; one that asks which field a struct has
\* is not handled.
Pruned(s, remap) ==
  LET Options == [k \in DOMAIN s[2] |-> Pruned(s[2][k], remap)]
      Under(Made(_)) == Whole(<<Pruned(s[3], remap)>>, LAMBDA parts : Made(parts[1]))
  IN  PrunedTo({remap[t] : t \in MatchedIn(s)},
        CASE s[1] = "none" -> s
          [] s[1] = "match" -> TheOnly(remap[s[2]])
          [] s[1] = "hasfield" -> Unsolvable
          [] s[1] \in {"jsontype", "literal"} -> Whole(Options, LAMBDA options : <<s[1], options>>)
          [] s[1] = "length" ->
               Whole(Options, LAMBDA options : Under(LAMBDA default : CheckLength(options, default)))
          [] s[1] \in {"index", "field"} -> Under(LAMBDA under : <<s[1], s[2], under>>))

RECURSIVE SolveUnion(_)

ItemsAt(matches, i) == [m \in DOMAIN matches |-> TypeAt(matches[m], i)]
SolveItemsAt(items) == IF Overlap(items) THEN Unsolvable ELSE SolveUnion(MembersOf(Union(items)))

\* The match each type of an item leads to.
Remap(matches, items) ==
  [t \in UNION {ToSet(MembersOf(items[m])) : m \in DOMAIN items} |->
    matches[CHOOSE m \in DOMAIN matches : t \in ToSet(MembersOf(items[m]))]]

\* Members of one length, by the first item that tells them all apart.
SolveAtIndex(matches, solved, tells) ==
  IF tells = {} THEN Unsolvable
  ELSE LET index == CHOOSE i \in tells : \A j \in tells : i <= j
       IN  Whole(<<Pruned(solved[index], Remap(matches, ItemsAt(matches, index)))>>,
                 LAMBDA parts : GetIndex(index, parts[1]))

SolveItems(matches, n) ==
  LET Telling(solved) == SolveAtIndex(matches, solved, {i \in 1..n : solved[i] # Unsolvable})
  IN  IF Len(matches) = 1 THEN TheOnly(matches[1])
      ELSE Telling([i \in 1..n |-> SolveItemsAt(ItemsAt(matches, i))])

\* Arrays and tuples, by their length: at most one may be empty, so at most one is
\* an array, which any length left over is.
SolveArrays(types) ==
  LET arrays == SelectSeq(types, LAMBDA t : t[1] = "array")
      lengths == {Len(types[i][2]) : i \in {j \in DOMAIN types : types[j][1] = "tuple"}}
      empties == SelectSeq(types, MaybeEmpty)
  IN  IF Len(empties) > 1 THEN Unsolvable
      ELSE Whole([n \in lengths \cup (IF empties = <<>> THEN {} ELSE {0}) |->
                   SolveItems(SelectSeq(types, LAMBDA t : FitsLength(t, n)), n)],
                 LAMBDA options :
                   CheckLength(options, IF arrays = <<>> THEN NoSolution ELSE TheOnly(arrays[1])))

SolveKind(json, types) ==
  IF Len(types) = 1 THEN TheOnly(types[1])
  ELSE IF json \in {"string", "boolean", "int"}
  THEN IF \A i \in DOMAIN types : types[i][1] = "lit" THEN SolveLiterals(types) ELSE Unsolvable
  ELSE IF json = "object"
  THEN IF \A i \in DOMAIN types : types[i][1] = "struct" THEN SolveStructs(types) ELSE Unsolvable
  ELSE IF json = "array" THEN SolveArrays(types) ELSE Unsolvable

\* First the json type, and then what is left of one.
SolveUnion(types) ==
  Whole([json \in {JsonOf(types[i]) : i \in DOMAIN types} |->
          SolveKind(json, SelectSeq(types, LAMBDA t : JsonOf(t) = json))], CheckJson)

RECURSIVE Inside(_)
\* A type and the types it holds.
Inside(t) ==
  {t} \cup
  CASE t[1] = "struct" -> UNION {Inside(t[2][k].type) : k \in DOMAIN t[2]}
    [] t[1] \in {"record", "array"} -> Inside(t[2])
    [] t[1] \in {"tuple", "union"} -> UNION {Inside(t[2][i]) : i \in DOMAIN t[2]}
    [] OTHER -> {}
=============================================================================
