-------------------------------- MODULE Wire --------------------------------
(***************************************************************************)
(* The TypeScript client's conversions between the wire's msgpack values   *)
(* and an app's own (client/ts/src/registry.ts): a walk over a value under *)
(* its type, which follows the solution of a union to the member it reads, *)
(* and under the "drop" policy leaves out what a newer model added.        *)
(*                                                                         *)
(* A wire value is a tagged tuple; a map is a sequence of entries, and its *)
(* key "#" stands for any key that is not a string.  A rich value is the   *)
(* same but for an object, a function from its keys.  Bytes, paths and     *)
(* messages are left out: reading answers what was read, or one of three   *)
(* ways it was not.                                                        *)
(***************************************************************************)
EXTENDS Unions

CONSTANTS WireTypes,   \* the types checked, unsolvable ones among them
          WireValues   \* the wire values read as each of them

VARIABLES wireModel,   \* the type compiled, and the solution of each union in it
          exchange     \* one value read under a policy, and one written

wireVars == <<wireModel, exchange>>

Policies == {"drop", "reject"}

Ok(v) == <<"ok", v>>
Fail == <<"fail">>              \* a ConvertError, or an error of the reader
UnknownMember == <<"unknown">>  \* a union value that matched none of its members
DroppedValue == <<"dropped">>
IsOk(r) == r[1] = "ok"

\* Of the outcomes of a value's parts, in order, the first that is not a reading
\* stands for the whole.
FirstFailure(rs) ==
  LET failed == {i \in DOMAIN rs : rs[i] \in {Fail, UnknownMember}}
  IN  IF failed = {} THEN Ok(<<>>) ELSE rs[CHOOSE i \in failed : \A j \in failed : i <= j]

\* The object of entries read in order, a later one over an earlier, a dropped one left out.
ObjectOf(entries, rs) ==
  LET kept == {i \in DOMAIN rs : IsOk(rs[i])}
  IN  <<"object",
        [k \in {entries[i][1] : i \in kept} |->
          LET under == {i \in kept : entries[i][1] = k}
          IN  rs[CHOOSE i \in under : \A j \in under : j <= i][2]]>>

ArrayOf(rs) ==
  LET kept == SelectSeq(rs, IsOk) IN <<"array", [i \in 1..Len(kept) |-> kept[i][2]]>>

RECURSIVE ReadAny(_)
\* Any value, with no type.
ReadAny(v) ==
  LET rs == [i \in DOMAIN v[2] |->
              IF v[1] = "array" THEN ReadAny(v[2][i])
              ELSE IF v[2][i][1] = "#" THEN Fail ELSE ReadAny(v[2][i][2])]
      whole == FirstFailure(rs)
  IN  IF v[1] = "float" THEN Ok(<<"int", v[2]>>)
      ELSE IF v[1] \notin {"array", "map"} THEN Ok(v)
      ELSE IF ~IsOk(whole) THEN whole
      ELSE Ok(IF v[1] = "array" THEN ArrayOf(rs) ELSE ObjectOf(v[2], rs))

\* An integral float is an int, wherever a number is read.
Scalar(v) == IF v[1] = "float" THEN <<"int", v[2]>> ELSE v

\* The json type the solver names for a wire value, and for a rich one.
JsonTypeAt(v) ==
  CASE v[1] = "null" -> "null"
    [] v[1] = "bool" -> "boolean"
    [] v[1] \in {"int", "float"} -> "int"
    [] v[1] = "frac" -> "float"
    [] v[1] \in {"str", "date"} -> "string"
    [] v[1] \in {"map", "object"} -> "object"
    [] v[1] = "array" -> "array"

\* Where a map has a key, reading no further: 0 for nowhere, -1 for a key met first
\* that is not a string.
FindField(v, key) ==
  LET at == IF v[1] # "map" THEN {} ELSE {i \in DOMAIN v[2] : v[2][i][1] \in {key, "#"}}
      first == CHOOSE i \in at : \A j \in at : i <= j
  IN  IF at = {} THEN 0 ELSE IF v[2][first][1] = key THEN first ELSE -1

\* The first of a solution's keys, in its order, that a map has, reading all of it.
FindAnyField(v, solutions) ==
  LET keys == IF v[1] # "map" THEN {} ELSE {v[2][i][1] : i \in DOMAIN v[2]}
      has == {i \in DOMAIN solutions : solutions[i][1] \in keys}
  IN  IF "#" \in keys THEN -1
      ELSE IF has = {} THEN 0 ELSE CHOOSE i \in has : \A j \in has : i <= j

OrDrop(policy, r) == IF policy = "drop" /\ r = UnknownMember THEN DroppedValue ELSE r

RECURSIVE Read(_, _, _, _), ReadUnion(_, _, _, _, _, _)

\* A map's entries as a struct's fields: each declared one once, a foreign one under
\* the policy, and an optional one that holds an unknown member absent.
ReadFields(plans, fields, v, policy) ==
  [i \in DOMAIN v[2] |->
    LET key == v[2][i][1]
    IN  IF key = "#" THEN Fail
        ELSE IF key \notin DOMAIN fields THEN IF policy = "reject" THEN Fail ELSE DroppedValue
        ELSE IF \E j \in 1..(i - 1) : v[2][j][1] = key THEN Fail
        ELSE IF fields[key].optional
        THEN OrDrop(policy, Read(plans, fields[key].type, v[2][i][2], policy))
        ELSE Read(plans, fields[key].type, v[2][i][2], policy)]

ReadStruct(plans, fields, v, policy) ==
  LET rs == ReadFields(plans, fields, v, policy)
      whole == FirstFailure(rs)
      missing == {k \in DOMAIN fields : ~fields[k].optional} \ {v[2][i][1] : i \in DOMAIN v[2]}
  IN  IF ~IsOk(whole) THEN whole ELSE IF missing # {} THEN Fail ELSE Ok(ObjectOf(v[2], rs))

ReadRecord(plans, item, v, policy) ==
  LET rs == [i \in DOMAIN v[2] |->
              IF v[2][i][1] = "#" THEN Fail ELSE OrDrop(policy, Read(plans, item, v[2][i][2], policy))]
      whole == FirstFailure(rs)
  IN  IF IsOk(whole) THEN Ok(ObjectOf(v[2], rs)) ELSE whole

ReadArray(plans, item, v, policy) ==
  LET rs == [i \in DOMAIN v[2] |-> OrDrop(policy, Read(plans, item, v[2][i], policy))]
      whole == FirstFailure(rs)
  IN  IF IsOk(whole) THEN Ok(ArrayOf(rs)) ELSE whole

ReadTuple(plans, items, v, policy) ==
  LET rs == [i \in DOMAIN v[2] |-> Read(plans, items[i], v[2][i], policy)]
      whole == FirstFailure(rs)
  IN  IF Len(items) # Len(v[2]) THEN Fail
      ELSE IF IsOk(whole) THEN Ok(ArrayOf(rs)) ELSE whole

KindOf == [null |-> "null", int |-> "int", str |-> "str", bool |-> "bool", date |-> "date",
           struct |-> "map", record |-> "map", array |-> "array", tuple |-> "array"]

Read(plans, t, v, policy) ==
  CASE t[1] = "json" -> ReadAny(v)
    [] t[1] = "lit" -> IF Scalar(v) = t[2] THEN Ok(t[2]) ELSE Fail
    [] t[1] = "union" -> ReadUnion(plans, plans[t], v, v, v, policy)
    [] t[1] \notin {"json", "lit", "union"} ->
         IF Scalar(v)[1] # KindOf[t[1]] THEN Fail
         ELSE CASE t[1] = "struct" -> ReadStruct(plans, t[2], v, policy)
                [] t[1] = "record" -> ReadRecord(plans, t[2], v, policy)
                [] t[1] = "array" -> ReadArray(plans, t[2], v, policy)
                [] t[1] = "tuple" -> ReadTuple(plans, t[2], v, policy)
                [] t[1] \notin {"struct", "record", "array", "tuple"} -> Ok(Scalar(v))

\* A solution, looking ahead: obj is what is navigated, subj what is tested, and root
\* the union value, which a match reads in full.
ReadUnion(plans, s, obj, subj, root, policy) ==
  LET Step(sub, o, j) == ReadUnion(plans, sub, o, j, root, policy)
      field == FindField(obj, s[2])
      any == FindAnyField(obj, s[2])
  IN  CASE s[1] = "match" -> Read(plans, s[2], root, policy)
        [] s[1] = "jsontype" ->
             IF JsonTypeAt(subj) \in DOMAIN s[2] THEN Step(s[2][JsonTypeAt(subj)], obj, subj)
             ELSE IF "*" \in DOMAIN s[2] THEN Step(s[2]["*"], obj, subj)
             ELSE UnknownMember
        [] s[1] = "literal" ->
             IF Scalar(subj) \in DOMAIN s[2] THEN Step(s[2][Scalar(subj)], obj, subj)
             ELSE IF IsOk(ReadAny(subj)) THEN UnknownMember
             ELSE Fail    \* the message could not quote the value
        [] s[1] = "length" ->
             IF subj[1] # "array" THEN UnknownMember
             ELSE IF Len(subj[2]) \in DOMAIN s[2] THEN Step(s[2][Len(subj[2])], obj, subj)
             ELSE IF s[3] # NoSolution THEN Step(s[3], obj, subj)
             ELSE UnknownMember
        [] s[1] = "index" ->
             IF subj[1] # "array" THEN UnknownMember
             ELSE IF Len(subj[2]) < s[2] THEN UnknownMember
             ELSE Step(s[3], subj[2][s[2]], subj[2][s[2]])
        [] s[1] = "field" ->
             IF field = -1 THEN Fail
             ELSE IF field = 0 THEN UnknownMember
             ELSE Step(s[3], obj, obj[2][field][2])
        [] s[1] = "hasfield" ->
             IF any = -1 THEN Fail
             ELSE IF any = 0 THEN UnknownMember
             ELSE Step(s[2][any][2], obj, obj)

-----------------------------------------------------------------------------
\* Writing a rich value: what has no place in its type fails, but for an object's
\* foreign fields under "drop", which are left out.

RECURSIVE WriteAny(_)
WriteAny(x) ==
  CASE x[1] = "array" -> <<"array", [i \in DOMAIN x[2] |-> WriteAny(x[2][i])]>>
    [] x[1] = "object" ->
         LET keys == SetToSeq(DOMAIN x[2])
         IN  <<"map", [i \in DOMAIN keys |-> <<keys[i], WriteAny(x[2][keys[i]])>>]>>
    [] x[1] \notin {"array", "object"} -> x

RECURSIVE WriteAs(_, _, _, _), WriteUnion(_, _, _, _, _, _)

WriteItems(rs) ==
  IF \E i \in DOMAIN rs : ~IsOk(rs[i]) THEN Fail
  ELSE Ok(<<"array", [i \in DOMAIN rs |-> rs[i][2]]>>)

\* The fields of what is no array: a date is an object with none.
FieldsOf(x) == IF x[1] = "object" THEN x[2] ELSE <<>>

\* An object's fields, each under its type.
WriteFields(plans, x, types, policy) ==
  LET order == SetToSeq(DOMAIN types)
      rs == [i \in DOMAIN order |-> WriteAs(plans, types[order[i]], FieldsOf(x)[order[i]], policy)]
  IN  IF \E i \in DOMAIN rs : ~IsOk(rs[i]) THEN Fail
      ELSE Ok(<<"map", [i \in DOMAIN order |-> <<order[i], rs[i][2]>>]>>)

WriteStruct(plans, fields, x, policy) ==
  LET present == DOMAIN FieldsOf(x)
  IN  IF \/ policy = "reject" /\ ~(present \subseteq DOMAIN fields)
         \/ \E k \in DOMAIN fields \ present : ~fields[k].optional
      THEN Fail
      ELSE WriteFields(plans, x, [k \in present \cap DOMAIN fields |-> fields[k].type], policy)

RichKindOf == [KindOf EXCEPT !.struct = "object", !.record = "object"]

\* What a type takes to write: for its fields, any object.
TakenAs(t) == IF t[1] \in {"struct", "record"} THEN {"object", "date"} ELSE {RichKindOf[t[1]]}

WriteAs(plans, t, x, policy) ==
  CASE t[1] = "json" -> Ok(WriteAny(x))
    [] t[1] = "lit" -> IF x = t[2] THEN Ok(x) ELSE Fail
    [] t[1] = "union" -> WriteUnion(plans, plans[t], x, x, x, policy)
    [] t[1] \notin {"json", "lit", "union"} ->
         IF x[1] \notin TakenAs(t) THEN Fail
         ELSE CASE t[1] = "struct" -> WriteStruct(plans, t[2], x, policy)
                [] t[1] = "record" -> WriteFields(plans, x, [k \in DOMAIN FieldsOf(x) |-> t[2]], policy)
                [] t[1] = "array" ->
                     WriteItems([i \in DOMAIN x[2] |-> WriteAs(plans, t[2], x[2][i], policy)])
                [] t[1] = "tuple" ->
                     IF Len(t[2]) # Len(x[2]) THEN Fail
                     ELSE WriteItems([i \in DOMAIN x[2] |-> WriteAs(plans, t[2][i], x[2][i], policy)])
                [] t[1] \notin {"struct", "record", "array", "tuple"} -> Ok(x)

HasKey(x, key) == x[1] = "object" /\ key \in DOMAIN x[2]

\* The solution over the rich value itself.
WriteUnion(plans, s, obj, subj, root, policy) ==
  LET Step(sub, o, j) == WriteUnion(plans, sub, o, j, root, policy)
      has == {i \in DOMAIN s[2] : HasKey(obj, s[2][i][1])}
  IN  CASE s[1] = "match" -> WriteAs(plans, s[2], root, policy)
        [] s[1] = "jsontype" ->
             IF JsonTypeAt(subj) \in DOMAIN s[2] THEN Step(s[2][JsonTypeAt(subj)], obj, subj)
             ELSE IF "*" \in DOMAIN s[2] THEN Step(s[2]["*"], obj, subj)
             ELSE Fail
        [] s[1] = "literal" -> IF subj \in DOMAIN s[2] THEN Step(s[2][subj], obj, subj) ELSE Fail
        [] s[1] = "length" ->
             IF subj[1] # "array" THEN Fail
             ELSE IF Len(subj[2]) \in DOMAIN s[2] THEN Step(s[2][Len(subj[2])], obj, subj)
             ELSE IF s[3] # NoSolution THEN Step(s[3], obj, subj)
             ELSE Fail
        [] s[1] = "index" ->
             IF subj[1] # "array" THEN Fail
             ELSE IF Len(subj[2]) < s[2] THEN Fail
             ELSE Step(s[3], subj[2][s[2]], subj[2][s[2]])
        [] s[1] = "field" ->
             IF HasKey(obj, s[2]) THEN Step(s[3], obj, obj[2][s[2]]) ELSE Fail
        [] s[1] = "hasfield" ->
             IF has = {} THEN Fail ELSE Step(s[2][CHOOSE i \in has : \A j \in has : i <= j][2], obj, obj)

-----------------------------------------------------------------------------
NoType == <<"none">>
NoValue == <<"nothing">>
NoExchange == [first |-> "none", policy |-> "drop", came |-> NoValue, read |-> NoValue,
               given |-> NoValue, sent |-> NoValue]

WireInit == wireModel = [type |-> NoType, plans |-> <<>>, valid |-> FALSE] /\ exchange = NoExchange

\* A model is validated, every union of it solved, and compiled.
CompileModel(t) ==
  LET plans == [u \in {i \in Inside(t) : i[1] = "union"} |-> SolveUnion(u[2])]
      valid == \A u \in DOMAIN plans : plans[u] # Unsolvable
  IN  /\ wireModel' = [type |-> t, valid |-> valid, plans |-> IF valid THEN plans ELSE <<>>]
      /\ UNCHANGED exchange

\* What may come over the wire: anything at first, and then what was just sent.
Incoming ==
  IF exchange = NoExchange THEN WireValues \X Policies
  ELSE IF exchange.read = NoValue /\ IsOk(exchange.sent) THEN {<<exchange.sent[2], "reject">>}
  ELSE {}

Receive(v, policy) ==
  exchange' = [exchange EXCEPT
    !.came = v, !.read = Read(wireModel.plans, wireModel.type, v, policy),
    !.first = IF @ = "none" THEN "read" ELSE @, !.policy = IF exchange.first = "none" THEN policy ELSE @]

\* What an app may have in hand: any plain value at first, and then what was just read.
Outgoing ==
  IF exchange = NoExchange THEN {r[2] : r \in {p \in {ReadAny(v) : v \in WireValues} : IsOk(p)}} \X Policies
  ELSE IF exchange.sent = NoValue /\ IsOk(exchange.read) THEN {<<exchange.read[2], "reject">>}
  ELSE {}

SendOut(x, policy) ==
  exchange' = [exchange EXCEPT
    !.given = x, !.sent = WriteAs(wireModel.plans, wireModel.type, x, policy),
    !.first = IF @ = "none" THEN "sent" ELSE @, !.policy = IF exchange.first = "none" THEN policy ELSE @]

WireNext ==
  \/ wireModel.type = NoType /\ \E t \in WireTypes : CompileModel(t)
  \/ wireModel.valid /\ UNCHANGED wireModel /\ \E m \in Incoming : Receive(m[1], m[2])
  \/ wireModel.valid /\ UNCHANGED wireModel /\ \E m \in Outgoing : SendOut(m[1], m[2])

-----------------------------------------------------------------------------
RECURSIVE Member(_, _)
\* Whether a rich value is one of a type's, whatever a solution says.
Member(t, x) ==
  CASE t[1] = "json" -> TRUE
    [] t[1] = "lit" -> x = t[2]
    [] t[1] = "union" -> \E i \in DOMAIN t[2] : Member(t[2][i], x)
    [] t[1] \notin {"json", "lit", "union"} ->
         /\ x[1] = RichKindOf[t[1]]
         /\ t[1] = "struct" =>
              /\ DOMAIN x[2] \subseteq DOMAIN t[2]
              /\ \A k \in DOMAIN t[2] : IF k \in DOMAIN x[2] THEN Member(t[2][k].type, x[2][k])
                                        ELSE t[2][k].optional
         /\ t[1] = "record" => \A k \in DOMAIN x[2] : Member(t[2], x[2][k])
         /\ t[1] = "array" => \A i \in DOMAIN x[2] : Member(t[2], x[2][i])
         /\ t[1] = "tuple" =>
              Len(x[2]) = Len(t[2]) /\ \A i \in DOMAIN x[2] : Member(t[2][i], x[2][i])

RECURSIVE Within(_, _, _)
\* Whether one rich value is another with fields and items left out, and an object
\* without fields in the place of one of the hollow kinds.
Within(x, y, hollow) ==
  \/ x[1] = "object" /\ DOMAIN x[2] = {} /\ y[1] \in hollow
  \/ /\ x[1] = y[1]
     /\ IF x[1] = "object"
        THEN \A k \in DOMAIN x[2] : k \in DOMAIN y[2] /\ Within(x[2][k], y[2][k], hollow)
        ELSE IF x[1] = "array"
        THEN \E kept \in SUBSET DOMAIN y[2] :
               /\ Cardinality(kept) = Len(x[2])
               /\ \A i \in kept : Within(x[2][Cardinality({j \in kept : j <= i})], y[2][i], hollow)
        ELSE x = y

RECURSIVE Unrepeated(_)
\* Whether every map of a wire value has each key once, as every writer's does.
Unrepeated(v) ==
  /\ v[1] = "map" => \A i, j \in DOMAIN v[2] : v[2][i][1] = v[2][j][1] => i = j
  /\ v[1] = "map" => \A i \in DOMAIN v[2] : Unrepeated(v[2][i][2])
  /\ v[1] = "array" => \A i \in DOMAIN v[2] : Unrepeated(v[2][i])

\* The types whose every union tells its members apart by what a value of them has: a
\* struct's discriminators are always there, and neither a member nor a tuple's item
\* may be anything.  Of the others, a value of a member may be taken for none.
ToldByWhatIsThere(t) ==
  \A u \in Inside(t) :
    u[1] = "union" =>
      \A i \in DOMAIN u[2] :
        /\ u[2][i] # JsonType
        /\ u[2][i][1] = "struct" =>
             \A k \in DOMAIN u[2][i][2] : HasLit(u[2][i], k) => ~u[2][i][2][k].optional
        /\ u[2][i][1] = "tuple" => \A j \in DOMAIN u[2][i][2] : u[2][i][2][j] # JsonType

\* What is read is a value of the type, and the one that came with only fields and
\* items left out, none under "reject"; a value of the type is read as it came,
\* whichever member it is of, and can be sent again.
ReadsWhatItIs(type, came, policy, read, sent) ==
  LET plain == ReadAny(came)
  IN  /\ IsOk(read) =>
           /\ Member(type, read[2])
           /\ IsOk(plain) => Within(read[2], plain[2], {})
           /\ policy = "reject" => read = plain
      /\ IsOk(plain) /\ Unrepeated(came) /\ ToldByWhatIsThere(type) /\ Member(type, plain[2]) =>
           read = plain
      /\ sent # Fail

\* A value of the type can be sent; and what is sent, the strictest reader reads, as a
\* value of the type that was all in what the app gave, but that a date given for an
\* object is sent as one without fields.
SendsWhatItIs(type, given, sent, read) ==
  /\ ToldByWhatIsThere(type) /\ Member(type, given) => IsOk(sent)
  /\ read # NoValue => IsOk(read) /\ Member(type, read[2]) /\ Within(read[2], given, {"date"})

\* Both ways of the conversion, for every type whose unions are solved.  (Walk.read and
\* Walk.write over solveUnion's solutions)
ConvertsWhatItIs ==
  /\ exchange.first = "read" =>
       ReadsWhatItIs(wireModel.type, exchange.came, exchange.policy, exchange.read, exchange.sent)
  /\ exchange.first = "sent" =>
       SendsWhatItIs(wireModel.type, exchange.given, exchange.sent, exchange.read)
=============================================================================
