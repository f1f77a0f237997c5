------------------------------- MODULE MCWire -------------------------------
(***************************************************************************)
(* Types and values for the conversions: one-of and discriminated structs, *)
(* of two versions some of them, tuples told apart by an item, literals,   *)
(* what holds them, unions with no solution, and values that are of them,  *)
(* nearly, or of a newer model.                                            *)
(***************************************************************************)
EXTENDS Wire

LOCAL S(s) == <<"str", s>>
LOCAL I(n) == <<"int", n>>
LOCAL Map(entries) == <<"map", entries>>
LOCAL Arr(items) == <<"array", items>>

LOCAL Lit(s) == LitType(S(s))
LOCAL Ver(n) == Required(LitType(I(n)))

LOCAL Leaf == StructType([type |-> Required(Lit("a")), n |-> Optional(IntType)])
LOCAL Leaf2 == StructType([type |-> Required(Lit("a")), v |-> Ver(2), s |-> Required(StrType)])
LOCAL Leaf1 == StructType([type |-> Required(Lit("a")), v |-> Ver(1)])
LOCAL Twig == StructType([type |-> Required(Lit("b")), v |-> Ver(1), n |-> Required(IntType)])
LOCAL Bud == StructType([type |-> Optional(Lit("b")), n |-> Required(IntType)])
LOCAL Plain == StructType([n |-> Required(IntType), s |-> Optional(StrType)])
LOCAL Loose == StructType([n |-> Optional(IntType)])
LOCAL OneInt == StructType([n |-> Required(IntType)])
LOCAL OneLit(l) == StructType([s |-> Required(Lit(l))])

LOCAL Discriminated == UnionType(<<Leaf, Twig>>)
LOCAL Versioned == UnionType(<<Leaf1, Leaf2, Twig>>)
LOCAL OneOfThree == UnionType(<<OneInt, OneLit("a"), OneLit("b")>>)
LOCAL Scalars == UnionType(<<NullType, Lit("a"), Lit("b"), LitType(I(1)), LitType(<<"bool", TRUE>>)>>)
LOCAL Maybe(t) == UnionType(<<NullType, t>>)
LOCAL Tagged == UnionType(<<TupleType(<<Lit("a"), IntType>>), TupleType(<<Lit("b"), StrType>>)>>)
LOCAL Narrow == UnionType(<<TupleType(<<Maybe(IntType), StrType>>), TupleType(<<IntType, IntType>>),
                            TupleType(<<>>)>>)

\* Members of unions of two and three.
LOCAL Told ==
  {Leaf, Leaf1, Leaf2, Twig, OneInt, OneLit("a"), NullType, TupleType(<<Lit("a"), IntType>>),
   TupleType(<<Maybe(IntType), StrType>>), ArrayType(IntType)}
LOCAL Members == Told \cup {IntType, Lit("a"), DateType, TupleType(<<Leaf1>>)}

\* The last four lines have no solution.
MCWireTypes ==
  {UnionType(SetToSeq(m)) : m \in kSubset(2, Members) \cup kSubset(3, Told)} \cup
  {Discriminated, Versioned, UnionType(<<Leaf2, Leaf1>>), UnionType(<<Leaf, Bud>>), OneOfThree, Plain,
   Scalars, Maybe(StrType), UnionType(<<IntType, StrType, BoolType>>), Maybe(DateType), JsonType,
   UnionType(<<JsonType, Lit("a"), IntType>>),
   Tagged, Narrow, UnionType(<<ArrayType(IntType), TupleType(<<IntType, StrType>>)>>),
   UnionType(<<TupleType(<<ArrayType(IntType), IntType>>), TupleType(<<TupleType(<<StrType>>), IntType>>)>>),
   UnionType(<<TupleType(<<Discriminated, IntType>>), TupleType(<<NullType, IntType>>)>>),
   UnionType(<<TupleType(<<Leaf, IntType>>), TupleType(<<Twig, IntType>>)>>),
   UnionType(<<TupleType(<<JsonType, Lit("a")>>), TupleType(<<IntType, Lit("b")>>)>>),
   ArrayType(Discriminated), ArrayType(OneOfThree), RecordType(Versioned), RecordType(Maybe(IntType)),
   Loose, ArrayType(Loose), TupleType(<<RecordType(IntType)>>),
   StructType([s |-> Optional(Discriminated), n |-> Required(Maybe(IntType))]), TupleType(<<Tagged, Scalars>>),
   UnionType(<<IntType, LitType(I(1))>>), UnionType(<<Leaf, RecordType(IntType)>>), UnionType(<<Leaf, Leaf2>>),
   UnionType(<<ArrayType(IntType), ArrayType(StrType)>>), UnionType(<<StrType, DateType>>),
   UnionType(<<TupleType(<<OneOfThree>>), TupleType(<<IntType>>)>>),
   UnionType(<<TupleType(<<OneOfThree>>), TupleType(<<UnionType(<<OneInt, IntType>>)>>)>>)}

LOCAL Scraps == {<<"null">>, I(1), I(2), <<"float", 1>>, <<"frac">>, S("a"), S("b"), S("c"), <<"date">>,
                 <<"bool", TRUE>>, <<"bool", FALSE>>}

LOCAL Structs ==
  {Map(<<>>), Map(<<<<"n", I(1)>>>>), Map(<<<<"n", I(1)>>, <<"n", I(2)>>>>), Map(<<<<"s", S("b")>>>>),
   Map(<<<<"s", S("a")>>, <<"n", I(2)>>>>), Map(<<<<"s", S("c")>>>>),
   Map(<<<<"type", S("a")>>>>), Map(<<<<"n", <<"float", 2>>>>, <<"type", S("a")>>>>),
   Map(<<<<"type", S("b")>>, <<"n", I(1)>>>>), Map(<<<<"type", S("c")>>, <<"n", I(1)>>>>),
   Map(<<<<"type", S("a")>>, <<"v", I(1)>>>>), Map(<<<<"v", I(2)>>, <<"type", S("a")>>, <<"s", S("c")>>>>),
   Map(<<<<"type", S("a")>>, <<"v", I(2)>>, <<"s", I(1)>>>>), Map(<<<<"type", S("a")>>, <<"v", I(1)>>, <<"zz", <<"frac">>>>>>),
   Map(<<<<"type", S("b")>>, <<"v", I(1)>>, <<"n", I(2)>>>>), Map(<<<<"type", S("b")>>, <<"v", I(2)>>, <<"n", I(2)>>>>),
   Map(<<<<"#", I(1)>>, <<"n", I(1)>>>>), Map(<<<<"type", S("a")>>, <<"#", I(1)>>>>),
   Map(<<<<"type", Map(<<<<"#", I(1)>>>>)>>>>),
   Map(<<<<"s", Map(<<<<"type", S("c")>>>>)>>, <<"n", <<"null">>>>>>),
   Map(<<<<"s", Map(<<<<"type", S("a")>>, <<"zz", I(1)>>>>)>>, <<"n", I(1)>>>>),
   Map(<<<<"s", Map(<<<<"type", S("b")>>, <<"v", I(1)>>>>)>>, <<"n", I(1)>>>>),
   Map(<<<<"a", Map(<<<<"type", S("a")>>, <<"v", I(1)>>>>)>>, <<"b", Map(<<<<"type", S("a")>>, <<"v", I(2)>>, <<"s", S("a")>>>>)>>>>),
   Map(<<<<"a", I(1)>>, <<"b", <<"null">>>>>>), Map(<<<<"a", I(1)>>, <<"b", S("b")>>>>)}

MCWireValues ==
  Scraps \cup Structs \cup
  {Arr(<<>>)} \cup {Arr(<<x>>) : x \in Scraps \cup Structs} \cup {Arr(<<x, y>>) : x, y \in {<<"null">>, I(1), <<"float", 2>>, S("a"), S("b"), S("c")}} \cup
  {Arr(<<Arr(items), I(1)>>) : items \in {<<>>, <<I(1)>>, <<S("a")>>, <<I(1), I(2)>>}} \cup
  {Arr(<<x, I(1)>>) : x \in Structs} \cup {Arr(<<x, Map(<<<<"n", I(1)>>>>)>>) : x \in Structs} \cup
  {Arr(<<Arr(<<S("a"), I(1)>>), x>>) : x \in Scraps} \cup {Arr(<<Arr(<<S("b"), I(1)>>), S("a")>>), Arr(<<I(1), I(2), I(2)>>)}
=============================================================================
