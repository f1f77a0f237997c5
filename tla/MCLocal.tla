------------------------------ MODULE MCLocal -------------------------------
(***************************************************************************)
(* What a client does on its own, for TLC: its queries over predictions,   *)
(* the in-memory store's scans of a few keys of one family, the key list   *)
(* under the store's commits, the library example over it all, the values  *)
(* it converts and the bodies it reads.  One run checks them side by side: *)
(* a behaviour is of one part, and leaves the others' variables alone.     *)
(***************************************************************************)
EXTENDS MCQueries, KeyScan, KeyList, Library, MCWire, MCBodies

VARIABLE part

Dash == Comma + 1
la == 7
lb == 8

Key(p1, p2, name, local) == [slice |-> <<p1, p2>>, name |-> name, local |-> local]

\* Two names, one of which goes on past the other with a character below ':'.
Reply == <<la>>
Meta == <<la, Dash>>

MCPrefix == <<9, Colon>>

MCUniverse ==
  {Key(<<la>>, <<Dash>>, Reply, <<<<>>>>), Key(<<la>>, <<Dash>>, Reply, <<<<lb>>>>),
   Key(<<la>>, <<la>>, Meta, <<>>), Key(<<la>>, <<la>>, Reply, <<<<>>>>),
   Key(<<la>>, <<la>>, Reply, <<<<lb>>>>), Key(<<la, Dash>>, <<la>>, Meta, <<>>),
   Key(<<la, Dash>>, <<la>>, Reply, <<<<lb>>>>), Key(<<lb>>, <<Dash>>, Reply, <<<<>>>>)}

\* Stores of most of these keys, and of all.
MCStoredKeys == {S \in SUBSET {Text(k) : k \in MCUniverse} : Cardinality(S) \in {6, 8}}

MCUpdates ==
  LET middle == Text(Key(<<la>>, <<la>>, Reply, <<<<lb>>>>))
      last == Text(Key(<<lb>>, <<Dash>>, Reply, <<<<>>>>))
  IN  {[set |-> {}, deleted |-> {}], [set |-> {last}, deleted |-> {middle}]}

AnyValue == [kind |-> "any", text |-> <<>>, gte |-> None, gt |-> None, lte |-> None, lt |-> None]
Eq(t) == [AnyValue EXCEPT !.kind = "eq", !.text = t]
Starting(t) == [AnyValue EXCEPT !.kind = "prefix", !.text = t]
Between(gte, gt, lte, lt) ==
  [kind |-> "range", text |-> <<>>, gte |-> gte, gt |-> gt, lte |-> lte, lt |-> lt]
Pattern(p1, p2, name, local) == [slice |-> <<p1, p2>>, name |-> name, local |-> local]

\* Skips on every field, bounds open and closed, and one that holds a character
\* its parameter cannot.
MCPatterns ==
  {Pattern(AnyValue, AnyValue, None, <<>>),
   Pattern(AnyValue, AnyValue, Reply, <<Eq(<<lb>>)>>),
   Pattern(AnyValue, AnyValue, Meta, <<>>),
   Pattern(Eq(<<la>>), AnyValue, Reply, <<AnyValue>>),
   Pattern(Starting(<<la>>), Eq(<<la>>), Reply, <<Starting(<<lb>>)>>),
   Pattern(Between(None, <<la>>, <<lb>>, None), AnyValue, Reply, <<Between(<<>>, None, None, <<lb>>)>>),
   Pattern(Between(<<la>>, None, None, <<la, Dash>>), AnyValue, None, <<>>),
   Pattern(Between(<<la, Comma>>, None, <<lb>>, <<lb, Bang>>), AnyValue, Reply, <<AnyValue>>),
   Pattern(AnyValue, Between(None, <<Dash>>, None, None), Meta, <<>>)}

MCChanges == {{k} : k \in ListKeys} \cup {1..4, 6..9}

\* A part that stands aside.
QueriesRest ==
  /\ hasBase = FALSE /\ baseNow = [k \in Keys |-> Absent] /\ outbox = <<>> /\ acked = {}
  /\ overlay = EmptyLayer /\ status = StatusOf(FALSE, <<>>, {}) /\ queries = <<>>
  /\ query = [q \in Queries |-> Fresh] /\ newQueries = FALSE /\ submitted = <<>>
  /\ pending = <<>> /\ edits = 0

ScanRests ==
  /\ stored = {} /\ updates = [set |-> {}, deleted |-> {}] /\ pattern = AnyValue
  /\ reverse = FALSE /\ limit = 0 /\ budget = 0 /\ after = None /\ cursor = None
  /\ visited = <<>> /\ taken = 0 /\ phase = "idle"

ListRests == values = {} /\ blocks = <<>>

MCCatalog == {<<"e", FALSE, "b">>, <<"e", TRUE, "c">>}
MCReaders == {<<"alice", TRUE>>, <<"bob", FALSE>>}

MCInit ==
  /\ \/ part = "queries" /\ Init /\ ScanRests /\ ListRests
     \/ part = "scan" /\ ScanInit /\ QueriesRest /\ ListRests
     \/ part = "list" /\ ListInit /\ QueriesRest /\ ScanRests
     \/ part \in {"library", "wire", "bodies"} /\ QueriesRest /\ ScanRests /\ ListRests
  /\ LibraryInit /\ WireInit /\ BlobInit

MCNext ==
  \/ part = "queries" /\ Next /\ UNCHANGED <<part, scanVars, listVars, libraryVars, wireVars, blobVars>>
  \/ part = "scan" /\ ScanNext /\ UNCHANGED <<part, vars, listVars, libraryVars, wireVars, blobVars>>
  \/ part = "list" /\ ListNext /\ UNCHANGED <<part, vars, scanVars, libraryVars, wireVars, blobVars>>
  \/ part = "library" /\ LibraryNext /\ UNCHANGED <<part, vars, scanVars, listVars, wireVars, blobVars>>
  \/ part = "wire" /\ WireNext /\ UNCHANGED <<part, vars, scanVars, listVars, libraryVars, blobVars>>
  \/ part = "bodies" /\ BlobNext /\ UNCHANGED <<part, vars, scanVars, listVars, libraryVars, wireVars>>

MCSpec == MCInit /\ [][MCNext]_<<part, vars, scanVars, listVars, libraryVars, wireVars, blobVars>>

\* A scan over one key family visits the keys its pattern asks for, each once and
\* in order, and comes to its end.  (seekIn, skip, InMemTxn.#cursor)
ExactScans == part = "scan" => ScanIsExact /\ WalkAdvances

\* The in-memory store finds its keys, in its list and by a pattern.  (KeyList,
\* InMemTxn.scan)
StoreHolds == ExactScans /\ ListHoldsTheKeys
=============================================================================
