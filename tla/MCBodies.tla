------------------------------ MODULE MCBodies ------------------------------
(***************************************************************************)
(* Streams for the frames' reader: of every frame, with what a later       *)
(* protocol appends to frames and envelopes, with frames past the forms    *)
(* that fit in a byte, with what comes after an end, and with what is no   *)
(* frame; values at the edges of their forms; and blobs of a few           *)
(* operations, of this log and of another.                                 *)
(***************************************************************************)
EXTENDS Blob

MCTags == [edits |-> <<101>>, live |-> <<108>>, vouch |-> <<118>>, view |-> <<119>>, end |-> <<120>>]

LOCAL Edit(position, more, ops) ==
  [position |-> position, slice |-> <<97>>, seq |-> position, id |-> [i \in 1..16 |-> i], sec |-> 7,
   ms |-> position % 1000, lifecycle |-> 1, more |-> more, ops |-> ops]
LOCAL Edits(edits, more) == [tag |-> "edits", edits |-> edits, more |-> more]
LOCAL At(tag, position, more) == [tag |-> tag, position |-> position, more |-> more]
LOCAL View(selectors) ==
  [tag |-> "view", token |-> <<116>>, position |-> 300, selectors |-> selectors, more |-> <<>>]
LOCAL End == [tag |-> "end", code |-> 401, reason |-> <<114>>, more |-> <<>>]
LOCAL NoFrame(bytes) == [tag |-> "none", bytes |-> bytes]

MCStreams ==
  {<<At("live", 1, <<>>),
     Edits(<<Edit(2, <<>>, <<<<<<97>>, <<146, 1, 192>>>>, <<<<98>>>>>>), Edit(70000, <<<<1>>, <<161, 97>>>>, <<<<<<98>>>>>>)>>, <<<<192>>>>),
     At("vouch", 70000, <<<<145, 1>>>>)>>,
   <<View(<<<<97>>, <<98, 99>>>>), Edits(<<>>, <<>>), End, At("live", 2, <<>>)>>,
   <<View([i \in 1..16 |-> <<96 + i>>]), Edits(<<Edit(5, <<>>, <<>>)>>, <<>>), End>>,
   <<At("live", 9, <<>>), NoFrame(<<145, 161, 122>>)>>,
   <<NoFrame(<<144>>)>>, <<At("vouch", 9, <<>>), NoFrame(<<193>>)>>, <<NoFrame(<<146, 161, 120, 1>>)>>}

\* Integers at the edges of their forms, each as nine bytes.
LOCAL Int9(negative, bytes) == <<"int", IF negative THEN SignExtended(<<255>> \o bytes) ELSE ZeroExtended(bytes)>>
LOCAL Ints ==
  {Int9(FALSE, b) : b \in {<<0>>, <<127>>, <<128>>, <<255>>, <<1, 0>>, <<255, 255>>, <<1, 0, 0>>, <<127, 255, 255, 255>>,
                            <<255, 255, 255, 255>>, <<1, 0, 0, 0, 0>>, <<31, 255, 255, 255, 255, 255, 255>>}} \cup
  {Int9(TRUE, b) : b \in {<<255>>, <<224>>, <<223>>, <<128>>, <<127>>, <<128, 0>>, <<127, 255>>, <<128, 0, 0, 0>>,
                           <<127, 255, 255, 255>>, <<0, 0, 0, 0, 0>>}}
LOCAL Str(n) == <<"str", [i \in 1..n |-> 97]>>
LOCAL Arr(n) == <<"array", [i \in 1..n |-> <<"nil">>]>>
LOCAL Map(n) == <<"map", [i \in 1..n |-> <<<<i>>, <<"bool", i = 1>>>>]>>
LOCAL Date(negative, bytes, ms) == <<"date", Int9(negative, bytes)[2], ms>>

MCAnys ==
  Ints \cup {Str(n) : n \in {0, 31, 32, 255, 256}} \cup {Arr(n) : n \in {0, 15, 16}} \cup {Map(n) : n \in {0, 15, 16}} \cup
  {<<"nil">>, <<"float", [i \in 1..8 |-> 255 - i]>>, Date(FALSE, <<9>>, 0), Date(FALSE, <<255, 255, 255, 255>>, 0),
   Date(FALSE, <<1, 0, 0, 0, 0>>, 0), Date(FALSE, <<3, 255, 255, 255, 255>>, 999), Date(FALSE, <<4, 0, 0, 0, 0>>, 1),
   Date(TRUE, <<255>>, 500),
   <<"map", <<<<<<97>>, <<"array", <<Int9(TRUE, <<127>>), Arr(1)>>>>>>, <<<<>>, Map(1)>>>>>>,
   <<"array", <<<<"array", <<Arr(1)>>>>>>>>, 
   <<"array", <<<<"map", <<<<<<98>>, <<"array", <<Arr(1)>>>>>>>>>>>>>>}

MCEpoch == <<"str", <<101, 49>>>>
MCPosition == Int9(FALSE, <<1, 44>>)
LOCAL Snapshot(ops) ==
  [epoch |-> MCEpoch, position |-> MCPosition, slices |-> <<"map", <<<<<<97>>, Int9(FALSE, <<7>>)>>>>>>,
   visible |-> Int9(FALSE, <<2>>), ops |-> ops]
LOCAL Set(key, value) == OpBytes(<<key, value>>)

MCBlobs ==
  {Snapshot(<<Set(<<97>>, <<1>>), Set(<<97, 98>>, <<146, 192, 2>>), Set(<<98>>, <<163, 120, 121, 122>>),
              Set(<<99>>, <<192>>), Set(<<100>>, <<195>>)>>),
   Snapshot(<<>>),
   [Snapshot(<<Set(<<97>>, <<1>>)>>) EXCEPT !.epoch = <<"str", <<101, 50>>>>],
   [Snapshot(<<Set(<<97>>, <<1>>)>>) EXCEPT !.position = Int9(FALSE, <<9>>)],
   [Snapshot(<<Set(<<97>>, <<1>>)>>) EXCEPT !.visible = <<"nil">>]}

MCChanged == {3 * i : i \in 0..40}
=============================================================================
