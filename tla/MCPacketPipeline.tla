--------------------------- MODULE MCPacketPipeline ---------------------------
(***************************************************************************)
(* Small instances of PacketPipeline for TLC.                              *)
(***************************************************************************)
EXTENDS PacketPipeline

CONSTANTS w1

Names ==
    <<"monitor", "___system_token", "condition", "___token_ln", "___token_queue",
      "monitors", "a", "b", "c", "d", "e", "Vector<String>", "$u8", "$s16", "$u16", "$u32",
      "$u64", "$float", "$double", "#u8", "#u16", "#u32", "#u64", "#float", "#double">>

\* 1.5 and 0.1 as doubles and, rounded, as floats.
OneAndHalf == <<0, 0, 0, 0, 0, 0, 248, 63>>
Tenth == <<154, 153, 153, 153, 153, 153, 185, 63>>
Floats == OneAndHalf :> <<0, 0, 192, 63>> @@ Tenth :> <<205, 204, 204, 61>>

\* All of it, or the first half of a header or of a long payload.
MCPieces(wanted) ==
    {wanted} \cup (IF wanted = HeaderSize \/ wanted > 50 THEN {wanted \div 2} ELSE {})

MCGarbage == {<<7, 0, 0, 9>>}

\* Values with a byte of their own at every place.
Scalar(type) ==
    IF type \in Doubles THEN Tenth ELSE [i \in 1 .. Width(type) |-> 256 - i]

Value(type) ==
    IF type \in Primitives THEN Scalar(type)
    ELSE IF type = "Vector<String>" THEN <<"b", "a">>
    ELSE <<Scalar(type), [i \in 1 .. Width(type) |-> 0]>>

Zero1(type) == IF type \in Doubles THEN OneAndHalf ELSE Zero(type)

\* Three moments of a token: fresh variables with a queue, written ones without,
\* and a vector that is too large for a packet.
MCContents(bindings) ==
    {[ln |-> 0 :> 1 @@ 1 :> 258, queue |-> <<1, 0>>, monitors |-> <<>>,
      variables |-> [id \in DOMAIN bindings |-> Zero1(bindings[id])]],
     [ln |-> 0 :> 0 @@ 1 :> 3, queue |-> <<>>, monitors |-> <<Monitor>>,
      variables |-> [id \in DOMAIN bindings |-> Value(bindings[id])]]}
    \cup {[ln |-> 0 :> 0 @@ 1 :> 0, queue |-> <<>>, monitors |-> <<>>,
           variables |-> [id \in DOMAIN bindings |->
                             IF id = b THEN [i \in 1 .. 6 |-> Scalar("#u64")]
                             ELSE Value(bindings[id])]] :
             b \in {id \in DOMAIN bindings : bindings[id] = "#u64"}}

Reserved == <<"___token_ln", "monitors", "___token_queue">>

Bound(sender, receiver, order) ==
    [sender |-> Bindings(sender), receiver |-> Bindings(receiver), order |-> order]

\* The same variables on both sides, one with two calls; and variables that only
\* one side binds, with one that the receiver binds wider.
MCSetups ==
    {Bound(<<<<"a", "$u16">>, <<"b", "#u64">>, <<"c", "$double">>, <<"a", "$u8">>>>,
           <<<<"c", "$double">>, <<"b", "#u64">>, <<"a", "$u16">>>>,
           <<"c", "b">> \o Reserved \o <<"a">>),
     Bound(<<<<"a", "$u64">>, <<"b", "#u16">>, <<"c", "$s16">>, <<"e", "Vector<String>">>>>,
           <<<<"a", "$u64">>, <<"c", "$u32">>, <<"d", "$float">>, <<"e", "Vector<String>">>>>,
           Reserved \o <<"a", "c", "b", "e">>)}

DoubleSetups ==
    {Bound(<<<<"a", "$double">>>>, <<<<"a", "$double">>>>, Reserved \o <<"a">>)}

=============================================================================
