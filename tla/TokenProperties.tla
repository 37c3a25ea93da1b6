---------------------------- MODULE TokenProperties ----------------------------
(***************************************************************************)
(* What a token carries: the properties that TokenPrivateData, SystemToken  *)
(* (src/lib/token.cpp) and Monitor (src/lib/monitor.cpp) save into the      *)
(* PropertyMap of a GiveToken packet and load from the one of the next.     *)
(*                                                                         *)
(* A monitor binds ids to variables of the application: bindings is         *)
(* id |-> type, values id |-> value.                                        *)
(***************************************************************************)
EXTENDS Packets

CONSTANTS NodeCount   \* m_nodes

ASSUME NodeCountAssumption == NodeCount \in Nat \ {0}

NodeIds == 0 .. NodeCount - 1

-----------------------------------------------------------------------------
(* TokenPrivateData: LN and the queue.                                      *)

SavePrivate(ln, queue) ==
    "___token_ln" :> Property("#u32", [i \in 1 .. NodeCount |-> Memory(ln[i - 1], 4)])
    @@ "___token_queue" :>
        Property("#u32", [i \in DOMAIN queue |-> Memory(queue[i], 4)])

\* Nothing is loaded from a map that lacks one of the two or has an ln of
\* another length.
LoadPrivate(old, map) ==
    IF {"___token_ln", "___token_queue"} \subseteq DOMAIN map
       /\ Len(map["___token_ln"].value) = NodeCount
    THEN LET ln == map["___token_ln"].value
             queue == map["___token_queue"].value
         IN  [ln |-> [i \in NodeIds |-> Number(ln[i + 1])],
              queue |-> [i \in DOMAIN queue |-> Number(queue[i])]]
    ELSE old

-----------------------------------------------------------------------------
(* SystemToken: the set of the monitors there are.  order lists it.         *)

SaveSystem(ln, queue, order) ==
    SavePrivate(ln, queue) @@ "monitors" :> Property("Vector<String>", order)

LoadMonitors(old, map) ==
    IF "monitors" \in DOMAIN map THEN Range(map["monitors"].value) ELSE old

-----------------------------------------------------------------------------
(* Monitor: property, saveProperties, loadProperties.                       *)

\* The calls of property, each with an id and the type of a variable: the first
\* of two with one id counts.
Bindings(calls) ==
    FoldLeft(LAMBDA bindings, call : bindings @@ call[1] :> call[2], <<>>, calls)

\* A variable nobody wrote to yet.
Zero(type) ==
    IF type \in Primitives THEN [i \in 1 .. Width(type) |-> 0] ELSE <<>>

SaveProperties(bindings, values) ==
    [id \in DOMAIN bindings |-> Property(bindings[id], values[id])]

\* A scalar is stored as wide as the sender bound it, a vector or a value of a
\* registered type replaces the old one.
Loaded(old, property) ==
    IF property.type \in Primitives
    THEN property.value \o SubSeq(old, Len(property.value) + 1, Len(old))
    ELSE property.value

\* Ids the sender did not bind keep their values.
LoadProperties(bindings, values, map) ==
    [id \in DOMAIN bindings |->
        IF id \in DOMAIN map THEN Loaded(values[id], map[id]) ELSE values[id]]

=============================================================================
