---------------------------- MODULE MC_KafkaSink ----------------------------
(***************************************************************************)
(* Instances of KafkaSink for TLC.  An order with one item takes from one  *)
(* row of the stock, advances, and the row is told by snapshots; a queue   *)
(* of two slots fills up within and between these operations; the broker's *)
(* log has room for one duplicate.                                         *)
(***************************************************************************)
EXTENDS KafkaSink

Rows == {"row"}
Entities == {"order", "item"} \cup Rows

Placing == [made |-> {"order", "item"}, changes |-> Entities, tells |-> <<"order", "item">>]
Advancing == [made |-> {}, changes |-> {"order"}, tells |-> <<"order">>]
Snapshot == [made |-> {}, changes |-> {}, tells |-> <<"row">>]

Orders == {Placing, Advancing, Snapshot}
===============================================================================
