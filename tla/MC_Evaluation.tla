---------------------------- MODULE MC_Evaluation ----------------------------
(***************************************************************************)
(* Instances of Evaluation for TLC: worlds in which an order that has been *)
(* charged back is delivered and then returned by its customer as well.    *)
(* Four ticks are the least for an order's lifecycle and its return.       *)
(***************************************************************************)
EXTENDS Evaluation

OnlyGold == {"GOLD"}
Once     == <<1>>

\* Bound: a ticket is opened in the first two ticks and names no order, by which no
\* operator of Evaluation selects tickets.  It keeps the choice of its customer.
TicketBound ==
  \A i \in OfTopic("tickets") : stream[i].at <= 2 /\ stream[i].body.order = 0
===============================================================================
