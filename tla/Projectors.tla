------------------------------ MODULE Projectors ------------------------------
(***************************************************************************)
(* The event projectors of serving/projectors.py.  A view maps a key to    *)
(* the events the serving side keeps for it: <<>> when the dict has no     *)
(* entry, <<e>> when a record projector kept e, and the whole list for the *)
(* projectors that append.  An event carries its key, the value of the     *)
(* store's time field (at), the record's version (ver), and no, which      *)
(* tells two otherwise equal events apart.                                 *)
(***************************************************************************)
EXTENDS Integers, Sequences, SequencesExt

\* Mutated: an equal version does not replace the record.
ByVersionStrict(view, e) ==
  IF view[e.key] = <<>> \/ e.ver > view[e.key][1].ver
  THEN [view EXCEPT ![e.key] = <<e>>]
  ELSE view

\* Mutated: the last arrival replaces the record, whatever its version.
ByVersionLast(view, e) == [view EXCEPT ![e.key] = <<e>>]

\* customers: a version at least as high as the kept one replaces it.
ByVersion(view, e) ==
  LET prev == view[e.key]
  IN IF prev = <<>> \/ e.ver >= prev[1].ver
     THEN [view EXCEPT ![e.key] = <<e>>]
     ELSE view

\* Mutated: of two events of one millisecond the first is kept.
ByTimeStrict(view, e) ==
  IF view[e.key] = <<>> \/ e.at > view[e.key][1].at
  THEN [view EXCEPT ![e.key] = <<e>>]
  ELSE view

\* orders, inventory, returns, support_tickets: the latest occurred_at_ms wins,
\* a tie goes to the later arrival.
ByTime(view, e) ==
  LET cur == view[e.key]
  IN IF cur = <<>> \/ e.at >= cur[1].at
     THEN [view EXCEPT ![e.key] = <<e>>]
     ELSE view

\* customer_tier_changes, order_items, payment_events: append to the key's list.
Appended(view, e) == [view EXCEPT ![e.key] = Append(@, e)]

Kinds == {"by_version", "by_time", "append"}

\* One projector call.
Project(kind, view, e) ==
  CASE kind = "by_version" -> ByVersion(view, e)
    [] kind = "by_time"    -> ByTime(view, e)
    [] kind = "append"     -> Appended(view, e)

\* The projector called on each event of es in turn.
ProjectAll(kind, view, es) ==
  FoldLeft(LAMBDA v, e : Project(kind, v, e), view, es)

-------------------------------------------------------------------------------
\* What each projector should keep for key k out of the log es, said directly:
\* the winner of its order, or all events of the key.
Wins(kind, es, k, i) ==
  /\ es[i].key = k
  /\ \A j \in 1..Len(es) : es[j].key = k /\ j # i =>
       LET rank(n) == IF kind = "by_version" THEN es[n].ver ELSE es[n].at
       IN rank(j) < rank(i) \/ (rank(j) = rank(i) /\ j < i)

\* The events of key k, in order.
OfKey(es, k) ==
  FoldLeft(LAMBDA kept, e : IF e.key = k THEN Append(kept, e) ELSE kept, <<>>, es)

Kept(kind, es, k) ==
  IF kind = "append"
  THEN OfKey(es, k)
  ELSE LET winners == {i \in 1..Len(es) : Wins(kind, es, k, i)}
       IN IF winners = {} THEN <<>> ELSE <<es[CHOOSE i \in winners : TRUE]>>
===============================================================================
