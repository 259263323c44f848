------------------------------ MODULE Evaluation ------------------------------
(***************************************************************************)
(* The questions, the two ways to answer them and the grades.              *)
(*                                                                         *)
(* eval/tasks.py builds a task of each category from a snapshot of the     *)
(* world (snapshot.py) and grades an answer against it.  An honest agent   *)
(* of variant A composes its answer from the serving stores of several     *)
(* topics; one of variant B asks context/deltastream.py for a row of a     *)
(* view of sql/views/.  Everything is an operator of World's state, and    *)
(* of how far the topics have been read: at[t] is the position in the      *)
(* stream up to which topic t has been, so both lag and order of reading   *)
(* are choices of at.                                                      *)
(*                                                                         *)
(* A snapshot is the state between two ticks, whose entities are numbered  *)
(* as sorted() puts their ids.  Amounts are left out.                      *)
(***************************************************************************)
EXTENDS World

CONSTANT RecentLimit  \* 20: the rows of recent_orders

ASSUME RecentAssumption == RecentLimit \in Nat

Topics == {"customers", "tier_changes", "orders", "order_items", "inventory",
           "returns", "tickets", "payments"}

\* Those of the first n messages that have one of the offsets, in order.
Reading(offsets, n) ==
  LET read[i \in 0..n] == IF i = 0 THEN <<>>
                          ELSE IF i \in offsets THEN Append(read[i - 1], stream[i])
                                                ELSE read[i - 1]
  IN read[n]

OfTopic(topic)     == {i \in DOMAIN stream : stream[i].topic = topic}
OfEntity(topic, k) == {i \in OfTopic(topic) : stream[i].key = k}

\* What has been read of a topic's messages with a key.
About(topic, k, at) == Reading(OfEntity(topic, k), at[topic])

-------------------------------------------------------------------------------
\* Variant A: get(k) of the topic's store, <<>> when it finds nothing, and the list
\* that a store of lists has for k.
Get(topic, kind, k, at) == ProjectAll(kind, [x \in {k} |-> <<>>], About(topic, k, at))[k]

\* The keys that have been read of a topic.
KeysRead(topic, at) == {stream[i].key : i \in OfTopic(topic) \cap 1..at[topic]}

\* Mutated: a record stays as it was first seen.
ListedFirst(topic, at) == {About(topic, k, at)[1] : k \in KeysRead(topic, at)}

\* view().values() of a store of records: the record kept for each key.
Listed(topic, at) == {Get(topic, "by_time", k, at)[1] : k \in KeysRead(topic, at)}

\* What the list tools hold, the records of a customer or an order: their order and their
\* limit matter to no property.
OrdersOf(c, at)  == {e \in Listed("orders", at) : e.body.customer = c}
TicketsOf(c, at) == {e \in Listed("tickets", at) : e.body.customer = c}
ReturnsOf(o, at) == {e \in Listed("returns", at) : e.body.order = o}

-------------------------------------------------------------------------------
\* Variant B: GROUP BY k with LAST_VALUE of every column, <<>> when there is no row.
LastValue(topic, k, at) ==
  LET es == About(topic, k, at)
  IN IF es = <<>> THEN <<>> ELSE <<es[Len(es)]>>

\* Mutated: the last payment event decides.
HasChargebackLast(o, at) ==
  LET last == LastValue("payments", o, at)
  IN \E i \in DOMAIN last : last[i].body.kind = "CHARGEBACK"

\* has_chargeback of order_payments.
HasChargeback(o, at) ==
  LET es == About("payments", o, at)
  IN \E i \in DOMAIN es : es[i].body.kind = "CHARGEBACK"

\* The messages of a topic that name the customer.
ReadOf(topic, c, at) ==
  Reading({i \in OfTopic(topic) : stream[i].body.customer = c}, at[topic])

\* The choices of ARRAY_AGG(... ORDER BY occurred_at_ms DESC LIMIT 20): the latest rows,
\* where it is open which of one millisecond the limit cuts off.
Recent(rows) ==
  IF Cardinality(rows) <= RecentLimit
  THEN {rows}
  ELSE {kept \in SUBSET rows :
          /\ Cardinality(kept) = RecentLimit
          /\ \A e \in kept, f \in rows \ kept : e.at >= f.at}

\* customer_360: the joins hang on the customer; orders are rows of the topic.  An
\* aggregated column is the set of its rows, in this view and in the others: those that
\* are sorted are sorted by occurred_at_ms, which leaves the order within a tick open.
CustomerColumns(c, at) ==
  [tier          |-> LastValue("customers", c, at)[1].body.tier,
   tier_history  |-> ToSet(About("tier_changes", c, at)),
   recent_orders |-> Recent(ToSet(ReadOf("orders", c, at))),
   open_tickets  |-> ToSet(ReadOf("tickets", c, at))]

Customer360(c, at) ==
  IF LastValue("customers", c, at) = <<>> THEN <<>> ELSE <<CustomerColumns(c, at)>>

\* inventory_for_items: the latest snapshot of each item's row.
StockOfItems(o, at) ==
  UNION {ToSet(LastValue("inventory", item.body.row, at)) :
           item \in ToSet(About("order_items", o, at))}

\* Mutated: a rejected return counts as open.
OpenReturnsAny(o, at) ==
  Reading({i \in OfTopic("returns") : stream[i].body.order = o}, at["returns"])

\* open_returns: those of the order that are not closed.
OpenReturns(o, at) ==
  Reading({i \in OfTopic("returns") : /\ stream[i].body.order = o
                                      /\ stream[i].body.status = "REQUESTED"}, at["returns"])

\* order_state: of the open returns it keeps the last one.
OrderColumns(o, at) ==
  LET ord == LastValue("orders", o, at)
      open == OpenReturns(o, at)
  IN [customer       |-> ord[1].body.customer,
      status         |-> ord[1].body.status,
      items          |-> ToSet(About("order_items", o, at)),
      inventory      |-> StockOfItems(o, at),
      payment_events |-> ToSet(About("payments", o, at)),
      open_return_id |-> IF open = <<>> THEN 0 ELSE open[Len(open)].key]

OrderState(o, at) ==
  IF LastValue("orders", o, at) = <<>> THEN <<>> ELSE <<OrderColumns(o, at)>>

\* returns_eligibility: the order's summary is <<>> when the LEFT JOIN finds none.
ReturnsEligibility(n, at) ==
  LET ret == LastValue("returns", n, at)
      o == ret[1].body.order
      charged == HasChargeback(o, at)
      row == [order               |-> LastValue("orders", o, at),
              return_status       |-> ret[1].body.status,
              has_chargeback      |-> charged,
              eligible_for_refund |-> ~charged]
  IN IF ret = <<>> THEN <<>> ELSE <<row>>

\* VIEWS, and the row of a view for a primary key.
Views == {"customer_360", "order_state", "returns_eligibility"}

Row(name, pk, at) ==
  CASE name = "customer_360"        -> Customer360(pk, at)
    [] name = "order_state"         -> OrderState(pk, at)
    [] name = "returns_eligibility" -> ReturnsEligibility(pk, at)

\* The schemas of context/schemas.py: of the joined columns one has no default.
Validates(name, row) == name = "returns_eligibility" => row.order # <<>>

\* get_view: a row that does not validate is raised, everything else is structured.
GetView(name, params, at) ==
  LET rows == Row(name, params[1], at)
  IN CASE name \notin Views -> [error |-> "unknown_view"]
       [] name \in Views /\ params = <<>> -> [error |-> "missing_param"]
       [] name \in Views /\ params # <<>> /\ rows = <<>> -> [error |-> "not_found"]
       [] name \in Views /\ params # <<>> /\ rows # <<>> ->
            IF Validates(name, rows[1]) THEN [error |-> "none", payload |-> rows[1]]
                                        ELSE [error |-> "raised"]

-------------------------------------------------------------------------------
Categories == {"lookup", "transactional", "multi_hop"}

\* snapshot_dict: what the graders look at.
Snapshot == [customers |-> customers, orders |-> orders, returns |-> returns]

\* arb snapshot --at-tick k: the state after k ticks of the same run, which what had
\* been emitted by then makes (ReplayMatchesState).
TickEnd(k) == Cardinality({i \in DOMAIN stream : stream[i].at <= k})
EndedTicks == {k \in 0..Ticks : k < Now \/ phase = "done"}

SnapshotAt(k) ==
  LET end == TickEnd(k)
      at == [t \in Topics |-> end]
      bodies(topic) == [n \in KeysRead(topic, at) |-> Get(topic, "by_time", n, at)[1].body]
  IN [customers |-> [c \in Customers |-> Get("customers", "by_version", c, at)[1].body],
      orders    |-> bodies("orders"),
      returns   |-> bodies("returns")]

\* _pick_chargeback_return: the first one that a scenario left.
PickedReturn(snap) ==
  {n \in DOMAIN snap.returns :
     /\ snap.returns[n].reason = "chargeback_already_filed"
     /\ \A m \in 1..n - 1 : snap.returns[m].reason = "customer_request"}

\* What each category asks about: nothing when its task cannot be built.
Targets(category, snap) ==
  CASE category = "lookup"        -> {c \in Customers : c = 1}
    [] category = "transactional" -> {o \in DOMAIN snap.orders :
                                        o = Len(snap.orders) \div 2 + 1}
    [] category = "multi_hop"     -> PickedReturn(snap)

\* The snapshot's entities of a category, and what its grader expects for one.
Graded(category, snap) ==
  CASE category = "lookup"        -> Customers
    [] category = "transactional" -> DOMAIN snap.orders
    [] category = "multi_hop"     -> DOMAIN snap.returns

Expected(category, id, snap) ==
  CASE category = "lookup"        -> snap.customers[id].tier
    [] category = "transactional" -> snap.orders[id].status
    [] category = "multi_hop"     -> snap.returns[id].reason # "chargeback_already_filed"

\* The graders.  An answer is <<>> when the agent says that it could not tell.
Grade(category, answer, snap) ==
  IF answer = <<>> \/ answer[1].id \notin Graded(category, snap)
  THEN "reasoning_error"
  ELSE IF answer[1].value = Expected(category, answer[1].id, snap)
       THEN "none"
       ELSE IF category = "lookup" THEN "temporal_misalignment" ELSE "missed_join"

\* What an honest agent of variant A composes: one source, or for the multi-hop
\* question the return, then the payments of its order.
AnswerA(category, id, at) ==
  LET source == CASE category = "lookup"        -> Get("customers", "by_version", id, at)
                  [] category = "transactional" -> Get("orders", "by_time", id, at)
                  [] category = "multi_hop"     -> Get("returns", "by_time", id, at)
      payments == Get("payments", "append", source[1].body.order, at)
      value == CASE category = "lookup"        -> source[1].body.tier
                 [] category = "transactional" -> source[1].body.status
                 [] category = "multi_hop"     ->
                      \A i \in DOMAIN payments : payments[i].body.kind # "CHARGEBACK"
  IN IF source = <<>> THEN <<>> ELSE <<[id |-> id, value |-> value]>>

\* What an honest agent of variant B reads in one view.
AnswerB(category, id, at) ==
  LET name == CASE category = "lookup"        -> "customer_360"
                [] category = "transactional" -> "order_state"
                [] category = "multi_hop"     -> "returns_eligibility"
      result == GetView(name, <<id>>, at)
      value == CASE category = "lookup"        -> result.payload.tier
                 [] category = "transactional" -> result.payload.status
                 [] category = "multi_hop"     -> result.payload.eligible_for_refund
  IN IF result.error # "none" THEN <<>> ELSE <<[id |-> id, value |-> value]>>

Honest(category, id, at) == {AnswerA(category, id, at), AnswerB(category, id, at)}

-------------------------------------------------------------------------------
AllRead == [t \in Topics |-> Len(stream)]

\* The positions of the tick that is running: what can be read at an earlier one has
\* been looked at when that one was current.
Current == {p \in DOMAIN stream : stream[p].at = Now}

\* The benchmark is fair: when everything has been read, an honest agent of either
\* variant is graded correct on each task that can be built, so what a run measures is
\* the agent and the retrieval, and never a disagreement of stream and snapshot.
HonestAgentsScore ==
  \A category \in Categories : \A id \in Targets(category, Snapshot) :
    \A answer \in Honest(category, id, AllRead) : Grade(category, answer, Snapshot) = "none"

\* Read in the right order the multi-hop answer is never wrong, however stale the
\* sources are: if the payments and the orders have been read at least as far as the
\* returns, the answer is graded correct or the return is not known yet, and the view's
\* row validates.
MultiHopIsNeverStale ==
  \A n \in PickedReturn(Snapshot) : \A q \in Current : \A p \in 1..q :
    LET at == [t \in Topics |-> IF t = "returns" THEN p ELSE q]
    IN /\ \A answer \in Honest("multi_hop", n, at) :
            answer = <<>> \/ Grade("multi_hop", answer, Snapshot) = "none"
       /\ GetView("returns_eligibility", <<n>>, at).error # "raised"

\* "Grading is performed against a frozen snapshot", while the agent reads a live system
\* that has moved on (methodology.md, section 1).  That costs an honest agent nothing
\* but what did change: an answer read later than the snapshot is graded wrong only
\* when the entity asked about has had an event of its own since, and on the multi-hop
\* task never, because neither a chargeback nor a rejection is ever taken back.
FreezingIsFair ==
  LET topic == [lookup |-> "customers", transactional |-> "orders", multi_hop |-> "returns"]
  IN \A k \in EndedTicks :
       LET snap == SnapshotAt(k)
           end == TickEnd(k)
       IN \A category \in Categories : \A id \in Targets(category, snap) :
            \A p \in Current : p >= end =>
              \A answer \in Honest(category, id, [t \in Topics |-> p]) :
                Grade(category, answer, snap) # "none" =>
                  /\ category # "multi_hop"
                  /\ \E i \in end + 1 .. p :
                       stream[i].topic = topic[category] /\ stream[i].key = id

\* The joined views do not contradict themselves at any point of the stream: the tier is
\* one of the two that a latest tier change names, an order that has been shipped shows
\* its items and the capture that paid it, and one with an open return is delivered.
ViewsAreCoherent ==
  \A p \in Current :
    LET at == [t \in Topics |-> p]
    IN /\ \A c \in Customers : \A row \in ToSet(Customer360(c, at)) :
            row.tier_history # {} =>
              \E e \in row.tier_history :
                /\ \A f \in row.tier_history : f.at <= e.at
                /\ row.tier \in {e.body.from, e.body.to}
       /\ \A o \in DOMAIN orders : \A row \in ToSet(OrderState(o, at)) :
            /\ row.status \in {"SHIPPED", "DELIVERED"} =>
                 /\ row.items # {}
                 /\ \E e \in row.payment_events : e.body.kind = "CAPTURED"
            /\ row.open_return_id # 0 => row.status = "DELIVERED"

\* Of an order's returns as they are listed the newest one that is open, 0 when none is.
NewestOpen(o, at) ==
  LET open == {e.key : e \in {r \in ReturnsOf(o, at) : r.body.status = "REQUESTED"}}
  IN IF open = {} THEN 0 ELSE Max(open)

\* Recent orders say what the list of a customer's orders says, as far as they can: no row
\* of an order is later than its record, and the record is among them unless the limit has
\* cut it off for rows that are no older.  Which of an order's rows of one tick is its
\* record they leave open.
RecentAgrees(kept, c, at) ==
  \A e \in OrdersOf(c, at) :
    /\ \A f \in kept : f.key = e.key => f.at <= e.at
    /\ e \notin kept => /\ Cardinality(kept) = RecentLimit
                        /\ \A f \in kept : f.at >= e.at

\* The variants differ in how they retrieve and not in what there is to retrieve: at
\* every point of the stream variant A's tools compose what variant B's rows hold, the
\* tier and its history, the tickets and the recent orders, an order's status, items,
\* stock, payments and open return.
VariantsAgree ==
  \A p \in Current :
    LET at == [t \in Topics |-> p]
    IN /\ \A c \in Customers : \A row \in ToSet(Customer360(c, at)) :
            /\ row.tier = Get("customers", "by_version", c, at)[1].body.tier
            /\ row.tier_history = ToSet(Get("tier_changes", "append", c, at))
            /\ row.open_tickets = TicketsOf(c, at)
            /\ \A kept \in row.recent_orders : RecentAgrees(kept, c, at)
       /\ \A o \in DOMAIN orders : \A row \in ToSet(OrderState(o, at)) :
            /\ row.status = Get("orders", "by_time", o, at)[1].body.status
            /\ row.items = ToSet(Get("order_items", "append", o, at))
            /\ row.payment_events = ToSet(Get("payments", "append", o, at))
            /\ \A item \in row.items : \E stock \in row.inventory :
                 <<stock>> = Get("inventory", "by_time", item.body.row, at)
            /\ row.open_return_id = NewestOpen(o, at)

\* "A return is INELIGIBLE if a chargeback has been filed on the originating order"
\* (tasks.py:200): whichever return the answer names, the rule's verdict is graded
\* correct.
RuleIsGraded ==
  \A n \in DOMAIN returns :
    LET verdict == ~HasChargeback(returns[n].order, AllRead)
    IN Grade("multi_hop", <<[id |-> n, value |-> verdict]>>, Snapshot) = "none"
===============================================================================
