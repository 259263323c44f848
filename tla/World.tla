-------------------------------- MODULE World --------------------------------
(***************************************************************************)
(* The synthetic business: world/generator.py, world/state.py and          *)
(* world/scenarios.py.  bootstrap() and then tick() after tick mutate the  *)
(* state and emit events to a sink.  The generator is one thread; a step   *)
(* here is one iteration of one of its loops.                              *)
(*                                                                         *)
(* The seeded random draws are nondeterministic choices.  Entities are     *)
(* numbered in the order their dicts hold them, and an id is that number;  *)
(* a (sku, warehouse) pair is a row of the inventory.  Times are counted   *)
(* in ticks from start_epoch_ms.                                           *)
(***************************************************************************)
EXTENDS Integers, Sequences, Projectors

CONSTANTS
  NCustomers,       \* customers
  NRows,            \* skus * warehouses
  InitialTiers,     \* the tiers bootstrap() draws from
  InitialStock,     \* the quantities bootstrap() draws from
  Quantities,       \* 1..3: the quantities of an order item
  MaxItems,         \* 3: the most items of an order
  BaselineOrders,   \* baseline_orders
  Ticks,            \* int(duration_sec / tick_sec)
  SnapshotEvery,    \* inventory_snapshot_interval_sec / tick_sec
  FireAt,           \* fire_at_tick of each configured scenario
  ScanWindow,       \* 1000: the orders returns and payments look at
  LifecycleWindow,  \* 200: the orders the lifecycle looks at
  MaxOrders,        \* bound on the orders made (the Poisson draws)
  MaxReturns,       \* bound on the returns: no customer's beyond it, a scenario's counts
  MaxPayments,      \* bound on the failed payments and refunds
  MaxTickets        \* bound on the tickets

Customers == 1..NCustomers
Rows      == 1..NRows

Ladder == <<"BRONZE", "SILVER", "GOLD", "PLATINUM">>
Tiers  == {Ladder[i] : i \in 1..4}

ASSUME TiersAssumption   == InitialTiers \subseteq Tiers
ASSUME StockAssumption   == InitialStock \subseteq Nat
ASSUME ItemsAssumption   == Quantities \subseteq Nat /\ MaxItems \in Nat \ {0}
ASSUME SizesAssumption   == NCustomers \in Nat /\ NRows \in Nat \ {0}
ASSUME TicksAssumption   == Ticks \in Nat \ {0} /\ SnapshotEvery \in Nat \ {0}
ASSUME WindowsAssumption == ScanWindow \in Nat \ {0} /\ LifecycleWindow \in Nat \ {0}
ASSUME FireAtAssumption  == FireAt \in Seq(Nat)
ASSUME BoundsAssumption  == /\ BaselineOrders \in Nat /\ MaxOrders \in Nat
                            /\ MaxReturns \in Nat /\ MaxPayments \in Nat
                            /\ MaxTickets \in Nat

VARIABLES
  phase,      \* the loop that is running
  tick,       \* tick()'s argument
  cursor,     \* the order, or the scenario, the loop is at
  draft,      \* the order _create_order is drawing, <<>> when none
  customers,  \* state.customers
  orders,     \* state.orders
  inventory,  \* state.inventory
  returns,    \* state.returns
  tickets,    \* state.tickets
  fired,      \* fired of each scenario
  stream      \* everything emitted to the sink, in order

state == <<customers, orders, inventory, returns, tickets>>
vars  == <<phase, tick, cursor, draft, state, fired, stream>>

Phases == {"bootstrap", "orders", "snapshots", "returns", "payments",
           "tickets", "lifecycle", "scenarios", "done"}

\* outbox.now_ms
Now == IF phase = "bootstrap" THEN 0 ELSE tick + 1

\* An emitted event: its topic, the message key, the store's time field, the
\* version (customers only) and what else the readers look at.
Message(topic, key, ver, body) ==
  [topic |-> topic, key |-> key, at |-> Now, ver |-> ver, body |-> body]

CustomerMsg(c, cust)   == Message("customers", c, cust.version, [tier |-> cust.tier])
OrderMsg(o, ord)       == Message("orders", o, 0,
                                  [customer |-> ord.customer, status |-> ord.status])
ItemMsg(o, item)       == Message("order_items", o, 0, item)
SnapshotMsg(r, qty)    == Message("inventory", r, 0, [qty |-> qty])
ReturnMsg(n, ret)      == Message("returns", n, 0, ret)
TicketMsg(n, tic)      == Message("tickets", n, 0, tic)
PaymentMsg(o, kind)    == Message("payments", o, 0, [kind |-> kind])
TierMsg(c, from, to)   == Message("tier_changes", c, 0, [from |-> from, to |-> to])

Emit(msgs) == stream' = stream \o msgs

\* One message for each inventory row, in the dict's order.
SnapshotMsgs(inv) == [r \in Rows |-> SnapshotMsg(r, inv[r])]

Init ==
  /\ phase = "bootstrap" /\ tick = 0 /\ cursor = 0 /\ draft = <<>>
  /\ customers \in [Customers -> [tier : InitialTiers, version : {1}, updatedAt : {0}]]
  /\ inventory \in [Rows -> InitialStock]
  /\ orders = <<>> /\ returns = <<>> /\ tickets = <<>>
  /\ fired = [s \in DOMAIN FireAt |-> FALSE]
  /\ stream = [c \in Customers |-> CustomerMsg(c, customers[c])]
                 \o SnapshotMsgs(inventory)

-------------------------------------------------------------------------------
\* The first index of orders.values()[-window:].
First(window) == IF Len(orders) > window THEN Len(orders) - window + 1 ELSE 1

GoTo(next, at) == phase' = next /\ cursor' = at /\ UNCHANGED tick

\* The loop's turn on the order at the cursor is over.
Step == cursor' = cursor + 1 /\ UNCHANGED <<phase, tick>>

\* The loop over the orders is at order o.
At(loop, o) == phase = loop /\ cursor = o /\ o <= Len(orders)

\* The loop over the orders is over: on to the next one.
Over(loop, next, at) ==
  /\ phase = loop /\ cursor = Len(orders) + 1
  /\ GoTo(next, at)
  /\ UNCHANGED <<draft, state, fired, stream>>

\* Mutated: stock is taken without a floor.
TakenBelowZero(stock, qty) == stock - qty

\* Stock is taken with a floor at zero.
Taken(stock, qty) == IF stock > qty THEN stock - qty ELSE 0

\* _create_order draws a customer,
DraftOrder ==
  /\ draft = <<>>
  /\ \/ phase = "bootstrap" /\ Len(orders) < BaselineOrders
     \/ phase = "orders" /\ Len(orders) < MaxOrders
  /\ \E c \in Customers : draft' = <<[customer |-> c, items |-> <<>>]>>
  /\ UNCHANGED <<phase, tick, cursor, state, fired, stream>>

\* then its items, taking each from the stock with no snapshot emitted,
DraftItem ==
  /\ draft # <<>> /\ Len(draft[1].items) < MaxItems
  /\ \E r \in Rows, q \in Quantities :
       /\ draft' = <<[draft[1] EXCEPT !.items = Append(@, [row |-> r, qty |-> q])]>>
       /\ inventory' = [inventory EXCEPT ![r] = Taken(@, q)]
  /\ UNCHANGED <<phase, tick, cursor, customers, orders, returns, tickets, fired, stream>>

\* and places it.
PlaceOrder ==
  /\ draft # <<>> /\ draft[1].items # <<>>
  /\ LET o == Len(orders) + 1
         items == draft[1].items
         ord == [customer |-> draft[1].customer, status |-> "CREATED", items |-> items]
     IN /\ orders' = Append(orders, ord)
        /\ Emit(<<OrderMsg(o, ord)>> \o [i \in DOMAIN items |-> ItemMsg(o, items[i])])
  /\ draft' = <<>>
  /\ UNCHANGED <<phase, tick, cursor, customers, inventory, returns, tickets, fired>>

BootstrapDone ==
  /\ phase = "bootstrap" /\ draft = <<>>
  /\ Len(orders) = BaselineOrders \/ Customers = {}
  /\ GoTo("orders", 0)
  /\ UNCHANGED <<draft, state, fired, stream>>

OrdersDone ==
  /\ phase = "orders" /\ draft = <<>>
  /\ GoTo("snapshots", 0)
  /\ UNCHANGED <<draft, state, fired, stream>>

InventorySnapshots ==
  /\ phase = "snapshots"
  /\ IF tick > 0 /\ tick % SnapshotEvery = 0
     THEN Emit(SnapshotMsgs(inventory))
     ELSE UNCHANGED stream
  /\ GoTo("returns", First(ScanWindow))
  /\ UNCHANGED <<draft, state, fired>>

\* A delivered order may be returned at each tick, returned already or not.
RequestReturn ==
  \E o \in 1..Len(orders) :
    /\ At("returns", o)
    /\ orders[o].status = "DELIVERED"
    /\ Len(returns) < MaxReturns
    /\ LET ret == [order |-> o, status |-> "REQUESTED", reason |-> "customer_request"]
       IN /\ returns' = Append(returns, ret)
          /\ Emit(<<ReturnMsg(Len(returns) + 1, ret)>>)
    /\ Step
    /\ UNCHANGED <<draft, customers, orders, inventory, tickets, fired>>

NoReturn ==
  /\ \E o \in 1..Len(orders) : At("returns", o)
  /\ Step /\ UNCHANGED <<draft, state, fired, stream>>

ReturnsDone == Over("returns", "payments", First(ScanWindow))

\* Random failures and refunds, whatever the order's status; no state changes.
RandomPayment ==
  \E o \in 1..Len(orders), kind \in {"FAILED", "REFUND"} :
    /\ At("payments", o)
    /\ Cardinality({i \in DOMAIN stream : /\ stream[i].topic = "payments"
                                          /\ stream[i].body.kind \in {"FAILED", "REFUND"}})
         < MaxPayments
    /\ Emit(<<PaymentMsg(o, kind)>>)
    /\ Step /\ UNCHANGED <<draft, state, fired>>

NoPayment ==
  /\ \E o \in 1..Len(orders) : At("payments", o)
  /\ Step /\ UNCHANGED <<draft, state, fired, stream>>

PaymentsDone == Over("payments", "tickets", 0)

\* A ticket names a customer and, or not (0), an order, of that customer or not.
OpenTicket ==
  /\ phase = "tickets" /\ Len(tickets) < MaxTickets
  /\ \E c \in Customers, o \in 0..Len(orders) :
       LET tic == [customer |-> c, order |-> o, status |-> "OPEN"]
       IN /\ tickets' = Append(tickets, tic)
          /\ Emit(<<TicketMsg(Len(tickets) + 1, tic)>>)
  /\ UNCHANGED <<phase, tick, cursor, draft, customers, orders, inventory, returns, fired>>

TicketsDone ==
  /\ phase = "tickets"
  /\ GoTo("lifecycle", First(LifecycleWindow))
  /\ UNCHANGED <<draft, state, fired, stream>>

NextStatus == [CREATED |-> "PAID", PAID |-> "SHIPPED", SHIPPED |-> "DELIVERED"]

\* Mutated: every advance captures the payment.
AdvanceMsgsCapturingAll(o, ord) == <<OrderMsg(o, ord), PaymentMsg(o, "CAPTURED")>>

\* The order event of an advance, and the capture when it pays the order.
AdvanceMsgs(o, ord) ==
  IF ord.status = "PAID" THEN <<OrderMsg(o, ord), PaymentMsg(o, "CAPTURED")>>
                         ELSE <<OrderMsg(o, ord)>>

\* created -> paid -> shipped -> delivered.
AdvanceOrder ==
  \E o \in 1..Len(orders) :
    /\ At("lifecycle", o)
    /\ orders[o].status \in DOMAIN NextStatus
    /\ LET nxt == NextStatus[orders[o].status]
           ord == [orders[o] EXCEPT !.status = nxt]
       IN /\ orders' = [orders EXCEPT ![o] = ord]
          /\ Emit(AdvanceMsgs(o, ord))
    /\ Step
    /\ UNCHANGED <<draft, customers, inventory, returns, tickets, fired>>

NoAdvance ==
  /\ \E o \in 1..Len(orders) : At("lifecycle", o)
  /\ Step /\ UNCHANGED <<draft, state, fired, stream>>

LifecycleDone == Over("lifecycle", "scenarios", 1)

-------------------------------------------------------------------------------
\* The orders the scenario may take: the status is not looked at.
Eligible == {o \in 1..Len(orders) : customers[orders[o].customer].tier # "BRONZE"}

Rank(tier) == CHOOSE i \in 1..4 : Ladder[i] = tier

\* ladder[max(0, index - 1)]
OneStepDown(tier) == IF Rank(tier) = 1 THEN tier ELSE Ladder[Rank(tier) - 1]

\* Mutated: only at its very tick.
DueAtItsTick(s) == ~fired[s] /\ tick = FireAt[s]

\* Mutated: fired is not looked at.
DueAgain(s) == tick >= FireAt[s]

Due(s) == ~fired[s] /\ tick >= FireAt[s]

AtScenario(s) == phase = "scenarios" /\ cursor = s

Rejected(o) == [order |-> o, status |-> "REJECTED", reason |-> "chargeback_already_filed"]

\* Mutated: the refund attempt is emitted before the chargeback.
FireMsgsRefundFirst(o, c, old, new, n) ==
  <<ReturnMsg(n, Rejected(o)), PaymentMsg(o, "CHARGEBACK"),
    TierMsg(c, old.tier, new.tier), CustomerMsg(c, new)>>

\* Mutated: the customer is emitted before it is updated.
FireMsgsOldRecord(o, c, old, new, n) ==
  <<PaymentMsg(o, "CHARGEBACK"), TierMsg(c, old.tier, new.tier),
    CustomerMsg(c, old), ReturnMsg(n, Rejected(o))>>

\* What a firing emits, when c goes from old to new and n is the return's number.
FireMsgs(o, c, old, new, n) ==
  <<PaymentMsg(o, "CHARGEBACK"), TierMsg(c, old.tier, new.tier),
    CustomerMsg(c, new), ReturnMsg(n, Rejected(o))>>

\* ChargebackDowngradeRefund.maybe_fire: the first eligible order is charged back,
\* its customer loses a tier, and a refund of it is attempted and rejected.
Fire ==
  \E s \in DOMAIN FireAt, o \in Eligible :
    /\ AtScenario(s) /\ Due(s)
    /\ \A p \in Eligible : o <= p
    /\ LET c == orders[o].customer
           old == customers[c]
           new == [tier |-> OneStepDown(old.tier), version |-> old.version + 1,
                   updatedAt |-> Now]
       IN /\ customers' = [customers EXCEPT ![c] = new]
          /\ returns' = Append(returns, Rejected(o))
          /\ Emit(FireMsgs(o, c, old, new, Len(returns) + 1))
    /\ fired' = [fired EXCEPT ![s] = TRUE]
    /\ Step
    /\ UNCHANGED <<draft, orders, inventory, tickets>>

\* It has fired, is too early, or found no order: it tries again next tick.
NoFire ==
  \E s \in DOMAIN FireAt :
    /\ AtScenario(s) /\ (Due(s) => Eligible = {})
    /\ Step /\ UNCHANGED <<draft, state, fired, stream>>

\* Mutated: the tick is counted once more after the last one.
TickDoneCounting ==
  /\ phase = "scenarios" /\ cursor = Len(FireAt) + 1
  /\ phase' = IF tick + 1 < Ticks THEN "orders" ELSE "done"
  /\ tick' = tick + 1
  /\ cursor' = 0
  /\ UNCHANGED <<draft, state, fired, stream>>

TickDone ==
  /\ phase = "scenarios" /\ cursor = Len(FireAt) + 1
  /\ IF tick + 1 < Ticks
     THEN phase' = "orders" /\ tick' = tick + 1
     ELSE phase' = "done" /\ UNCHANGED tick
  /\ cursor' = 0
  /\ UNCHANGED <<draft, state, fired, stream>>

\* run() has flushed the sink and returned.
Returned == phase = "done" /\ UNCHANGED vars

Next ==
  \/ DraftOrder \/ DraftItem \/ PlaceOrder \/ BootstrapDone \/ OrdersDone
  \/ InventorySnapshots
  \/ RequestReturn \/ NoReturn \/ ReturnsDone
  \/ RandomPayment \/ NoPayment \/ PaymentsDone
  \/ OpenTicket \/ TicketsDone
  \/ AdvanceOrder \/ NoAdvance \/ LifecycleDone
  \/ Fire \/ NoFire \/ TickDone
  \/ Returned

\* The generator's loop runs on by itself.
Spec == Init /\ [][Next]_vars /\ WF_vars(Next)

-------------------------------------------------------------------------------
\* The types of the state; the messages' shapes are pinned down by the properties.
Item     == [row : Rows, qty : Quantities]
Statuses == {"CREATED", "PAID", "SHIPPED", "DELIVERED"}
Customer == [tier : Tiers, version : Nat, updatedAt : Nat]
Order    == [customer : Customers, status : Statuses, items : Seq(Item)]
Draft    == [customer : Customers, items : Seq(Item)]
Return   == [order : Nat, status : {"REQUESTED", "REJECTED"},
             reason : {"customer_request", "chargeback_already_filed"}]
Ticket   == [customer : Customers, order : Nat, status : {"OPEN"}]

TypeOK ==
  /\ phase \in Phases
  /\ tick \in 0..Ticks - 1
  /\ cursor \in Nat
  /\ draft \in Seq(Draft)
  /\ customers \in [Customers -> Customer]
  /\ orders \in Seq(Order)
  /\ inventory \in [Rows -> Nat]
  /\ returns \in Seq(Return)
  /\ tickets \in Seq(Ticket)
  /\ fired \in [DOMAIN FireAt -> BOOLEAN]

\* WorldState.check_invariants at every point of a run, the middle of a tick and a
\* scenario included: whatever names an entity names one that exists.
ReferentialIntegrity ==
  /\ \A o \in DOMAIN orders :
       /\ orders[o].customer \in Customers
       /\ \A i \in DOMAIN orders[o].items : orders[o].items[i].row \in Rows
  /\ \A n \in DOMAIN returns : returns[n].order \in DOMAIN orders
  /\ \A n \in DOMAIN tickets :
       tickets[n].customer \in Customers /\ tickets[n].order \in {0} \cup DOMAIN orders
  /\ \A r \in Rows : inventory[r] >= 0

\* What the first n messages of s tell: a customer, an order's status, a chargeback.
CustomerSeen(s, n, c) == \E j \in 1..n : s[j].topic = "customers" /\ s[j].key = c
StatusSeen(s, n, o, status) ==
  \E j \in 1..n : s[j].topic = "orders" /\ s[j].key = o /\ s[j].body.status = status
ChargeSeen(s, n, o) ==
  \E j \in 1..n : s[j].topic = "payments" /\ s[j].key = o /\ s[j].body.kind = "CHARGEBACK"

\* They tell of whatever the message m refers to, and of what justifies it.
CausesSeen(s, n, m) ==
  LET customer(c)      == CustomerSeen(s, n, c)
      order(o, status) == StatusSeen(s, n, o, status)
  IN /\ m.topic = "orders" =>
          /\ customer(m.body.customer)
          /\ m.body.status # "CREATED" => order(m.key, "CREATED")
     /\ m.topic = "order_items" => order(m.key, "CREATED")
     /\ m.topic = "payments" =>
          /\ order(m.key, "CREATED")
          /\ m.body.kind = "CAPTURED" => order(m.key, "PAID")
     /\ m.topic = "returns" =>
          IF m.body.status = "REQUESTED" THEN order(m.body.order, "DELIVERED")
                                         ELSE ChargeSeen(s, n, m.body.order)
     /\ m.topic = "tickets" =>
          /\ customer(m.body.customer)
          /\ m.body.order # 0 => order(m.body.order, "CREATED")
     /\ m.topic = "tier_changes" => customer(m.key)

\* A consumer that has read any prefix of the stream has already seen whatever a
\* message refers to, and what justifies it: the delivery that a return needs, the
\* payment that a capture records, the chargeback that a rejection names.  And
\* times never go back, which is what the serving stores' scan relies on.
StreamIsCausal ==
  \A i \in DOMAIN stream :
    /\ i > 1 => stream[i - 1].at <= stream[i].at
    /\ stream[i].at <= Now
    /\ CausesSeen(stream, i - 1, stream[i])

\* What a serving store of the topic holds once it has consumed the stream.
Replayed(topic, kind, keys) ==
  FoldLeft(LAMBDA view, e : IF e.topic = topic THEN Project(kind, view, e) ELSE view,
           [k \in keys |-> <<>>], stream)

\* Replaying the stream through the projectors gives the state back, though one
\* tick may stamp several messages of an entity with the same time.  The inventory
\* is the exception: sales are not emitted, so the replay can only overestimate.
ReplayMatchesState ==
  LET cs == Replayed("customers", "by_version", Customers)
      os == Replayed("orders", "by_time", DOMAIN orders)
      rs == Replayed("returns", "by_time", DOMAIN returns)
      ts == Replayed("tickets", "by_time", DOMAIN tickets)
      inv == Replayed("inventory", "by_time", Rows)
      is == Replayed("order_items", "append", DOMAIN orders)
  IN /\ \A c \in Customers :
          customers[c] = [tier |-> cs[c][1].body.tier, version |-> cs[c][1].ver,
                          updatedAt |-> cs[c][1].at]
     /\ \A o \in DOMAIN orders :
          /\ os[o][1].body = [customer |-> orders[o].customer, status |-> orders[o].status]
          /\ [i \in DOMAIN is[o] |-> is[o][i].body] = orders[o].items
     /\ \A n \in DOMAIN returns : rs[n][1].body = returns[n]
     /\ \A n \in DOMAIN tickets : ts[n][1].body = tickets[n]
     /\ \A r \in Rows : inv[r][1].body.qty >= inventory[r]

\* The payments of an order that are of one of the kinds.
Payments(o, kinds) ==
  {i \in DOMAIN stream : /\ stream[i].topic = "payments" /\ stream[i].key = o
                         /\ stream[i].body.kind \in kinds}

\* An order is captured exactly once, when it becomes PAID, and advances at most
\* one status in a tick: the lifecycle loop never revisits an order.
LifecycleIsPaid ==
  /\ \A o \in DOMAIN orders :
       Cardinality(Payments(o, {"CAPTURED"})) = IF orders[o].status = "CREATED" THEN 0 ELSE 1
  /\ \A i, j \in DOMAIN stream :
       /\ i < j
       /\ stream[i].topic = "orders" /\ stream[j].topic = "orders"
       /\ stream[i].key = stream[j].key /\ stream[i].at = stream[j].at
       => stream[i].body.status = "CREATED"

\* The tier changes of a customer, in order, as their store lists them.
TierChanges(c) == Replayed("tier_changes", "append", Customers)[c]

\* Scenarios leave a consistent trace over four topics: a firing is one chargeback,
\* one rejected return and one tier change, all about one order; a customer's tier
\* changes chain from one to the next, each strictly down, and end at its tier.
ScenarioTrace ==
  LET charged == UNION {Payments(o, {"CHARGEBACK"}) : o \in DOMAIN orders}
      rejected == {n \in DOMAIN returns : returns[n].status = "REJECTED"}
      firings == {s \in DOMAIN FireAt : fired[s]}
  IN /\ Cardinality(charged) = Cardinality(firings)
     /\ Cardinality(rejected) = Cardinality(firings)
     /\ \A o \in DOMAIN orders :
          Cardinality(Payments(o, {"CHARGEBACK"})) =
            Cardinality({n \in rejected : returns[n].order = o})
     /\ \A c \in Customers :
          LET tcs == TierChanges(c)
          IN /\ customers[c].version = Len(tcs) + 1
             /\ Len(tcs) = Cardinality({n \in rejected :
                                        orders[returns[n].order].customer = c})
             /\ \A i \in DOMAIN tcs :
                  /\ Rank(tcs[i].body.to) < Rank(tcs[i].body.from)
                  /\ i > 1 => tcs[i].body.from = tcs[i - 1].body.to
                  /\ i = Len(tcs) => tcs[i].body.to = customers[c].tier

\* The run returns, and no scenario whose tick came is missed while some order
\* qualifies: one that finds none is tried again at the next tick.
ScenariosAreNotMissed ==
  <>[](/\ phase = "done"
       /\ \A s \in DOMAIN FireAt : FireAt[s] < Ticks /\ Eligible # {} => fired[s])

\* "Pick the first PAID/SHIPPED/DELIVERED order whose customer is at least SILVER"
\* (scenarios.py:34): the order that is charged back has been paid.
ChargedOrderWasPaid ==
  [][\A o \in DOMAIN orders :
       Payments(o, {"CHARGEBACK"})' # Payments(o, {"CHARGEBACK"})
         => orders[o].status # "CREATED"]_vars
===============================================================================
