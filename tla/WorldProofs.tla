------------------------------ MODULE WorldProofs ------------------------------
(***************************************************************************)
(* Proofs about World for any number of customers, inventory rows, ticks,  *)
(* orders and scenarios, and any windows.                                  *)
(***************************************************************************)
EXTENDS World, TLAPS, SequenceTheorems, FiniteSetTheorems

\* Appending to a sequence keeps its elements and adds one.
LEMMA Appending ==
  ASSUME NEW S, NEW s \in Seq(S), NEW e \in S
  PROVE  /\ Append(s, e) \in Seq(S)
         /\ DOMAIN Append(s, e) = 1..Len(s) + 1
         /\ DOMAIN s = 1..Len(s) /\ Len(s) \in Nat
         /\ Append(s, e)[Len(s) + 1] = e
         /\ \A i \in DOMAIN s : Append(s, e)[i] = s[i]
  BY AppendProperties, LenProperties

\* The tiers of the ladder and their neighbours.
LEMMA DownTheLadder ==
  ASSUME NEW tier \in Tiers
  PROVE  OneStepDown(tier) \in Tiers
<1>1. PICK i \in 1..4 : Ladder[i] = tier
  BY DEF Tiers
<1>2. Rank(tier) \in 1..4 /\ Ladder[Rank(tier)] = tier
  BY <1>1 DEF Rank
<1> QED
  BY <1>2 DEF OneStepDown, Tiers

\* A window of the last orders starts at an order, or after the last one.
LEMMA FirstIsNat ==
  ASSUME orders \in Seq(Order), NEW w \in Nat \ {0}
  PROVE  First(w) \in Nat \ {0}
  BY LenProperties DEF First

\* The outbox's time is a number of ticks.
LEMMA NowIsNat ==
  ASSUME TypeOK
  PROVE  Now \in Nat
  BY TicksAssumption DEF TypeOK, Now

-------------------------------------------------------------------------------
\* The state has its types in every run.
THEOREM TypeCorrect == Spec => []TypeOK
<1> USE TicksAssumption, WindowsAssumption
<1>1. Init => TypeOK
  <2> SUFFICES ASSUME Init PROVE TypeOK
    OBVIOUS
  <2>1. customers \in [Customers -> Customer]
    BY TiersAssumption DEF Init, Customer
  <2>2. inventory \in [Rows -> Nat]
    BY StockAssumption DEF Init
  <2>3. draft \in Seq(Draft) /\ orders \in Seq(Order)
    BY DEF Init
  <2>4. returns \in Seq(Return) /\ tickets \in Seq(Ticket)
    BY DEF Init
  <2> QED
    BY <2>1, <2>2, <2>3, <2>4 DEF Init, TypeOK, Phases
<1>2. TypeOK /\ [Next]_vars => TypeOK'
  <2> SUFFICES ASSUME TypeOK, [Next]_vars PROVE TypeOK'
    OBVIOUS
  <2>1. ASSUME phase' \in Phases, tick' \in 0..Ticks - 1, cursor' \in Nat,
               UNCHANGED <<draft, state, fired>>
        PROVE  TypeOK'
    BY <2>1 DEF TypeOK, state
  <2>2. ASSUME UNCHANGED <<phase, tick>>, cursor' \in {cursor, cursor + 1}
        PROVE  phase' \in Phases /\ tick' \in 0..Ticks - 1 /\ cursor' \in Nat
    BY <2>2 DEF TypeOK
  <2>3. CASE DraftOrder
    <3>1. draft' \in Seq(Draft)
      <4>1. PICK c \in Customers : draft' = <<[customer |-> c, items |-> <<>>]>>
        BY <2>3 DEF DraftOrder
      <4>2. [customer |-> c, items |-> <<>>] \in Draft
        BY DEF Draft
      <4> QED
        BY <4>1, <4>2
    <3> QED
      BY <2>3, <3>1 DEF DraftOrder, TypeOK, state
  <2>4. CASE DraftItem
    <3>1. PICK r \in Rows, q \in Quantities :
            /\ draft' = <<[draft[1] EXCEPT !.items = Append(@, [row |-> r, qty |-> q])]>>
            /\ inventory' = [inventory EXCEPT ![r] = Taken(@, q)]
      BY <2>4 DEF DraftItem
    <3>2. draft[1] \in Draft
      BY <2>4, EmptySeq, ElementOfSeq DEF DraftItem, TypeOK
    <3>3. Append(draft[1].items, [row |-> r, qty |-> q]) \in Seq(Item)
      BY <3>2, AppendProperties DEF Draft, Item
    <3>4. draft' \in Seq(Draft)
      <4>1. [draft[1] EXCEPT !.items = Append(@, [row |-> r, qty |-> q])] \in Draft
        BY <3>2, <3>3 DEF Draft
      <4> QED
        BY <3>1, <4>1
    <3>5. Taken(inventory[r], q) \in Nat
      BY ItemsAssumption DEF Taken, TypeOK
    <3>6. inventory' \in [Rows -> Nat]
      BY <3>1, <3>5 DEF TypeOK
    <3> QED
      BY <2>4, <3>4, <3>6 DEF DraftItem, TypeOK
  <2>5. CASE PlaceOrder
    <3>1. draft[1] \in Draft
      BY <2>5, EmptySeq, ElementOfSeq DEF PlaceOrder, TypeOK
    <3>2. [customer |-> draft[1].customer, status |-> "CREATED",
           items |-> draft[1].items] \in Order
      BY <3>1 DEF Draft, Order, Statuses
    <3>3. orders' \in Seq(Order)
      BY <2>5, <3>2, AppendProperties DEF PlaceOrder, TypeOK
    <3>4. draft' \in Seq(Draft)
      BY <2>5 DEF PlaceOrder
    <3> QED
      BY <2>5, <3>3, <3>4 DEF PlaceOrder, TypeOK
  <2>6. CASE BootstrapDone \/ OrdersDone
    BY <2>1, <2>6 DEF BootstrapDone, OrdersDone, GoTo, Phases, TypeOK
  <2>7. CASE InventorySnapshots
    <3>1. First(ScanWindow) \in Nat
      BY FirstIsNat DEF TypeOK
    <3> QED
      BY <2>1, <2>7, <3>1 DEF InventorySnapshots, GoTo, Phases, TypeOK
  <2>8. CASE RequestReturn
    <3>1. PICK o \in 1..Len(orders) :
            returns' = Append(returns, [order |-> o, status |-> "REQUESTED",
                                        reason |-> "customer_request"])
      BY <2>8 DEF RequestReturn
    <3>2. o \in Nat
      BY LenProperties DEF TypeOK
    <3>3. [order |-> o, status |-> "REQUESTED", reason |-> "customer_request"] \in Return
      BY <3>2 DEF Return
    <3>4. returns' \in Seq(Return)
      BY <3>1, <3>3, AppendProperties DEF TypeOK
    <3> QED
      BY <2>2, <2>8, <3>4 DEF RequestReturn, Step, TypeOK
  <2>9. CASE NoReturn \/ NoPayment \/ NoAdvance \/ RandomPayment
    BY <2>1, <2>2, <2>9 DEF NoReturn, NoPayment, NoAdvance, RandomPayment, Step
  <2>10. CASE ReturnsDone \/ PaymentsDone \/ LifecycleDone
    <3>1. First(ScanWindow) \in Nat
      BY FirstIsNat DEF TypeOK
    <3> QED
      BY <2>1, <2>10, <3>1
         DEF ReturnsDone, PaymentsDone, LifecycleDone, Over, GoTo, Phases, TypeOK
  <2>11. CASE OpenTicket
    <3>1. PICK c \in Customers, o \in 0..Len(orders) :
            tickets' = Append(tickets, [customer |-> c, order |-> o, status |-> "OPEN"])
      BY <2>11 DEF OpenTicket
    <3>2. o \in Nat
      BY LenProperties DEF TypeOK
    <3>3. [customer |-> c, order |-> o, status |-> "OPEN"] \in Ticket
      BY <3>2 DEF Ticket
    <3>4. tickets' \in Seq(Ticket)
      BY <3>1, <3>3, AppendProperties DEF TypeOK
    <3> QED
      BY <2>11, <3>4 DEF OpenTicket, TypeOK
  <2>12. CASE TicketsDone
    <3>1. First(LifecycleWindow) \in Nat
      BY FirstIsNat DEF TypeOK
    <3> QED
      BY <2>1, <2>12, <3>1 DEF TicketsDone, GoTo, Phases, TypeOK
  <2>13. CASE AdvanceOrder
    <3>1. PICK o \in 1..Len(orders) :
            /\ orders[o].status \in DOMAIN NextStatus
            /\ orders' = [orders EXCEPT ![o] =
                            [orders[o] EXCEPT !.status = NextStatus[orders[o].status]]]
      BY <2>13 DEF AdvanceOrder
    <3>2. orders[o] \in Order /\ NextStatus[orders[o].status] \in Statuses
      BY <3>1, ElementOfSeq DEF TypeOK, NextStatus, Statuses
    <3>3. [orders[o] EXCEPT !.status = NextStatus[orders[o].status]] \in Order
      BY <3>2 DEF Order
    <3>4. orders' \in Seq(Order)
      BY <3>1, <3>3, ExceptSeq DEF TypeOK
    <3> QED
      BY <2>2, <2>13, <3>4 DEF AdvanceOrder, Step, TypeOK
  <2>14. CASE Fire
    <3>1. PICK s \in DOMAIN FireAt, o \in Eligible :
            /\ customers' = [customers EXCEPT ![orders[o].customer] =
                 [tier |-> OneStepDown(customers[orders[o].customer].tier),
                  version |-> customers[orders[o].customer].version + 1,
                  updatedAt |-> Now]]
            /\ returns' = Append(returns, Rejected(o))
            /\ fired' = [fired EXCEPT ![s] = TRUE]
      BY <2>14 DEF Fire
    <3>2. o \in 1..Len(orders) /\ o \in Nat
      BY LenProperties DEF Eligible, TypeOK
    <3>3. orders[o].customer \in Customers
      <4>1. orders[o] \in Order
        BY <3>2, ElementOfSeq DEF TypeOK
      <4> QED
        BY <4>1 DEF Order
    <3>4. customers[orders[o].customer] \in Customer
      BY <3>3 DEF TypeOK
    <3>5. [tier |-> OneStepDown(customers[orders[o].customer].tier),
           version |-> customers[orders[o].customer].version + 1,
           updatedAt |-> Now] \in Customer
      BY <3>4, DownTheLadder, NowIsNat DEF Customer
    <3>6. customers' \in [Customers -> Customer]
      BY <3>1, <3>5 DEF TypeOK
    <3>7. returns' \in Seq(Return)
      BY <3>1, <3>2, AppendProperties DEF TypeOK, Rejected, Return
    <3>8. fired' \in [DOMAIN FireAt -> BOOLEAN]
      BY <3>1 DEF TypeOK
    <3> QED
      BY <2>2, <2>14, <3>6, <3>7, <3>8 DEF Fire, Step, TypeOK
  <2>15. CASE NoFire
    BY <2>1, <2>2, <2>15 DEF NoFire, Step
  <2>16. CASE TickDone
    BY <2>1, <2>16 DEF TickDone, Phases, TypeOK
  <2>17. CASE Returned \/ UNCHANGED vars
    BY <2>17 DEF Returned, vars, state, TypeOK
  <2> QED
    BY <2>3, <2>4, <2>5, <2>6, <2>7, <2>8, <2>9, <2>10, <2>11, <2>12, <2>13, <2>14,
       <2>15, <2>16, <2>17 DEF Next
<1> QED
  BY <1>1, <1>2, PTL DEF Spec

-------------------------------------------------------------------------------
\* Returns and tickets name orders that exist, which check_invariants asks on top of
\* the types; orders are never removed, so a reference never dangles later.
References ==
  /\ \A n \in DOMAIN returns : returns[n].order \in 1..Len(orders)
  /\ \A n \in DOMAIN tickets : tickets[n].order \in 0..Len(orders)

\* check_invariants asks the types and the references, and nothing else.
LEMMA IntegrityIsReferences ==
  ASSUME TypeOK, References
  PROVE  ReferentialIntegrity
<1>1. DOMAIN orders = 1..Len(orders) /\ Len(orders) \in Nat
  BY LenProperties DEF TypeOK
<1>2. ASSUME NEW o \in DOMAIN orders
      PROVE  /\ orders[o].customer \in Customers
             /\ \A i \in DOMAIN orders[o].items : orders[o].items[i].row \in Rows
  <2>1. orders[o] \in Order
    BY <1>1, <1>2, ElementOfSeq DEF TypeOK
  <2>2. orders[o].items \in Seq(Item)
    BY <2>1 DEF Order
  <2>3. ASSUME NEW i \in DOMAIN orders[o].items
        PROVE  orders[o].items[i].row \in Rows
    <3>1. orders[o].items[i] \in Item
      BY <2>2, <2>3, ElementOfSeq, LenProperties
    <3> QED
      BY <3>1 DEF Item
  <2> QED
    BY <2>1, <2>3 DEF Order
<1>3. ASSUME NEW n \in DOMAIN tickets
      PROVE  tickets[n].customer \in Customers
  <2>1. tickets[n] \in Ticket
    BY <1>3, ElementOfSeq, LenProperties DEF TypeOK
  <2> QED
    BY <2>1 DEF Ticket
<1>4. \A r \in Rows : inventory[r] >= 0
  BY DEF TypeOK
<1>5. \A n \in DOMAIN tickets : tickets[n].order \in {0} \cup DOMAIN orders
  BY <1>1 DEF References
<1> QED
  BY <1>1, <1>2, <1>3, <1>4, <1>5 DEF References, ReferentialIntegrity

\* At every point of every run, the middle of a tick included, check_invariants
\* would find nothing to report.
THEOREM IntegrityHolds == Spec => []ReferentialIntegrity
<1>1. Init => References
  BY DEF Init, References
<1>2. TypeOK /\ TypeOK' /\ References /\ [Next]_vars => References'
  <2> SUFFICES ASSUME TypeOK, TypeOK', References, [Next]_vars PROVE References'
    OBVIOUS
  <2>1. Len(orders) \in Nat /\ Len(orders') \in Nat
    BY LenProperties DEF TypeOK
  <2>2. ASSUME Len(orders) <= Len(orders'), UNCHANGED <<returns, tickets>>
        PROVE  References'
    BY <2>1, <2>2 DEF References
  <2>3. ASSUME UNCHANGED <<orders, tickets>>,
               NEW ret, ret.order \in 1..Len(orders), returns' = Append(returns, ret),
               ret \in Return
        PROVE  References'
    BY <2>3, Appending DEF References, TypeOK
  <2>4. CASE PlaceOrder
    <3>1. Len(orders') = Len(orders) + 1
      <4>1. PICK ord : orders' = Append(orders, ord)
        BY <2>4 DEF PlaceOrder
      <4> QED
        BY <4>1 DEF TypeOK
    <3> QED
      BY <2>1, <2>2, <2>4, <3>1 DEF PlaceOrder
  <2>5. CASE AdvanceOrder
    <3>1. PICK o \in 1..Len(orders) : \E ord : orders' = [orders EXCEPT ![o] = ord]
      BY <2>5 DEF AdvanceOrder
    <3>2. Len(orders') = Len(orders)
      BY <3>1, LenProperties DEF TypeOK
    <3> QED
      BY <2>1, <2>2, <2>5, <3>2 DEF AdvanceOrder
  <2>6. CASE RequestReturn
    <3>1. PICK o \in 1..Len(orders) :
            returns' = Append(returns, [order |-> o, status |-> "REQUESTED",
                                        reason |-> "customer_request"])
      BY <2>6 DEF RequestReturn
    <3>2. [order |-> o, status |-> "REQUESTED", reason |-> "customer_request"] \in Return
      BY <2>1, <3>1 DEF Return
    <3> QED
      BY <2>3, <2>6, <3>1, <3>2 DEF RequestReturn
  <2>7. CASE Fire
    <3>1. PICK o \in Eligible : returns' = Append(returns, Rejected(o))
      BY <2>7 DEF Fire
    <3>2. Rejected(o).order \in 1..Len(orders) /\ Rejected(o) \in Return
      BY <2>1, <3>1 DEF Eligible, Rejected, Return
    <3> QED
      BY <2>3, <2>7, <3>1, <3>2 DEF Fire
  <2>8. CASE OpenTicket
    <3>1. PICK c \in Customers, o \in 0..Len(orders) :
            tickets' = Append(tickets, [customer |-> c, order |-> o, status |-> "OPEN"])
      BY <2>8 DEF OpenTicket
    <3>2. PICK tic \in Ticket : tic.order \in 0..Len(orders) /\ tickets' = Append(tickets, tic)
      BY <2>1, <3>1 DEF Ticket
    <3>3. UNCHANGED <<orders, returns>>
      BY <2>8 DEF OpenTicket
    <3>4. \A n \in DOMAIN tickets' : tickets'[n].order \in 0..Len(orders)
      BY <3>2, Appending DEF References, TypeOK
    <3> QED
      BY <3>3, <3>4 DEF References
  <2>9. CASE DraftOrder \/ DraftItem \/ BootstrapDone \/ OrdersDone \/ InventorySnapshots
    BY <2>9 DEF DraftOrder, DraftItem, BootstrapDone, OrdersDone, InventorySnapshots,
                state, References
  <2>10. CASE NoReturn \/ NoPayment \/ NoAdvance \/ RandomPayment \/ NoFire
    BY <2>10 DEF NoReturn, NoPayment, NoAdvance, RandomPayment, NoFire, state, References
  <2>11. CASE ReturnsDone \/ PaymentsDone \/ LifecycleDone \/ TicketsDone \/ TickDone
    BY <2>11 DEF ReturnsDone, PaymentsDone, LifecycleDone, TicketsDone, TickDone, Over,
                 state, References
  <2>12. CASE Returned \/ UNCHANGED vars
    BY <2>12 DEF Returned, vars, state, References
  <2> QED
    BY <2>4, <2>5, <2>6, <2>7, <2>8, <2>9, <2>10, <2>11, <2>12 DEF Next
<1>3. TypeOK /\ References => ReferentialIntegrity
  BY IntegrityIsReferences
<1> QED
  BY <1>1, <1>2, <1>3, TypeCorrect, PTL DEF Spec

-------------------------------------------------------------------------------
\* Concatenation keeps the elements of both sequences, whatever their types.
LEMMA Concatenating ==
  ASSUME NEW S, NEW s \in Seq(S), NEW T, NEW t \in Seq(T)
  PROVE  /\ s \o t \in Seq(S \cup T)
         /\ Len(s) \in Nat /\ DOMAIN s = 1..Len(s)
         /\ Len(t) \in Nat /\ DOMAIN t = 1..Len(t)
         /\ Len(s \o t) = Len(s) + Len(t) /\ DOMAIN (s \o t) = 1..Len(s) + Len(t)
         /\ \A i \in 1..Len(s) : (s \o t)[i] = s[i]
         /\ \A i \in 1..Len(t) : (s \o t)[Len(s) + i] = t[i]
<1>1. s \in Seq(S \cup T) /\ t \in Seq(S \cup T)
  BY SeqMonotonic
<1> QED
  BY <1>1, ConcatProperties, LenProperties

\* A sequence is one of the elements it has.
LEMMA OfItsElements ==
  ASSUME NEW S, NEW s \in Seq(S)
  PROVE  s \in Seq({s[i] : i \in DOMAIN s})
BY LenProperties, IsASeq

\* What a prefix tells, a longer one tells too, after more has been emitted.
LEMMA SeenStays ==
  ASSUME NEW S, NEW s \in Seq(S), NEW T, NEW t \in Seq(T),
         NEW m \in Int, NEW n \in Int, m <= n, m <= Len(s)
  PROVE  /\ \A c : CustomerSeen(s, m, c) => CustomerSeen(s \o t, n, c)
         /\ \A o, st : StatusSeen(s, m, o, st) => StatusSeen(s \o t, n, o, st)
         /\ \A o : ChargeSeen(s, m, o) => ChargeSeen(s \o t, n, o)
<1>1. \A j \in 1..m : j \in 1..n /\ (s \o t)[j] = s[j]
  BY Concatenating
<1> QED
  BY <1>1 DEF CustomerSeen, StatusSeen, ChargeSeen

\* So do the causes of a message.
LEMMA CausesStay ==
  ASSUME NEW S, NEW s \in Seq(S), NEW T, NEW t \in Seq(T),
         NEW m \in Int, NEW n \in Int, m <= n, m <= Len(s),
         NEW msg, CausesSeen(s, m, msg)
  PROVE  CausesSeen(s \o t, n, msg)
<1>1. /\ \A c : CustomerSeen(s, m, c) => CustomerSeen(s \o t, n, c)
      /\ \A o, st : StatusSeen(s, m, o, st) => StatusSeen(s \o t, n, o, st)
      /\ \A o : ChargeSeen(s, m, o) => ChargeSeen(s \o t, n, o)
  BY SeenStays
<1> QED
  BY <1>1 DEF CausesSeen

-------------------------------------------------------------------------------
\* The statuses that an order has been through.
Passed == [CREATED   |-> {"CREATED"},
           PAID      |-> {"CREATED", "PAID"},
           SHIPPED   |-> {"CREATED", "PAID", "SHIPPED"},
           DELIVERED |-> {"CREATED", "PAID", "SHIPPED", "DELIVERED"}]

\* The messages are in the order of their times, each after its causes.
Causal(s, now) ==
  /\ s \in Seq({s[i] : i \in DOMAIN s})
  /\ \A i \in 1..Len(s) :
       /\ s[i].at \in Nat /\ s[i].at <= now
       /\ i > 1 => s[i - 1].at <= s[i].at
       /\ CausesSeen(s, i - 1, s[i])

\* Whatever the generator may refer to next has been emitted: every customer, and
\* every order with each status that it has been through.
StateIsEmitted ==
  /\ \A c \in Customers : CustomerSeen(stream, Len(stream), c)
  /\ \A o \in 1..Len(orders) : \A st \in Passed[orders[o].status] :
       StatusSeen(stream, Len(stream), o, st)

StreamInv == Causal(stream, Now) /\ StateIsEmitted

\* The one that is not the first of one or two is the second.
LEMMA SecondOfTwo ==
  \A l : l = 1 \/ l = 2 => \A k \in 1..l : k # 1 => k = 2 /\ l = 2
OBVIOUS

\* Emitting messages of now, each after its causes, keeps the stream causal.
LEMMA EmittingNow ==
  ASSUME Causal(stream, Now), NEW T, NEW msgs \in Seq(T), Now \in Nat,
         \A k \in 1..Len(msgs) : /\ msgs[k].at = Now
                                 /\ CausesSeen(stream \o msgs, Len(stream) + k - 1, msgs[k])
  PROVE  Causal(stream \o msgs, Now)
<1> DEFINE S == {stream[i] : i \in DOMAIN stream}
           new == stream \o msgs
<1>1. stream \in Seq(S)
  BY DEF Causal
<1>2. /\ new \in Seq(S \cup T)
      /\ Len(stream) \in Nat /\ Len(msgs) \in Nat /\ Len(new) = Len(stream) + Len(msgs)
      /\ \A i \in 1..Len(stream) : new[i] = stream[i]
      /\ \A k \in 1..Len(msgs) : new[Len(stream) + k] = msgs[k]
  BY <1>1, Concatenating
<1>3. new \in Seq({new[i] : i \in DOMAIN new})
  <2>1. PICK longer : longer = new
    OBVIOUS
  <2>2. longer \in Seq(S \cup T)
    BY <1>2, <2>1
  <2>3. longer \in Seq({longer[i] : i \in DOMAIN longer})
    BY <2>2, OfItsElements
  <2> QED
    BY <2>1, <2>3
<1>4. ASSUME NEW i \in 1..Len(stream)
      PROVE  CausesSeen(new, i - 1, new[i])
  <2>1. CausesSeen(stream, i - 1, stream[i]) /\ new[i] = stream[i]
    BY <1>2 DEF Causal
  <2>2. PICK p : p = i - 1
    OBVIOUS
  <2>3. p \in Int /\ p <= p /\ p <= Len(stream)
    BY <1>2, <2>2
  <2>4. PICK msg : msg = stream[i]
    OBVIOUS
  <2>5. CausesSeen(stream, p, msg)
    BY <2>1, <2>2, <2>4
  <2>6. CausesSeen(stream \o msgs, p, msg)
    BY <1>1, <2>3, <2>5, CausesStay
  <2> QED
    BY <2>1, <2>2, <2>4, <2>6
<1>5. \A i \in 1..Len(new) : i \in 1..Len(stream) \/ \E k \in 1..Len(msgs) : i = Len(stream) + k
  <2> SUFFICES ASSUME NEW i \in 1..Len(new), i \notin 1..Len(stream)
               PROVE  \E k \in 1..Len(msgs) : i = Len(stream) + k
    OBVIOUS
  <2>1. i - Len(stream) \in 1..Len(msgs) /\ i = Len(stream) + (i - Len(stream))
    BY <1>2
  <2> QED
    BY <2>1
<1>6. ASSUME NEW i \in 1..Len(new)
      PROVE  new[i].at \in Nat /\ new[i].at <= Now /\ CausesSeen(new, i - 1, new[i])
  <2>1. CASE i \in 1..Len(stream)
    <3>1. stream[i].at \in Nat /\ stream[i].at <= Now
      BY <2>1 DEF Causal
    <3>2. new[i] = stream[i] /\ CausesSeen(new, i - 1, new[i])
      BY <1>2, <1>4, <2>1
    <3> QED
      BY <3>1, <3>2
  <2>2. CASE i \notin 1..Len(stream)
    <3>1. PICK k \in 1..Len(msgs) : i = Len(stream) + k
      BY <1>5, <2>2
    <3>2. new[i].at = Now /\ CausesSeen(new, i - 1, new[i])
      BY <1>2, <3>1
    <3> QED
      BY <3>2
  <2> QED
    BY <2>1, <2>2
<1>7. \A i \in 1..Len(new) : i \notin 1..Len(stream) => new[i].at = Now
  BY <1>2, <1>5
<1>8. ASSUME NEW i \in 1..Len(new), i > 1
      PROVE  new[i - 1].at <= new[i].at
  <2>1. CASE i \in 1..Len(stream)
    <3>1. i - 1 \in 1..Len(stream)
      BY <1>8, <2>1, <1>2
    <3> QED
      BY <1>2, <1>8, <2>1, <3>1 DEF Causal
  <2>2. CASE i \notin 1..Len(stream)
    <3>1. i - 1 \in 1..Len(new)
      BY <1>2, <1>8
    <3> QED
      BY <1>6, <1>7, <2>2, <3>1
  <2> QED
    BY <2>1, <2>2
<1> QED
  BY <1>3, <1>6, <1>8 DEF Causal

\* After it, everything that had been emitted still has.
LEMMA EmittedStays ==
  ASSUME TypeOK, StreamInv, NEW T, NEW msgs \in Seq(T), stream' = stream \o msgs
  PROVE  /\ \A c \in Customers : CustomerSeen(stream', Len(stream'), c)
         /\ \A o \in 1..Len(orders) : \A st \in Passed[orders[o].status] :
              StatusSeen(stream', Len(stream'), o, st)
<1> DEFINE S == {stream[i] : i \in DOMAIN stream}
<1>1. stream \in Seq(S)
  BY DEF StreamInv, Causal
<1>2. Len(stream) \in Int /\ Len(stream') \in Int /\ Len(stream) <= Len(stream')
  BY <1>1, Concatenating
<1>3. /\ \A c : CustomerSeen(stream, Len(stream), c)
               => CustomerSeen(stream', Len(stream'), c)
      /\ \A o, st : StatusSeen(stream, Len(stream), o, st)
                   => StatusSeen(stream', Len(stream'), o, st)
  BY <1>1, <1>2, SeenStays
<1> QED
  BY <1>3 DEF StreamInv, StateIsEmitted

\* A step that emits about orders as they are, or about nothing, keeps the invariant.
LEMMA EmittingKeeps ==
  ASSUME TypeOK, StreamInv, NEW T, NEW msgs \in Seq(T), stream' = stream \o msgs,
         UNCHANGED <<phase, tick, orders>>,
         \A k \in 1..Len(msgs) : /\ msgs[k].at = Now
                                 /\ CausesSeen(stream \o msgs, Len(stream) + k - 1, msgs[k])
  PROVE  StreamInv'
<1>1. Now' = Now /\ Now \in Nat
  BY NowIsNat DEF Now
<1>2. Causal(stream \o msgs, Now)
  BY <1>1, EmittingNow DEF StreamInv
<1> QED
  BY <1>1, <1>2, EmittedStays DEF StreamInv, StateIsEmitted

\* The outbox's time after a step is a number of ticks as well.
LEMMA NextNowIsNat ==
  ASSUME TypeOK'
  PROVE  Now' \in Nat
<1>1. 0 \in Nat /\ \A t \in 0..Ticks - 1 : t + 1 \in Nat
  BY TicksAssumption
<1>2. tick' \in 0..Ticks - 1
  BY DEF TypeOK
<1> QED
  BY <1>1, <1>2, Zenon DEF Now

\* So does a step that emits nothing, if it changes no order and time goes on.
LEMMA SilenceKeeps ==
  ASSUME TypeOK, TypeOK', StreamInv, UNCHANGED <<stream, orders>>, Now <= Now'
  PROVE  StreamInv'
<1>1. Now \in Nat /\ Now' \in Nat
  BY NowIsNat, NextNowIsNat
<1>2. Causal(stream, Now')
  <2>1. ASSUME NEW i \in 1..Len(stream)
        PROVE  stream[i].at \in Nat /\ stream[i].at <= Now'
    <3>1. stream[i].at \in Nat /\ stream[i].at <= Now
      BY DEF StreamInv, Causal
    <3> QED
      BY <1>1, <3>1
  <2> QED
    BY <2>1 DEF StreamInv, Causal
<1> QED
  BY <1>2 DEF StreamInv, StateIsEmitted

\* Whatever there is in the state is known to who has read the stream.
LEMMA Known ==
  ASSUME TypeOK, StreamInv, NEW T, NEW msgs \in Seq(T),
         NEW n \in Int, Len(stream) <= n
  PROVE  /\ \A c \in Customers : CustomerSeen(stream \o msgs, n, c)
         /\ \A o \in 1..Len(orders) :
              /\ StatusSeen(stream \o msgs, n, o, "CREATED")
              /\ orders[o].status = "DELIVERED" =>
                   StatusSeen(stream \o msgs, n, o, "DELIVERED")
<1> DEFINE S == {stream[i] : i \in DOMAIN stream}
<1>1. stream \in Seq(S) /\ Len(stream) \in Int /\ Len(stream) <= Len(stream)
  BY LenProperties DEF StreamInv, Causal
<1>2. /\ \A c : CustomerSeen(stream, Len(stream), c)
               => CustomerSeen(stream \o msgs, n, c)
      /\ \A o, st : StatusSeen(stream, Len(stream), o, st)
                   => StatusSeen(stream \o msgs, n, o, st)
  BY <1>1, SeenStays
<1>3. ASSUME NEW o \in 1..Len(orders)
      PROVE  /\ StatusSeen(stream, Len(stream), o, "CREATED")
             /\ orders[o].status = "DELIVERED" =>
                  StatusSeen(stream, Len(stream), o, "DELIVERED")
  <2>1. orders[o] \in Order
    BY ElementOfSeq DEF TypeOK
  <2>2. orders[o].status \in Statuses
    BY <2>1 DEF Order
  <2>3. /\ "CREATED" \in Passed[orders[o].status]
        /\ orders[o].status = "DELIVERED" => "DELIVERED" \in Passed[orders[o].status]
    BY <2>2 DEF Passed, Statuses
  <2> QED
    BY <2>3 DEF StreamInv, StateIsEmitted
<1>4. \A c \in Customers : CustomerSeen(stream, Len(stream), c)
  BY DEF StreamInv, StateIsEmitted
<1> QED
  BY <1>2, <1>3, <1>4

\* The messages of which each one tells nothing new about orders.
LEMMA EmittingOne ==
  ASSUME TypeOK, StreamInv, NEW m, m.at = Now, stream' = stream \o <<m>>,
         UNCHANGED <<phase, tick, orders>>,
         m.topic \notin {"orders", "order_items", "tier_changes"},
         m.topic = "payments" => m.key \in 1..Len(orders) /\ m.body.kind # "CAPTURED",
         m.topic = "returns" => /\ m.body.status = "REQUESTED"
                                /\ m.body.order \in 1..Len(orders)
                                /\ orders[m.body.order].status = "DELIVERED",
         m.topic = "tickets" => /\ m.body.customer \in Customers
                                /\ m.body.order \in 0..Len(orders)
  PROVE  StreamInv'
<1> DEFINE n == Len(stream)
           s == stream \o <<m>>
<1>1. <<m>> \in Seq({m}) /\ Len(<<m>>) = 1 /\ <<m>>[1] = m
  OBVIOUS
<1>2. n \in Int /\ n + 1 - 1 = n /\ Len(stream) <= n
  BY LenProperties DEF StreamInv, Causal
<1>3. /\ \A c \in Customers : CustomerSeen(s, n, c)
      /\ \A o \in 1..Len(orders) :
           /\ StatusSeen(s, n, o, "CREATED")
           /\ orders[o].status = "DELIVERED" => StatusSeen(s, n, o, "DELIVERED")
  BY <1>1, <1>2, Known
<1>4. CausesSeen(s, n, m)
  <2> HIDE DEF n, s
  <2>1. \A o \in 0..Len(orders) : o # 0 => o \in 1..Len(orders)
    BY LenProperties DEF TypeOK
  <2> QED
    BY <1>3, <2>1 DEF CausesSeen
<1>5. \A k \in 1..Len(<<m>>) : <<m>>[k].at = Now /\ CausesSeen(s, n + k - 1, <<m>>[k])
  BY <1>1, <1>2, <1>4
<1> QED
  BY <1>1, <1>5, EmittingKeeps
-------------------------------------------------------------------------------
\* A sequence with a new head.
LEMMA Heading ==
  ASSUME NEW a, NEW T, NEW t \in Seq(T)
  PROVE  /\ <<a>> \o t \in Seq({a} \cup T)
         /\ Len(<<a>> \o t) = 1 + Len(t) /\ Len(t) \in Nat
         /\ (<<a>> \o t)[1] = a
         /\ \A i \in 1..Len(t) : (<<a>> \o t)[1 + i] = t[i]
<1>1. <<a>> \in Seq({a}) /\ Len(<<a>>) = 1 /\ <<a>>[1] = a
  OBVIOUS
<1> QED
  BY <1>1, Concatenating

\* An order is placed: its event refers to the customer, and its items to the event.
LEMMA PlacingKeeps ==
  ASSUME TypeOK, StreamInv, UNCHANGED <<phase, tick>>,
         NEW ord \in Order, ord.status = "CREATED", orders' = Append(orders, ord),
         NEW T, NEW msgs \in Seq(T), stream' = stream \o msgs,
         NEW o, o = Len(orders) + 1, Len(msgs) >= 1, msgs[1] = OrderMsg(o, ord),
         \A k \in 2..Len(msgs) : /\ msgs[k].topic = "order_items"
                                 /\ msgs[k].key = o /\ msgs[k].at = Now
  PROVE  StreamInv'
<1> DEFINE n == Len(stream)
           S == {stream[i] : i \in DOMAIN stream}
<1>1. stream \in Seq(S)
  BY DEF StreamInv, Causal
<1>2. /\ n \in Nat /\ n <= n /\ Now \in Nat /\ Now' = Now
      /\ Len(orders) \in Nat /\ Len(msgs) \in Nat
      /\ Len(stream \o msgs) = n + Len(msgs) /\ (stream \o msgs)[n + 1] = msgs[1]
  <2>1. Now \in Nat /\ Now' = Now
    BY NowIsNat DEF Now
  <2>2. Len(orders) \in Nat
    BY LenProperties DEF TypeOK
  <2> HIDE DEF S
  <2> QED
    BY <1>1, <2>1, <2>2, Concatenating
<1>3. \A c \in Customers : CustomerSeen(stream \o msgs, n, c)
  <2>1. n \in Int /\ Len(stream) <= n
    BY <1>2
  <2> QED
    BY <2>1, Known
<1>4. /\ msgs[1].topic = "orders" /\ msgs[1].key = o /\ msgs[1].at = Now
      /\ msgs[1].body.status = "CREATED" /\ msgs[1].body.customer = ord.customer
      /\ ord.customer \in Customers
  BY DEF OrderMsg, Message, Order
<1>5. ASSUME NEW p \in Int, n < p
      PROVE  StatusSeen(stream \o msgs, p, o, "CREATED")
  <2>1. n + 1 \in 1..p
    BY <1>2, <1>5
  <2> HIDE DEF n
  <2> QED
    BY <1>2, <1>4, <2>1 DEF StatusSeen
<1>6. ASSUME NEW k \in 1..Len(msgs)
      PROVE  msgs[k].at = Now /\ CausesSeen(stream \o msgs, n + k - 1, msgs[k])
  <2>1. CASE k = 1
    <3>1. n + k - 1 = n
      BY <1>2, <2>1
    <3>2. CausesSeen(stream \o msgs, n, msgs[1])
      BY <1>3, <1>4 DEF CausesSeen
    <3> QED
      BY <1>4, <2>1, <3>1, <3>2
  <2>2. CASE k # 1
    <3>1. /\ k \in 2..Len(msgs) /\ n + k - 1 \in Int /\ n < n + k - 1
      BY <1>2, <2>2
    <3>2. StatusSeen(stream \o msgs, n + k - 1, o, "CREATED")
      BY <1>5, <3>1
    <3> QED
      BY <3>1, <3>2 DEF CausesSeen
  <2> QED
    BY <2>1, <2>2
<1>7. Causal(stream \o msgs, Now)
  BY <1>2, <1>6, EmittingNow DEF StreamInv
<1>8. /\ \A c \in Customers : CustomerSeen(stream', Len(stream'), c)
      /\ \A p \in 1..Len(orders) : \A st \in Passed[orders[p].status] :
           StatusSeen(stream', Len(stream'), p, st)
  BY EmittedStays
<1>9. StatusSeen(stream', Len(stream'), o, "CREATED")
  <2>1. n + Len(msgs) \in Int /\ n < n + Len(msgs)
    BY <1>2
  <2>2. StatusSeen(stream \o msgs, n + Len(msgs), o, "CREATED")
    BY <1>5, <2>1
  <2> QED
    BY <1>2, <2>2
<1>10. /\ Len(orders') = o /\ orders'[o] = ord
       /\ \A p \in 1..Len(orders) : orders'[p] = orders[p]
  BY Appending, LenProperties DEF TypeOK
<1>11. \A p \in 1..Len(orders') : \A st \in Passed[orders'[p].status] :
         StatusSeen(stream', Len(stream'), p, st)
  <2>1. Passed[orders'[o].status] = {"CREATED"}
    BY <1>10 DEF Passed
  <2>2. \A p \in 1..Len(orders') : p = o \/ p \in 1..Len(orders)
    BY <1>2, <1>10
  <2> QED
    BY <1>8, <1>9, <1>10, <2>1, <2>2
<1> QED
  BY <1>2, <1>7, <1>8, <1>11 DEF StreamInv, StateIsEmitted

\* PlaceOrder emits the event of the order it appends, and messages of its items.
LEMMA PlaceOrderKeeps ==
  ASSUME TypeOK, StreamInv, PlaceOrder
  PROVE  StreamInv'
<1>1. PICK items, ord :
        /\ items = draft[1].items
        /\ ord = [customer |-> draft[1].customer, status |-> "CREATED", items |-> items]
        /\ orders' = Append(orders, ord)
        /\ stream' = stream \o (<<OrderMsg(Len(orders) + 1, ord)>>
                         \o [i \in DOMAIN items |-> ItemMsg(Len(orders) + 1, items[i])])
  BY DEF PlaceOrder, Emit
<1>2. draft[1] \in Draft
  BY EmptySeq, ElementOfSeq DEF PlaceOrder, TypeOK
<1>3. items \in Seq(Item) /\ ord \in Order /\ ord.status = "CREATED"
  BY <1>1, <1>2 DEF Draft, Order, Statuses
<1>4. PICK o, tail : o = Len(orders) + 1 /\ tail = [i \in DOMAIN items |-> ItemMsg(o, items[i])]
  OBVIOUS
<1> DEFINE T == {ItemMsg(o, items[i]) : i \in DOMAIN items}
<1>5. /\ tail \in Seq(T)
      /\ Len(tail) = Len(items) /\ Len(items) \in Nat
      /\ \A i \in 1..Len(items) : tail[i] = ItemMsg(o, items[i])
  BY <1>3, <1>4, LenProperties, IsASeq
<1> HIDE DEF T
<1>6. PICK msgs : msgs = <<OrderMsg(o, ord)>> \o tail
  OBVIOUS
<1>7. /\ msgs \in Seq({OrderMsg(o, ord)} \cup T)
      /\ Len(msgs) = 1 + Len(items) /\ msgs[1] = OrderMsg(o, ord)
      /\ \A i \in 1..Len(items) : msgs[1 + i] = ItemMsg(o, items[i])
  BY <1>5, <1>6, Heading
<1>8. ASSUME NEW k \in 2..Len(msgs)
      PROVE  msgs[k].topic = "order_items" /\ msgs[k].key = o /\ msgs[k].at = Now
  <2>1. k - 1 \in 1..Len(items) /\ 1 + (k - 1) = k
    BY <1>5, <1>7
  <2>2. msgs[k] = ItemMsg(o, items[k - 1])
    BY <1>7, <2>1
  <2> QED
    BY <2>2 DEF ItemMsg, Message
<1>9. UNCHANGED <<phase, tick>> /\ stream' = stream \o msgs /\ Len(msgs) >= 1
  BY <1>1, <1>4, <1>5, <1>6, <1>7 DEF PlaceOrder
<1> QED
  BY <1>1, <1>3, <1>4, <1>7, <1>8, <1>9, PlacingKeeps

\* An order that can advance is an order when it has.
LEMMA Advanced ==
  ASSUME TypeOK, NEW o \in 1..Len(orders), orders[o].status \in DOMAIN NextStatus
  PROVE  LET ord == [orders[o] EXCEPT !.status = NextStatus[orders[o].status]]
         IN ord \in Order /\ ord.status = NextStatus[orders[o].status]
<1>1. orders[o] \in Order /\ NextStatus[orders[o].status] \in Statuses
  BY ElementOfSeq DEF TypeOK, NextStatus, Statuses
<1> QED
  BY <1>1 DEF Order

\* An order advances: its event needs the order, and the capture needs the event.
LEMMA AdvancingKeeps ==
  ASSUME TypeOK, StreamInv, UNCHANGED <<phase, tick>>,
         NEW o \in 1..Len(orders), orders[o].status \in DOMAIN NextStatus,
         NEW ord \in Order, ord.status = NextStatus[orders[o].status],
         orders' = [orders EXCEPT ![o] = ord],
         NEW msgs, msgs = AdvanceMsgs(o, ord), stream' = stream \o msgs
  PROVE  StreamInv'
<1> DEFINE n == Len(stream)
           S == {stream[i] : i \in DOMAIN stream}
           T == {OrderMsg(o, ord), PaymentMsg(o, "CAPTURED")}
<1>2. ord.customer \in Customers
  BY DEF Order
<1>3. /\ ord.status # "CREATED"
      /\ Passed[ord.status] = Passed[orders[o].status] \cup {ord.status}
  BY DEF NextStatus, Passed
<1>4. /\ msgs \in Seq(T) /\ msgs[1] = OrderMsg(o, ord)
      /\ \/ Len(msgs) = 1
         \/ Len(msgs) = 2 /\ ord.status = "PAID" /\ msgs[2] = PaymentMsg(o, "CAPTURED")
  <2>1. CASE ord.status = "PAID"
    BY <2>1 DEF AdvanceMsgs
  <2>2. CASE ord.status # "PAID"
    BY <2>2 DEF AdvanceMsgs
  <2> QED
    BY <2>1, <2>2
<1> HIDE DEF T
<1>5. /\ n \in Nat /\ Now \in Nat /\ Now' = Now /\ Len(orders) \in Nat
      /\ Len(stream \o msgs) = n + Len(msgs) /\ (stream \o msgs)[n + 1] = msgs[1]
  <2>1. stream \in Seq(S)
    BY DEF StreamInv, Causal
  <2>2. Now \in Nat /\ Now' = Now
    BY NowIsNat DEF Now
  <2>3. Len(orders) \in Nat
    BY LenProperties DEF TypeOK
  <2> HIDE DEF S
  <2> QED
    BY <1>4, <2>1, <2>2, <2>3, Concatenating
<1>6. ASSUME NEW p \in Int, n <= p
      PROVE  /\ CustomerSeen(stream \o msgs, p, ord.customer)
             /\ StatusSeen(stream \o msgs, p, o, "CREATED")
  BY <1>2, <1>4, <1>6, Known
<1>7. /\ msgs[1].topic = "orders" /\ msgs[1].key = o /\ msgs[1].at = Now
      /\ msgs[1].body.status = ord.status /\ msgs[1].body.customer = ord.customer
  BY <1>4 DEF OrderMsg, Message
<1>8. ASSUME NEW p \in Int, n < p
      PROVE  StatusSeen(stream \o msgs, p, o, ord.status)
  <2>1. n + 1 \in 1..p
    BY <1>5, <1>8
  <2> HIDE DEF n
  <2> QED
    BY <1>5, <1>7, <2>1 DEF StatusSeen
<1>9. ASSUME NEW k \in 1..Len(msgs)
      PROVE  msgs[k].at = Now /\ CausesSeen(stream \o msgs, n + k - 1, msgs[k])
  <2>1. CASE k = 1
    <3>1. n + k - 1 = n /\ n \in Int /\ n <= n
      BY <1>5, <2>1
    <3>2. /\ CustomerSeen(stream \o msgs, n, ord.customer)
          /\ StatusSeen(stream \o msgs, n, o, "CREATED")
      BY <1>6, <3>1
    <3>3. CausesSeen(stream \o msgs, n, msgs[1])
      BY <1>7, <3>2 DEF CausesSeen
    <3> QED
      BY <1>7, <2>1, <3>1, <3>3
  <2>2. CASE k # 1
    <3>6. Len(msgs) = 1 \/ Len(msgs) = 2
      BY <1>4
    <3>7. k = 2 /\ Len(msgs) = 2
      BY <2>2, <3>6, SecondOfTwo
    <3>1. k = 2 /\ Len(msgs) = 2 /\ n + k - 1 = n + 1
      BY <1>5, <3>7
    <3>2. n + 1 \in Int /\ n <= n + 1 /\ n < n + 1
      BY <1>5
    <3>3. /\ StatusSeen(stream \o msgs, n + 1, o, "CREATED")
          /\ StatusSeen(stream \o msgs, n + 1, o, "PAID")
      BY <1>4, <1>6, <1>8, <3>1, <3>2
    <3>4. msgs[2].topic = "payments" /\ msgs[2].key = o /\ msgs[2].at = Now
      BY <1>4, <3>1 DEF PaymentMsg, Message
    <3>5. CausesSeen(stream \o msgs, n + 1, msgs[2])
      BY <3>3, <3>4 DEF CausesSeen
    <3> QED
      BY <3>1, <3>4, <3>5
  <2> QED
    BY <2>1, <2>2
<1>10. Causal(stream \o msgs, Now)
  BY <1>4, <1>5, <1>9, EmittingNow DEF StreamInv
<1>11. /\ \A c \in Customers : CustomerSeen(stream', Len(stream'), c)
       /\ \A p \in 1..Len(orders) : \A st \in Passed[orders[p].status] :
            StatusSeen(stream', Len(stream'), p, st)
  BY <1>4, EmittedStays
<1>12. StatusSeen(stream', Len(stream'), o, ord.status)
  <2>1. n + Len(msgs) \in Int /\ n < n + Len(msgs)
    BY <1>4, <1>5
  <2>2. StatusSeen(stream \o msgs, n + Len(msgs), o, ord.status)
    BY <1>8, <2>1
  <2> QED
    BY <1>5, <2>2
<1>13. /\ Len(orders') = Len(orders)
       /\ \A p \in 1..Len(orders) : orders'[p] = IF p = o THEN ord ELSE orders[p]
  BY LenProperties DEF TypeOK
<1>14. \A p \in 1..Len(orders') : \A st \in Passed[orders'[p].status] :
         StatusSeen(stream', Len(stream'), p, st)
  <2> SUFFICES ASSUME NEW p \in 1..Len(orders), NEW st \in Passed[orders'[p].status]
               PROVE  StatusSeen(stream', Len(stream'), p, st)
    BY <1>13
  <2>1. CASE p = o
    <3>1. st \in Passed[orders[o].status] \/ st = ord.status
      BY <1>3, <1>13, <2>1
    <3> QED
      BY <1>11, <1>12, <2>1, <3>1
  <2>2. CASE p # o
    <3>1. st \in Passed[orders[p].status]
      BY <1>13, <2>2
    <3> QED
      BY <1>11, <3>1
  <2> QED
    BY <2>1, <2>2
<1> QED
  BY <1>5, <1>10, <1>11, <1>14 DEF StreamInv, StateIsEmitted

\* A scenario fires: the rejected return comes after the chargeback that it names.
LEMMA FiringKeeps ==
  ASSUME TypeOK, StreamInv, UNCHANGED <<phase, tick, orders>>,
         NEW o \in 1..Len(orders), NEW c \in Customers, NEW old, NEW new, NEW r,
         NEW msgs, msgs = FireMsgs(o, c, old, new, r), stream' = stream \o msgs
  PROVE  StreamInv'
<1> DEFINE n == Len(stream)
           S == {stream[i] : i \in DOMAIN stream}
           T == {PaymentMsg(o, "CHARGEBACK"), TierMsg(c, old.tier, new.tier),
                 CustomerMsg(c, new), ReturnMsg(r, Rejected(o))}
<1>1. /\ msgs \in Seq(T) /\ Len(msgs) = 4
      /\ msgs[1] = PaymentMsg(o, "CHARGEBACK") /\ msgs[2] = TierMsg(c, old.tier, new.tier)
      /\ msgs[3] = CustomerMsg(c, new) /\ msgs[4] = ReturnMsg(r, Rejected(o))
  BY DEF FireMsgs
<1>2. /\ msgs[1].topic = "payments" /\ msgs[1].key = o /\ msgs[1].at = Now
      /\ msgs[1].body.kind = "CHARGEBACK"
      /\ msgs[2].topic = "tier_changes" /\ msgs[2].key = c /\ msgs[2].at = Now
      /\ msgs[3].topic = "customers" /\ msgs[3].at = Now
      /\ msgs[4].topic = "returns" /\ msgs[4].at = Now
      /\ msgs[4].body.status = "REJECTED" /\ msgs[4].body.order = o
  BY <1>1 DEF PaymentMsg, TierMsg, CustomerMsg, ReturnMsg, Rejected, Message
<1> HIDE DEF T
<1>3. n \in Nat /\ (stream \o msgs)[n + 1] = msgs[1]
  <2>1. stream \in Seq(S)
    BY DEF StreamInv, Causal
  <2>2. msgs \in Seq(T) /\ 1 \in 1..Len(msgs)
    BY <1>1
  <2> HIDE DEF S
  <2> QED
    BY <2>1, <2>2, Concatenating
<1>4. ASSUME NEW p \in Int, n <= p
      PROVE  /\ CustomerSeen(stream \o msgs, p, c)
             /\ StatusSeen(stream \o msgs, p, o, "CREATED")
  BY <1>1, <1>4, Known
<1>5. ChargeSeen(stream \o msgs, n + 3, o)
  <2>1. n + 1 \in 1..n + 3
    BY <1>3
  <2> HIDE DEF n
  <2> QED
    BY <1>2, <1>3, <2>1 DEF ChargeSeen
<1>6. CausesSeen(stream \o msgs, n, msgs[1])
  <2>1. StatusSeen(stream \o msgs, n, o, "CREATED")
    BY <1>3, <1>4
  <2> QED
    BY <1>2, <2>1 DEF CausesSeen
<1>7. CausesSeen(stream \o msgs, n + 1, msgs[2])
  <2>1. CustomerSeen(stream \o msgs, n + 1, c)
    BY <1>3, <1>4
  <2> QED
    BY <1>2, <2>1 DEF CausesSeen
<1>8. CausesSeen(stream \o msgs, n + 2, msgs[3])
  BY <1>2 DEF CausesSeen
<1>9. CausesSeen(stream \o msgs, n + 3, msgs[4])
  BY <1>2, <1>5 DEF CausesSeen
<1>10. ASSUME NEW k \in 1..Len(msgs)
       PROVE  msgs[k].at = Now /\ CausesSeen(stream \o msgs, n + k - 1, msgs[k])
  <2>1. k \in {1, 2, 3, 4}
    BY <1>1
  <2>2. n + 1 - 1 = n /\ n + 2 - 1 = n + 1 /\ n + 3 - 1 = n + 2 /\ n + 4 - 1 = n + 3
    BY <1>3
  <2> HIDE DEF n
  <2> QED
    BY <1>2, <1>6, <1>7, <1>8, <1>9, <2>1, <2>2
<1> QED
  BY <1>1, <1>10, EmittingKeeps
-------------------------------------------------------------------------------
\* A loop that ends does not take the outbox's time back.
LEMMA TimeGoesOn ==
  ASSUME TypeOK,
         \/ UNCHANGED <<phase, tick>>
         \/ phase # "bootstrap" /\ phase' # "bootstrap" /\ tick' \in {tick, tick + 1}
         \/ phase = "bootstrap" /\ phase' # "bootstrap" /\ tick' = tick
  PROVE  Now <= Now'
<1>1. tick \in Nat
  BY TicksAssumption DEF TypeOK
<1>2. CASE UNCHANGED <<phase, tick>>
  BY <1>1, <1>2 DEF Now
<1>3. CASE phase # "bootstrap" /\ phase' # "bootstrap" /\ tick' \in {tick, tick + 1}
  <2>1. Now = tick + 1 /\ (Now' = tick + 1 \/ Now' = (tick + 1) + 1)
    BY <1>3 DEF Now
  <2> QED
    BY <1>1, <2>1
<1>4. CASE phase = "bootstrap" /\ phase' # "bootstrap" /\ tick' = tick
  <2>1. Now = 0 /\ Now' = tick + 1
    BY <1>4 DEF Now
  <2> QED
    BY <1>1, <2>1
<1> QED
  BY <1>2, <1>3, <1>4

\* The stream starts with the customers and the stock.
LEMMA InitMessages ==
  ASSUME Init
  PROVE  /\ stream \in Seq({stream[i] : i \in DOMAIN stream}) /\ Len(stream) \in Nat
         /\ \A i \in 1..Len(stream) : /\ stream[i].at = 0
                                      /\ stream[i].topic \in {"customers", "inventory"}
         /\ \A c \in Customers : /\ c \in 1..Len(stream)
                                 /\ stream[c].topic = "customers" /\ stream[c].key = c
<1> DEFINE cs == [c \in Customers |-> CustomerMsg(c, customers[c])]
           C  == {CustomerMsg(c, customers[c]) : c \in Customers}
           R  == {SnapshotMsg(r, inventory[r]) : r \in Rows}
<1>1. cs \in Seq(C) /\ Len(cs) = NCustomers /\ \A c \in Customers : cs[c] = CustomerMsg(c, customers[c])
  BY IsASeq, SizesAssumption DEF Customers
<1>2. SnapshotMsgs(inventory) \in Seq(R)
  BY IsASeq, SizesAssumption DEF Rows, SnapshotMsgs
<1>3. stream = cs \o SnapshotMsgs(inventory) /\ Now = 0
  BY DEF Init, Now
<1>4. ASSUME NEW m \in C \cup R
      PROVE  m.at = 0 /\ m.topic \in {"customers", "inventory"}
  BY <1>3 DEF CustomerMsg, SnapshotMsg, Message
<1>5. \A c \in Customers : cs[c].topic = "customers" /\ cs[c].key = c
  BY <1>1 DEF CustomerMsg, Message
<1> HIDE DEF cs, C, R
<1>6. /\ stream \in Seq(C \cup R) /\ Len(cs) <= Len(stream) /\ Len(stream) \in Nat
      /\ \A c \in Customers : stream[c] = cs[c]
  <2>1. PICK s, t : s = cs /\ t = SnapshotMsgs(inventory)
    OBVIOUS
  <2>2. s \in Seq(C) /\ t \in Seq(R) /\ stream = s \o t
    BY <1>1, <1>2, <1>3, <2>1
  <2>3. /\ s \o t \in Seq(C \cup R) /\ Len(s) \in Nat /\ Len(t) \in Nat
        /\ Len(s \o t) = Len(s) + Len(t)
        /\ \A i \in 1..Len(s) : (s \o t)[i] = s[i]
    BY <2>2, Concatenating
  <2>4. Len(s) <= Len(stream) /\ Len(stream) \in Nat
    BY <2>2, <2>3
  <2>5. \A c \in Customers : stream[c] = s[c]
    BY <1>1, <2>1, <2>2, <2>3 DEF Customers
  <2> QED
    BY <2>1, <2>2, <2>3, <2>4, <2>5
<1>7. ASSUME NEW i \in 1..Len(stream)
      PROVE  stream[i].at = 0 /\ stream[i].topic \in {"customers", "inventory"}
  <2>1. stream[i] \in C \cup R
    BY <1>6, ElementOfSeq
  <2> QED
    BY <1>4, <2>1
<1>8. \A c \in Customers : c \in 1..Len(stream)
  BY <1>1, <1>6, SizesAssumption DEF Customers
<1>9. stream \in Seq({stream[i] : i \in DOMAIN stream})
  BY <1>6, OfItsElements
<1> QED
  BY <1>5, <1>6, <1>7, <1>8, <1>9

\* They refer to nothing, and there are no orders yet.
LEMMA InitStream == TypeOK /\ Init => StreamInv
<1> SUFFICES ASSUME TypeOK, Init PROVE StreamInv
  OBVIOUS
<1>1. Now = 0 /\ orders = <<>>
  BY DEF Init, Now
<1>2. /\ stream \in Seq({stream[i] : i \in DOMAIN stream}) /\ Len(stream) \in Nat
      /\ \A i \in 1..Len(stream) : /\ stream[i].at = 0
                                   /\ stream[i].topic \in {"customers", "inventory"}
      /\ \A c \in Customers : /\ c \in 1..Len(stream)
                              /\ stream[c].topic = "customers" /\ stream[c].key = c
  BY InitMessages
<1>3. ASSUME NEW i \in 1..Len(stream)
      PROVE  /\ stream[i].at \in Nat /\ stream[i].at <= Now
             /\ i > 1 => stream[i - 1].at <= stream[i].at
  <2>1. stream[i].at = 0 /\ (i > 1 => stream[i - 1].at = 0)
    <3>1. i > 1 => i - 1 \in 1..Len(stream)
      BY <1>2
    <3> QED
      BY <1>2, <3>1
  <2>2. stream[i].at \in Nat /\ stream[i].at <= Now
    BY <1>1, <2>1
  <2>3. ASSUME i > 1 PROVE stream[i - 1].at <= stream[i].at
    BY <2>1, <2>3
  <2> QED
    BY <2>2, <2>3
<1>4. ASSUME NEW i \in 1..Len(stream)
      PROVE  CausesSeen(stream, i - 1, stream[i])
  BY <1>2 DEF CausesSeen
<1>5. Causal(stream, Now)
  BY <1>2, <1>3, <1>4 DEF Causal
<1>6. \A c \in Customers : CustomerSeen(stream, Len(stream), c)
  BY <1>2 DEF CustomerSeen
<1> QED
  BY <1>1, <1>5, <1>6 DEF StreamInv, StateIsEmitted

\* Every step keeps the stream causal and the state told.
LEMMA NextStream == TypeOK /\ TypeOK' /\ StreamInv /\ [Next]_vars => StreamInv'
<1> SUFFICES ASSUME TypeOK, TypeOK', StreamInv, [Next]_vars PROVE StreamInv'
  OBVIOUS
<1>1. CASE PlaceOrder
  BY <1>1, PlaceOrderKeeps
<1>2. CASE InventorySnapshots
  <2>1. UNCHANGED tick /\ phase = "snapshots" /\ phase' = "returns" /\ UNCHANGED orders
    BY <1>2 DEF InventorySnapshots, GoTo, state
  <2>2. Now' = Now /\ Now \in Nat
    BY <2>1, NowIsNat DEF Now
  <2>3. CASE UNCHANGED stream
    <3>1. Now <= Now'
      BY <2>2
    <3> QED
      BY <2>1, <2>3, <3>1, SilenceKeeps
  <2>4. CASE stream' = stream \o SnapshotMsgs(inventory)
    <3> DEFINE R == {SnapshotMsg(r, inventory[r]) : r \in Rows}
    <3>1. PICK msgs : msgs = SnapshotMsgs(inventory)
      OBVIOUS
    <3>2. /\ msgs \in Seq(R) /\ DOMAIN msgs = 1..Len(msgs) /\ DOMAIN msgs = Rows
          /\ \A r \in Rows : msgs[r] = SnapshotMsg(r, inventory[r])
      BY <3>1, IsASeq, LenProperties, SizesAssumption DEF Rows, SnapshotMsgs
    <3>3. ASSUME NEW k \in 1..Len(msgs)
          PROVE  msgs[k].at = Now /\ CausesSeen(stream \o msgs, Len(stream) + k - 1, msgs[k])
      <4>1. msgs[k].topic = "inventory" /\ msgs[k].at = Now
        BY <3>2 DEF SnapshotMsg, Message
      <4> QED
        BY <4>1 DEF CausesSeen
    <3> HIDE DEF R
    <3>4. Causal(stream', Now')
      BY <2>2, <2>4, <3>1, <3>2, <3>3, EmittingNow DEF StreamInv
    <3>5. /\ \A c \in Customers : CustomerSeen(stream', Len(stream'), c)
          /\ \A o \in 1..Len(orders) : \A st \in Passed[orders[o].status] :
               StatusSeen(stream', Len(stream'), o, st)
      BY <2>4, <3>1, <3>2, EmittedStays
    <3> QED
      BY <2>1, <3>4, <3>5 DEF StreamInv, StateIsEmitted
  <2> QED
    BY <1>2, <2>3, <2>4 DEF InventorySnapshots, Emit
<1>3. CASE RequestReturn
  <2>1. PICK o \in 1..Len(orders) :
          /\ orders[o].status = "DELIVERED"
          /\ stream' = stream \o <<ReturnMsg(Len(returns) + 1,
                [order |-> o, status |-> "REQUESTED", reason |-> "customer_request"])>>
    BY <1>3 DEF RequestReturn, Emit
  <2>2. UNCHANGED <<phase, tick, orders>>
    BY <1>3 DEF RequestReturn, Step
  <2>3. PICK m : m = ReturnMsg(Len(returns) + 1,
                [order |-> o, status |-> "REQUESTED", reason |-> "customer_request"])
    OBVIOUS
  <2>4. /\ m.at = Now /\ m.topic = "returns" /\ m.body.order = o
        /\ m.body.status = "REQUESTED"
    BY <2>3 DEF ReturnMsg, Message
  <2>5. stream' = stream \o <<m>>
    BY <2>1, <2>3
  <2> QED
    BY <2>1, <2>2, <2>4, <2>5, EmittingOne
<1>4. CASE RandomPayment
  <2>1. PICK o \in 1..Len(orders), kind \in {"FAILED", "REFUND"} :
          stream' = stream \o <<PaymentMsg(o, kind)>>
    BY <1>4 DEF RandomPayment, Emit
  <2>2. UNCHANGED <<phase, tick, orders>>
    BY <1>4 DEF RandomPayment, Step, state
  <2>3. PICK m : m = PaymentMsg(o, kind)
    OBVIOUS
  <2>4. m.at = Now /\ m.topic = "payments" /\ m.key = o /\ m.body.kind # "CAPTURED"
    BY <2>3 DEF PaymentMsg, Message
  <2>5. stream' = stream \o <<m>>
    BY <2>1, <2>3
  <2> QED
    BY <2>2, <2>4, <2>5, EmittingOne
<1>5. CASE OpenTicket
  <2>1. PICK c \in Customers, o \in 0..Len(orders) :
          stream' = stream \o <<TicketMsg(Len(tickets) + 1,
                                         [customer |-> c, order |-> o, status |-> "OPEN"])>>
    BY <1>5 DEF OpenTicket, Emit
  <2>2. UNCHANGED <<phase, tick, orders>>
    BY <1>5 DEF OpenTicket
  <2>3. PICK m : m = TicketMsg(Len(tickets) + 1, [customer |-> c, order |-> o, status |-> "OPEN"])
    OBVIOUS
  <2>4. m.at = Now /\ m.topic = "tickets" /\ m.body.customer = c /\ m.body.order = o
    BY <2>3 DEF TicketMsg, Message
  <2>5. stream' = stream \o <<m>>
    BY <2>1, <2>3
  <2> QED
    BY <2>2, <2>4, <2>5, EmittingOne
<1>6. CASE AdvanceOrder
  <2>1. PICK o \in 1..Len(orders), ord \in Order :
          /\ orders[o].status \in DOMAIN NextStatus
          /\ ord.status = NextStatus[orders[o].status]
          /\ orders' = [orders EXCEPT ![o] = ord]
          /\ stream' = stream \o AdvanceMsgs(o, ord)
    BY <1>6, Advanced DEF AdvanceOrder, Emit
  <2>2. UNCHANGED <<phase, tick>>
    BY <1>6 DEF AdvanceOrder, Step
  <2> QED
    BY <2>1, <2>2, AdvancingKeeps
<1>7. CASE Fire
  <2>1. PICK o, new :
          /\ o \in Eligible
          /\ stream' = stream \o FireMsgs(o, orders[o].customer, customers[orders[o].customer],
                                         new, Len(returns) + 1)
    BY <1>7 DEF Fire, Emit
  <2>2. UNCHANGED <<phase, tick, orders>>
    BY <1>7 DEF Fire, Step
  <2>3. o \in 1..Len(orders)
    BY <2>1 DEF Eligible
  <2>4. orders[o].customer \in Customers
    <3>1. orders[o] \in Order
      BY <2>3, ElementOfSeq DEF TypeOK
    <3> QED
      BY <3>1 DEF Order
  <2> QED
    BY <2>1, <2>2, <2>3, <2>4, FiringKeeps
<1>8. ASSUME UNCHANGED <<stream, orders>>,
             \/ UNCHANGED <<phase, tick>>
             \/ phase # "bootstrap" /\ phase' # "bootstrap" /\ tick' \in {tick, tick + 1}
             \/ phase = "bootstrap" /\ phase' # "bootstrap" /\ tick' = tick
      PROVE  StreamInv'
  <2>1. Now <= Now'
    BY <1>8, TimeGoesOn
  <2> QED
    BY <1>8, <2>1, SilenceKeeps
<1>9. CASE DraftOrder \/ DraftItem
  BY <1>8, <1>9 DEF DraftOrder, DraftItem, state
<1>10. CASE BootstrapDone \/ OrdersDone
  BY <1>8, <1>10 DEF BootstrapDone, OrdersDone, GoTo, state
<1>11. CASE NoReturn \/ NoPayment \/ NoAdvance \/ NoFire
  BY <1>8, <1>11 DEF NoReturn, NoPayment, NoAdvance, NoFire, Step, state
<1>12. CASE ReturnsDone \/ PaymentsDone \/ LifecycleDone \/ TicketsDone
  BY <1>8, <1>12 DEF ReturnsDone, PaymentsDone, LifecycleDone, TicketsDone, Over, GoTo, state
<1>13. CASE TickDone
  BY <1>8, <1>13 DEF TickDone, state
<1>14. CASE Returned \/ UNCHANGED vars
  BY <1>8, <1>14 DEF Returned, vars, state
<1> QED
  BY <1>1, <1>2, <1>3, <1>4, <1>5, <1>6, <1>7, <1>9, <1>10, <1>11, <1>12, <1>13, <1>14
     DEF Next

\* A consumer of any prefix of the stream has seen what each message refers to and
\* what justifies it, and times never go back: in every run, of any size.
THEOREM StreamCausal == Spec => []StreamIsCausal
<1>1. TypeOK /\ StreamInv => StreamIsCausal
  <2>1. TypeOK /\ StreamInv => DOMAIN stream = 1..Len(stream)
    BY LenProperties DEF StreamInv, Causal
  <2> QED
    BY <2>1 DEF StreamInv, Causal, StreamIsCausal
<1> QED
  BY <1>1, InitStream, NextStream, TypeCorrect, PTL DEF Spec

-------------------------------------------------------------------------------
(* The lifecycle. *)

\* The captures of an order.
Captures(o) == Payments(o, {"CAPTURED"})
IsCapture(m, o) == m.topic = "payments" /\ m.key = o /\ m.body.kind = "CAPTURED"

\* The order may still have its turn in the lifecycle loop of this tick.
Ahead(o) == \/ phase \notin {"lifecycle", "scenarios", "done"}
            \/ phase = "lifecycle" /\ o >= cursor

\* What is emitted about orders is about orders that exist.
OrdersExist ==
  \A i \in 1..Len(stream) :
    stream[i].topic \in {"orders", "payments"} => stream[i].key \in 1..Len(orders)

\* An order has a capture exactly when it has left its first status.
CapturedOnce ==
  \A o \in 1..Len(orders) :
    IF orders[o].status = "CREATED" THEN Captures(o) = {}
                                    ELSE \E i \in 1..Len(stream) : Captures(o) = {i}

\* Of two events of an order in a tick, the first is its creation.
OneStepATick ==
  \A i, j \in 1..Len(stream) :
    /\ i < j
    /\ stream[i].topic = "orders" /\ stream[j].topic = "orders"
    /\ stream[i].key = stream[j].key /\ stream[i].at = stream[j].at
    => stream[i].body.status = "CREATED"

\* An order that may still advance in this tick has not done so yet.
TurnsAhead ==
  \A i \in 1..Len(stream) :
    stream[i].topic = "orders" /\ stream[i].at = Now /\ Ahead(stream[i].key)
      => stream[i].body.status = "CREATED"

LifecycleInv == OrdersExist /\ CapturedOnce /\ OneStepATick /\ TurnsAhead

-------------------------------------------------------------------------------
\* The stream after emitting.
LEMMA Grown ==
  ASSUME StreamInv, NEW T, NEW msgs \in Seq(T), stream' = stream \o msgs
  PROVE  /\ Len(stream) \in Nat /\ Len(stream') \in Nat /\ Len(msgs) \in Nat
         /\ Len(stream') = Len(stream) + Len(msgs)
         /\ DOMAIN stream = 1..Len(stream) /\ DOMAIN stream' = 1..Len(stream')
         /\ \A i \in 1..Len(stream) : i \in 1..Len(stream') /\ stream'[i] = stream[i]
         /\ \A k \in 1..Len(msgs) : stream'[Len(stream) + k] = msgs[k]
         /\ \A i \in 1..Len(stream') :
              i \in 1..Len(stream) \/ \E k \in 1..Len(msgs) : /\ i = Len(stream) + k
                                                             /\ stream'[i] = msgs[k]
<1> DEFINE S == {stream[i] : i \in DOMAIN stream}
<1>1. stream \in Seq(S)
  BY DEF StreamInv, Causal
<1> HIDE DEF S
<1>2. PICK new : new = stream \o msgs
  OBVIOUS
<1>3. /\ Len(stream) \in Nat /\ Len(new) \in Nat /\ Len(msgs) \in Nat
      /\ Len(new) = Len(stream) + Len(msgs)
      /\ DOMAIN stream = 1..Len(stream) /\ DOMAIN new = 1..Len(new)
      /\ \A i \in 1..Len(stream) : new[i] = stream[i]
      /\ \A k \in 1..Len(msgs) : new[Len(stream) + k] = msgs[k]
  BY <1>1, <1>2, Concatenating
<1>4. \A i \in 1..Len(stream) : i \in 1..Len(new)
  BY <1>3
<1>5. ASSUME NEW i \in 1..Len(new), i \notin 1..Len(stream)
      PROVE  \E k \in 1..Len(msgs) : i = Len(stream) + k /\ new[i] = msgs[k]
  <2>1. i - Len(stream) \in 1..Len(msgs) /\ i = Len(stream) + (i - Len(stream))
    BY <1>3, <1>5
  <2> QED
    BY <1>3, <2>1
<1> QED
  BY <1>2, <1>3, <1>4, <1>5

\* Messages that are neither orders' events nor captures change no order's captures.
LEMMA QuietEmission ==
  ASSUME StreamInv, LifecycleInv, UNCHANGED orders, Now' = Now,
         NEW T, NEW msgs \in Seq(T), stream' = stream \o msgs,
         \A k \in 1..Len(msgs) :
           /\ msgs[k].topic # "orders"
           /\ msgs[k].topic = "payments" => /\ msgs[k].key \in 1..Len(orders)
                                            /\ msgs[k].body.kind # "CAPTURED",
         \A o \in 1..Len(orders) : Ahead(o)' => Ahead(o)
  PROVE  LifecycleInv'
<1>1. /\ DOMAIN stream = 1..Len(stream) /\ DOMAIN stream' = 1..Len(stream')
      /\ \A i \in 1..Len(stream) : i \in 1..Len(stream') /\ stream'[i] = stream[i]
      /\ \A i \in 1..Len(stream') :
           i \in 1..Len(stream) \/ \E k \in 1..Len(msgs) : stream'[i] = msgs[k]
  BY Grown
<1>2. \A i \in 1..Len(stream') :
        \/ i \in 1..Len(stream) /\ stream'[i] = stream[i]
        \/ /\ stream'[i].topic # "orders"
           /\ stream'[i].topic = "payments" => /\ stream'[i].key \in 1..Len(orders)
                                               /\ stream'[i].body.kind # "CAPTURED"
  BY <1>1
<1>3. OrdersExist'
  BY <1>2 DEF LifecycleInv, OrdersExist
<1>4. \A o : Captures(o)' = Captures(o)
  BY <1>1, <1>2 DEF Captures, Payments
<1>5. CapturedOnce'
  BY <1>1, <1>4 DEF LifecycleInv, CapturedOnce
<1>6. OneStepATick'
  BY <1>2 DEF LifecycleInv, OneStepATick
<1>7. TurnsAhead'
  BY <1>2, <1>3 DEF LifecycleInv, TurnsAhead, OrdersExist
<1> QED
  BY <1>3, <1>5, <1>6, <1>7 DEF LifecycleInv

\* A step that emits nothing gives no order a second turn within its tick.
LEMMA QuietStep ==
  ASSUME TypeOK, TypeOK', StreamInv, LifecycleInv, UNCHANGED <<stream, orders>>,
         \/ Now < Now'
         \/ Now' = Now /\ \A o \in 1..Len(orders) : Ahead(o)' => Ahead(o)
  PROVE  LifecycleInv'
<1>1. OrdersExist' /\ OneStepATick'
  BY DEF LifecycleInv, OrdersExist, OneStepATick
<1>2. CapturedOnce'
  BY DEF LifecycleInv, CapturedOnce, Captures, Payments
<1>3. TurnsAhead'
  <2>1. CASE Now < Now'
    <3>1. PICK t, u : t = Now /\ u = Now' /\ t \in Nat /\ u \in Nat /\ t < u
      BY <2>1, NowIsNat, NextNowIsNat
    <3>2. ASSUME NEW i \in 1..Len(stream)
          PROVE  stream[i].at # Now'
      <4>1. PICK a : a = stream[i].at /\ a \in Nat /\ a <= t
        BY <3>1 DEF StreamInv, Causal
      <4>2. a # u
        BY <3>1, <4>1
      <4> QED
        BY <3>1, <4>1, <4>2
    <3> QED
      BY <3>2 DEF TurnsAhead
  <2>2. CASE Now' = Now /\ \A o \in 1..Len(orders) : Ahead(o)' => Ahead(o)
    BY <2>2 DEF LifecycleInv, TurnsAhead, OrdersExist
  <2> QED
    BY <2>1, <2>2
<1> QED
  BY <1>1, <1>2, <1>3 DEF LifecycleInv

\* A new order has no captures, and the event of its creation is its only one.
LEMMA PlacingOnce ==
  ASSUME TypeOK, StreamInv, LifecycleInv, UNCHANGED <<phase, tick, cursor>>,
         NEW ord \in Order, ord.status = "CREATED", orders' = Append(orders, ord),
         NEW T, NEW msgs \in Seq(T), stream' = stream \o msgs,
         NEW o, o = Len(orders) + 1,
         \A k \in 1..Len(msgs) :
           \/ /\ k = 1 /\ msgs[k].topic = "orders" /\ msgs[k].key = o
              /\ msgs[k].body.status = "CREATED"
           \/ msgs[k].topic = "order_items"
  PROVE  LifecycleInv'
<1>1. /\ Len(stream) \in Nat /\ Len(stream') \in Nat
      /\ DOMAIN stream = 1..Len(stream) /\ DOMAIN stream' = 1..Len(stream')
      /\ \A i \in 1..Len(stream) : i \in 1..Len(stream') /\ stream'[i] = stream[i]
      /\ \A i \in 1..Len(stream') :
           i \in 1..Len(stream) \/ \E k \in 1..Len(msgs) : /\ i = Len(stream) + k
                                                          /\ stream'[i] = msgs[k]
  BY Grown
<1>2. \A i \in 1..Len(stream') :
        \/ i \in 1..Len(stream) /\ stream'[i] = stream[i]
        \/ /\ i = Len(stream) + 1 /\ stream'[i].topic = "orders" /\ stream'[i].key = o
           /\ stream'[i].body.status = "CREATED"
        \/ stream'[i].topic = "order_items"
  BY <1>1
<1>3. /\ Len(orders) \in Nat /\ Len(orders') = o /\ o \in 1..Len(orders')
      /\ o \notin 1..Len(orders) /\ \A p \in 1..Len(orders) : p \in 1..Len(orders')
      /\ \A p \in 1..Len(orders') : p = o \/ p \in 1..Len(orders)
      /\ orders'[o] = ord /\ \A p \in 1..Len(orders) : orders'[p] = orders[p]
  <2>1. /\ Len(orders) \in Nat /\ Len(orders') = o /\ orders'[o] = ord
        /\ \A p \in 1..Len(orders) : orders'[p] = orders[p]
    BY Appending, LenProperties DEF TypeOK
  <2>2. /\ o \in 1..o /\ o \notin 1..Len(orders) /\ \A p \in 1..Len(orders) : p \in 1..o
        /\ \A p \in 1..o : p = o \/ p \in 1..Len(orders)
    BY <2>1
  <2> QED
    BY <2>1, <2>2
<1>4. Now' = Now /\ \A p : Ahead(p)' = Ahead(p)
  BY DEF Now, Ahead
<1>5. OrdersExist'
  BY <1>2, <1>3 DEF LifecycleInv, OrdersExist
<1>10. /\ \A p : Captures(p) = {i \in 1..Len(stream) : IsCapture(stream[i], p)}
       /\ \A p : Captures(p)' = {i \in 1..Len(stream') : IsCapture(stream'[i], p)}
  BY <1>1 DEF Captures, Payments, IsCapture
<1>11. \A i \in 1..Len(stream') : \A p : IsCapture(stream'[i], p) =>
         i \in 1..Len(stream) /\ IsCapture(stream[i], p)
  BY <1>2 DEF IsCapture
<1>6. \A p : Captures(p)' = Captures(p)
  BY <1>1, <1>10, <1>11
<1>7. CapturedOnce'
  <2>1. Captures(o) = {}
    <3>1. \A i \in 1..Len(stream) : ~IsCapture(stream[i], o)
      BY <1>3 DEF LifecycleInv, OrdersExist, IsCapture
    <3> QED
      BY <1>10, <3>1
  <2>2. SUFFICES ASSUME NEW p \in 1..Len(orders')
                 PROVE  IF orders'[p].status = "CREATED"
                        THEN Captures(p)' = {}
                        ELSE \E i \in 1..Len(stream') : Captures(p)' = {i}
    BY DEF CapturedOnce
  <2>3. CASE p = o
    BY <1>3, <1>6, <2>1, <2>3
  <2>4. CASE p # o
    <3>1. p \in 1..Len(orders) /\ orders'[p] = orders[p]
      BY <1>3, <2>4
    <3>2. IF orders[p].status = "CREATED" THEN Captures(p) = {}
                                          ELSE \E i \in 1..Len(stream) : Captures(p) = {i}
      BY <3>1 DEF LifecycleInv, CapturedOnce
    <3> QED
      BY <1>1, <1>6, <3>1, <3>2
  <2> QED
    BY <2>3, <2>4
<1>8. OneStepATick'
  <2> SUFFICES ASSUME NEW i \in 1..Len(stream'), NEW j \in 1..Len(stream'), i < j,
                      stream'[i].topic = "orders", stream'[j].topic = "orders",
                      stream'[i].key = stream'[j].key, stream'[i].at = stream'[j].at
               PROVE  stream'[i].body.status = "CREATED"
    BY DEF OneStepATick
  <2>1. CASE i \in 1..Len(stream) /\ j \in 1..Len(stream)
    BY <1>1, <2>1 DEF LifecycleInv, OneStepATick
  <2>2. CASE i \notin 1..Len(stream)
    BY <1>2, <2>2
  <2>3. CASE i \in 1..Len(stream) /\ j \notin 1..Len(stream)
    <3>1. stream'[j].key = o /\ stream'[i] = stream[i]
      BY <1>1, <1>2, <2>3
    <3>2. stream[i].key \in 1..Len(orders)
      BY <2>3, <3>1 DEF LifecycleInv, OrdersExist
    <3> QED
      BY <1>3, <3>1, <3>2
  <2> QED
    BY <2>1, <2>2, <2>3
<1>9. TurnsAhead'
  BY <1>2, <1>4 DEF LifecycleInv, TurnsAhead
<1> QED
  BY <1>5, <1>7, <1>8, <1>9 DEF LifecycleInv

\* The order at the cursor advances: it had no other event in this tick than its
\* creation, it is captured if and only if it leaves its first status, and its turn
\* is over.
LEMMA AdvancingOnce ==
  ASSUME TypeOK, StreamInv, LifecycleInv, UNCHANGED <<phase, tick>>,
         NEW o \in 1..Len(orders), Ahead(o), ~Ahead(o)',
         \A p \in 1..Len(orders) : Ahead(p)' => Ahead(p),
         NEW ord, ord.status # "CREATED", orders' = [orders EXCEPT ![o] = ord],
         NEW n \in Nat, NEW u \in Nat, n = Len(stream), u = Len(stream'),
         DOMAIN stream = 1..n, DOMAIN stream' = 1..u, n + 1 <= u,
         \A i \in 1..n : stream'[i] = stream[i],
         stream'[n + 1].topic = "orders", stream'[n + 1].key = o, stream'[n + 1].at = Now,
         \/ orders[o].status # "CREATED" /\ u = n + 1
         \/ /\ orders[o].status = "CREATED" /\ u = n + 2
            /\ stream'[n + 2].topic = "payments" /\ stream'[n + 2].key = o
            /\ stream'[n + 2].body.kind = "CAPTURED"
  PROVE  LifecycleInv'
<1>1. n = Len(stream) /\ u = Len(stream')
  OBVIOUS
<1>2. \A i \in 1..n : i \in 1..u /\ stream'[i] = stream[i]
  OBVIOUS
<1>3. ASSUME NEW i \in 1..u
      PROVE  \/ i \in 1..n /\ stream'[i] = stream[i]
             \/ /\ i = n + 1 /\ stream'[i].topic = "orders" /\ stream'[i].key = o
                /\ stream'[i].at = Now
             \/ /\ i = n + 2 /\ orders[o].status = "CREATED"
                /\ stream'[i].topic = "payments"
                /\ stream'[i].key = o /\ stream'[i].body.kind = "CAPTURED"
  <2>1. i \in 1..n \/ i = n + 1 \/ (i = n + 2 /\ u = n + 2)
    OBVIOUS
  <2>2. u = n + 2 => orders[o].status = "CREATED"
    OBVIOUS
  <2> QED
    BY <2>1, <2>2
<1>4. /\ Len(orders') = Len(orders) /\ orders'[o] = ord
      /\ \A p \in 1..Len(orders) : p # o => orders'[p] = orders[p]
  BY LenProperties DEF TypeOK
<1>5. OrdersExist'
  BY <1>1, <1>3, <1>4 DEF LifecycleInv, OrdersExist
<1>6. /\ \A p : Captures(p) = {i \in 1..n : /\ stream[i].topic = "payments"
                                            /\ stream[i].key = p
                                            /\ stream[i].body.kind = "CAPTURED"}
      /\ \A p : Captures(p)' = {i \in 1..u : /\ stream'[i].topic = "payments"
                                             /\ stream'[i].key = p
                                             /\ stream'[i].body.kind = "CAPTURED"}
  BY <1>2 DEF Captures, Payments
<1>7. ASSUME NEW p \in 1..Len(orders), p # o
      PROVE  Captures(p)' = Captures(p)
  <2>1. ASSUME NEW i \in 1..u
        PROVE  i \in Captures(p)' <=> i \in Captures(p)
    <3>1. CASE i \in 1..n /\ stream'[i] = stream[i]
      BY <1>6, <3>1
    <3>2. CASE i \notin 1..n /\ (stream'[i].topic = "orders" \/ stream'[i].key = o)
      BY <1>6, <1>7, <3>2
    <3> QED
      BY <1>2, <1>3, <3>1, <3>2
  <2> QED
    BY <1>2, <1>6, <2>1
<1>8. CapturedOnce'
  <2>1. CASE orders[o].status = "CREATED"
    <3>1. u = n + 2 /\ n + 2 \in 1..u /\ n + 2 \notin 1..n /\ n + 2 # n + 1
      BY <1>2, <2>1
    <3>2. /\ stream'[n + 2].topic = "payments" /\ stream'[n + 2].key = o
          /\ stream'[n + 2].body.kind = "CAPTURED"
      BY <1>3, <3>1
    <3>3. Captures(o) = {}
      BY <2>1 DEF LifecycleInv, CapturedOnce
    <3>4. ASSUME NEW i \in Captures(o)'
          PROVE  i = n + 2
      <4>1. /\ i \in 1..u /\ stream'[i].topic = "payments" /\ stream'[i].key = o
            /\ stream'[i].body.kind = "CAPTURED"
        BY <1>6
      <4>2. ~(i \in 1..n /\ stream'[i] = stream[i])
        <5> SUFFICES ASSUME i \in 1..n, stream'[i] = stream[i] PROVE FALSE
          OBVIOUS
        <5>1. i \in Captures(o)
          BY <1>6, <4>1
        <5> QED
          BY <3>3, <5>1
      <4> QED
        BY <1>3, <4>1, <4>2
    <3>5. n + 2 \in Captures(o)'
      BY <1>6, <3>1, <3>2
    <3>6. Captures(o)' = {n + 2}
      BY <3>4, <3>5
    <3>7. SUFFICES ASSUME NEW p \in 1..Len(orders')
                   PROVE  IF orders'[p].status = "CREATED"
                          THEN Captures(p)' = {}
                          ELSE \E i \in 1..Len(stream') : Captures(p)' = {i}
      BY DEF CapturedOnce
    <3>8. CASE p = o
      BY <1>1, <1>4, <3>1, <3>6, <3>8
    <3>9. CASE p # o
      <4>1. p \in 1..Len(orders) /\ orders'[p] = orders[p] /\ Captures(p)' = Captures(p)
        BY <1>4, <1>7, <3>9
      <4>2. IF orders[p].status = "CREATED" THEN Captures(p) = {}
                                            ELSE \E i \in 1..Len(stream) : Captures(p) = {i}
        BY <4>1 DEF LifecycleInv, CapturedOnce
      <4>3. \A i \in 1..Len(stream) : i \in 1..Len(stream')
        BY <1>1, <1>2
      <4> QED
        BY <4>1, <4>2, <4>3
    <3> QED
      BY <3>8, <3>9
  <2>2. CASE orders[o].status # "CREATED"
    <3>1. ASSUME NEW i \in 1..u
          PROVE  i \in Captures(o)' <=> i \in Captures(o)
      <4>1. CASE i \in 1..n /\ stream'[i] = stream[i]
        BY <1>6, <4>1
      <4>2. CASE i \notin 1..n /\ stream'[i].topic = "orders"
        BY <1>6, <4>2
      <4> QED
        BY <1>2, <1>3, <2>2, <4>1, <4>2
    <3>2. Captures(o)' = Captures(o)
      BY <1>2, <1>6, <3>1
    <3> QED
      BY <1>1, <1>2, <1>4, <1>7, <2>2, <3>2 DEF LifecycleInv, CapturedOnce
  <2> QED
    BY <2>1, <2>2
<1>9. OneStepATick'
  <2> SUFFICES ASSUME NEW i \in 1..u, NEW j \in 1..u, i < j,
                      stream'[i].topic = "orders", stream'[j].topic = "orders",
                      stream'[i].key = stream'[j].key, stream'[i].at = stream'[j].at
               PROVE  stream'[i].body.status = "CREATED"
    BY <1>1 DEF OneStepATick
  <2>1. CASE i \in 1..n /\ j \in 1..n
    BY <1>1, <1>2, <2>1 DEF LifecycleInv, OneStepATick
  <2>2. CASE i \in 1..n /\ j \notin 1..n
    <3>1. stream'[j].key = o /\ stream'[j].at = Now /\ stream'[i] = stream[i]
      BY <1>2, <1>3, <2>2
    <3>2. stream[i].topic = "orders" /\ stream[i].at = Now /\ Ahead(stream[i].key)
      BY <3>1
    <3>3. stream[i].body.status = "CREATED"
      BY <1>1, <2>2, <3>2 DEF LifecycleInv, TurnsAhead
    <3> QED
      BY <3>1, <3>3
  <2>3. CASE i \notin 1..n
    <3>1. i = n + 1
      BY <1>3, <2>3
    <3>2. j \notin 1..n /\ j # n + 1
      BY <1>2, <3>1
    <3> QED
      BY <1>3, <3>2
  <2> QED
    BY <2>1, <2>2, <2>3
<1>10. TurnsAhead'
  <2>1. Now' = Now
    BY DEF Now
  <2> SUFFICES ASSUME NEW i \in 1..u, stream'[i].topic = "orders", stream'[i].at = Now,
                      NEW p, p = stream'[i].key, Ahead(p)'
               PROVE  stream'[i].body.status = "CREATED"
    BY <1>1, <2>1 DEF TurnsAhead
  <2>2. i \in 1..n /\ stream'[i] = stream[i]
    <3>1. stream'[i].key # o
      OBVIOUS
    <3> QED
      BY <1>3, <3>1
  <2>3. stream[i].key \in 1..Len(orders) /\ Ahead(stream[i].key)
    BY <1>1, <2>2 DEF LifecycleInv, OrdersExist
  <2>4. stream[i].body.status = "CREATED"
    BY <1>1, <2>2, <2>3 DEF LifecycleInv, TurnsAhead
  <2> QED
    BY <2>2, <2>4
<1> QED
  BY <1>5, <1>8, <1>9, <1>10 DEF LifecycleInv

\* An order advances: AdvanceOrder emits its event and, for PAID, the capture, and no more.
LEMMA AdvanceOrderOnce ==
  ASSUME TypeOK, StreamInv, LifecycleInv, AdvanceOrder
  PROVE  LifecycleInv'
<1>1. PICK o \in 1..Len(orders), ord \in Order :
        /\ At("lifecycle", o) /\ orders[o].status \in DOMAIN NextStatus
        /\ ord.status = NextStatus[orders[o].status]
        /\ orders' = [orders EXCEPT ![o] = ord]
        /\ stream' = stream \o AdvanceMsgs(o, ord)
  BY Advanced DEF AdvanceOrder, Emit
<1>2. /\ ord.status # "CREATED"
      /\ ord.status = "PAID" <=> orders[o].status = "CREATED"
  BY <1>1 DEF NextStatus
<1>3. PICK msgs : msgs = AdvanceMsgs(o, ord)
  OBVIOUS
<1> DEFINE T == {OrderMsg(o, ord), PaymentMsg(o, "CAPTURED")}
<1>4. /\ msgs \in Seq(T) /\ msgs[1] = OrderMsg(o, ord)
      /\ \/ orders[o].status # "CREATED" /\ Len(msgs) = 1
         \/ /\ orders[o].status = "CREATED" /\ Len(msgs) = 2
            /\ msgs[2] = PaymentMsg(o, "CAPTURED")
  <2>1. CASE ord.status = "PAID"
    BY <1>2, <1>3, <2>1 DEF AdvanceMsgs
  <2>2. CASE ord.status # "PAID"
    BY <1>2, <1>3, <2>2 DEF AdvanceMsgs
  <2> QED
    BY <2>1, <2>2
<1>5. /\ msgs[1].topic = "orders" /\ msgs[1].key = o /\ msgs[1].at = Now
      /\ Len(msgs) = 2 => /\ msgs[2].topic = "payments" /\ msgs[2].key = o
                          /\ msgs[2].body.kind = "CAPTURED"
  BY <1>4 DEF OrderMsg, PaymentMsg, Message
<1>6. PICK n, u : n = Len(stream) /\ u = Len(stream')
  OBVIOUS
<1> HIDE DEF T
<1>7. /\ n \in Nat /\ u \in Nat /\ u = n + Len(msgs)
      /\ DOMAIN stream = 1..n /\ DOMAIN stream' = 1..u
      /\ \A i \in 1..n : stream'[i] = stream[i]
      /\ \A k \in 1..Len(msgs) : stream'[n + k] = msgs[k]
  BY <1>1, <1>3, <1>4, <1>6, Grown
<1>8. /\ n + 1 <= u /\ stream'[n + 1] = msgs[1]
      /\ Len(msgs) = 2 => u = n + 2 /\ stream'[n + 2] = msgs[2]
      /\ Len(msgs) = 1 => u = n + 1
  <2>1. Len(msgs) = 1 \/ Len(msgs) = 2
    BY <1>4
  <2>2. 1 \in 1..Len(msgs) /\ (Len(msgs) = 2 => 2 \in 1..Len(msgs))
    BY <2>1
  <2>3. stream'[n + 1] = msgs[1] /\ (Len(msgs) = 2 => stream'[n + 2] = msgs[2])
    BY <1>7, <2>2
  <2>4. CASE Len(msgs) = 1
    BY <1>7, <2>3, <2>4
  <2>5. CASE Len(msgs) = 2
    BY <1>7, <2>3, <2>5
  <2> QED
    BY <2>1, <2>4, <2>5
<1>9. Ahead(o) /\ ~Ahead(o)' /\ \A p \in 1..Len(orders) : Ahead(p)' => Ahead(p)
  <2>1. /\ o \in Int /\ ~(o >= o + 1)
        /\ \A p \in 1..Len(orders) : p >= o + 1 => p >= o
    BY LenProperties DEF TypeOK
  <2>2. phase = "lifecycle" /\ phase' = "lifecycle" /\ cursor = o /\ cursor' = o + 1
    BY <1>1 DEF AdvanceOrder, At, Step
  <2> QED
    BY <2>1, <2>2 DEF Ahead
<1>10. UNCHANGED <<phase, tick>>
  BY DEF AdvanceOrder, Step
<1>11. /\ n = Len(stream) /\ u = Len(stream') /\ n \in Nat /\ u \in Nat
       /\ DOMAIN stream = 1..n /\ DOMAIN stream' = 1..u /\ n + 1 <= u
       /\ \A i \in 1..n : stream'[i] = stream[i]
  BY <1>6, <1>7, <1>8
<1>12. /\ stream'[n + 1].topic = "orders" /\ stream'[n + 1].key = o
       /\ stream'[n + 1].at = Now
  BY <1>5, <1>8
<1>13. \/ orders[o].status # "CREATED" /\ u = n + 1
       \/ /\ orders[o].status = "CREATED" /\ u = n + 2
          /\ stream'[n + 2].topic = "payments" /\ stream'[n + 2].key = o
          /\ stream'[n + 2].body.kind = "CAPTURED"
  BY <1>4, <1>5, <1>8
<1>14. ord.status # "CREATED" /\ orders' = [orders EXCEPT ![o] = ord]
  BY <1>1, <1>2
<1> QED
  BY <1>9, <1>10, <1>11, <1>12, <1>13, <1>14, AdvancingOnce, Zenon

\* An order is placed: PlaceOrder emits its first event, and messages of its items.
LEMMA PlaceOrderOnce ==
  ASSUME TypeOK, StreamInv, LifecycleInv, PlaceOrder
  PROVE  LifecycleInv'
<1>1. PICK items, ord :
        /\ items = draft[1].items
        /\ ord = [customer |-> draft[1].customer, status |-> "CREATED", items |-> items]
        /\ orders' = Append(orders, ord)
        /\ stream' = stream \o (<<OrderMsg(Len(orders) + 1, ord)>>
                         \o [i \in DOMAIN items |-> ItemMsg(Len(orders) + 1, items[i])])
  BY DEF PlaceOrder, Emit
<1>2. draft[1] \in Draft
  BY EmptySeq, ElementOfSeq DEF PlaceOrder, TypeOK
<1>3. items \in Seq(Item) /\ ord \in Order /\ ord.status = "CREATED"
  BY <1>1, <1>2 DEF Draft, Order, Statuses
<1>4. PICK o, tail : o = Len(orders) + 1 /\ tail = [i \in DOMAIN items |-> ItemMsg(o, items[i])]
  OBVIOUS
<1> DEFINE T == {ItemMsg(o, items[i]) : i \in DOMAIN items}
<1>5. tail \in Seq(T)
  BY <1>3, <1>4, LenProperties, IsASeq
<1>6. \A m \in T : m.topic = "order_items"
  BY DEF ItemMsg, Message
<1> HIDE DEF T
<1>7. PICK msgs : msgs = <<OrderMsg(o, ord)>> \o tail
  OBVIOUS
<1>8. /\ msgs \in Seq({OrderMsg(o, ord)} \cup T)
      /\ Len(msgs) = 1 + Len(tail) /\ Len(tail) \in Nat /\ msgs[1] = OrderMsg(o, ord)
      /\ \A i \in 1..Len(tail) : msgs[1 + i] = tail[i]
  BY <1>5, <1>7, Heading
<1>9. ASSUME NEW k \in 1..Len(msgs)
      PROVE  \/ /\ k = 1 /\ msgs[k].topic = "orders" /\ msgs[k].key = o
                /\ msgs[k].body.status = "CREATED"
             \/ msgs[k].topic = "order_items"
  <2>1. CASE k = 1
    BY <1>3, <1>8, <2>1 DEF OrderMsg, Message
  <2>2. CASE k # 1
    <3>1. k - 1 \in 1..Len(tail) /\ 1 + (k - 1) = k
      BY <1>8, <2>2
    <3>2. msgs[k] \in T
      BY <1>5, <1>8, <3>1, ElementOfSeq
    <3> QED
      BY <1>6, <3>2
  <2> QED
    BY <2>1, <2>2
<1>10. UNCHANGED <<phase, tick, cursor>> /\ stream' = stream \o msgs
  BY <1>1, <1>4, <1>7 DEF PlaceOrder
<1>11. /\ orders' = Append(orders, ord) /\ o = Len(orders) + 1
       /\ ord \in Order /\ ord.status = "CREATED"
       /\ msgs \in Seq({OrderMsg(o, ord)} \cup T)
  BY <1>1, <1>3, <1>4, <1>8
<1> QED
  BY <1>9, <1>10, <1>11, PlacingOnce, Zenon

-------------------------------------------------------------------------------
\* Bootstrap has placed no order and emitted nothing about one.
LEMMA InitLifecycle == Init => LifecycleInv
<1> SUFFICES ASSUME Init PROVE LifecycleInv
  OBVIOUS
<1>1. orders = <<>>
  BY DEF Init
<1>2. \A i \in 1..Len(stream) : stream[i].topic \in {"customers", "inventory"}
  BY InitMessages
<1> QED
  BY <1>1, <1>2 DEF LifecycleInv, OrdersExist, CapturedOnce, OneStepATick, TurnsAhead

\* A step of one message that is neither an order's event nor a capture.
LEMMA QuietMessage ==
  ASSUME StreamInv, LifecycleInv, UNCHANGED <<phase, tick, orders>>,
         NEW m, stream' = stream \o <<m>>, m.topic # "orders",
         m.topic = "payments" => m.key \in 1..Len(orders) /\ m.body.kind # "CAPTURED",
         \A o \in 1..Len(orders) : Ahead(o)' => Ahead(o)
  PROVE  LifecycleInv'
<1>1. Now' = Now
  BY DEF Now
<1>2. <<m>> \in Seq({m}) /\ \A k \in 1..Len(<<m>>) : <<m>>[k] = m
  OBVIOUS
<1> QED
  BY <1>1, <1>2, QuietEmission

\* No step of a loop gives an order behind the cursor another turn.
LEMMA NoTurnBack ==
  ASSUME TypeOK,
         \/ phase \notin {"lifecycle", "scenarios", "done"}
         \/ phase' \in {"scenarios", "done"}
         \/ UNCHANGED <<phase, cursor>>
         \/ UNCHANGED phase /\ cursor' = cursor + 1
  PROVE  \A o \in 1..Len(orders) : Ahead(o)' => Ahead(o)
<1>1. \A o \in 1..Len(orders) : o >= cursor + 1 => o >= cursor
  BY LenProperties DEF TypeOK
<1> QED
  BY <1>1 DEF Ahead

\* Every step of a run keeps the lifecycle invariant.
LEMMA NextLifecycle ==
  TypeOK /\ TypeOK' /\ StreamInv /\ LifecycleInv /\ [Next]_vars => LifecycleInv'
<1> SUFFICES ASSUME TypeOK, TypeOK', StreamInv, LifecycleInv, [Next]_vars
             PROVE  LifecycleInv'
  OBVIOUS
<1>1. CASE PlaceOrder
  BY <1>1, PlaceOrderOnce
<1>2. CASE AdvanceOrder
  BY <1>2, AdvanceOrderOnce
<1>3. ASSUME UNCHANGED <<stream, orders, phase, tick>>,
             cursor' = cursor \/ cursor' = cursor + 1
      PROVE  LifecycleInv'
  <2>1. Now' = Now
    BY <1>3 DEF Now
  <2>2. \A o \in 1..Len(orders) : Ahead(o)' => Ahead(o)
    BY <1>3, NoTurnBack
  <2> QED
    BY <1>3, <2>1, <2>2, QuietStep
<1>4. ASSUME UNCHANGED <<stream, orders, tick>>, phase # "bootstrap", phase' # "bootstrap",
             \/ phase \notin {"lifecycle", "scenarios", "done"}
             \/ phase' \in {"scenarios", "done"}
      PROVE  LifecycleInv'
  <2>1. Now' = Now
    BY <1>4 DEF Now
  <2>2. \A o \in 1..Len(orders) : Ahead(o)' => Ahead(o)
    BY <1>4, NoTurnBack
  <2> QED
    BY <1>4, <2>1, <2>2, QuietStep
<1>5. CASE BootstrapDone
  <2>1. /\ UNCHANGED <<stream, orders, tick>> /\ phase = "bootstrap" /\ phase' = "orders"
    BY <1>5 DEF BootstrapDone, GoTo, state
  <2>2. Now < Now'
    <3>1. tick \in Nat
      BY TicksAssumption DEF TypeOK
    <3>2. Now = 0 /\ Now' = tick + 1
      BY <2>1 DEF Now
    <3> QED
      BY <3>1, <3>2
  <2> QED
    BY <2>1, <2>2, QuietStep
<1>6. CASE TickDone
  <2>1. CASE phase' = "orders" /\ tick' = tick + 1
    <3>1. UNCHANGED <<stream, orders>> /\ phase = "scenarios"
      BY <1>6 DEF TickDone, state
    <3>2. Now < Now'
      <4>1. tick \in Nat
        BY TicksAssumption DEF TypeOK
      <4>2. Now = tick + 1 /\ Now' = (tick + 1) + 1
        BY <2>1, <3>1 DEF Now
      <4> QED
        BY <4>1, <4>2
    <3> QED
      BY <3>1, <3>2, QuietStep
  <2>2. CASE phase' = "done" /\ UNCHANGED tick
    BY <1>4, <1>6, <2>2 DEF TickDone, state
  <2> QED
    BY <1>6, <2>1, <2>2 DEF TickDone
<1>7. CASE InventorySnapshots
  <2>1. UNCHANGED <<tick, orders>> /\ phase = "snapshots" /\ phase' = "returns"
    BY <1>7 DEF InventorySnapshots, GoTo, state
  <2>2. CASE UNCHANGED stream
    BY <1>4, <2>1, <2>2
  <2>3. CASE stream' = stream \o SnapshotMsgs(inventory)
    <3> DEFINE R == {SnapshotMsg(r, inventory[r]) : r \in Rows}
    <3>1. PICK msgs : msgs = SnapshotMsgs(inventory)
      OBVIOUS
    <3>2. /\ msgs \in Seq(R) /\ DOMAIN msgs = 1..Len(msgs) /\ DOMAIN msgs = Rows
          /\ \A r \in Rows : msgs[r] = SnapshotMsg(r, inventory[r])
      BY <3>1, IsASeq, LenProperties, SizesAssumption DEF Rows, SnapshotMsgs
    <3>3. \A k \in 1..Len(msgs) : msgs[k].topic = "inventory"
      BY <3>2 DEF SnapshotMsg, Message
    <3>4. Now' = Now /\ \A o \in 1..Len(orders) : Ahead(o)' => Ahead(o)
      BY <2>1 DEF Now, Ahead
    <3> HIDE DEF R
    <3> QED
      BY <2>1, <2>3, <3>1, <3>2, <3>3, <3>4, QuietEmission
  <2> QED
    BY <1>7, <2>2, <2>3 DEF InventorySnapshots, Emit
<1>8. CASE RequestReturn
  <2>1. PICK m : stream' = stream \o <<m>> /\ m.topic = "returns"
    <3>1. PICK o \in 1..Len(orders) :
            stream' = stream \o <<ReturnMsg(Len(returns) + 1,
                  [order |-> o, status |-> "REQUESTED", reason |-> "customer_request"])>>
      BY <1>8 DEF RequestReturn, Emit
    <3>2. PICK m : m = ReturnMsg(Len(returns) + 1,
                  [order |-> o, status |-> "REQUESTED", reason |-> "customer_request"])
      OBVIOUS
    <3>3. m.topic = "returns"
      BY <3>2 DEF ReturnMsg, Message
    <3>4. stream' = stream \o <<m>>
      BY <3>1, <3>2
    <3> QED
      BY <3>3, <3>4
  <2>2. UNCHANGED <<phase, tick, orders>> /\ cursor' = cursor + 1
    BY <1>8 DEF RequestReturn, Step
  <2>3. \A o \in 1..Len(orders) : Ahead(o)' => Ahead(o)
    BY <2>2, NoTurnBack
  <2> QED
    BY <2>1, <2>2, <2>3, QuietMessage
<1>9. CASE RandomPayment
  <2>1. PICK m : /\ stream' = stream \o <<m>>
                 /\ m.key \in 1..Len(orders) /\ m.body.kind # "CAPTURED"
                 /\ m.topic = "payments"
    <3>1. PICK o \in 1..Len(orders), kind \in {"FAILED", "REFUND"} :
            stream' = stream \o <<PaymentMsg(o, kind)>>
      BY <1>9 DEF RandomPayment, Emit
    <3>2. PICK m : m = PaymentMsg(o, kind)
      OBVIOUS
    <3>3. m.key = o /\ m.body.kind = kind /\ m.topic = "payments"
      BY <3>2 DEF PaymentMsg, Message
    <3>4. stream' = stream \o <<m>>
      BY <3>1, <3>2
    <3> QED
      BY <3>1, <3>3, <3>4
  <2>2. UNCHANGED <<phase, tick, orders>> /\ cursor' = cursor + 1
    BY <1>9 DEF RandomPayment, Step, state
  <2>3. \A o \in 1..Len(orders) : Ahead(o)' => Ahead(o)
    BY <2>2, NoTurnBack
  <2> QED
    BY <2>1, <2>2, <2>3, QuietMessage
<1>10. CASE OpenTicket
  <2>1. PICK m : stream' = stream \o <<m>> /\ m.topic = "tickets"
    <3>1. PICK c \in Customers, o \in 0..Len(orders) :
            stream' = stream \o <<TicketMsg(Len(tickets) + 1,
                                           [customer |-> c, order |-> o, status |-> "OPEN"])>>
      BY <1>10 DEF OpenTicket, Emit
    <3>2. PICK m : m = TicketMsg(Len(tickets) + 1,
                                 [customer |-> c, order |-> o, status |-> "OPEN"])
      OBVIOUS
    <3>3. m.topic = "tickets"
      BY <3>2 DEF TicketMsg, Message
    <3>4. stream' = stream \o <<m>>
      BY <3>1, <3>2
    <3> QED
      BY <3>3, <3>4
  <2>2. UNCHANGED <<phase, tick, orders, cursor>>
    BY <1>10 DEF OpenTicket
  <2>3. \A o \in 1..Len(orders) : Ahead(o)' => Ahead(o)
    BY <2>2, NoTurnBack
  <2> QED
    BY <2>1, <2>2, <2>3, QuietMessage
<1>11. CASE Fire
  <2>1. PICK o, c, old, new, r :
          /\ o \in Eligible
          /\ stream' = stream \o FireMsgs(o, c, old, new, r)
    <3>1. PICK o, new :
            /\ o \in Eligible
            /\ stream' = stream \o FireMsgs(o, orders[o].customer,
                                           customers[orders[o].customer],
                                           new, Len(returns) + 1)
      BY <1>11 DEF Fire, Emit
    <3>2. PICK c, old, r : /\ c = orders[o].customer /\ old = customers[orders[o].customer]
                           /\ r = Len(returns) + 1
      OBVIOUS
    <3>3. stream' = stream \o FireMsgs(o, c, old, new, r)
      BY <3>1, <3>2
    <3> QED
      BY <3>1, <3>3
  <2>2. PICK msgs : msgs = FireMsgs(o, c, old, new, r)
    OBVIOUS
  <2> DEFINE T == {PaymentMsg(o, "CHARGEBACK"), TierMsg(c, old.tier, new.tier),
                   CustomerMsg(c, new), ReturnMsg(r, Rejected(o))}
  <2>3. msgs \in Seq(T)
    BY <2>2 DEF FireMsgs
  <2>4. ASSUME NEW m \in T
        PROVE  /\ m.topic # "orders"
               /\ m.topic = "payments" => m.key = o /\ m.body.kind # "CAPTURED"
    BY DEF PaymentMsg, TierMsg, CustomerMsg, ReturnMsg, Message
  <2> HIDE DEF T
  <2>5. \A k \in 1..Len(msgs) : msgs[k] \in T
    BY <2>3, ElementOfSeq
  <2>6. UNCHANGED <<phase, tick, orders>> /\ phase = "scenarios"
    BY <1>11 DEF Fire, Step, AtScenario
  <2>7. Now' = Now /\ \A p \in 1..Len(orders) : Ahead(p)' => Ahead(p)
    BY <2>6 DEF Now, Ahead
  <2>8. o \in 1..Len(orders)
    BY <2>1 DEF Eligible
  <2> QED
    BY <2>1, <2>2, <2>3, <2>4, <2>5, <2>6, <2>7, <2>8, QuietEmission
<1>12. CASE DraftOrder \/ DraftItem
  BY <1>3, <1>12 DEF DraftOrder, DraftItem, state
<1>13. CASE OrdersDone \/ TicketsDone
  BY <1>4, <1>13 DEF OrdersDone, TicketsDone, GoTo, state
<1>14. CASE NoReturn \/ NoPayment \/ NoAdvance \/ NoFire
  BY <1>3, <1>14 DEF NoReturn, NoPayment, NoAdvance, NoFire, Step, state
<1>15. CASE ReturnsDone \/ PaymentsDone \/ LifecycleDone
  BY <1>4, <1>15 DEF ReturnsDone, PaymentsDone, LifecycleDone, Over, GoTo, state
<1>16. CASE Returned \/ UNCHANGED vars
  BY <1>3, <1>16 DEF Returned, vars, state
<1> QED
  BY <1>1, <1>2, <1>5, <1>6, <1>7, <1>8, <1>9, <1>10, <1>11, <1>12, <1>13, <1>14,
     <1>15, <1>16 DEF Next

\* Each order is captured exactly once, when it becomes PAID, and makes at most one
\* step in a tick: in every run, of any size, whatever the window.
THEOREM LifecyclePays == Spec => []LifecycleIsPaid
<1>1. TypeOK /\ StreamInv /\ LifecycleInv => LifecycleIsPaid
  <2> SUFFICES ASSUME TypeOK, StreamInv, LifecycleInv PROVE LifecycleIsPaid
    OBVIOUS
  <2>1. DOMAIN stream = 1..Len(stream) /\ DOMAIN orders = 1..Len(orders)
    BY LenProperties DEF StreamInv, Causal, TypeOK
  <2>2. ASSUME NEW o \in 1..Len(orders)
        PROVE  Cardinality(Captures(o)) = IF orders[o].status = "CREATED" THEN 0 ELSE 1
    <3>1. CASE orders[o].status = "CREATED"
      BY <3>1, FS_EmptySet DEF LifecycleInv, CapturedOnce
    <3>2. CASE orders[o].status # "CREATED"
      <4>1. PICK i : Captures(o) = {i}
        BY <3>2 DEF LifecycleInv, CapturedOnce
      <4> QED
        BY <3>2, <4>1, FS_Singleton
    <3> QED
      BY <3>1, <3>2
  <2> QED
    BY <2>1, <2>2 DEF LifecycleInv, OneStepATick, LifecycleIsPaid, Captures
<1> QED
  BY <1>1, InitLifecycle, NextLifecycle, InitStream, NextStream, TypeCorrect, PTL DEF Spec

-------------------------------------------------------------------------------
(* What the serving stores make of the stream. *)

\* A serving store of one topic reads the whole stream.
Read(store, view, e) == IF e.topic = store.topic THEN Project(store.kind, view, e) ELSE view

Reads == INSTANCE Folding WITH op <- Read

LEMMA ReplayIsFold ==
  \A topic, kind, keys :
    Replayed(topic, kind, keys)
      = Reads!Folded([topic |-> topic, kind |-> kind], [k \in keys |-> <<>>], stream)
BY DEF Replayed, FoldLeft, MapThenFoldSet, Max, Read,
       Reads!Folded, Reads!FoldLeft, Reads!MapThenFoldSet, Reads!Max

\* What a store of the topic, with room for any key, holds after reading s.
View(topic, kind, s) ==
  Reads!Folded([topic |-> topic, kind |-> kind], [k \in Nat |-> <<>>], s)

LEMMA ViewOfNone ==
  ASSUME NEW topic, NEW kind
  PROVE  View(topic, kind, <<>>) = [k \in Nat |-> <<>>]
BY Reads!FoldEmpty DEF View

LEMMA ViewOneMore ==
  ASSUME NEW topic, NEW kind, NEW S, NEW s \in Seq(S), NEW e
  PROVE  View(topic, kind, Append(s, e)) =
           IF e.topic = topic THEN Project(kind, View(topic, kind, s), e)
                              ELSE View(topic, kind, s)
<1>1. PICK store, base : store = [topic |-> topic, kind |-> kind]
                         /\ base = [k \in Nat |-> <<>>]
  OBVIOUS
<1>2. Reads!Folded(store, base, Append(s, e)) = Read(store, Reads!Folded(store, base, s), e)
  BY Reads!FoldSnoc
<1>3. store.topic = topic /\ store.kind = kind
  BY <1>1
<1> QED
  BY <1>1, <1>2, <1>3 DEF View, Read

\* The messages e that take the place of whatever the view holds for their key.
NotAfter(kind, m, e) == IF kind = "by_version" THEN e.ver >= m.ver ELSE e.at >= m.at

Replaces(kind, view, e) ==
  view[e.key] = <<>> \/ \E m : view[e.key] = <<m>> /\ NotAfter(kind, m, e)

\* A projector call on a view with room for any key.
LEMMA Projected ==
  ASSUME NEW kind \in Kinds, NEW view, DOMAIN view = Nat, NEW e, e.key \in Nat
  PROVE  /\ DOMAIN Project(kind, view, e) = Nat
         /\ \A k \in Nat : k # e.key => Project(kind, view, e)[k] = view[k]
         /\ kind = "append" => Project(kind, view, e)[e.key] = Append(view[e.key], e)
         /\ kind # "append" /\ Replaces(kind, view, e) => Project(kind, view, e)[e.key] = <<e>>
<1>1. CASE kind = "by_version"
  <2>1. Project(kind, view, e) = ByVersion(view, e)
    BY <1>1 DEF Project
  <2>2. \/ ByVersion(view, e) = view
        \/ ByVersion(view, e) = [view EXCEPT ![e.key] = <<e>>]
    BY DEF ByVersion
  <2>3. Replaces(kind, view, e) => ByVersion(view, e) = [view EXCEPT ![e.key] = <<e>>]
    BY <1>1 DEF ByVersion, Replaces, NotAfter
  <2> QED
    BY <1>1, <2>1, <2>2, <2>3
<1>2. CASE kind = "by_time"
  <2>1. Project(kind, view, e) = ByTime(view, e)
    BY <1>2 DEF Project
  <2>2. \/ ByTime(view, e) = view
        \/ ByTime(view, e) = [view EXCEPT ![e.key] = <<e>>]
    BY DEF ByTime
  <2>3. Replaces(kind, view, e) => ByTime(view, e) = [view EXCEPT ![e.key] = <<e>>]
    BY <1>2 DEF ByTime, Replaces, NotAfter
  <2> QED
    BY <1>2, <2>1, <2>2, <2>3
<1>3. CASE kind = "append"
  <2>1. Project(kind, view, e) = [view EXCEPT ![e.key] = Append(view[e.key], e)]
    BY <1>3 DEF Project, Appended
  <2> QED
    BY <1>3, <2>1
<1> QED
  BY <1>1, <1>2, <1>3 DEF Kinds

\* Messages that a stream may hold: their keys are numbers.
Keyed(S) == \A e \in S : e.key \in Nat

LEMMA ViewHasAllKeys ==
  ASSUME NEW topic, NEW kind \in Kinds, NEW S, Keyed(S), NEW s \in Seq(S)
  PROVE  DOMAIN View(topic, kind, s) = Nat
<1> DEFINE T == {t \in Seq(S) : DOMAIN View(topic, kind, t) = Nat}
<1>1. <<>> \in T
  <2>1. View(topic, kind, <<>>) = [k \in Nat |-> <<>>]
    BY ViewOfNone
  <2>2. DOMAIN View(topic, kind, <<>>) = Nat
    BY <2>1, Zenon
  <2>3. <<>> \in Seq(S)
    OBVIOUS
  <2> QED
    BY <2>2, <2>3
<1>2. ASSUME NEW t \in Seq(S), NEW e \in S, t \in T PROVE Append(t, e) \in T
  <2>1. e.key \in Nat /\ DOMAIN View(topic, kind, t) = Nat
    BY <1>2 DEF Keyed
  <2>2. DOMAIN Project(kind, View(topic, kind, t), e) = Nat
    BY <2>1, Projected
  <2>3. DOMAIN View(topic, kind, Append(t, e)) = Nat
    BY <2>1, <2>2, ViewOneMore
  <2> QED
    BY <2>3
<1> HIDE DEF T
<1>3. Seq(S) \subseteq T
  BY <1>1, <1>2, Reads!AllSeqs
<1> QED
  BY <1>3 DEF T

\* What a store with room for the keys in K holds, and the part of a view about them.
Narrow(topic, kind, K, s) ==
  Reads!Folded([topic |-> topic, kind |-> kind], [k \in K |-> <<>>], s)
OnKeys(K, v) == [k \in K |-> v[k]]

\* A store whose keys cover the topic's messages holds the same.
LEMMA ReplayedIsView ==
  ASSUME NEW topic, NEW kind \in Kinds, NEW K, K \subseteq Nat, NEW S, Keyed(S),
         NEW s \in Seq(S), \A e \in S : e.topic = topic => e.key \in K
  PROVE  Narrow(topic, kind, K, s) = OnKeys(K, View(topic, kind, s))
<1> DEFINE small(t) == Reads!Folded([topic |-> topic, kind |-> kind], [k \in K |-> <<>>], t)
           T == {t \in Seq(S) : small(t) = [k \in K |-> View(topic, kind, t)[k]]}
<1>1. <<>> \in T
  <2>1. small(<<>>) = [k \in K |-> <<>>]
    BY Reads!FoldEmpty
  <2>2. PICK v : v = View(topic, kind, <<>>)
    OBVIOUS
  <2>3. v = [k \in Nat |-> <<>>]
    BY <2>2, ViewOfNone
  <2>4. \A k \in K : v[k] = <<>>
    BY <2>3
  <2> HIDE DEF small
  <2>5. small(<<>>) = [k \in K |-> v[k]]
    BY <2>1, <2>4
  <2>6. <<>> \in Seq(S)
    OBVIOUS
  <2> QED
    BY <2>2, <2>5, <2>6
<1>2. ASSUME NEW t \in Seq(S), NEW e \in S, t \in T PROVE Append(t, e) \in T
  <2>1. small(Append(t, e)) = IF e.topic = topic THEN Project(kind, small(t), e) ELSE small(t)
    <3>1. PICK store, base : store = [topic |-> topic, kind |-> kind]
                             /\ base = [k \in K |-> <<>>]
      OBVIOUS
    <3>2. Reads!Folded(store, base, Append(t, e)) = Read(store, Reads!Folded(store, base, t), e)
      BY Reads!FoldSnoc
    <3>3. store.topic = topic /\ store.kind = kind
      BY <3>1
    <3> QED
      BY <3>1, <3>2, <3>3 DEF Read
  <2>2. PICK v : v = View(topic, kind, t)
    OBVIOUS
  <2>3. small(t) = [k \in K |-> v[k]]
    BY <1>2, <2>2
  <2>4. View(topic, kind, Append(t, e)) = IF e.topic = topic THEN Project(kind, v, e) ELSE v
    BY <2>2, ViewOneMore
  <2>5. DOMAIN v = Nat /\ e.key \in Nat
    BY <2>2, ViewHasAllKeys DEF Keyed
  <2>6. ASSUME e.topic = topic
        PROVE  Project(kind, [k \in K |-> v[k]], e) = [k \in K |-> Project(kind, v, e)[k]]
    <3>1. e.key \in K
      BY <2>6
    <3>2. CASE kind = "by_version"
      BY <2>5, <3>1, <3>2 DEF Project, ByVersion
    <3>3. CASE kind = "by_time"
      BY <2>5, <3>1, <3>3 DEF Project, ByTime
    <3>4. CASE kind = "append"
      BY <2>5, <3>1, <3>4 DEF Project, Appended
    <3> QED
      BY <3>2, <3>3, <3>4 DEF Kinds
  <2> HIDE DEF small
  <2>7. small(Append(t, e)) = [k \in K |-> View(topic, kind, Append(t, e))[k]]
    <3>1. CASE e.topic = topic
      BY <2>1, <2>3, <2>4, <2>6, <3>1
    <3>2. CASE e.topic # topic
      BY <2>1, <2>3, <2>4, <3>2
    <3> QED
      BY <3>1, <3>2
  <2> QED
    BY <2>7
<1> HIDE DEF T
<1>3. Seq(S) \subseteq T
  BY <1>1, <1>2, Reads!AllSeqs
<1> QED
  <2>1. Reads!Folded([topic |-> topic, kind |-> kind], [k \in K |-> <<>>], s)
          = [k \in K |-> View(topic, kind, s)[k]]
    BY <1>3 DEF T
  <2> QED
    BY <2>1, Zenon DEF Narrow, OnKeys

\* Emitting one more message after others.
LEMMA OneMore ==
  ASSUME NEW S, NEW s \in Seq(S), NEW T, NEW t \in Seq(T), NEW e \in T
  PROVE  /\ s \o t \in Seq(S \cup T)
         /\ s \o Append(t, e) = Append(s \o t, e)
         /\ Append(t, e) \in Seq(T)
<1>1. PICK Z : Z = S \cup T
  OBVIOUS
<1>2. s \in Seq(Z) /\ t \in Seq(Z) /\ e \in Z
  BY <1>1, SeqMonotonic
<1>3. s \o Append(t, e) = Append(s \o t, e) /\ s \o t \in Seq(Z)
  BY <1>2
<1>4. Append(t, e) \in Seq(T)
  OBVIOUS
<1> QED
  BY <1>1, <1>3, <1>4

\* Messages of other topics leave a view as it is.
LEMMA Elsewhere ==
  ASSUME NEW topic, NEW kind, NEW S, NEW s \in Seq(S),
         NEW T, \A e \in T : e.topic # topic, NEW t \in Seq(T)
  PROVE  View(topic, kind, s \o t) = View(topic, kind, s)
<1> DEFINE G == {g \in Seq(T) : View(topic, kind, s \o g) = View(topic, kind, s)}
<1>1. <<>> \in G
  <2>1. s \o <<>> = s /\ <<>> \in Seq(T)
    OBVIOUS
  <2> QED
    BY <2>1
<1>2. ASSUME NEW g \in Seq(T), NEW e \in T, g \in G PROVE Append(g, e) \in G
  <2>21. PICK h : h = Append(g, e)
    OBVIOUS
  <2>22. PICK r \in Seq(S \cup T) : r = s \o g
    BY OneMore
  <2>1. r = s \o g /\ h = Append(g, e)
    BY <2>21, <2>22
  <2>2. s \o h = Append(r, e) /\ h \in Seq(T)
    BY <2>1, OneMore
  <2>3. View(topic, kind, Append(r, e)) = View(topic, kind, r)
    BY ViewOneMore
  <2>4. View(topic, kind, r) = View(topic, kind, s)
    BY <1>2, <2>1
  <2>5. h \in G
    BY <2>2, <2>3, <2>4
  <2> QED
    BY <2>1, <2>5
<1> HIDE DEF G
<1>3. Seq(T) \subseteq G
  BY <1>1, <1>2, Reads!AllSeqs
<1> QED
  BY <1>3 DEF G

\* The messages t have gone to the end of the list of o, and nothing else changed.
AppendedTo(before, after, o, t) ==
  /\ after[o] = before[o] \o t
  /\ \A k \in Nat : k # o => after[k] = before[k]

\* Messages about one key of a topic whose store appends: they go to its list's end.
LEMMA ItemsRead ==
  ASSUME NEW topic, NEW S, Keyed(S), NEW s \in Seq(S), NEW o \in Nat,
         NEW L, View(topic, "append", s)[o] \in Seq(L),
         NEW T, \A e \in T : e.topic = topic /\ e.key = o, NEW t \in Seq(T)
  PROVE  AppendedTo(View(topic, "append", s), View(topic, "append", s \o t), o, t)
<1> DEFINE v == View(topic, "append", s)
           G == {g \in Seq(T) :
                   /\ View(topic, "append", s \o g)[o] = v[o] \o g
                   /\ \A k \in Nat : k # o => View(topic, "append", s \o g)[k] = v[k]}
<1>1. <<>> \in G
  <2>1. s \o <<>> = s /\ v[o] \o <<>> = v[o] /\ <<>> \in Seq(T)
    OBVIOUS
  <2> QED
    BY <2>1
<1>2. ASSUME NEW g \in Seq(T), NEW e \in T, g \in G PROVE Append(g, e) \in G
  <2>21. PICK h : h = Append(g, e)
    OBVIOUS
  <2>22. PICK r \in Seq(S \cup T) : r = s \o g
    BY OneMore
  <2>1. r = s \o g /\ h = Append(g, e)
    BY <2>21, <2>22
  <2>2. s \o h = Append(r, e) /\ h \in Seq(T)
    BY <2>1, OneMore
  <2>3. e.topic = topic /\ e.key = o /\ Keyed(S \cup T) /\ "append" \in Kinds
    BY DEF Keyed, Kinds
  <2>4. PICK w : w = View(topic, "append", r)
    OBVIOUS
  <2>5. DOMAIN w = Nat
    BY <2>3, <2>4, ViewHasAllKeys
  <2>6. View(topic, "append", Append(r, e)) = Project("append", w, e)
    BY <2>3, <2>4, ViewOneMore
  <2>7. /\ Project("append", w, e)[o] = Append(w[o], e)
        /\ \A k \in Nat : k # o => Project("append", w, e)[k] = w[k]
    <3>1. Project("append", w, e) = [w EXCEPT ![e.key] = Append(w[e.key], e)]
      BY DEF Project, Appended
    <3> QED
      BY <2>3, <2>5, <3>1
  <2>8. w[o] = v[o] \o g /\ \A k \in Nat : k # o => w[k] = v[k]
    BY <1>2, <2>1, <2>4
  <2>9. Append(v[o] \o g, e) = v[o] \o h
    <3>1. PICK l \in Seq(L) : l = v[o]
      OBVIOUS
    <3>2. l \o Append(g, e) = Append(l \o g, e)
      BY OneMore
    <3> QED
      BY <2>1, <3>1, <3>2
  <2> HIDE DEF v
  <2>10. h \in G
    BY <2>2, <2>6, <2>7, <2>8, <2>9
  <2> QED
    BY <2>1, <2>10
<1> HIDE DEF G
<1>3. Seq(T) \subseteq G
  BY <1>1, <1>2, Reads!AllSeqs
<1> QED
  BY <1>3 DEF G, AppendedTo

\* What is held for a key is nothing, or the messages of S about it: one, unless the
\* store appends.
HeldOf(S, topic, kind, k, held) ==
  \/ held = <<>>
  \/ \E m \in S : /\ m.topic = topic /\ m.key = k
                  /\ kind # "append" => held = <<m>>

\* A store keeps nothing for a key that no message of its topic is about, and the
\* record that it keeps for another is one of the messages about it.
LEMMA RecordsAreMessages ==
  ASSUME NEW topic, NEW kind \in Kinds, NEW S, Keyed(S), NEW s \in Seq(S), NEW k \in Nat
  PROVE  HeldOf(S, topic, kind, k, View(topic, kind, s)[k])
<1> DEFINE Of(t) == HeldOf(S, topic, kind, k, View(topic, kind, t)[k])
           G == {t \in Seq(S) : Of(t)}
<1>1. <<>> \in G
  <2>1. View(topic, kind, <<>>)[k] = <<>>
    <3>1. PICK v : v = View(topic, kind, <<>>)
      OBVIOUS
    <3>2. v = [j \in Nat |-> <<>>]
      BY <3>1, ViewOfNone
    <3> QED
      BY <3>1, <3>2
  <2>2. <<>> \in Seq(S)
    OBVIOUS
  <2> QED
    BY <2>1, <2>2 DEF HeldOf
<1>2. ASSUME NEW t \in Seq(S), NEW e \in S, t \in G PROVE Append(t, e) \in G
  <2>1. PICK v : v = View(topic, kind, t)
    OBVIOUS
  <2>2. DOMAIN v = Nat /\ e.key \in Nat
    BY <2>1, ViewHasAllKeys DEF Keyed
  <2>3. View(topic, kind, Append(t, e)) = IF e.topic = topic THEN Project(kind, v, e) ELSE v
    BY <2>1, ViewOneMore
  <2>4. Of(t)
    BY <1>2
  <2>5. Project(kind, v, e)[k] = v[k] \/ (e.key = k /\ (kind # "append" => Project(kind, v, e)[k] = <<e>>))
    <3>1. CASE kind = "by_version"
      BY <2>2, <3>1 DEF Project, ByVersion
    <3>2. CASE kind = "by_time"
      BY <2>2, <3>2 DEF Project, ByTime
    <3>3. CASE kind = "append"
      BY <2>2, <3>3 DEF Project, Appended
    <3> QED
      BY <3>1, <3>2, <3>3 DEF Kinds
  <2>6. Of(Append(t, e))
    <3>1. CASE e.topic = topic
      BY <2>1, <2>3, <2>4, <2>5, <3>1 DEF HeldOf
    <3>2. CASE e.topic # topic
      BY <2>1, <2>3, <2>4, <3>2
    <3> QED
      BY <3>1, <3>2
  <2>7. Append(t, e) \in Seq(S)
    OBVIOUS
  <2> QED
    BY <2>6, <2>7
<1> HIDE DEF G
<1>3. Seq(S) \subseteq G
  BY <1>1, <1>2, Reads!AllSeqs
<1> QED
  BY <1>3 DEF G

\* The messages of t about a key of a topic.
IsTold(topic, k, t) == \E i \in 1..Len(t) : t[i].topic = topic /\ t[i].key = k

\* After them the record held is one of them, or as it was when none is about the key.
HeldAfter(T, topic, k, t, before, after) ==
  \/ \E m \in T : m.topic = topic /\ m.key = k /\ after = <<m>>
  \/ ~IsTold(topic, k, t) /\ after = before

\* A store that keeps one record a key has the last message about it, when none of
\* the messages is out of order.
LEMMA RecordsRead ==
  ASSUME NEW topic, NEW kind \in Kinds, kind # "append",
         NEW S, Keyed(S), NEW s \in Seq(S), NEW T, Keyed(T),
         \A e \in T : e.topic = topic => Replaces(kind, View(topic, kind, s), e),
         \A e, f \in T : e.topic = topic /\ f.topic = topic /\ e.key = f.key
                           => NotAfter(kind, e, f),
         NEW t \in Seq(T), NEW k \in Nat
  PROVE  HeldAfter(T, topic, k, t, View(topic, kind, s)[k], View(topic, kind, s \o t)[k])
<1> DEFINE v == View(topic, kind, s)
           New(g) == \E m \in T : /\ m.topic = topic /\ m.key = k
                                  /\ View(topic, kind, s \o g)[k] = <<m>>
           Old(g) == ~IsTold(topic, k, g) /\ View(topic, kind, s \o g)[k] = v[k]
           G == {g \in Seq(T) : New(g) \/ Old(g)}
<1>1. <<>> \in G
  <2>1. s \o <<>> = s /\ <<>> \in Seq(T) /\ ~IsTold(topic, k, <<>>)
    BY DEF IsTold
  <2> QED
    BY <2>1
<1>2. ASSUME NEW g \in Seq(T), NEW e \in T, g \in G PROVE Append(g, e) \in G
  <2>21. PICK h : h = Append(g, e)
    OBVIOUS
  <2>22. PICK r \in Seq(S \cup T) : r = s \o g
    BY OneMore
  <2>1. r = s \o g /\ h = Append(g, e)
    BY <2>21, <2>22
  <2>2. s \o h = Append(r, e) /\ h \in Seq(T)
    BY <2>1, OneMore
  <2>3. e.key \in Nat /\ Keyed(S \cup T)
    BY DEF Keyed
  <2>4. PICK w : w = View(topic, kind, r)
    OBVIOUS
  <2>5. DOMAIN w = Nat
    BY <2>3, <2>4, ViewHasAllKeys
  <2>6. View(topic, kind, s \o h) = IF e.topic = topic THEN Project(kind, w, e) ELSE w
    BY <2>2, <2>3, <2>4, ViewOneMore
  <2>7. /\ e.key # k => Project(kind, w, e)[k] = w[k]
        /\ Replaces(kind, w, e) => Project(kind, w, e)[e.key] = <<e>>
    BY <2>3, <2>5, Projected
  <2>8. \/ \E m \in T : m.topic = topic /\ m.key = k /\ w[k] = <<m>>
        \/ ~IsTold(topic, k, g) /\ w[k] = v[k]
    BY <1>2, <2>1, <2>4
  <2>9. CASE e.topic = topic /\ e.key = k
    <3>1. Replaces(kind, w, e)
      <4>1. CASE \E m \in T : m.topic = topic /\ m.key = k /\ w[k] = <<m>>
        BY <2>9, <4>1 DEF Replaces
      <4>2. CASE w[k] = v[k]
        <5>1. Replaces(kind, v, e)
          BY <2>9
        <5> HIDE DEF v
        <5> QED
          BY <2>9, <4>2, <5>1 DEF Replaces
      <4> QED
        BY <2>8, <4>1, <4>2
    <3>2. New(h)
      BY <2>6, <2>7, <2>9, <3>1
    <3> QED
      BY <2>1, <2>2, <3>2
  <2>10. CASE ~(e.topic = topic /\ e.key = k)
    <3>1. View(topic, kind, s \o h)[k] = w[k]
      BY <2>6, <2>7, <2>10
    <3>2. \A i \in 1..Len(h) : h[i] = e \/ \E j \in 1..Len(g) : h[i] = g[j]
      BY <2>1
    <3>3. ~IsTold(topic, k, g) => ~IsTold(topic, k, h)
      BY <2>10, <3>2 DEF IsTold
    <3> HIDE DEF v
    <3>4. New(h) \/ Old(h)
      BY <2>8, <3>1, <3>3
    <3> QED
      BY <2>1, <2>2, <3>4
  <2> QED
    BY <2>9, <2>10
<1> HIDE DEF G
<1>3. Seq(T) \subseteq G
  BY <1>1, <1>2, Reads!AllSeqs
<1> QED
  BY <1>3 DEF G, HeldAfter

-------------------------------------------------------------------------------
\* A message is about an entity that there is.
AboutKnown(e, ords, rets, tics) ==
  /\ e.key \in Nat
  /\ e.topic = "customers" => e.key \in Customers
  /\ e.topic = "inventory" => e.key \in Rows
  /\ e.topic \in {"orders", "order_items"} => e.key \in 1..Len(ords)
  /\ e.topic = "returns" => e.key \in 1..Len(rets)
  /\ e.topic = "tickets" => e.key \in 1..Len(tics)

StreamIsKnown == \A i \in 1..Len(stream) : AboutKnown(stream[i], orders, returns, tickets)

\* The store of a topic that goes by time holds a message with each of the bodies.
BodiesTold(topic, bodies, s) ==
  \A k \in DOMAIN bodies :
    \E m : View(topic, "by_time", s)[k] = <<m>> /\ m.body = bodies[k]

\* What the messages about the orders say of them.
Briefs(ords) ==
  [o \in 1..Len(ords) |-> [customer |-> ords[o].customer, status |-> ords[o].status]]

CustomersTold ==
  \A c \in Customers :
    \E m : /\ View("customers", "by_version", stream)[c] = <<m>>
           /\ customers[c] = [tier |-> m.body.tier, version |-> m.ver, updatedAt |-> m.at]

Bodies(list) == [i \in DOMAIN list |-> list[i].body]

ItemsTold ==
  \A o \in 1..Len(orders) :
    Bodies(View("order_items", "append", stream)[o]) = orders[o].items

StockTold ==
  \A r \in Rows :
    \E m : /\ View("inventory", "by_time", stream)[r] = <<m>>
           /\ m.body.qty \in Nat /\ m.body.qty >= inventory[r]

\* The stores that have read the stream hold the state, the stock at least.
ReplayInv ==
  /\ StreamIsKnown
  /\ CustomersTold
  /\ BodiesTold("orders", Briefs(orders), stream)
  /\ BodiesTold("returns", returns, stream)
  /\ BodiesTold("tickets", tickets, stream)
  /\ ItemsTold
  /\ StockTold

Messages == {stream[i] : i \in DOMAIN stream}

LEMMA MessagesAreKnown ==
  ASSUME StreamInv, StreamIsKnown
  PROVE  /\ stream \in Seq(Messages) /\ Keyed(Messages)
         /\ \A e \in Messages : AboutKnown(e, orders, returns, tickets) /\ e.at \in Nat /\ e.at <= Now
<1>1. stream \in Seq(Messages)
  BY DEF StreamInv, Causal, Messages
<1>2. DOMAIN stream = 1..Len(stream)
  BY <1>1, LenProperties
<1>3. \A e \in Messages : AboutKnown(e, orders, returns, tickets) /\ e.at \in Nat /\ e.at <= Now
  BY <1>2 DEF Messages, StreamIsKnown, StreamInv, Causal
<1> QED
  BY <1>1, <1>3 DEF Keyed, AboutKnown

\* Messages of now come after all those that a store holds.
LEMMA NowReplaces ==
  ASSUME TypeOK, StreamInv, StreamIsKnown, NEW topic, NEW e, e.key \in Nat, e.at = Now
  PROVE  Replaces("by_time", View(topic, "by_time", stream), e)
<1>1. stream \in Seq(Messages) /\ Keyed(Messages)
  BY MessagesAreKnown
<1>2. PICK v : v = View(topic, "by_time", stream)
  OBVIOUS
<1>3. "by_time" \in Kinds /\ "by_time" # "append"
  BY DEF Kinds
<1>4. v[e.key] = <<>> \/ \E m \in Messages : v[e.key] = <<m>>
  <2>1. HeldOf(Messages, topic, "by_time", e.key, v[e.key])
    BY <1>1, <1>2, <1>3, RecordsAreMessages
  <2> QED
    BY <2>1 DEF HeldOf
<1>5. \A m \in Messages : m.at \in Nat /\ m.at <= Now
  BY MessagesAreKnown
<1>6. Now \in Nat
  BY NowIsNat
<1>7. \A m \in Messages : NotAfter("by_time", m, e)
  BY <1>5, <1>6 DEF NotAfter
<1> QED
  BY <1>2, <1>4, <1>7 DEF Replaces

\* So after they are emitted a store that goes by time holds the last about each key.
LEMMA NowRead ==
  ASSUME TypeOK, StreamInv, StreamIsKnown, NEW topic, NEW T, Keyed(T),
         \A e \in T : e.at = Now, NEW t \in Seq(T), NEW k \in Nat
  PROVE  HeldAfter(T, topic, k, t, View(topic, "by_time", stream)[k],
                   View(topic, "by_time", stream \o t)[k])
<1>1. stream \in Seq(Messages) /\ Keyed(Messages)
  BY MessagesAreKnown
<1>2. \A e \in T : Replaces("by_time", View(topic, "by_time", stream), e)
  BY NowReplaces DEF Keyed
<1>3. \A e, f \in T : NotAfter("by_time", e, f)
  BY NowIsNat DEF NotAfter
<1>4. "by_time" \in Kinds /\ "by_time" # "append"
  BY DEF Kinds
<1> QED
  BY <1>1, <1>2, <1>3, <1>4, RecordsRead

\* The messages of t turn the old bodies of a topic into the new ones.
Tells(topic, old, new, t) ==
  /\ DOMAIN new \subseteq Nat
  /\ \A i \in 1..Len(t) : t[i].topic = topic => t[i].key \in DOMAIN new /\ t[i].body = new[t[i].key]
  /\ \A k \in DOMAIN new : IsTold(topic, k, t) \/ (k \in DOMAIN old /\ old[k] = new[k])

LEMMA BodiesStayTold ==
  ASSUME TypeOK, StreamInv, StreamIsKnown, NEW topic, NEW old, NEW new,
         NEW T, Keyed(T), \A e \in T : e.at = Now, NEW t \in Seq(T),
         BodiesTold(topic, old, stream), Tells(topic, old, new, t)
  PROVE  BodiesTold(topic, new, stream \o t)
<1> DEFINE E == {t[i] : i \in DOMAIN t}
<1>1. t \in Seq(E) /\ DOMAIN t = 1..Len(t) /\ E \subseteq T
  BY OfItsElements, LenProperties, ElementOfSeq
<1>2. Keyed(E) /\ \A e \in E : e.at = Now
  BY <1>1 DEF Keyed
<1>3. \A m \in E : m.topic = topic => m.body = new[m.key]
  BY <1>1 DEF Tells
<1> HIDE DEF E
<1> SUFFICES ASSUME NEW k \in DOMAIN new
             PROVE  \E m : View(topic, "by_time", stream \o t)[k] = <<m>> /\ m.body = new[k]
  BY DEF BodiesTold
<1>4. k \in Nat
  BY DEF Tells
<1>5. HeldAfter(E, topic, k, t, View(topic, "by_time", stream)[k],
                View(topic, "by_time", stream \o t)[k])
  BY <1>1, <1>2, <1>4, NowRead
<1>6. CASE \E m \in E : m.topic = topic /\ m.key = k /\ View(topic, "by_time", stream \o t)[k] = <<m>>
  BY <1>3, <1>6
<1>7. CASE /\ ~IsTold(topic, k, t)
           /\ View(topic, "by_time", stream \o t)[k] = View(topic, "by_time", stream)[k]
  <2>1. k \in DOMAIN old /\ old[k] = new[k]
    BY <1>7 DEF Tells
  <2>2. \E m : View(topic, "by_time", stream)[k] = <<m>> /\ m.body = old[k]
    BY <2>1 DEF BodiesTold
  <2> QED
    BY <1>7, <2>1, <2>2
<1> QED
  BY <1>5, <1>6, <1>7 DEF HeldAfter

\* Messages of other topics leave the customers, and the items, told.
LEMMA CustomersStay ==
  ASSUME StreamInv, CustomersTold, UNCHANGED customers,
         NEW T, \A e \in T : e.topic # "customers",
         NEW msgs \in Seq(T), stream' = stream \o msgs
  PROVE  CustomersTold'
<1>1. stream \in Seq(Messages)
  BY DEF StreamInv, Causal, Messages
<1>2. View("customers", "by_version", stream \o msgs) = View("customers", "by_version", stream)
  BY <1>1, Elsewhere
<1> QED
  BY <1>2 DEF CustomersTold

LEMMA ItemsStay ==
  ASSUME StreamInv, ItemsTold, Len(orders') = Len(orders),
         \A o \in 1..Len(orders) : orders'[o].items = orders[o].items,
         NEW T, \A e \in T : e.topic # "order_items",
         NEW msgs \in Seq(T), stream' = stream \o msgs
  PROVE  ItemsTold'
<1>1. stream \in Seq(Messages)
  BY DEF StreamInv, Causal, Messages
<1>2. View("order_items", "append", stream \o msgs) = View("order_items", "append", stream)
  BY <1>1, Elsewhere
<1> QED
  BY <1>2 DEF ItemsTold

\* Snapshots of the stock as it is leave it told, and so do other messages.
LEMMA StockStays ==
  ASSUME TypeOK, StreamInv, StreamIsKnown, StockTold, UNCHANGED inventory,
         NEW T, Keyed(T), \A e \in T : e.at = Now,
         \A e \in T : e.topic = "inventory" => e.body.qty = inventory[e.key],
         NEW msgs \in Seq(T), stream' = stream \o msgs
  PROVE  StockTold'
<1> SUFFICES ASSUME NEW r \in Rows
             PROVE  \E m : /\ View("inventory", "by_time", stream \o msgs)[r] = <<m>>
                           /\ m.body.qty \in Nat /\ m.body.qty >= inventory[r]
  BY DEF StockTold
<1>1. r \in Nat /\ inventory[r] \in Nat
  BY SizesAssumption DEF Rows, TypeOK
<1>2. HeldAfter(T, "inventory", r, msgs, View("inventory", "by_time", stream)[r],
                View("inventory", "by_time", stream \o msgs)[r])
  BY <1>1, NowRead
<1>3. \E m : /\ View("inventory", "by_time", stream)[r] = <<m>>
             /\ m.body.qty \in Nat /\ m.body.qty >= inventory[r]
  BY DEF StockTold
<1>4. inventory[r] >= inventory[r]
  BY <1>1
<1> QED
  BY <1>1, <1>2, <1>3, <1>4 DEF HeldAfter

\* One of the messages, and no other, is of the topic: it tells body number n.
OneTells(topic, msgs, n, body) ==
  \E i \in 1..Len(msgs) :
    /\ msgs[i].topic = topic /\ msgs[i].key = n /\ msgs[i].body = body
    /\ \A j \in 1..Len(msgs) : j # i => msgs[j].topic # topic

\* Messages of other topics tell that bodies are as they were,
LEMMA TellsNothing ==
  ASSUME NEW topic, NEW bodies, DOMAIN bodies \subseteq Nat, NEW t,
         \A i \in 1..Len(t) : t[i].topic # topic
  PROVE  Tells(topic, bodies, bodies, t)
BY DEF Tells

\* and one of the topic that there is a new one.
LEMMA TellsNext ==
  ASSUME NEW topic, NEW S, NEW old \in Seq(S), NEW x \in S, NEW t,
         OneTells(topic, t, Len(old) + 1, x)
  PROVE  Tells(topic, old, Append(old, x), t)
<1> PICK i \in 1..Len(t) :
       /\ t[i].topic = topic /\ t[i].key = Len(old) + 1 /\ t[i].body = x
       /\ \A j \in 1..Len(t) : j # i => t[j].topic # topic
  BY DEF OneTells
<1>1. PICK new : new = Append(old, x)
  OBVIOUS
<1>2. /\ DOMAIN new = 1..Len(old) + 1 /\ DOMAIN old = 1..Len(old) /\ Len(old) \in Nat
      /\ new[Len(old) + 1] = x
      /\ \A k \in 1..Len(old) : new[k] = old[k]
  BY <1>1
<1>3. \A k \in 1..Len(old) + 1 : k = Len(old) + 1 \/ k \in 1..Len(old)
  BY <1>2
<1>4. IsTold(topic, Len(old) + 1, t)
  BY DEF IsTold
<1>5. DOMAIN new \subseteq Nat /\ Len(old) + 1 \in DOMAIN new
  BY <1>2
<1>6. \A j \in 1..Len(t) : t[j].topic = topic => t[j].key \in DOMAIN new /\ t[j].body = new[t[j].key]
  BY <1>2, <1>5
<1>7. \A k \in DOMAIN new : IsTold(topic, k, t) \/ (k \in DOMAIN old /\ old[k] = new[k])
  BY <1>2, <1>3, <1>4
<1> QED
  BY <1>1, <1>5, <1>6, <1>7 DEF Tells

\* Messages of now that tell how the state has changed leave it told.
LEMMA EmissionTells ==
  ASSUME TypeOK, StreamInv, ReplayInv, CustomersTold', ItemsTold', StockTold',
         Len(orders) <= Len(orders'), Len(returns) <= Len(returns'),
         Len(tickets) <= Len(tickets'),
         Len(orders') \in Nat, Len(returns') \in Nat, Len(tickets') \in Nat,
         NEW T, NEW msgs \in Seq(T), stream' = stream \o msgs,
         \A e \in T : e.at = Now /\ AboutKnown(e, orders', returns', tickets'),
         Tells("orders", Briefs(orders), Briefs(orders'), msgs),
         Tells("returns", returns, returns', msgs),
         Tells("tickets", tickets, tickets', msgs)
  PROVE  ReplayInv'
<1>1. Keyed(T)
  BY DEF Keyed, AboutKnown
<1>2. StreamIsKnown'
  <2>1. stream \in Seq(Messages)
    BY DEF StreamInv, Causal, Messages
  <2>2. /\ stream' \in Seq(Messages \cup T)
        /\ Len(stream) \in Nat /\ Len(msgs) \in Nat /\ Len(stream') = Len(stream) + Len(msgs)
        /\ \A i \in 1..Len(stream) : stream'[i] = stream[i]
        /\ \A i \in 1..Len(msgs) : stream'[Len(stream) + i] = msgs[i]
    BY <2>1, Concatenating
  <2>3. ASSUME NEW e, AboutKnown(e, orders, returns, tickets)
        PROVE  AboutKnown(e, orders', returns', tickets')
    <3>1. Len(orders) \in Nat /\ Len(returns) \in Nat /\ Len(tickets) \in Nat
      BY LenProperties DEF TypeOK
    <3>2. \A k \in Nat : /\ k <= Len(orders) => k <= Len(orders')
                         /\ k <= Len(returns) => k <= Len(returns')
                         /\ k <= Len(tickets) => k <= Len(tickets')
      <4>1. PICK a \in Nat, b \in Nat, c \in Nat, d \in Nat, f \in Nat, g \in Nat :
              /\ a = Len(orders) /\ b = Len(returns) /\ c = Len(tickets)
              /\ d = Len(orders') /\ f = Len(returns') /\ g = Len(tickets')
        BY <3>1
      <4>2. a <= d /\ b <= f /\ c <= g
        BY <4>1
      <4>3. \A k \in Nat : (k <= a => k <= d) /\ (k <= b => k <= f) /\ (k <= c => k <= g)
        BY <4>2
      <4> QED
        BY <4>1, <4>3
    <3>3. /\ 1..Len(orders) \subseteq 1..Len(orders')
          /\ 1..Len(returns) \subseteq 1..Len(returns')
          /\ 1..Len(tickets) \subseteq 1..Len(tickets')
      BY <3>1, <3>2
    <3> QED
      BY <2>3, <3>3 DEF AboutKnown
  <2>4. ASSUME NEW i \in 1..Len(stream')
        PROVE  AboutKnown(stream'[i], orders', returns', tickets')
    <3>1. CASE i \in 1..Len(stream)
      BY <2>2, <2>3, <3>1 DEF ReplayInv, StreamIsKnown
    <3>2. CASE i \notin 1..Len(stream)
      <4>1. i - Len(stream) \in 1..Len(msgs) /\ i = Len(stream) + (i - Len(stream))
        BY <2>2, <3>2
      <4>2. stream'[i] \in T
        BY <2>2, <4>1, ElementOfSeq
      <4> QED
        BY <4>2
    <3> QED
      BY <3>1, <3>2
  <2> QED
    BY <2>4 DEF StreamIsKnown
<1>3. \A e \in T : e.at = Now
  OBVIOUS
<1>4. /\ BodiesTold("orders", Briefs(orders'), stream')
      /\ BodiesTold("returns", returns', stream')
      /\ BodiesTold("tickets", tickets', stream')
  BY <1>1, <1>3, BodiesStayTold DEF ReplayInv
<1> QED
  BY <1>2, <1>4 DEF ReplayInv

\* A step that emits nothing leaves the state told, though it may take from the stock.
LEMMA SilenceTells ==
  ASSUME TypeOK, TypeOK', ReplayInv, UNCHANGED <<stream, customers, orders, returns, tickets>>,
         \A r \in Rows : inventory'[r] <= inventory[r]
  PROVE  ReplayInv'
<1>1. StockTold'
  <2> SUFFICES ASSUME NEW r \in Rows
               PROVE  \E m : /\ View("inventory", "by_time", stream)[r] = <<m>>
                             /\ m.body.qty \in Nat /\ m.body.qty >= inventory'[r]
    BY DEF StockTold
  <2>1. PICK m : /\ View("inventory", "by_time", stream)[r] = <<m>>
                 /\ m.body.qty \in Nat /\ m.body.qty >= inventory[r]
    BY DEF ReplayInv, StockTold
  <2>2. PICK a \in Nat, b \in Nat : a = inventory[r] /\ b = inventory'[r]
    BY DEF TypeOK
  <2>3. b <= a /\ m.body.qty >= a
    BY <2>1, <2>2
  <2>4. m.body.qty >= b
    BY <2>1, <2>3
  <2> QED
    BY <2>1, <2>2, <2>4
<1>2. ReplayInv => /\ StreamIsKnown' /\ CustomersTold' /\ ItemsTold'
                   /\ BodiesTold("orders", Briefs(orders'), stream')
                   /\ BodiesTold("returns", returns', stream')
                   /\ BodiesTold("tickets", tickets', stream')
  BY DEF ReplayInv, StreamIsKnown, CustomersTold, ItemsTold
<1> QED
  BY <1>1, <1>2 DEF ReplayInv

\* The numbers of the entities, before a step and after it.
LEMMA Sizes ==
  ASSUME TypeOK, TypeOK'
  PROVE  /\ Len(orders) \in Nat /\ Len(returns) \in Nat /\ Len(tickets) \in Nat
         /\ Len(orders') \in Nat /\ Len(returns') \in Nat /\ Len(tickets') \in Nat
         /\ DOMAIN Briefs(orders) = 1..Len(orders) /\ DOMAIN returns = 1..Len(returns)
         /\ DOMAIN tickets = 1..Len(tickets)
BY LenProperties DEF TypeOK, Briefs

\* A message about what no step of the model keeps, or a snapshot of the stock.
LEMMA PassingTells ==
  ASSUME TypeOK, TypeOK', StreamInv, ReplayInv, UNCHANGED state,
         NEW T, NEW msgs \in Seq(T), stream' = stream \o msgs,
         \A e \in T : /\ e.at = Now /\ e.key \in Nat
                      /\ e.topic = "payments" \/ (/\ e.topic = "inventory" /\ e.key \in Rows
                                                  /\ e.body.qty = inventory[e.key])
  PROVE  ReplayInv'
<1>1. UNCHANGED <<customers, orders, inventory, returns, tickets>>
  BY DEF state
<1>2. /\ \A e \in T : e.topic \notin {"customers", "orders", "order_items", "returns", "tickets"}
      /\ \A e \in T : e.topic = "inventory" => e.key \in Rows /\ e.body.qty = inventory[e.key]
      /\ Keyed(T)
  BY DEF Keyed
<1>3. \A e \in T : e.at = Now /\ AboutKnown(e, orders', returns', tickets')
  BY <1>2 DEF AboutKnown
<1>4. CustomersTold' /\ ItemsTold' /\ StockTold'
  <2>1. CustomersTold'
    BY <1>1, <1>2, CustomersStay DEF ReplayInv
  <2>2. ItemsTold'
    BY <1>1, <1>2, ItemsStay DEF ReplayInv
  <2>3. StockTold'
    BY <1>1, <1>2, <1>3, StockStays DEF ReplayInv
  <2> QED
    BY <2>1, <2>2, <2>3
<1>5. \A i \in 1..Len(msgs) : msgs[i] \in T
  BY ElementOfSeq
<1>6. /\ Tells("orders", Briefs(orders), Briefs(orders), msgs)
      /\ Tells("returns", returns, returns, msgs)
      /\ Tells("tickets", tickets, tickets, msgs)
  <2>1. /\ \A i \in 1..Len(msgs) : msgs[i].topic # "orders"
        /\ \A i \in 1..Len(msgs) : msgs[i].topic # "returns"
        /\ \A i \in 1..Len(msgs) : msgs[i].topic # "tickets"
    BY <1>2, <1>5
  <2>2. /\ DOMAIN Briefs(orders) \subseteq Nat /\ DOMAIN returns \subseteq Nat
        /\ DOMAIN tickets \subseteq Nat
    BY Sizes
  <2> QED
    BY <2>1, <2>2, TellsNothing
<1>7. /\ Len(orders) <= Len(orders') /\ Len(returns) <= Len(returns')
      /\ Len(tickets) <= Len(tickets')
      /\ Len(orders') \in Nat /\ Len(returns') \in Nat /\ Len(tickets') \in Nat
  BY <1>1, Sizes
<1> QED
  BY <1>1, <1>3, <1>4, <1>6, <1>7, EmissionTells

\* Messages of now that may be emitted together with one about a return.
MayGoWithReturn(T) ==
  \A e \in T : /\ e.at = Now /\ e.key \in Nat
               /\ e.topic \in {"payments", "tier_changes", "customers", "returns"}
               /\ e.topic = "customers" => e.key \in Customers

\* There is one more return, and a message tells it.
LEMMA ReturnTells ==
  ASSUME TypeOK, TypeOK', StreamInv, ReplayInv, UNCHANGED <<orders, inventory, tickets>>,
         NEW ret \in Return, returns' = Append(returns, ret),
         CustomersTold',
         NEW T, NEW msgs \in Seq(T), stream' = stream \o msgs,
         MayGoWithReturn(T), OneTells("returns", msgs, Len(returns) + 1, ret)
  PROVE  ReplayInv'
<1> DEFINE E == {msgs[j] : j \in DOMAIN msgs}
<1>1. msgs \in Seq(E) /\ E \subseteq T /\ DOMAIN msgs = 1..Len(msgs)
  BY OfItsElements, LenProperties, ElementOfSeq
<1>2. \A e \in E : e.topic = "returns" => e.key = Len(returns) + 1
  BY <1>1 DEF OneTells
<1> HIDE DEF E
<1>3. /\ \A e \in E : e.topic \notin {"orders", "order_items", "tickets", "inventory"}
      /\ \A e \in E : e.at = Now /\ e.key \in Nat
      /\ \A e \in E : e.topic = "customers" => e.key \in Customers
      /\ Keyed(E)
  BY <1>1 DEF Keyed, MayGoWithReturn
<1>4. /\ Len(returns') = Len(returns) + 1 /\ Len(returns) + 1 \in 1..Len(returns')
      /\ Len(returns) <= Len(returns')
  <2>1. Len(returns') = Len(returns) + 1 /\ Len(returns) \in Nat
    BY DEF TypeOK
  <2>2. Len(returns) + 1 \in 1..Len(returns) + 1 /\ Len(returns) <= Len(returns) + 1
    BY <2>1
  <2> QED
    BY <2>1, <2>2
<1>5. \A e \in E : e.at = Now /\ AboutKnown(e, orders', returns', tickets')
  BY <1>2, <1>3, <1>4 DEF AboutKnown
<1>6. ItemsTold' /\ StockTold'
  <2>1. ItemsTold'
    BY <1>1, <1>3, ItemsStay DEF ReplayInv
  <2>2. StockTold'
    BY <1>1, <1>3, StockStays DEF ReplayInv
  <2> QED
    BY <2>1, <2>2
<1>7. \A j \in 1..Len(msgs) : msgs[j] \in E
  BY <1>1, ElementOfSeq
<1>8. /\ Tells("orders", Briefs(orders), Briefs(orders), msgs)
      /\ Tells("tickets", tickets, tickets, msgs)
  <2>1. /\ \A j \in 1..Len(msgs) : msgs[j].topic # "orders"
        /\ \A j \in 1..Len(msgs) : msgs[j].topic # "tickets"
    BY <1>3, <1>7
  <2>2. DOMAIN Briefs(orders) \subseteq Nat /\ DOMAIN tickets \subseteq Nat
    BY Sizes
  <2> QED
    BY <2>1, <2>2, TellsNothing
<1>9. Tells("returns", returns, returns', msgs)
  <2>1. returns \in Seq(Return)
    BY DEF TypeOK
  <2> QED
    BY <2>1, TellsNext
<1>10. Len(orders) <= Len(orders') /\ Len(tickets) <= Len(tickets')
  BY Sizes
<1> QED
  BY <1>1, <1>4, <1>5, <1>6, <1>8, <1>9, <1>10, Sizes, EmissionTells

\* The message that tells a customer's record.
TellsCustomer(m, c, cust) ==
  /\ m.topic = "customers" /\ m.key = c
  /\ cust = [tier |-> m.body.tier, version |-> m.ver, updatedAt |-> m.at]

\* A customer's new record, of the next version, takes the place of the old one.
LEMMA CustomerTells ==
  ASSUME TypeOK, StreamInv, StreamIsKnown, CustomersTold, NEW c \in Customers, NEW new,
         new.version = customers[c].version + 1, customers' = [customers EXCEPT ![c] = new],
         NEW T, Keyed(T), NEW msgs \in Seq(T), stream' = stream \o msgs,
         NEW i \in 1..Len(msgs), TellsCustomer(msgs[i], c, new),
         \A e \in T : e.topic = "customers" => e = msgs[i]
  PROVE  CustomersTold'
<1>1. stream \in Seq(Messages) /\ Keyed(Messages)
  BY MessagesAreKnown
<1>2. PICK v : v = View("customers", "by_version", stream)
  OBVIOUS
<1>3. PICK old : /\ v[c] = <<old>>
                 /\ customers[c] = [tier |-> old.body.tier, version |-> old.ver,
                                    updatedAt |-> old.at]
  BY <1>2 DEF CustomersTold
<1> DEFINE m == msgs[i]
<1>4. old.ver \in Nat /\ m.ver = old.ver + 1 /\ m.topic = "customers" /\ m.key = c
  <2>1. customers[c] \in Customer
    BY DEF TypeOK
  <2>2. customers[c].version \in Nat /\ customers[c].version = old.ver
    BY <1>3, <2>1 DEF Customer
  <2>3. new.version = m.ver /\ m.topic = "customers" /\ m.key = c
    BY DEF TellsCustomer
  <2> QED
    BY <2>2, <2>3
<1> HIDE DEF m
<1>5. NotAfter("by_version", old, m) /\ NotAfter("by_version", m, m)
  BY <1>4 DEF NotAfter
<1>6. Replaces("by_version", v, m)
  BY <1>3, <1>4, <1>5 DEF Replaces
<1>7. /\ \A e \in T : e.topic = "customers" => Replaces("by_version", v, e)
      /\ \A e, f \in T : e.topic = "customers" /\ f.topic = "customers" /\ e.key = f.key
                           => NotAfter("by_version", e, f)
  BY <1>5, <1>6 DEF m
<1>8. "by_version" \in Kinds /\ "by_version" # "append"
  BY DEF Kinds
<1>9. ASSUME NEW d \in Customers
      PROVE  HeldAfter(T, "customers", d, msgs, v[d],
                       View("customers", "by_version", stream')[d])
  <2>1. d \in Nat
    BY SizesAssumption DEF Customers
  <2> QED
    BY <1>1, <1>2, <1>7, <1>8, <2>1, RecordsRead
<1>10. IsTold("customers", c, msgs)
  BY <1>4 DEF IsTold, m
<1> SUFFICES ASSUME NEW d \in Customers
             PROVE  \E n : /\ View("customers", "by_version", stream')[d] = <<n>>
                           /\ customers'[d] = [tier |-> n.body.tier, version |-> n.ver,
                                               updatedAt |-> n.at]
  BY DEF CustomersTold
<1>11. customers'[d] = IF d = c THEN new ELSE customers[d]
  BY DEF TypeOK
<1>12. CASE d = c
  <2>1. View("customers", "by_version", stream')[c] = <<m>>
    BY <1>9, <1>10 DEF HeldAfter, m
  <2>2. new = [tier |-> m.body.tier, version |-> m.ver, updatedAt |-> m.at]
    BY DEF TellsCustomer, m
  <2> QED
    BY <1>11, <1>12, <2>1, <2>2
<1>13. CASE d # c
  <2>1. View("customers", "by_version", stream')[d] = v[d]
    <3>1. \A e \in T : e.topic = "customers" => e.key # d
      BY <1>4, <1>13 DEF m
    <3> QED
      BY <1>9, <3>1 DEF HeldAfter
  <2>2. PICK n : /\ v[d] = <<n>>
                 /\ customers[d] = [tier |-> n.body.tier, version |-> n.ver,
                                    updatedAt |-> n.at]
    BY <1>2 DEF CustomersTold
  <2> QED
    BY <1>11, <1>13, <2>1, <2>2
<1> QED
  BY <1>12, <1>13

LEMMA UpToFour == 1..4 = {1, 2, 3, 4}
OBVIOUS

\* A scenario fires.
LEMMA FiringTells ==
  ASSUME TypeOK, TypeOK', StreamInv, ReplayInv, UNCHANGED <<orders, inventory, tickets>>,
         NEW o \in 1..Len(orders), NEW c \in Customers, NEW old, NEW new,
         new.version = customers[c].version + 1, customers' = [customers EXCEPT ![c] = new],
         new = [tier |-> new.tier, version |-> new.version, updatedAt |-> Now],
         returns' = Append(returns, Rejected(o)),
         NEW n, n = Len(returns) + 1,
         NEW msgs, msgs = FireMsgs(o, c, old, new, n), stream' = stream \o msgs
  PROVE  ReplayInv'
<1> DEFINE T == {PaymentMsg(o, "CHARGEBACK"), TierMsg(c, old.tier, new.tier),
                 CustomerMsg(c, new), ReturnMsg(n, Rejected(o))}
<1>1. /\ msgs \in Seq(T) /\ Len(msgs) = 4
      /\ msgs[1] = PaymentMsg(o, "CHARGEBACK") /\ msgs[2] = TierMsg(c, old.tier, new.tier)
      /\ msgs[3] = CustomerMsg(c, new) /\ msgs[4] = ReturnMsg(n, Rejected(o))
  BY DEF FireMsgs
<1>2. /\ msgs[1].topic = "payments" /\ msgs[1].key = o /\ msgs[1].at = Now
      /\ msgs[2].topic = "tier_changes" /\ msgs[2].key = c /\ msgs[2].at = Now
      /\ msgs[3].topic = "customers" /\ msgs[3].key = c /\ msgs[3].at = Now
      /\ msgs[3].ver = new.version /\ msgs[3].body.tier = new.tier
      /\ msgs[4].topic = "returns" /\ msgs[4].key = n /\ msgs[4].at = Now
      /\ msgs[4].body = Rejected(o)
  BY <1>1 DEF PaymentMsg, TierMsg, CustomerMsg, ReturnMsg, Message
<1>3. \A e \in T : e \in {msgs[1], msgs[2], msgs[3], msgs[4]}
  BY <1>1
<1> HIDE DEF T
<1>4. o \in Nat /\ c \in Nat /\ n \in Nat
  BY SizesAssumption, Sizes DEF Customers
<1>5. \A e \in T : /\ e.at = Now /\ e.key \in Nat
                   /\ e.topic \in {"payments", "tier_changes", "customers", "returns"}
                   /\ e.topic = "customers" => e.key \in Customers /\ e = msgs[3]
  <2> SUFFICES ASSUME NEW e \in T
               PROVE  /\ e.at = Now /\ e.key \in Nat
                      /\ e.topic \in {"payments", "tier_changes", "customers", "returns"}
                      /\ e.topic = "customers" => e.key \in Customers /\ e = msgs[3]
    OBVIOUS
  <2>1. CASE e = msgs[1]
    BY <1>2, <1>4, <2>1
  <2>2. CASE e = msgs[2]
    BY <1>2, <1>4, <2>2
  <2>3. CASE e = msgs[3]
    BY <1>2, <1>4, <2>3
  <2>4. CASE e = msgs[4]
    BY <1>2, <1>4, <2>4
  <2> QED
    BY <1>3, <2>1, <2>2, <2>3, <2>4
<1>6. CustomersTold'
  <2>1. Keyed(T) /\ 3 \in 1..Len(msgs) /\ (\A e \in T : e.topic = "customers" => e = msgs[3])
    BY <1>1, <1>5 DEF Keyed
  <2>2. TellsCustomer(msgs[3], c, new)
    BY <1>2 DEF TellsCustomer
  <2> QED
    BY <1>1, <2>1, <2>2, CustomerTells DEF ReplayInv
<1>7. Rejected(o) \in Return
  BY <1>4 DEF Rejected, Return
<1>8. /\ 4 \in 1..Len(msgs)
      /\ \A j \in 1..Len(msgs) : j # 4 => msgs[j].topic # "returns"
  <2>1. 1..Len(msgs) = {1, 2, 3, 4}
    BY <1>1, UpToFour
  <2>2. /\ msgs[1].topic # "returns" /\ msgs[2].topic # "returns"
        /\ msgs[3].topic # "returns"
    BY <1>2
  <2> QED
    BY <2>1, <2>2
<1>9. OneTells("returns", msgs, Len(returns) + 1, Rejected(o))
  <2>1. OneTells("returns", msgs, n, Rejected(o))
    <3> SUFFICES \E i \in 1..Len(msgs) :
                   /\ msgs[i].topic = "returns" /\ msgs[i].key = n
                   /\ msgs[i].body = Rejected(o)
                   /\ \A j \in 1..Len(msgs) : j # i => msgs[j].topic # "returns"
      BY DEF OneTells
    <3>1. 4 \in 1..Len(msgs)
      BY <1>8
    <3> WITNESS 4 \in 1..Len(msgs)
    <3> QED
      BY <1>2, <1>8
  <2> QED
    BY <2>1
<1>10. MayGoWithReturn(T)
  BY <1>5 DEF MayGoWithReturn
<1> QED
  BY <1>1, <1>6, <1>7, <1>9, <1>10, ReturnTells

\* A ticket is opened.
LEMMA TicketTells ==
  ASSUME TypeOK, TypeOK', StreamInv, ReplayInv,
         UNCHANGED <<customers, orders, inventory, returns>>,
         NEW tic \in Ticket, tickets' = Append(tickets, tic),
         NEW m, m = TicketMsg(Len(tickets) + 1, tic), stream' = stream \o <<m>>
  PROVE  ReplayInv'
<1> DEFINE T == {m}
<1>1. PICK msgs : msgs = <<m>>
  OBVIOUS
<1>2. msgs \in Seq(T) /\ Len(msgs) = 1 /\ msgs[1] = m /\ stream' = stream \o msgs
  BY <1>1
<1>3. m.topic = "tickets" /\ m.key = Len(tickets) + 1 /\ m.body = tic /\ m.at = Now
  BY DEF TicketMsg, Message
<1>4. /\ Len(tickets') = Len(tickets) + 1 /\ Len(tickets) <= Len(tickets')
      /\ m.key \in 1..Len(tickets') /\ m.key \in Nat
  <2>1. Len(tickets') = Len(tickets) + 1 /\ Len(tickets) \in Nat
    BY DEF TypeOK
  <2>2. Len(tickets) + 1 \in 1..Len(tickets) + 1 /\ Len(tickets) <= Len(tickets) + 1
    BY <2>1
  <2> QED
    BY <1>3, <2>1, <2>2
<1>5. AboutKnown(m, orders', returns', tickets') /\ Keyed(T)
  BY <1>3, <1>4 DEF AboutKnown, Keyed
<1>6. \A e \in T : /\ e = m /\ e.at = Now /\ AboutKnown(e, orders', returns', tickets')
                   /\ e.topic \notin {"customers", "orders", "order_items", "returns", "inventory"}
  BY <1>3, <1>5
<1> HIDE DEF T
<1>7. CustomersTold' /\ ItemsTold' /\ StockTold'
  <2>1. CustomersTold'
    BY <1>2, <1>6, CustomersStay DEF ReplayInv
  <2>2. ItemsTold'
    BY <1>2, <1>6, ItemsStay DEF ReplayInv
  <2>3. StockTold'
    BY <1>2, <1>5, <1>6, StockStays DEF ReplayInv
  <2> QED
    BY <2>1, <2>2, <2>3
<1>8. /\ Tells("orders", Briefs(orders), Briefs(orders), msgs)
      /\ Tells("returns", returns, returns, msgs)
  <2>1. /\ \A j \in 1..Len(msgs) : msgs[j].topic # "orders"
        /\ \A j \in 1..Len(msgs) : msgs[j].topic # "returns"
    BY <1>2, <1>3
  <2>2. DOMAIN Briefs(orders) \subseteq Nat /\ DOMAIN returns \subseteq Nat
    BY Sizes
  <2> QED
    BY <2>1, <2>2, TellsNothing
<1>9. Tells("tickets", tickets, tickets', msgs)
  <2>1. OneTells("tickets", msgs, Len(tickets) + 1, tic)
    BY <1>2, <1>3 DEF OneTells
  <2>2. tickets \in Seq(Ticket)
    BY DEF TypeOK
  <2> QED
    BY <2>1, <2>2, TellsNext
<1>10. Len(orders) <= Len(orders') /\ Len(returns) <= Len(returns')
  BY Sizes
<1> QED
  BY <1>2, <1>4, <1>6, <1>7, <1>8, <1>9, <1>10, Sizes, EmissionTells

\* An order advances: the event that it emits tells its new status.
LEMMA AdvancingTells ==
  ASSUME TypeOK, TypeOK', StreamInv, ReplayInv,
         UNCHANGED <<customers, inventory, returns, tickets>>,
         NEW o \in 1..Len(orders), NEW ord \in Order,
         ord.customer = orders[o].customer, ord.items = orders[o].items,
         orders' = [orders EXCEPT ![o] = ord],
         NEW msgs, msgs = AdvanceMsgs(o, ord), stream' = stream \o msgs
  PROVE  ReplayInv'
<1> DEFINE T == {OrderMsg(o, ord), PaymentMsg(o, "CAPTURED")}
<1>1. msgs \in Seq(T) /\ 1 \in 1..Len(msgs) /\ msgs[1] = OrderMsg(o, ord)
  <2>1. CASE ord.status = "PAID"
    BY <2>1 DEF AdvanceMsgs
  <2>2. CASE ord.status # "PAID"
    BY <2>2 DEF AdvanceMsgs
  <2> QED
    BY <2>1, <2>2
<1>2. /\ Len(orders') = Len(orders) /\ Len(orders) \in Nat /\ o \in Nat
      /\ \A p \in 1..Len(orders) : orders'[p] = IF p = o THEN ord ELSE orders[p]
  BY LenProperties DEF TypeOK
<1>3. ASSUME NEW e \in T
      PROVE  /\ e.at = Now /\ e.key = o /\ e.topic \in {"orders", "payments"}
             /\ e.topic = "orders" => e.body = [customer |-> ord.customer, status |-> ord.status]
             /\ AboutKnown(e, orders', returns', tickets')
  <2>1. CASE e = OrderMsg(o, ord)
    BY <1>2, <2>1 DEF OrderMsg, Message, AboutKnown
  <2>2. CASE e = PaymentMsg(o, "CAPTURED")
    BY <1>2, <2>2 DEF PaymentMsg, Message, AboutKnown
  <2> QED
    BY <2>1, <2>2
<1>4. msgs[1].topic = "orders" /\ msgs[1].key = o
  BY <1>1 DEF OrderMsg, Message
<1> HIDE DEF T
<1>5. /\ Keyed(T) /\ \A i \in 1..Len(msgs) : msgs[i] \in T
      /\ \A e \in T : e.topic \notin {"customers", "order_items", "inventory", "returns", "tickets"}
  BY <1>1, <1>2, <1>3, ElementOfSeq DEF Keyed
<1>6. CustomersTold' /\ ItemsTold' /\ StockTold'
  <2>1. CustomersTold'
    BY <1>1, <1>5, CustomersStay DEF ReplayInv
  <2>2. \A p \in 1..Len(orders) : orders'[p].items = orders[p].items
    BY <1>2
  <2>3. ItemsTold'
    BY <1>1, <1>2, <1>5, <2>2, ItemsStay DEF ReplayInv
  <2>4. StockTold'
    BY <1>1, <1>3, <1>5, StockStays DEF ReplayInv
  <2> QED
    BY <2>1, <2>3, <2>4
<1>7. /\ Tells("returns", returns, returns, msgs)
      /\ Tells("tickets", tickets, tickets, msgs)
  <2>1. /\ \A j \in 1..Len(msgs) : msgs[j].topic # "returns"
        /\ \A j \in 1..Len(msgs) : msgs[j].topic # "tickets"
    BY <1>5
  <2>2. DOMAIN tickets \subseteq Nat /\ DOMAIN returns \subseteq Nat
    BY Sizes
  <2> QED
    BY <2>1, <2>2, TellsNothing
<1>8. Tells("orders", Briefs(orders), Briefs(orders'), msgs)
  <2>1. PICK old, new : old = Briefs(orders) /\ new = Briefs(orders')
    OBVIOUS
  <2>2. /\ DOMAIN old = 1..Len(orders) /\ DOMAIN new = 1..Len(orders)
        /\ new[o] = [customer |-> ord.customer, status |-> ord.status]
        /\ \A p \in 1..Len(orders) : p # o => new[p] = old[p]
    BY <1>2, <2>1 DEF Briefs
  <2>3. \A i \in 1..Len(msgs) : msgs[i].topic = "orders" =>
          msgs[i].key \in DOMAIN new /\ msgs[i].body = new[msgs[i].key]
    BY <1>3, <1>5, <2>2
  <2>4. IsTold("orders", o, msgs)
    BY <1>1, <1>4 DEF IsTold
  <2>5. Tells("orders", old, new, msgs)
    BY <1>2, <2>2, <2>3, <2>4 DEF Tells
  <2> QED
    BY <2>1, <2>5
<1>9. /\ Len(orders) <= Len(orders') /\ Len(returns) <= Len(returns')
      /\ Len(tickets) <= Len(tickets')
  BY <1>2, Sizes
<1> QED
  BY <1>1, <1>3, <1>6, <1>7, <1>8, <1>9, Sizes, EmissionTells

\* One element and then a sequence can be joined to another in either order.
Joined(s, m, t) == s \o (<<m>> \o t) = (s \o <<m>>) \o t

LEMMA Joins ==
  ASSUME NEW S, NEW s \in Seq(S), NEW t \in Seq(S), NEW m \in S
  PROVE  Joined(s, m, t)
BY DEF Joined

\* An order is placed: its event tells it, and one message each of its items.
LEMMA PlacingTells ==
  ASSUME TypeOK, TypeOK', StreamInv, ReplayInv,
         UNCHANGED <<customers, inventory, returns, tickets>>,
         NEW ord \in Order, orders' = Append(orders, ord),
         NEW o, o = Len(orders) + 1,
         NEW tail, tail = [i \in DOMAIN ord.items |-> ItemMsg(o, ord.items[i])],
         NEW msgs, msgs = <<OrderMsg(o, ord)>> \o tail, stream' = stream \o msgs
  PROVE  ReplayInv'
<1> DEFINE I == {ItemMsg(o, ord.items[i]) : i \in DOMAIN ord.items}
           T == {OrderMsg(o, ord)} \cup I
<1>1. /\ ord.items \in Seq(Item) /\ DOMAIN ord.items = 1..Len(ord.items)
      /\ Len(ord.items) \in Nat
  BY LenProperties DEF Order
<1>2. tail \in Seq(I) /\ DOMAIN tail = DOMAIN ord.items
  BY <1>1, IsASeq
<1>3. /\ Len(orders') = o /\ o \in Nat /\ Len(orders) \in Nat /\ orders'[o] = ord
      /\ \A p \in 1..Len(orders) : orders'[p] = orders[p]
  BY Appending, LenProperties DEF TypeOK
<1>4. o \in 1..Len(orders') /\ o \notin 1..Len(orders) /\ Len(orders) <= Len(orders')
      /\ \A p \in 1..o : p = o \/ p \in 1..Len(orders)
  BY <1>3
<1>5. \A e \in I : e.topic = "order_items" /\ e.key = o /\ e.at = Now
  BY DEF ItemMsg, Message
<1>6. PICK m : m = OrderMsg(o, ord)
  OBVIOUS
<1>7. /\ m.topic = "orders" /\ m.key = o /\ m.at = Now
      /\ m.body = [customer |-> ord.customer, status |-> ord.status]
  BY <1>6 DEF OrderMsg, Message
<1>8. \A i \in DOMAIN tail : tail[i].body = ord.items[i]
  BY DEF ItemMsg, Message
<1> HIDE DEF I
<1>9. /\ msgs \in Seq(T) /\ Len(msgs) = 1 + Len(tail) /\ Len(tail) \in Nat /\ msgs[1] = m
  BY <1>2, <1>6, Heading
<1>10. \A e \in T : e = m \/ e \in I
  BY <1>6
<1> HIDE DEF T
<1>11. \A e \in T : /\ e.at = Now /\ e.key = o /\ e.topic \in {"orders", "order_items"}
                    /\ e.topic = "orders" => e.body = [customer |-> ord.customer,
                                                       status |-> ord.status]
  BY <1>5, <1>7, <1>10
<1>12. /\ \A e \in T : e.at = Now /\ AboutKnown(e, orders', returns', tickets')
       /\ Keyed(T) /\ \A i \in 1..Len(msgs) : msgs[i] \in T
  BY <1>3, <1>4, <1>9, <1>11, ElementOfSeq DEF AboutKnown, Keyed
<1>13. CustomersTold' /\ StockTold'
  <2>1. \A e \in T : e.topic \notin {"customers", "inventory"}
    BY <1>11
  <2>2. CustomersTold'
    BY <1>9, <2>1, CustomersStay DEF ReplayInv
  <2>3. StockTold'
    BY <1>9, <1>12, <2>1, StockStays DEF ReplayInv
  <2> QED
    BY <2>2, <2>3
<1>14. ItemsTold'
  <2>1. stream \in Seq(Messages) /\ Keyed(Messages)
    BY MessagesAreKnown DEF ReplayInv
  <2>2. PICK read : read = Append(stream, m)
    OBVIOUS
  <2>3. PICK M : M = Messages \cup {m}
    OBVIOUS
  <2>4. read \in Seq(M) /\ Keyed(M) /\ stream' = read \o tail
    <3>1. stream \in Seq(M) /\ m \in M /\ tail \in Seq(M \cup I)
      BY <1>2, <2>1, <2>3, SeqMonotonic
    <3>2. stream \in Seq(M \cup I) /\ m \in M \cup I
      BY <3>1, SeqMonotonic
    <3>3. read = stream \o <<m>> /\ read \in Seq(M)
      BY <2>2, <3>1
    <3>4. stream \o (<<m>> \o tail) = (stream \o <<m>>) \o tail
      <4>1. PICK J : J = M \cup I
        OBVIOUS
      <4>2. stream \in Seq(J) /\ tail \in Seq(J) /\ m \in J
        BY <3>1, <3>2, <4>1
      <4>3. Joined(stream, m, tail)
        BY <4>2, Joins
      <4> QED
        BY <4>3, Zenon DEF Joined
    <3>5. Keyed(M)
      BY <1>3, <1>7, <2>1, <2>3 DEF Keyed
    <3> QED
      BY <1>6, <3>3, <3>4, <3>5
  <2>5. PICK before : before = View("order_items", "append", stream)
    OBVIOUS
  <2>6. View("order_items", "append", read) = before
    BY <1>7, <2>1, <2>2, <2>5, ViewOneMore
  <2>7. before[o] = <<>>
    <3>1. HeldOf(Messages, "order_items", "append", o, before[o])
      BY <1>3, <2>1, <2>5, RecordsAreMessages DEF Kinds
    <3>2. \A e \in Messages : e.topic = "order_items" => e.key # o
      BY <1>4, MessagesAreKnown DEF ReplayInv, AboutKnown
    <3> QED
      BY <3>1, <3>2 DEF HeldOf
  <2>8. PICK after : after = View("order_items", "append", stream')
    OBVIOUS
  <2>9. /\ after[o] = <<>> \o tail
        /\ \A k \in Nat : k # o => after[k] = before[k]
    <3>1. <<>> \in Seq(I)
      OBVIOUS
    <3>2. View("order_items", "append", read)[o] \in Seq(I)
      BY <2>6, <2>7, <3>1, Zenon
    <3>3. AppendedTo(View("order_items", "append", read),
                     View("order_items", "append", read \o tail), o, tail)
      BY <1>2, <1>3, <1>5, <2>4, <3>2, ItemsRead
    <3> QED
      BY <2>4, <2>6, <2>7, <2>8, <3>3 DEF AppendedTo
  <2>10. after[o] = tail
    BY <1>2, <2>9
  <2>11. Bodies(after[o]) = ord.items
    <3>1. PICK list : list = tail
      OBVIOUS
    <3>2. DOMAIN list = DOMAIN ord.items /\ \A i \in DOMAIN list : list[i].body = ord.items[i]
      BY <1>2, <1>8, <3>1
    <3>3. ord.items = [i \in DOMAIN ord.items |-> ord.items[i]]
      BY <1>1, LenProperties
    <3>4. Bodies(list) = ord.items
      BY <3>2, <3>3 DEF Bodies
    <3> QED
      BY <2>10, <3>1, <3>4
  <2>12. \A p \in 1..Len(orders) : Bodies(after[p]) = orders[p].items
    <3>1. \A p \in 1..Len(orders) : p \in Nat /\ p # o
      BY <1>3, <1>4
    <3> QED
      BY <2>5, <2>9, <3>1 DEF ReplayInv, ItemsTold
  <2>13. ASSUME NEW p \in 1..Len(orders') PROVE Bodies(after[p]) = orders'[p].items
    <3>1. CASE p = o
      BY <1>3, <2>11, <3>1
    <3>2. CASE p # o
      <4>1. p \in 1..Len(orders)
        BY <1>3, <1>4, <3>2
      <4> QED
        BY <1>3, <2>12, <4>1
    <3> QED
      BY <3>1, <3>2
  <2> QED
    BY <2>8, <2>13 DEF ItemsTold
<1>15. /\ Tells("returns", returns, returns, msgs)
       /\ Tells("tickets", tickets, tickets, msgs)
  <2>1. /\ \A j \in 1..Len(msgs) : msgs[j].topic # "returns"
        /\ \A j \in 1..Len(msgs) : msgs[j].topic # "tickets"
    BY <1>11, <1>12
  <2>2. DOMAIN tickets \subseteq Nat /\ DOMAIN returns \subseteq Nat
    BY Sizes
  <2> QED
    BY <2>1, <2>2, TellsNothing
<1>16. Tells("orders", Briefs(orders), Briefs(orders'), msgs)
  <2>1. PICK old, new : old = Briefs(orders) /\ new = Briefs(orders')
    OBVIOUS
  <2>2. /\ DOMAIN old = 1..Len(orders) /\ DOMAIN new = 1..o
        /\ new[o] = [customer |-> ord.customer, status |-> ord.status]
        /\ \A p \in 1..Len(orders) : new[p] = old[p]
    BY <1>3, <1>4, <2>1 DEF Briefs
  <2>3. \A i \in 1..Len(msgs) : msgs[i].topic = "orders" =>
          msgs[i].key \in DOMAIN new /\ msgs[i].body = new[msgs[i].key]
    BY <1>3, <1>4, <1>11, <1>12, <2>2
  <2>8. 1 \in 1..Len(msgs) /\ msgs[1].topic = "orders" /\ msgs[1].key = o
    BY <1>7, <1>9
  <2>4. IsTold("orders", o, msgs)
    BY <2>8 DEF IsTold
  <2>5. \A k \in DOMAIN new : IsTold("orders", k, msgs) \/ (k \in DOMAIN old /\ old[k] = new[k])
    BY <1>4, <2>2, <2>4
  <2>6. DOMAIN new \subseteq Nat
    BY <2>2
  <2>7. Tells("orders", old, new, msgs)
    BY <2>3, <2>5, <2>6 DEF Tells
  <2> QED
    BY <2>1, <2>7
<1>17. Len(returns) <= Len(returns') /\ Len(tickets) <= Len(tickets')
  BY Sizes
<1> QED
  BY <1>4, <1>9, <1>12, <1>13, <1>14, <1>15, <1>16, <1>17, Sizes, EmissionTells

-------------------------------------------------------------------------------
\* Bootstrapping tells the customers and the stock, and there is nothing else to tell.
LEMMA InitTells == TypeOK /\ Init => ReplayInv
<1> SUFFICES ASSUME TypeOK, Init PROVE ReplayInv
  OBVIOUS
<1> DEFINE C  == {CustomerMsg(c, customers[c]) : c \in Customers}
           R  == {SnapshotMsg(r, inventory[r]) : r \in Rows}
<1>1. PICK cs, snaps : /\ cs = [c \in Customers |-> CustomerMsg(c, customers[c])]
                       /\ snaps = SnapshotMsgs(inventory)
  OBVIOUS
<1>2. /\ cs \in Seq(C) /\ DOMAIN cs = 1..Len(cs) /\ DOMAIN cs = Customers
      /\ \A c \in Customers : cs[c] = CustomerMsg(c, customers[c])
  BY <1>1, IsASeq, LenProperties, SizesAssumption DEF Customers
<1>3. /\ snaps \in Seq(R) /\ DOMAIN snaps = 1..Len(snaps) /\ DOMAIN snaps = Rows
      /\ \A r \in Rows : snaps[r] = SnapshotMsg(r, inventory[r])
  BY <1>1, IsASeq, LenProperties, SizesAssumption DEF Rows, SnapshotMsgs
<1>4. stream = cs \o snaps /\ Now = 0 /\ orders = <<>> /\ returns = <<>> /\ tickets = <<>>
  BY <1>1 DEF Init, Now
<1>5. ASSUME NEW e \in C
      PROVE  /\ e.topic = "customers" /\ e.key \in Customers
             /\ TellsCustomer(e, e.key, customers[e.key])
             /\ e.ver = customers[e.key].version
  <2>1. PICK c \in Customers : e = CustomerMsg(c, customers[c])
    OBVIOUS
  <2>2. customers[c] \in [tier : InitialTiers, version : {1}, updatedAt : {0}]
    BY DEF Init
  <2>3. PICK cust : cust = customers[c]
    OBVIOUS
  <2>4. /\ e.topic = "customers" /\ e.key = c /\ e.ver = cust.version /\ e.at = 0
        /\ e.body.tier = cust.tier
    BY <1>4, <2>1, <2>3 DEF CustomerMsg, Message
  <2>5. cust = [tier |-> cust.tier, version |-> cust.version, updatedAt |-> 0]
    BY <2>2, <2>3
  <2>6. TellsCustomer(e, c, cust)
    BY <2>4, <2>5 DEF TellsCustomer
  <2> QED
    BY <2>3, <2>4, <2>6
<1>6. ASSUME NEW e \in R
      PROVE  /\ e.topic = "inventory" /\ e.key \in Rows /\ e.at = 0
             /\ e.body.qty = inventory[e.key]
  BY <1>4 DEF SnapshotMsg, Message
<1> HIDE DEF C, R
<1>7. /\ stream \in Seq(C \cup R) /\ Len(stream) \in Nat
      /\ \A i \in 1..Len(stream) : stream[i] \in C \cup R
  <2>1. stream \in Seq(C \cup R)
    BY <1>2, <1>3, <1>4, Concatenating
  <2> QED
    BY <2>1, ElementOfSeq, LenProperties
<1>8. \A c \in Customers : c \in Nat
  BY SizesAssumption DEF Customers
<1>9. \A r \in Rows : r \in Nat
  BY SizesAssumption DEF Rows
<1>10. Keyed(C) /\ Keyed(R)
  BY <1>5, <1>6, <1>8, <1>9 DEF Keyed
<1>11. StreamIsKnown
  <2>1. \A e \in C \cup R : AboutKnown(e, orders, returns, tickets)
    BY <1>5, <1>6, <1>8, <1>9 DEF AboutKnown
  <2> QED
    BY <1>7, <2>1 DEF StreamIsKnown
<1>12. CustomersTold
  <2> SUFFICES ASSUME NEW c \in Customers
               PROVE  \E m : /\ View("customers", "by_version", stream)[c] = <<m>>
                             /\ customers[c] = [tier |-> m.body.tier, version |-> m.ver,
                                                updatedAt |-> m.at]
    BY DEF CustomersTold
  <2>1. PICK none : none = <<>>
    OBVIOUS
  <2>2. none \in Seq(C) /\ cs = none \o cs
    BY <1>2, <2>1
  <2>3. "by_version" \in Kinds /\ "by_version" # "append"
    BY DEF Kinds
  <2>4. PICK v : v = View("customers", "by_version", none)
    OBVIOUS
  <2>5. \A k \in Nat : v[k] = <<>>
    <3>1. v = [k \in Nat |-> <<>>]
      BY <2>1, <2>4, ViewOfNone
    <3> QED
      BY <3>1
  <2>6. \A e \in C : Replaces("by_version", v, e)
    BY <1>10, <2>5 DEF Replaces, Keyed
  <2>7. ASSUME NEW e \in C, NEW f \in C, e.key = f.key
        PROVE  NotAfter("by_version", e, f)
    <3>1. customers[e.key].version \in Nat
      BY <1>5 DEF TypeOK, Customer
    <3>2. customers[e.key].version = e.ver /\ customers[e.key].version = f.ver
      BY <1>5, <2>7
    <3> QED
      BY <3>1, <3>2 DEF NotAfter
  <2>8. HeldAfter(C, "customers", c, cs, v[c], View("customers", "by_version", none \o cs)[c])
    BY <1>2, <1>8, <1>10, <2>2, <2>3, <2>4, <2>6, <2>7, RecordsRead
  <2>9. IsTold("customers", c, cs)
    <3>1. c \in 1..Len(cs) /\ cs[c] = CustomerMsg(c, customers[c])
      BY <1>2
    <3>2. /\ CustomerMsg(c, customers[c]).topic = "customers"
          /\ CustomerMsg(c, customers[c]).key = c
      BY DEF CustomerMsg, Message
    <3> QED
      BY <3>1, <3>2 DEF IsTold
  <2>10. PICK m \in C : m.key = c /\ View("customers", "by_version", cs)[c] = <<m>>
    BY <2>2, <2>8, <2>9 DEF HeldAfter
  <2>11. View("customers", "by_version", stream) = View("customers", "by_version", cs)
    BY <1>2, <1>3, <1>4, <1>6, Elsewhere
  <2> QED
    BY <1>5, <2>10, <2>11 DEF TellsCustomer
<1>13. StockTold
  <2> SUFFICES ASSUME NEW r \in Rows
               PROVE  \E m : /\ View("inventory", "by_time", stream)[r] = <<m>>
                             /\ m.body.qty \in Nat /\ m.body.qty >= inventory[r]
    BY DEF StockTold
  <2>1. "by_time" \in Kinds /\ "by_time" # "append"
    BY DEF Kinds
  <2>2. PICK v : v = View("inventory", "by_time", cs)
    OBVIOUS
  <2>3. \A k \in Nat : v[k] = <<>>
    <3>1. \A k \in Nat : HeldOf(C, "inventory", "by_time", k, v[k])
      BY <1>2, <1>10, <2>1, <2>2, RecordsAreMessages
    <3> QED
      BY <1>5, <3>1 DEF HeldOf
  <2>4. \A e \in R : Replaces("by_time", v, e)
    BY <1>10, <2>3 DEF Replaces, Keyed
  <2>5. \A e, f \in R : NotAfter("by_time", e, f)
    BY <1>6 DEF NotAfter
  <2>6. HeldAfter(R, "inventory", r, snaps, v[r], View("inventory", "by_time", cs \o snaps)[r])
    BY <1>2, <1>3, <1>9, <1>10, <2>1, <2>2, <2>4, <2>5, RecordsRead
  <2>7. IsTold("inventory", r, snaps)
    <3>1. r \in 1..Len(snaps) /\ snaps[r] = SnapshotMsg(r, inventory[r])
      BY <1>3
    <3>2. /\ SnapshotMsg(r, inventory[r]).topic = "inventory"
          /\ SnapshotMsg(r, inventory[r]).key = r
      BY DEF SnapshotMsg, Message
    <3> QED
      BY <3>1, <3>2 DEF IsTold
  <2>8. PICK m \in R : m.key = r /\ View("inventory", "by_time", stream)[r] = <<m>>
    BY <1>4, <2>6, <2>7 DEF HeldAfter
  <2>9. inventory[r] \in Nat /\ inventory[r] >= inventory[r]
    BY DEF TypeOK
  <2> QED
    BY <1>6, <2>8, <2>9
<1>14. Len(orders) = 0 /\ DOMAIN Briefs(orders) = {} /\ DOMAIN returns = {} /\ DOMAIN tickets = {}
  BY <1>4 DEF Briefs
<1> QED
  BY <1>11, <1>12, <1>13, <1>14 DEF ReplayInv, BodiesTold, ItemsTold

\* Every step keeps what the stores hold up with the state.
LEMMA NextTells ==
  TypeOK /\ TypeOK' /\ StreamInv /\ ReplayInv /\ [Next]_vars => ReplayInv'
<1> SUFFICES ASSUME TypeOK, TypeOK', StreamInv, ReplayInv, [Next]_vars PROVE ReplayInv'
  OBVIOUS
<1>1. CASE PlaceOrder
  <2>1. PICK items, ord :
          /\ items = draft[1].items
          /\ ord = [customer |-> draft[1].customer, status |-> "CREATED", items |-> items]
          /\ orders' = Append(orders, ord)
          /\ stream' = stream \o (<<OrderMsg(Len(orders) + 1, ord)>>
                           \o [i \in DOMAIN items |-> ItemMsg(Len(orders) + 1, items[i])])
    BY <1>1 DEF PlaceOrder, Emit
  <2>2. draft[1] \in Draft
    BY <1>1, EmptySeq, ElementOfSeq DEF PlaceOrder, TypeOK
  <2>3. ord \in Order /\ ord.items = items
    BY <2>1, <2>2 DEF Draft, Order, Statuses
  <2>4. UNCHANGED <<customers, inventory, returns, tickets>>
    BY <1>1 DEF PlaceOrder
  <2>5. PICK o, tail, msgs :
          /\ o = Len(orders) + 1
          /\ tail = [i \in DOMAIN ord.items |-> ItemMsg(o, ord.items[i])]
          /\ msgs = <<OrderMsg(o, ord)>> \o tail
    OBVIOUS
  <2>6. orders' = Append(orders, ord) /\ stream' = stream \o msgs
    BY <2>1, <2>3, <2>5
  <2> QED
    BY <2>3, <2>4, <2>5, <2>6, PlacingTells
<1>2. CASE InventorySnapshots
  <2>1. UNCHANGED state
    BY <1>2 DEF InventorySnapshots
  <2>2. CASE UNCHANGED stream
    <3>1. \A r \in Rows : inventory'[r] <= inventory[r]
      BY <2>1 DEF state, TypeOK
    <3> QED
      BY <2>1, <2>2, <3>1, SilenceTells DEF state
  <2>3. CASE stream' = stream \o SnapshotMsgs(inventory)
    <3> DEFINE R == {SnapshotMsg(r, inventory[r]) : r \in Rows}
    <3>1. PICK msgs : msgs = SnapshotMsgs(inventory)
      OBVIOUS
    <3>2. msgs \in Seq(R)
      BY <3>1, IsASeq, SizesAssumption DEF Rows, SnapshotMsgs
    <3>3. ASSUME NEW e \in R
          PROVE  /\ e.at = Now /\ e.key \in Nat /\ e.topic = "inventory" /\ e.key \in Rows
                 /\ e.body.qty = inventory[e.key]
      BY SizesAssumption DEF Rows, SnapshotMsg, Message
    <3> HIDE DEF R
    <3> QED
      BY <2>1, <2>3, <3>1, <3>2, <3>3, PassingTells
  <2> QED
    BY <1>2, <2>2, <2>3 DEF InventorySnapshots, Emit
<1>3. CASE RequestReturn
  <2>1. PICK o, ret, m :
          /\ o \in 1..Len(orders)
          /\ ret = [order |-> o, status |-> "REQUESTED", reason |-> "customer_request"]
          /\ m = ReturnMsg(Len(returns) + 1, ret)
          /\ returns' = Append(returns, ret)
          /\ stream' = stream \o <<m>>
    BY <1>3 DEF RequestReturn, Emit
  <2>2. UNCHANGED <<customers, orders, inventory, tickets>>
    BY <1>3 DEF RequestReturn
  <2>3. ret \in Return
    BY <2>1, Sizes DEF Return
  <2>4. m.topic = "returns" /\ m.key = Len(returns) + 1 /\ m.at = Now /\ m.body = ret
    BY <2>1 DEF ReturnMsg, Message
  <2>5. m.key \in Nat
    BY <2>4, Sizes
  <2>6. PICK msgs : msgs = <<m>>
    OBVIOUS
  <2>7. msgs \in Seq({m}) /\ Len(msgs) = 1 /\ msgs[1] = m
    BY <2>6
  <2>8. OneTells("returns", msgs, Len(returns) + 1, ret)
    BY <2>4, <2>7 DEF OneTells
  <2>9. CustomersTold'
    BY <2>1, <2>2, <2>4, <2>6, <2>7, CustomersStay DEF ReplayInv
  <2>10. stream' = stream \o msgs /\ returns' = Append(returns, ret)
    BY <2>1, <2>6
  <2>11. \A e \in {m} : /\ e.at = Now /\ e.key \in Nat
                        /\ e.topic \in {"payments", "tier_changes", "customers", "returns"}
                        /\ e.topic = "customers" => e.key \in Customers
    BY <2>4, <2>5
  <2>12. PICK T : T = {m}
    OBVIOUS
  <2>13. msgs \in Seq(T) /\ MayGoWithReturn(T)
    BY <2>7, <2>11, <2>12 DEF MayGoWithReturn
  <2> QED
    BY <2>2, <2>3, <2>8, <2>9, <2>10, <2>13, ReturnTells
<1>4. CASE RandomPayment
  <2>1. PICK o, kind, m :
          /\ o \in 1..Len(orders) /\ m = PaymentMsg(o, kind)
          /\ stream' = stream \o <<m>>
    BY <1>4 DEF RandomPayment, Emit
  <2>2. m.topic = "payments" /\ m.at = Now /\ m.key \in Nat
    BY <2>1, Sizes DEF PaymentMsg, Message
  <2>3. UNCHANGED state
    BY <1>4 DEF RandomPayment
  <2>4. PICK T, msgs : T = {m} /\ msgs = <<m>>
    OBVIOUS
  <2>5. msgs \in Seq(T) /\ stream' = stream \o msgs
    BY <2>1, <2>4
  <2>6. \A e \in T : e.at = Now /\ e.key \in Nat /\ e.topic = "payments"
    BY <2>2, <2>4
  <2> QED
    BY <2>3, <2>5, <2>6, PassingTells
<1>5. CASE OpenTicket
  <2>1. PICK tic, m :
          /\ tic \in Ticket
          /\ m = TicketMsg(Len(tickets) + 1, tic)
          /\ tickets' = Append(tickets, tic) /\ stream' = stream \o <<m>>
    <3>1. PICK c \in Customers, o \in 0..Len(orders) :
            LET tic == [customer |-> c, order |-> o, status |-> "OPEN"]
            IN /\ tickets' = Append(tickets, tic)
               /\ stream' = stream \o <<TicketMsg(Len(tickets) + 1, tic)>>
      BY <1>5 DEF OpenTicket, Emit
    <3>2. [customer |-> c, order |-> o, status |-> "OPEN"] \in Ticket
      BY Sizes DEF Ticket
    <3> QED
      BY <3>1, <3>2
  <2>2. UNCHANGED <<customers, orders, inventory, returns>>
    BY <1>5 DEF OpenTicket
  <2> QED
    BY <2>1, <2>2, TicketTells
<1>6. CASE AdvanceOrder
  <2>1. PICK o, ord, msgs :
          /\ o \in 1..Len(orders)
          /\ orders[o].status \in DOMAIN NextStatus
          /\ ord = [orders[o] EXCEPT !.status = NextStatus[orders[o].status]]
          /\ msgs = AdvanceMsgs(o, ord)
          /\ orders' = [orders EXCEPT ![o] = ord] /\ stream' = stream \o msgs
    BY <1>6 DEF AdvanceOrder, Emit
  <2>2. ord \in Order
    BY <2>1, Advanced
  <2>3. ord.customer = orders[o].customer /\ ord.items = orders[o].items
    <3>1. orders[o] \in Order
      BY <2>1, ElementOfSeq DEF TypeOK
    <3> QED
      BY <2>1, <3>1 DEF Order
  <2>4. UNCHANGED <<customers, inventory, returns, tickets>>
    BY <1>6 DEF AdvanceOrder
  <2> QED
    BY <2>1, <2>2, <2>3, <2>4, AdvancingTells
<1>7. CASE Fire
  <2> DEFINE Cust(o) == orders[o].customer
             After(old) == [tier |-> OneStepDown(old.tier), version |-> old.version + 1,
                            updatedAt |-> Now]
  <2>8. PICK o \in Eligible :
          /\ customers' = [customers EXCEPT ![Cust(o)] = After(customers[Cust(o)])]
          /\ returns' = Append(returns, Rejected(o))
          /\ stream' = stream \o FireMsgs(o, Cust(o), customers[Cust(o)],
                                         After(customers[Cust(o)]), Len(returns) + 1)
    BY <1>7 DEF Fire, Emit
  <2>9. PICK c, old, new, n : /\ c = Cust(o) /\ old = customers[c] /\ new = After(old)
                             /\ n = Len(returns) + 1
    OBVIOUS
  <2>10. PICK msgs : msgs = FireMsgs(o, c, old, new, n)
    OBVIOUS
  <2>1. /\ c = orders[o].customer /\ old = customers[c]
        /\ new = [tier |-> OneStepDown(old.tier), version |-> old.version + 1,
                  updatedAt |-> Now]
        /\ n = Len(returns) + 1 /\ msgs = FireMsgs(o, c, old, new, n)
        /\ customers' = [customers EXCEPT ![c] = new]
        /\ returns' = Append(returns, Rejected(o))
        /\ stream' = stream \o msgs
    BY <2>8, <2>9, <2>10
  <2> HIDE DEF Cust, After
  <2>2. o \in 1..Len(orders)
    BY DEF Eligible
  <2>3. c \in Customers
    <3>1. orders[o] \in Order
      BY <2>2, ElementOfSeq DEF TypeOK
    <3> QED
      BY <2>1, <3>1 DEF Order
  <2>4. /\ new.version = customers[c].version + 1
        /\ new = [tier |-> new.tier, version |-> new.version, updatedAt |-> Now]
    BY <2>1
  <2>5. UNCHANGED <<orders, inventory, tickets>>
    BY <1>7 DEF Fire
  <2> QED
    BY <2>1, <2>2, <2>3, <2>4, <2>5, FiringTells
<1>8. ASSUME UNCHANGED <<stream, customers, orders, returns, tickets, inventory>>
      PROVE  ReplayInv'
  <2>1. \A r \in Rows : inventory'[r] <= inventory[r]
    BY <1>8 DEF TypeOK
  <2> QED
    BY <1>8, <2>1, SilenceTells
<1>9. CASE DraftItem
  <2>1. PICK r \in Rows, q \in Quantities : inventory' = [inventory EXCEPT ![r] = Taken(@, q)]
    BY <1>9 DEF DraftItem
  <2>2. UNCHANGED <<stream, customers, orders, returns, tickets>>
    BY <1>9 DEF DraftItem
  <2>3. q \in Nat /\ \A p \in Rows : inventory[p] \in Nat
    BY ItemsAssumption DEF TypeOK
  <2>4. \A a \in Nat : Taken(a, q) <= a
    BY <2>3 DEF Taken
  <2>5. \A p \in Rows : inventory'[p] = inventory[p] \/ inventory'[p] = Taken(inventory[p], q)
    BY <2>1 DEF TypeOK
  <2>6. \A p \in Rows : inventory'[p] <= inventory[p]
    BY <2>3, <2>4, <2>5
  <2> QED
    BY <2>2, <2>6, SilenceTells
<1>10. CASE DraftOrder \/ BootstrapDone \/ OrdersDone
  BY <1>8, <1>10 DEF DraftOrder, BootstrapDone, OrdersDone, state
<1>11. CASE NoReturn \/ NoPayment \/ NoAdvance \/ NoFire
  BY <1>8, <1>11 DEF NoReturn, NoPayment, NoAdvance, NoFire, state
<1>12. CASE ReturnsDone \/ PaymentsDone \/ LifecycleDone \/ TicketsDone \/ TickDone
  BY <1>8, <1>12 DEF ReturnsDone, PaymentsDone, LifecycleDone, TicketsDone, TickDone, Over, state
<1>13. CASE Returned \/ UNCHANGED vars
  BY <1>8, <1>13 DEF Returned, vars, state
<1> QED
  BY <1>1, <1>2, <1>3, <1>4, <1>5, <1>6, <1>7, <1>9, <1>10, <1>11, <1>12, <1>13 DEF Next

\* The replay of a topic is the view, on the keys of the topic's entities.
LEMMA ReplayIsView ==
  ASSUME StreamInv, StreamIsKnown, NEW topic, NEW kind \in Kinds, NEW K, K \subseteq Nat,
         \A e \in Messages : e.topic = topic => e.key \in K
  PROVE  Replayed(topic, kind, K) = OnKeys(K, View(topic, kind, stream))
<1>1. stream \in Seq(Messages) /\ Keyed(Messages)
  BY MessagesAreKnown
<1>2. Replayed(topic, kind, K) = Narrow(topic, kind, K, stream)
  BY ReplayIsFold, Zenon DEF Narrow
<1>4. PICK S : S = Messages
  OBVIOUS
<1>5. Keyed(S) /\ stream \in Seq(S) /\ \A e \in S : e.topic = topic => e.key \in K
  BY <1>1, <1>4
<1>3. Narrow(topic, kind, K, stream) = OnKeys(K, View(topic, kind, stream))
  BY <1>5, ReplayedIsView
<1> QED
  BY <1>2, <1>3, Zenon

\* Replaying the stream through the projectors gives the state back, for every number
\* of customers, orders and ticks: the view of each topic, which the state of the
\* generator's dicts never looks at, is what the invariant follows.
THEOREM ReplayMatches == Spec => []ReplayMatchesState
<1>1. TypeOK /\ StreamInv /\ ReplayInv => ReplayMatchesState
  <2> SUFFICES ASSUME TypeOK, StreamInv, ReplayInv PROVE ReplayMatchesState
    OBVIOUS
  <2>1. /\ \A e \in Messages : AboutKnown(e, orders, returns, tickets)
        /\ StreamIsKnown
    BY MessagesAreKnown DEF ReplayInv
  <2>2. /\ Customers \subseteq Nat /\ Rows \subseteq Nat
        /\ DOMAIN orders = 1..Len(orders) /\ DOMAIN orders \subseteq Nat
        /\ DOMAIN returns = 1..Len(returns) /\ DOMAIN returns \subseteq Nat
        /\ DOMAIN tickets = 1..Len(tickets) /\ DOMAIN tickets \subseteq Nat
    BY SizesAssumption, LenProperties DEF Customers, Rows, TypeOK
  <2>3. "by_version" \in Kinds /\ "by_time" \in Kinds /\ "append" \in Kinds
    BY DEF Kinds
  <2>12. \A e \in Messages : /\ e.topic = "customers" => e.key \in Customers
                             /\ e.topic = "inventory" => e.key \in Rows
                             /\ e.topic = "orders" => e.key \in DOMAIN orders
                             /\ e.topic = "order_items" => e.key \in DOMAIN orders
                             /\ e.topic = "returns" => e.key \in DOMAIN returns
                             /\ e.topic = "tickets" => e.key \in DOMAIN tickets
    BY <2>1, <2>2 DEF AboutKnown
  <2>13. ASSUME NEW topic, NEW kind \in Kinds, NEW K, K \subseteq Nat,
                \A e \in Messages : e.topic = topic => e.key \in K
         PROVE  \A k \in K : Replayed(topic, kind, K)[k] = View(topic, kind, stream)[k]
    <3>1. Replayed(topic, kind, K) = OnKeys(K, View(topic, kind, stream))
      BY <2>1, <2>13, ReplayIsView
    <3> QED
      BY <3>1, Zenon DEF OnKeys
  <2>4. /\ \A k \in Customers : Replayed("customers", "by_version", Customers)[k]
                               = View("customers", "by_version", stream)[k]
        /\ \A k \in Rows : Replayed("inventory", "by_time", Rows)[k]
                               = View("inventory", "by_time", stream)[k]
    BY <2>2, <2>3, <2>12, <2>13
  <2>5. /\ \A k \in DOMAIN orders : Replayed("orders", "by_time", DOMAIN orders)[k]
                               = View("orders", "by_time", stream)[k]
        /\ \A k \in DOMAIN orders : Replayed("order_items", "append", DOMAIN orders)[k]
                               = View("order_items", "append", stream)[k]
    BY <2>2, <2>3, <2>12, <2>13
  <2>6. /\ \A k \in DOMAIN returns : Replayed("returns", "by_time", DOMAIN returns)[k]
                               = View("returns", "by_time", stream)[k]
        /\ \A k \in DOMAIN tickets : Replayed("tickets", "by_time", DOMAIN tickets)[k]
                               = View("tickets", "by_time", stream)[k]
    BY <2>2, <2>3, <2>12, <2>13
  <2> DEFINE cs == Replayed("customers", "by_version", Customers)
             os == Replayed("orders", "by_time", DOMAIN orders)
             rs == Replayed("returns", "by_time", DOMAIN returns)
             ts == Replayed("tickets", "by_time", DOMAIN tickets)
             inv == Replayed("inventory", "by_time", Rows)
             is == Replayed("order_items", "append", DOMAIN orders)
  <2>7. ASSUME NEW c \in Customers
        PROVE  customers[c] = [tier |-> cs[c][1].body.tier, version |-> cs[c][1].ver,
                               updatedAt |-> cs[c][1].at]
    <3>1. PICK m : /\ View("customers", "by_version", stream)[c] = <<m>>
                   /\ customers[c] = [tier |-> m.body.tier, version |-> m.ver,
                                      updatedAt |-> m.at]
      BY DEF ReplayInv, CustomersTold
    <3>2. cs[c][1] = m
      BY <2>4, <3>1
    <3> HIDE DEF cs
    <3> QED
      BY <3>1, <3>2
  <2>8. ASSUME NEW o \in DOMAIN orders
        PROVE  /\ os[o][1].body = [customer |-> orders[o].customer, status |-> orders[o].status]
               /\ [i \in DOMAIN is[o] |-> is[o][i].body] = orders[o].items
    <3>1. PICK m : View("orders", "by_time", stream)[o] = <<m>> /\ m.body = Briefs(orders)[o]
      BY <2>2 DEF ReplayInv, BodiesTold, Briefs
    <3>2. os[o][1] = m
      BY <2>5, <3>1
    <3>3. Bodies(View("order_items", "append", stream)[o]) = orders[o].items
      BY <2>2 DEF ReplayInv, ItemsTold
    <3>4. is[o] = View("order_items", "append", stream)[o]
      BY <2>5
    <3> HIDE DEF os, is
    <3>5. os[o][1].body = [customer |-> orders[o].customer, status |-> orders[o].status]
      BY <2>2, <3>1, <3>2 DEF Briefs
    <3> QED
      BY <3>3, <3>4, <3>5 DEF Bodies
  <2>9. ASSUME NEW n \in DOMAIN returns PROVE rs[n][1].body = returns[n]
    <3>1. PICK m : View("returns", "by_time", stream)[n] = <<m>> /\ m.body = returns[n]
      BY DEF ReplayInv, BodiesTold
    <3>2. rs[n][1] = m
      BY <2>6, <3>1
    <3> HIDE DEF rs
    <3> QED
      BY <3>1, <3>2
  <2>10. ASSUME NEW n \in DOMAIN tickets PROVE ts[n][1].body = tickets[n]
    <3>1. PICK m : View("tickets", "by_time", stream)[n] = <<m>> /\ m.body = tickets[n]
      BY DEF ReplayInv, BodiesTold
    <3>2. ts[n][1] = m
      BY <2>6, <3>1
    <3> HIDE DEF ts
    <3> QED
      BY <3>1, <3>2
  <2>11. ASSUME NEW r \in Rows PROVE inv[r][1].body.qty >= inventory[r]
    <3>1. PICK m : /\ View("inventory", "by_time", stream)[r] = <<m>>
                   /\ m.body.qty >= inventory[r]
      BY DEF ReplayInv, StockTold
    <3>2. inv[r][1] = m
      BY <2>4, <3>1
    <3> HIDE DEF inv
    <3> QED
      BY <3>1, <3>2
  <2> HIDE DEF cs, os, rs, ts, inv, is
  <2> QED
    BY <2>7, <2>8, <2>9, <2>10, <2>11 DEF ReplayMatchesState, cs, os, rs, ts, inv, is
<1> QED
  BY <1>1, InitTells, NextTells, InitStream, NextStream, TypeCorrect, PTL DEF Spec

-------------------------------------------------------------------------------
\* The ranks are the places on the ladder, and one step down is one of the ranks less.
LEMMA StrictlyDown ==
  ASSUME NEW tier \in Tiers, tier # "BRONZE"
  PROVE  Rank(OneStepDown(tier)) < Rank(tier)
<1>1. \A i \in 1..4 : Rank(Ladder[i]) = i
  <2> SUFFICES ASSUME NEW i \in 1..4 PROVE Rank(Ladder[i]) = i
    OBVIOUS
  <2>1. \A j \in 1..4 : Ladder[j] = Ladder[i] => j = i
    BY DEF Ladder
  <2> QED
    BY <2>1 DEF Rank
<1>2. PICK i \in 1..4 : Ladder[i] = tier
  BY DEF Tiers
<1>3. Rank(tier) = i
  BY <1>1, <1>2
<1>4. i # 1
  BY <1>2 DEF Ladder
<1>5. i - 1 \in 1..4 /\ i - 1 < i
  BY <1>4
<1>6. OneStepDown(tier) = Ladder[i - 1]
  BY <1>3, <1>4 DEF OneStepDown
<1> QED
  BY <1>1, <1>3, <1>5, <1>6

\* A store holds sequences of the messages that it has read.
LEMMA HeldAreSeqs ==
  ASSUME NEW topic, NEW kind \in Kinds, NEW S, Keyed(S), NEW s \in Seq(S), NEW k \in Nat
  PROVE  View(topic, kind, s)[k] \in Seq(S)
<1> DEFINE T == {t \in Seq(S) : View(topic, kind, t) \in [Nat -> Seq(S)]}
<1>1. <<>> \in T
  <2>1. PICK v : v = View(topic, kind, <<>>)
    OBVIOUS
  <2>2. v = [j \in Nat |-> <<>>]
    BY <2>1, ViewOfNone
  <2>3. v \in [Nat -> Seq(S)] /\ <<>> \in Seq(S)
    BY <2>2
  <2> QED
    BY <2>1, <2>3
<1>2. ASSUME NEW t \in Seq(S), NEW e \in S, t \in T PROVE Append(t, e) \in T
  <2>1. PICK v : v = View(topic, kind, t)
    OBVIOUS
  <2>2. v \in [Nat -> Seq(S)] /\ e.key \in Nat
    BY <1>2, <2>1 DEF Keyed
  <2>3. View(topic, kind, Append(t, e)) = IF e.topic = topic THEN Project(kind, v, e) ELSE v
    BY <2>1, ViewOneMore
  <2>4. <<e>> \in Seq(S) /\ Append(v[e.key], e) \in Seq(S)
    BY <2>2
  <2>5. \/ Project(kind, v, e) = v
        \/ Project(kind, v, e) = [v EXCEPT ![e.key] = <<e>>]
        \/ Project(kind, v, e) = [v EXCEPT ![e.key] = Append(v[e.key], e)]
    BY Zenon DEF Project, ByVersion, ByTime, Appended, Kinds
  <2>6. Project(kind, v, e) \in [Nat -> Seq(S)]
    <3> DEFINE p == Project(kind, v, e)
    <3> HIDE DEF p
    <3>1. /\ p = v \/ p = [v EXCEPT ![e.key] = <<e>>] \/ p = [v EXCEPT ![e.key] = Append(v[e.key], e)]
          /\ v \in [Nat -> Seq(S)] /\ e.key \in Nat
      BY <2>2, <2>5 DEF p
    <3>2. p \in [Nat -> Seq(S)]
      BY <2>4, <3>1
    <3> QED
      BY <3>2 DEF p
  <2>7. Append(t, e) \in Seq(S)
    OBVIOUS
  <2>8. View(topic, kind, Append(t, e)) \in [Nat -> Seq(S)]
    BY <2>2, <2>3, <2>6
  <2> QED
    BY <2>7, <2>8
<1> HIDE DEF T
<1>3. s \in T
  BY <1>1, <1>2, Reads!AllSeqs
<1> QED
  BY <1>3 DEF T

-------------------------------------------------------------------------------
\* Tier changes and payments are about customers and orders that exist.
MarksIn(s, n) ==
  \A i \in 1..Len(s) : /\ s[i].topic = "tier_changes" => s[i].key \in Customers
                       /\ s[i].topic = "payments" => s[i].key \in 1..n

MarksKnown == MarksIn(stream, Len(orders))

\* The chargebacks of all orders, and those of one.
ChargesIn(s)    == {i \in 1..Len(s) : s[i].topic = "payments" /\ s[i].body.kind = "CHARGEBACK"}
ChargesOf(s, o) == {i \in ChargesIn(s) : s[i].key = o}

AllCharged == ChargesIn(stream)
Charged(o) == ChargesOf(stream, o)

\* The rejected returns: all, those of an order, and those of a customer's orders.
Refused      == {n \in 1..Len(returns) : returns[n].status = "REJECTED"}
RefusedOf(o) == {n \in Refused : returns[n].order = o}
RefusedTo(c) == {n \in Refused : orders[returns[n].order].customer = c}

Firings == {s \in DOMAIN FireAt : fired[s]}

History(c) == View("tier_changes", "append", stream)[c]

LEMMA LongerByOne ==
  \A S, e : \A s \in Seq(S \cup {e}) : Len(Append(s, e)) = Len(s) + 1 /\ Len(s) \in Nat
OBVIOUS

\* The tier changes chain, each strictly down, and end at the tier.
Chain(tcs, tier) ==
  \A i \in 1..Len(tcs) :
    /\ Rank(tcs[i].body.to) < Rank(tcs[i].body.from)
    /\ i > 1 => tcs[i].body.from = tcs[i - 1].body.to
    /\ i = Len(tcs) => tcs[i].body.to = tier

\* A customer's record, the history of its tier and the number of its refused refunds.
Matching(cust, tcs, refused) ==
  /\ cust.version = Len(tcs) + 1
  /\ Len(tcs) = refused
  /\ Chain(tcs, cust.tier)

\* Every firing has left its marks: one on each topic and in each part of the state.
FiringsAreMarked ==
  /\ Cardinality(AllCharged) = Cardinality(Firings)
  /\ Cardinality(Refused) = Cardinality(Firings)
  /\ \A o \in 1..Len(orders) : Cardinality(Charged(o)) = Cardinality(RefusedOf(o))

HistoriesMatch ==
  \A c \in Customers : Matching(customers[c], History(c), Cardinality(RefusedTo(c)))

ScenarioInv == MarksKnown /\ FiringsAreMarked /\ HistoriesMatch

\* Returns name orders that exist.
ReturnsKnown == \A n \in 1..Len(returns) : returns[n].order \in 1..Len(orders)

LEMMA ReturnsAreKnown ==
  ASSUME TypeOK, ReferentialIntegrity
  PROVE  ReturnsKnown
BY LenProperties DEF TypeOK, ReferentialIntegrity, ReturnsKnown

\* Orders and returns are only added to, and no return is refused.
SameOrders(old, new) ==
  Len(old) <= Len(new) /\ \A o \in 1..Len(old) : new[o].customer = old[o].customer

NoneRefused(old, new) ==
  /\ Len(old) <= Len(new)
  /\ \A n \in 1..Len(old) : new[n] = old[n]
  /\ \A n \in 1..Len(new) : n \notin 1..Len(old) => new[n].status # "REJECTED"

\* No tier change and no chargeback, about n orders.
Quiet(T, n) == \A e \in T : /\ e.topic # "tier_changes"
                            /\ e.topic = "payments" => /\ e.key \in 1..n
                                                       /\ e.body.kind # "CHARGEBACK"

\* A step that fires no scenario leaves the marks of the earlier ones.
LEMMA QuietTrace ==
  ASSUME TypeOK, TypeOK', StreamInv, StreamIsKnown, ReturnsKnown, ScenarioInv,
         UNCHANGED <<customers, fired>>,
         SameOrders(orders, orders'), NoneRefused(returns, returns'),
         NEW T, NEW msgs \in Seq(T), stream' = stream \o msgs, Quiet(T, Len(orders))
  PROVE  ScenarioInv'
<1>1. /\ DOMAIN stream = 1..Len(stream) /\ DOMAIN stream' = 1..Len(stream')
      /\ \A i \in 1..Len(stream) : i \in 1..Len(stream') /\ stream'[i] = stream[i]
      /\ \A i \in 1..Len(stream') :
           \/ i \in 1..Len(stream) /\ stream'[i] = stream[i]
           \/ /\ stream'[i].topic # "tier_changes"
              /\ stream'[i].topic = "payments" => /\ stream'[i].key \in 1..Len(orders)
                                                  /\ stream'[i].body.kind # "CHARGEBACK"
  <2>1. \A k \in 1..Len(msgs) : msgs[k] \in T
    BY ElementOfSeq
  <2>2. \A i \in 1..Len(stream') :
          i \in 1..Len(stream) \/ \E k \in 1..Len(msgs) : stream'[i] = msgs[k]
    BY Grown
  <2>3. /\ DOMAIN stream = 1..Len(stream) /\ DOMAIN stream' = 1..Len(stream')
        /\ \A i \in 1..Len(stream) : i \in 1..Len(stream') /\ stream'[i] = stream[i]
    BY Grown
  <2> QED
    BY <2>1, <2>2, <2>3 DEF Quiet
<1>2. /\ Len(orders) \in Nat /\ Len(orders') \in Nat /\ Len(returns) \in Nat
      /\ Len(returns') \in Nat
      /\ \A o \in 1..Len(orders) : o \in 1..Len(orders')
      /\ \A n \in 1..Len(returns) : n \in 1..Len(returns')
  <2>1. PICK a \in Nat, b \in Nat, c \in Nat, d \in Nat :
          a = Len(orders) /\ b = Len(orders') /\ c = Len(returns) /\ d = Len(returns')
    BY Sizes
  <2>2. a <= b /\ c <= d
    BY <2>1 DEF SameOrders, NoneRefused
  <2>3. (\A o \in 1..a : o \in 1..b) /\ (\A n \in 1..c : n \in 1..d)
    BY <2>2
  <2> QED
    BY <2>1, <2>3
<1>3. MarksKnown'
  BY <1>1, <1>2 DEF ScenarioInv, MarksKnown, MarksIn
<1>4. AllCharged' = AllCharged /\ \A o : Charged(o)' = Charged(o)
  BY <1>1 DEF AllCharged, Charged, ChargesIn, ChargesOf
<1>5. Refused' = Refused /\ Refused \subseteq 1..Len(returns)
  BY <1>2 DEF Refused, NoneRefused
<1>6. \A o : RefusedOf(o)' = RefusedOf(o)
  BY <1>5 DEF RefusedOf, NoneRefused, Refused
<1>7. \A c : RefusedTo(c)' = RefusedTo(c)
  <2>1. \A n \in Refused : /\ returns'[n].order = returns[n].order
                           /\ orders'[returns[n].order].customer = orders[returns[n].order].customer
    BY <1>5 DEF ReturnsKnown, SameOrders, NoneRefused
  <2> QED
    BY <1>5, <2>1 DEF RefusedTo
<1>8. Firings' = Firings
  BY DEF Firings
<1>9. \A c : History(c)' = History(c)
  <2>1. stream \in Seq(Messages)
    BY DEF StreamInv, Causal, Messages
  <2>2. View("tier_changes", "append", stream \o msgs) = View("tier_changes", "append", stream)
    BY <2>1, Elsewhere DEF Quiet
  <2> QED
    BY <2>2 DEF History
<1>10. ASSUME NEW o \in 1..Len(orders')
       PROVE  Cardinality(Charged(o)) = Cardinality(RefusedOf(o))
  <2>1. CASE o \in 1..Len(orders)
    BY <2>1 DEF ScenarioInv, FiringsAreMarked
  <2>2. CASE o \notin 1..Len(orders)
    <3>1. Charged(o) = {}
      BY <1>1, <2>2 DEF Charged, ChargesIn, ChargesOf, ScenarioInv, MarksKnown, MarksIn
    <3>2. RefusedOf(o) = {}
      BY <1>5, <2>2 DEF RefusedOf, ReturnsKnown
    <3> QED
      BY <3>1, <3>2
  <2> QED
    BY <2>1, <2>2
<1>11. FiringsAreMarked'
  BY <1>4, <1>5, <1>6, <1>8, <1>10 DEF ScenarioInv, FiringsAreMarked
<1>12. HistoriesMatch'
  BY <1>7, <1>9 DEF ScenarioInv, HistoriesMatch
<1> QED
  BY <1>3, <1>11, <1>12 DEF ScenarioInv

-------------------------------------------------------------------------------
\* A set of the first n numbers counts one more with a number that it lacks.
LEMMA CountsOneMore ==
  ASSUME NEW n \in Nat, NEW M \in SUBSET (1..n), NEW x, x \notin M
  PROVE  /\ Cardinality(M) \in Nat
         /\ Cardinality(M \cup {x}) = Cardinality(M) + 1
<1>1. IsFiniteSet(1..n)
  BY FS_Interval
<1>2. IsFiniteSet(M)
  BY <1>1, FS_Subset
<1> QED
  BY <1>2, FS_AddElement, FS_CardinalityType

\* A tier change from the tier that the others end at goes on their chain.
LEMMA ChainGoesOn ==
  ASSUME NEW S, NEW tcs \in Seq(S), NEW from, NEW to, Chain(tcs, from),
         NEW m \in S, m.body.from = from, m.body.to = to, Rank(to) < Rank(from)
  PROVE  Chain(Append(tcs, m), to)
<1>1. PICK n, more : n = Len(tcs) /\ more = Append(tcs, m)
  OBVIOUS
<1>2. /\ n \in Nat /\ Len(more) = n + 1 /\ more[n + 1] = m
      /\ \A i \in 1..n : more[i] = tcs[i]
  BY <1>1, AppendProperties
<1>3. ASSUME NEW i \in 1..n + 1
      PROVE  /\ Rank(more[i].body.to) < Rank(more[i].body.from)
             /\ i > 1 => more[i].body.from = more[i - 1].body.to
             /\ i = n + 1 => more[i].body.to = to
  <2>1. CASE i = n + 1
    <3>1. i > 1 => i - 1 = n /\ n \in 1..n
      BY <1>2, <2>1
    <3>2. n \in 1..n => tcs[n].body.to = from
      BY <1>1 DEF Chain
    <3> QED
      BY <1>2, <2>1, <3>1, <3>2
  <2>2. CASE i # n + 1
    <3>1. i \in 1..n /\ (i > 1 => i - 1 \in 1..n)
      BY <1>2, <2>2
    <3>2. more[i] = tcs[i] /\ (i > 1 => more[i - 1] = tcs[i - 1])
      BY <1>2, <3>1
    <3> QED
      BY <1>1, <2>2, <3>1, <3>2 DEF Chain
  <2> QED
    BY <2>1, <2>2
<1> QED
  BY <1>1, <1>2, <1>3 DEF Chain

\* Appending four messages is concatenating them.
LEMMA FourAppended ==
  ASSUME NEW T, NEW s \in Seq(T), NEW a \in T, NEW b \in T, NEW d \in T, NEW e \in T
  PROVE  s \o <<a, b, d, e>> = Append(Append(Append(Append(s, a), b), d), e)
<1>1. s \o <<a>> = Append(s, a)
  BY AppendIsConcat
<1>2. PICK t1 \in Seq(T), t2 \in Seq(T), t3 \in Seq(T) :
        t1 = <<a>> /\ t2 = <<a, b>> /\ t3 = <<a, b, d>>
  <2>1. <<a>> \in Seq(T) /\ <<a, b>> \in Seq(T) /\ <<a, b, d>> \in Seq(T)
    OBVIOUS
  <2> QED
    BY <2>1
<1>3. /\ <<a, b>> = Append(t1, b) /\ <<a, b, d>> = Append(t2, d)
      /\ <<a, b, d, e>> = Append(t3, e)
  BY <1>2
<1>4. s \o Append(t1, b) = Append(s \o t1, b)
  BY OneMore
<1>5. s \o Append(t2, d) = Append(s \o t2, d)
  BY OneMore
<1>6. s \o Append(t3, e) = Append(s \o t3, e)
  BY OneMore
<1> QED
  BY <1>1, <1>2, <1>3, <1>4, <1>5, <1>6

\* The message m has gone to the end of its key's list, and nothing else changed.
GoesOnWith(before, after, m) ==
  \A k \in Nat : after[k] = IF k = m.key THEN Append(before[k], m) ELSE before[k]

\* Four messages of which only the second is a tier change.
LEMMA HistoryRead ==
  ASSUME NEW S, Keyed(S), NEW s \in Seq(S), NEW a, NEW b, NEW d, NEW e,
         a.topic # "tier_changes", d.topic # "tier_changes", e.topic # "tier_changes",
         b.topic = "tier_changes", b.key \in Nat, NEW ms, ms = <<a, b, d, e>>
  PROVE  GoesOnWith(View("tier_changes", "append", s), View("tier_changes", "append", s \o ms), b)
<1> DEFINE T == S \cup {a, b, d, e}
<1>1. s \in Seq(T)
  BY SeqMonotonic
<1>2. PICK s1 \in Seq(T), s2 \in Seq(T), s3 \in Seq(T), s4 \in Seq(T) :
        s1 = Append(s, a) /\ s2 = Append(s1, b) /\ s3 = Append(s2, d) /\ s4 = Append(s3, e)
  BY <1>1, AppendProperties
<1>3. s4 = s \o ms
  BY <1>1, <1>2, FourAppended
<1> HIDE DEF T
<1>4. PICK v, v1, v2 : /\ v = View("tier_changes", "append", s)
                       /\ v1 = View("tier_changes", "append", s1)
                       /\ v2 = View("tier_changes", "append", s2)
  OBVIOUS
<1>5. v1 = v
  <2>1. View("tier_changes", "append", Append(s, a)) = v
    BY <1>1, <1>4, ViewOneMore
  <2> QED
    BY <1>2, <1>4, <2>1
<1>6. v2 = Project("append", v1, b)
  <2>1. View("tier_changes", "append", Append(s1, b)) = Project("append", v1, b)
    BY <1>4, ViewOneMore
  <2> QED
    BY <1>2, <1>4, <2>1
<1>7. View("tier_changes", "append", s4) = v2
  <2>1. View("tier_changes", "append", Append(s2, d)) = v2
    BY <1>4, ViewOneMore
  <2>2. View("tier_changes", "append", Append(s3, e)) = View("tier_changes", "append", s3)
    BY ViewOneMore
  <2> QED
    BY <1>2, <2>1, <2>2
<1>8. DOMAIN v = Nat
  <2>1. "append" \in Kinds
    BY DEF Kinds
  <2> QED
    BY <1>4, <2>1, ViewHasAllKeys
<1>9. v2 = [v EXCEPT ![b.key] = Append(v[b.key], b)]
  BY <1>5, <1>6 DEF Project, Appended
<1> QED
  BY <1>3, <1>4, <1>7, <1>8, <1>9 DEF GoesOnWith

\* The sequence t is s with four messages after it, at i1 to i4.
FourAfter(s, t, l, i1, i2, i3, i4, a, b, d, e) ==
  /\ l = Len(s) /\ DOMAIN s = 1..l
  /\ i1 \notin 1..l /\ i2 \notin 1..l /\ i3 \notin 1..l /\ i4 \notin 1..l
  /\ 1..Len(t) = 1..l \cup {i1} \cup {i2, i3, i4} /\ DOMAIN t = 1..Len(t)
  /\ \A i \in 1..l : t[i] = s[i]
  /\ t[i1] = a /\ t[i2] = b /\ t[i3] = d /\ t[i4] = e

LEMMA IndexIsNat == \A l \in Nat : \A i \in 1..l : i \in Nat
OBVIOUS

\* The four numbers after l.
FourMore(l, l4, i1, i2, i3, i4) ==
  /\ \A i : i \in 1..l4 <=> i \in 1..l \/ i = i1 \/ i = i2 \/ i = i3 \/ i = i4
  /\ i1 \notin 1..l /\ i2 \notin 1..l /\ i3 \notin 1..l /\ i4 \notin 1..l

LEMMA NextFour == \A l \in Nat : FourMore(l, l + 4, l + 1, l + 2, l + 3, l + 4)
BY DEF FourMore

LEMMA FourEmitted ==
  ASSUME StreamInv, NEW a, NEW b, NEW d, NEW e,
         NEW ms, ms = <<a, b, d, e>>, NEW t, t = stream', t = stream \o ms
  PROVE  \E l \in Nat : \E i1, i2, i3, i4 :
           FourAfter(stream, t, l, i1, i2, i3, i4, a, b, d, e)
<1>1. PICK msgs \in Seq({a, b, d, e}) : msgs = ms
  <2>1. <<a, b, d, e>> \in Seq({a, b, d, e})
    OBVIOUS
  <2> QED
    BY <2>1
<1>2. Len(msgs) = 4 /\ msgs[1] = a /\ msgs[2] = b /\ msgs[3] = d /\ msgs[4] = e
  BY <1>1
<1>3. PICK l, l4 : l = Len(stream) /\ l4 = Len(t)
  OBVIOUS
<1>4. /\ l \in Nat /\ l4 = l + 4 /\ DOMAIN stream = 1..l /\ DOMAIN t = 1..l4
      /\ \A i \in 1..l : t[i] = stream[i]
      /\ \A k \in 1..4 : t[l + k] = msgs[k]
  BY <1>1, <1>2, <1>3, Grown
<1>5. PICK i1, i2, i3, i4 : i1 = l + 1 /\ i2 = l + 2 /\ i3 = l + 3 /\ i4 = l + 4
  OBVIOUS
<1>6. /\ \A i : i \in 1..l4 <=> i \in 1..l \/ i = i1 \/ i = i2 \/ i = i3 \/ i = i4
      /\ i1 \notin 1..l /\ i2 \notin 1..l /\ i3 \notin 1..l /\ i4 \notin 1..l
  <2>1. FourMore(l, l4, i1, i2, i3, i4)
    BY <1>4, <1>5, NextFour, Zenon
  <2> QED
    BY <2>1, Zenon DEF FourMore
<1>7. t[i1] = a /\ t[i2] = b /\ t[i3] = d /\ t[i4] = e
  <2>1. t[l + 1] = msgs[1] /\ t[l + 2] = msgs[2] /\ t[l + 3] = msgs[3] /\ t[l + 4] = msgs[4]
    <3>1. 1 \in 1..4 /\ 2 \in 1..4 /\ 3 \in 1..4 /\ 4 \in 1..4
      OBVIOUS
    <3> QED
      BY <1>4, <3>1, Zenon
  <2> QED
    BY <1>2, <1>5, <2>1
<1>8. 1..l4 = 1..l \cup {i1} \cup {i2, i3, i4}
  BY <1>6, Zenon
<1>9. FourAfter(stream, t, l, i1, i2, i3, i4, a, b, d, e)
  BY <1>3, <1>4, <1>6, <1>7, <1>8 DEF FourAfter
<1> QED
  BY <1>4, <1>9

\* Only i, about order o, is a chargeback of t and not of s, whose messages are D.
ChargedOnce(s, t, D, i, o) ==
  /\ ChargesIn(t) = ChargesIn(s) \cup {i}
  /\ ChargesIn(s) \subseteq D
  /\ \A p : /\ ChargesOf(t, p) = ChargesOf(s, p) \cup IF p = o THEN {i} ELSE {}
            /\ ChargesOf(s, p) \subseteq D

\* Of the messages after D, the first is a chargeback and no other is a payment.
LEMMA OneMarkMore ==
  ASSUME NEW D, NEW i, NEW rest, NEW s, NEW t, NEW o, \A k \in D : t[k] = s[k],
         1..Len(s) = D, 1..Len(t) = D \cup {i} \cup rest,
         t[i].topic = "payments", t[i].body.kind = "CHARGEBACK", t[i].key = o,
         \A k \in rest : t[k].topic # "payments"
  PROVE  ChargedOnce(s, t, D, i, o)
<1>1. ChargesIn(t) = ChargesIn(s) \cup {i} /\ ChargesIn(s) \subseteq D
  BY DEF ChargesIn
<1>2. ASSUME NEW p
      PROVE  /\ ChargesOf(t, p) = ChargesOf(s, p) \cup IF p = o THEN {i} ELSE {}
             /\ ChargesOf(s, p) \subseteq D
  BY <1>1 DEF ChargesOf, ChargesIn
<1> QED
  BY <1>1, <1>2 DEF ChargedOnce

\* A sequence t that goes on from s with x, at index j.
Longer(s, t, x, r, j) ==
  /\ r = Len(s) /\ j \notin 1..r
  /\ 1..Len(t) = 1..r \cup {j}
  /\ \A i \in 1..r : t[i] = s[i]
  /\ t[j] = x

\* One more entry at the end of the returns.
LEMMA OneReturned ==
  ASSUME TypeOK, NEW ret \in Return, returns' = Append(returns, ret)
  PROVE  \E r \in Nat : \E j : Longer(returns, returns', ret, r, j)
<1>1. PICK r, r1, more : r = Len(returns) /\ r1 = Len(returns') /\ more = returns'
  OBVIOUS
<1>2. /\ r \in Nat /\ r1 = r + 1 /\ more[r1] = ret
      /\ \A i \in 1..r : more[i] = returns[i]
  BY <1>1, AppendProperties DEF TypeOK
<1>3. 1..r1 = 1..r \cup {r1} /\ r1 \notin 1..r
  BY <1>2
<1>4. Longer(returns, returns', ret, r, r1)
  BY <1>1, <1>2, <1>3 DEF Longer
<1> QED
  BY <1>2, <1>4

\* What is told of a customer's tier is a sequence of the stream's messages.
LEMMA HistoryIsRead ==
  ASSUME StreamInv, StreamIsKnown, NEW c \in Customers
  PROVE  /\ stream \in Seq(Messages) /\ Keyed(Messages)
         /\ c \in Nat
         /\ History(c) \in Seq(Messages)
<1>1. stream \in Seq(Messages) /\ Keyed(Messages)
  BY MessagesAreKnown
<1>2. c \in Nat
  BY SizesAssumption DEF Customers
<1>3. "append" \in Kinds
  BY DEF Kinds
<1>4. History(c) \in Seq(Messages)
  BY <1>1, <1>2, <1>3, HeldAreSeqs DEF History
<1> QED
  BY <1>1, <1>2, <1>4

\* A firing leaves one mark on each topic and in each part of the state.
LEMMA FireTrace ==
  ASSUME TypeOK, TypeOK', StreamInv, StreamIsKnown, ReturnsKnown, ScenarioInv,
         UNCHANGED orders,
         NEW o \in 1..Len(orders), NEW c \in Customers, c = orders[o].customer,
         NEW old, old = customers[c], old.tier # "BRONZE",
         NEW new, new = [tier |-> OneStepDown(old.tier), version |-> old.version + 1,
                         updatedAt |-> Now],
         customers' = [customers EXCEPT ![c] = new],
         returns' = Append(returns, Rejected(o)),
         NEW s \in DOMAIN FireAt, ~fired[s], fired' = [fired EXCEPT ![s] = TRUE],
         NEW n, NEW msgs, msgs = FireMsgs(o, c, old, new, n), stream' = stream \o msgs
  PROVE  ScenarioInv'
<1>1. PICK a, b, d, e :
        /\ msgs = <<a, b, d, e>>
        /\ a.topic = "payments" /\ a.key = o /\ a.body.kind = "CHARGEBACK"
        /\ b.topic = "tier_changes" /\ b.key = c
        /\ b.body.from = old.tier /\ b.body.to = new.tier
        /\ d.topic = "customers" /\ e.topic = "returns"
  <2>1. PICK a, b, d, e : /\ a = PaymentMsg(o, "CHARGEBACK")
                          /\ b = TierMsg(c, old.tier, new.tier)
                          /\ d = CustomerMsg(c, new) /\ e = ReturnMsg(n, Rejected(o))
    OBVIOUS
  <2>2. msgs = <<a, b, d, e>>
    BY <2>1 DEF FireMsgs
  <2>3. /\ a.topic = "payments" /\ a.key = o /\ a.body.kind = "CHARGEBACK"
        /\ b.topic = "tier_changes" /\ b.key = c
        /\ b.body.from = old.tier /\ b.body.to = new.tier
        /\ d.topic = "customers" /\ e.topic = "returns"
    BY <2>1 DEF PaymentMsg, TierMsg, CustomerMsg, ReturnMsg, Message
  <2> QED
    BY <2>2, <2>3
<1>2. PICK s1, s2 : s1 = stream /\ s2 = stream'
  OBVIOUS
<1>21. PICK l, i1, i2, i3, i4 :
           l \in Nat /\ FourAfter(s1, s2, l, i1, i2, i3, i4, a, b, d, e)
  <2>1. s2 = stream \o msgs
    BY <1>2
  <2> QED
    BY <1>1, <1>2, <2>1, FourEmitted
<1>3. Rejected(o) \in Return
  <2>1. Len(orders) \in Nat
    BY Sizes
  <2>2. o \in Nat
    BY <2>1, IndexIsNat, Zenon
  <2> QED
    BY <2>2 DEF Rejected, Return
<1>23. PICK r \in Nat : \E j : Longer(returns, returns', Rejected(o), r, j)
  BY <1>3, OneReturned
<1>4. PICK j : /\ r = Len(returns) /\ j \notin 1..r
               /\ 1..Len(returns') = 1..r \cup {j}
               /\ \A i \in 1..r : returns'[i] = returns[i]
               /\ returns'[j] = Rejected(o)
  BY <1>23 DEF Longer
<1>22. l \in Nat /\ r \in Nat
  BY <1>21
<1>5. PICK D, R : D = 1..l /\ R = 1..r
  OBVIOUS
<1>6. MarksKnown'
  <2>1. MarksIn(s1, Len(orders))
    BY <1>2 DEF ScenarioInv, MarksKnown
  <2>2. MarksIn(s2, Len(orders))
    BY <1>1, <1>21, <2>1 DEF FourAfter, MarksIn
  <2> QED
    BY <1>2, <2>2 DEF MarksKnown
<1>7. /\ AllCharged' = AllCharged \cup {i1} /\ AllCharged \subseteq D
      /\ \A p : /\ Charged(p)' = Charged(p) \cup IF p = o THEN {i1} ELSE {}
                /\ Charged(p) \subseteq D
  <2>1. PICK rest : rest = {i2, i3, i4}
    OBVIOUS
  <2>2. /\ \A i \in D : s2[i] = s1[i]
        /\ 1..Len(s1) = D /\ 1..Len(s2) = D \cup {i1} \cup rest
        /\ s2[i1].topic = "payments" /\ s2[i1].body.kind = "CHARGEBACK" /\ s2[i1].key = o
        /\ \A i \in rest : s2[i].topic # "payments"
    BY <1>1, <1>5, <1>21, <2>1 DEF FourAfter
  <2>3. ChargedOnce(s1, s2, D, i1, o)
    BY <2>2, OneMarkMore
  <2>4. AllCharged' = ChargesIn(s2) /\ \A p : Charged(p)' = ChargesOf(s2, p)
    BY <1>2 DEF AllCharged, Charged
  <2>5. AllCharged = ChargesIn(s1) /\ \A p : Charged(p) = ChargesOf(s1, p)
    BY <1>2 DEF AllCharged, Charged
  <2> QED
    BY <2>3, <2>4, <2>5 DEF ChargedOnce
<1>8. Refused' = Refused \cup {j} /\ Refused \subseteq R
  <2>1. /\ Refused' = {i \in R \cup {j} : returns'[i].status = "REJECTED"}
        /\ Refused = {i \in R : returns[i].status = "REJECTED"}
    BY <1>4, <1>5 DEF Refused
  <2>2. Rejected(o).status = "REJECTED"
    BY DEF Rejected
  <2> QED
    BY <1>4, <1>5, <2>1, <2>2
<1>9. /\ returns'[j].order = o
      /\ \A i \in Refused : returns'[i].order = returns[i].order
  <2>1. Rejected(o).order = o
    BY DEF Rejected
  <2> QED
    BY <1>4, <1>5, <1>8, <2>1
<1>10. ASSUME NEW p
       PROVE  RefusedOf(p)' = IF p = o THEN RefusedOf(p) \cup {j} ELSE RefusedOf(p)
  <2>1. CASE p = o
    BY <1>8, <1>9, <2>1 DEF RefusedOf
  <2>2. CASE p # o
    BY <1>8, <1>9, <2>2 DEF RefusedOf
  <2> QED
    BY <2>1, <2>2
<1>11. ASSUME NEW q
       PROVE  RefusedTo(q)' = IF q = c THEN RefusedTo(q) \cup {j} ELSE RefusedTo(q)
  <2>1. CASE q = c
    BY <1>8, <1>9, <2>1 DEF RefusedTo
  <2>2. CASE q # c
    BY <1>8, <1>9, <2>2 DEF RefusedTo
  <2> QED
    BY <2>1, <2>2
<1>19. i1 \notin 1..l /\ \A M : M \subseteq D => M \in SUBSET (1..l) /\ i1 \notin M
  BY <1>5, <1>21 DEF FourAfter
<1>20. \A M : M \subseteq R => M \in SUBSET (1..r) /\ j \notin M
  BY <1>4, <1>5
<1>12. Cardinality(AllCharged') = Cardinality(AllCharged) + 1
  BY <1>7, <1>19, <1>22, CountsOneMore
<1>13. Cardinality(Refused') = Cardinality(Refused) + 1
  BY <1>8, <1>20, <1>22, CountsOneMore
<1>14. Cardinality(Firings') = Cardinality(Firings) + 1
  <2>1. DOMAIN FireAt = 1..Len(FireAt) /\ Len(FireAt) \in Nat
    BY FireAtAssumption, LenProperties
  <2>2. Firings \in SUBSET (1..Len(FireAt)) /\ s \notin Firings
    BY <2>1 DEF Firings
  <2>3. Firings' = Firings \cup {s}
    BY DEF Firings, TypeOK
  <2> QED
    BY <2>1, <2>2, <2>3, CountsOneMore
<1>15. ASSUME NEW p \in 1..Len(orders)
       PROVE  Cardinality(Charged(p)') = Cardinality(RefusedOf(p)')
  <2>1. Cardinality(Charged(p)) = Cardinality(RefusedOf(p))
    BY DEF ScenarioInv, FiringsAreMarked
  <2>2. CASE p = o
    <3>1. Cardinality(Charged(p) \cup {i1}) = Cardinality(Charged(p)) + 1
      BY <1>7, <1>19, <1>22, CountsOneMore
    <3>2. RefusedOf(p) \subseteq R
      BY <1>8 DEF RefusedOf
    <3>3. Cardinality(RefusedOf(p) \cup {j}) = Cardinality(RefusedOf(p)) + 1
      BY <1>20, <1>22, <3>2, CountsOneMore
    <3> QED
      BY <1>7, <1>10, <2>1, <2>2, <3>1, <3>3
  <2>3. CASE p # o
    BY <1>7, <1>10, <2>1, <2>3
  <2> QED
    BY <2>2, <2>3
<1>16. FiringsAreMarked'
  BY <1>12, <1>13, <1>14, <1>15 DEF ScenarioInv, FiringsAreMarked
<1>17. ASSUME NEW q \in Customers
       PROVE  Matching(customers[q], History(q), Cardinality(RefusedTo(q)))'
  <2>1. /\ stream \in Seq(Messages) /\ Keyed(Messages) /\ q \in Nat
        /\ c \in Nat /\ History(c) \in Seq(Messages)
    BY HistoryIsRead
  <2>2. History(q)' = IF q = c THEN Append(History(q), b) ELSE History(q)
    <3>1. q \in Nat /\ b.key \in Nat
      BY <1>1, <2>1
    <3>2. GoesOnWith(View("tier_changes", "append", stream),
                     View("tier_changes", "append", stream \o msgs), b)
      <4>1. /\ a.topic # "tier_changes" /\ d.topic # "tier_changes"
            /\ e.topic # "tier_changes" /\ b.topic = "tier_changes"
        BY <1>1
      <4> QED
        BY <1>1, <2>1, <3>1, <4>1, HistoryRead
    <3> QED
      BY <1>1, <3>1, <3>2 DEF History, GoesOnWith
  <2>3. Matching(customers[q], History(q), Cardinality(RefusedTo(q)))
    BY DEF ScenarioInv, HistoriesMatch
  <2>4. CASE q # c
    <3>1. customers'[q] = customers[q]
      BY <2>4 DEF TypeOK
    <3> QED
      BY <1>11, <2>2, <2>3, <2>4, <3>1
  <2>5. CASE q = c
    <3>1. customers[c] \in Customer /\ customers'[c] = new
      BY DEF TypeOK
    <3>2. PICK tcs : tcs = History(c)
      OBVIOUS
    <3>3. tcs \in Seq(Messages)
      BY <2>1, <3>2
    <3>4. old.tier \in Tiers /\ old.version \in Nat
      BY <3>1 DEF Customer
    <3>5. Rank(new.tier) < Rank(old.tier)
      BY <3>4, StrictlyDown
    <3>6. tcs \in Seq(Messages \cup {b})
      BY <3>3, SeqMonotonic
    <3>7. Chain(tcs, old.tier) /\ old.version = Len(tcs) + 1
          /\ Len(tcs) = Cardinality(RefusedTo(c))
      BY <2>3, <2>5, <3>2 DEF Matching
    <3>8. Chain(Append(tcs, b), new.tier)
      BY <1>1, <3>5, <3>6, <3>7, ChainGoesOn
    <3>9. Len(Append(tcs, b)) = Len(tcs) + 1 /\ Len(tcs) \in Nat
      BY <3>6, LongerByOne
    <3>10. RefusedTo(c) \subseteq R
      BY <1>8 DEF RefusedTo
    <3>11. Cardinality(RefusedTo(c)') = Cardinality(RefusedTo(c)) + 1
      BY <1>11, <1>20, <1>22, <3>10, CountsOneMore
    <3>12. new.version = old.version + 1
      OBVIOUS
    <3>13. Matching(new, Append(tcs, b), Cardinality(RefusedTo(c)'))
      BY <3>7, <3>8, <3>9, <3>11, <3>12 DEF Matching
    <3> QED
      BY <2>2, <2>5, <3>1, <3>2, <3>13
  <2> QED
    BY <2>4, <2>5
<1>18. HistoriesMatch'
  BY <1>17 DEF HistoriesMatch
<1> QED
  BY <1>6, <1>16, <1>18 DEF ScenarioInv

-------------------------------------------------------------------------------
\* Nothing has fired, been charged or refused at the start, and every tier is first.
LEMMA InitScenario == TypeOK /\ Init => ScenarioInv
<1> SUFFICES ASSUME TypeOK, Init PROVE ScenarioInv
  OBVIOUS
<1>1. /\ \A i \in 1..Len(stream) : stream[i].topic \in {"customers", "inventory"}
      /\ stream \in Seq(Messages) /\ DOMAIN stream = 1..Len(stream)
  BY InitMessages, LenProperties DEF Messages
<1>2. Len(orders) = 0 /\ Len(returns) = 0 /\ \A s \in DOMAIN FireAt : ~fired[s]
  BY DEF Init
<1>3. MarksKnown
  BY <1>1 DEF MarksKnown, MarksIn
<1>4. AllCharged = {} /\ \A o : Charged(o) = {}
  BY <1>1 DEF AllCharged, Charged, ChargesIn, ChargesOf
<1>5. Refused = {}
  BY <1>2 DEF Refused
<1>6. \A c : RefusedTo(c) = {}
  BY <1>5 DEF RefusedTo
<1>7. Firings = {}
  BY <1>2 DEF Firings
<1>8. Cardinality({}) = 0
  BY FS_EmptySet
<1>9. FiringsAreMarked
  BY <1>2, <1>4, <1>5, <1>7 DEF FiringsAreMarked
<1>10. ASSUME NEW c \in Customers
       PROVE  Matching(customers[c], History(c), Cardinality(RefusedTo(c)))
  <2>1. PICK es : es = <<>>
    OBVIOUS
  <2>2. c \in Nat
    BY SizesAssumption DEF Customers
  <2>3. History(c) = es
    <3>1. \A e \in Messages : e.topic # "tier_changes"
      BY <1>1 DEF Messages
    <3>2. es \o stream = stream /\ es \in Seq(Messages)
      BY <1>1, <2>1
    <3>3. View("tier_changes", "append", es \o stream) = View("tier_changes", "append", es)
      BY <1>1, <3>1, <3>2, Elsewhere
    <3>4. View("tier_changes", "append", es) = [k \in Nat |-> es]
      BY <2>1, ViewOfNone
    <3> QED
      BY <2>2, <3>2, <3>3, <3>4 DEF History
  <2>4. Len(es) = 0
    BY <2>1
  <2>5. customers[c].version = 1
    BY DEF Init
  <2>6. Chain(es, customers[c].tier)
    BY <2>4 DEF Chain
  <2> QED
    <3>1. Matching(customers[c], es, 0)
      BY <2>4, <2>5, <2>6 DEF Matching
    <3>2. Cardinality(RefusedTo(c)) = 0
      BY <1>6, <1>8
    <3> QED
      BY <2>3, <3>1, <3>2
<1> QED
  BY <1>3, <1>9, <1>10 DEF ScenarioInv, HistoriesMatch

\* One message that is neither a tier change nor a chargeback.
LEMMA QuietTraceOfOne ==
  ASSUME TypeOK, TypeOK', StreamInv, StreamIsKnown, ReturnsKnown, ScenarioInv,
         UNCHANGED <<customers, orders, fired>>,
         \/ UNCHANGED returns
         \/ \E ret \in Return : returns' = Append(returns, ret) /\ ret.status # "REJECTED",
         NEW m, stream' = stream \o <<m>>, m.topic # "tier_changes",
         m.topic = "payments" => m.key \in 1..Len(orders) /\ m.body.kind # "CHARGEBACK"
  PROVE  ScenarioInv'
<1>1. PICK msgs : msgs = <<m>> /\ msgs \in Seq({m})
  <2>1. <<m>> \in Seq({m})
    OBVIOUS
  <2> QED
    BY <2>1
<1>2. stream' = stream \o msgs
  BY <1>1
<1>3. NoneRefused(returns, returns')
  <2>1. CASE UNCHANGED returns
    BY <2>1, Sizes DEF NoneRefused
  <2>2. CASE \E ret \in Return : returns' = Append(returns, ret) /\ ret.status # "REJECTED"
    <3>1. PICK ret \in Return : returns' = Append(returns, ret) /\ ret.status # "REJECTED"
      BY <2>2
    <3>2. PICK r, r1, more : r = Len(returns) /\ r1 = Len(returns') /\ more = returns'
      OBVIOUS
    <3>3. /\ r \in Nat /\ r1 = r + 1 /\ more[r1] = ret
          /\ \A n \in 1..r : more[n] = returns[n]
      BY <3>1, <3>2, AppendProperties DEF TypeOK
    <3>4. r <= r1 /\ \A n \in 1..r1 : n \notin 1..r => n = r1
      BY <3>3
    <3> QED
      BY <3>1, <3>2, <3>3, <3>4 DEF NoneRefused
  <2> QED
    BY <2>1, <2>2
<1>4. SameOrders(orders, orders')
  BY Sizes DEF SameOrders
<1>5. Quiet({m}, Len(orders))
  BY DEF Quiet
<1> QED
  BY <1>1, <1>2, <1>3, <1>4, <1>5, QuietTrace

\* Every step of a run keeps the scenarios' invariant.
LEMMA NextScenario ==
  /\ TypeOK /\ TypeOK' /\ StreamInv /\ StreamIsKnown /\ ReferentialIntegrity
  /\ ScenarioInv /\ [Next]_vars
  => ScenarioInv'
<1> SUFFICES ASSUME TypeOK, TypeOK', StreamInv, StreamIsKnown, ReferentialIntegrity,
                    ScenarioInv, [Next]_vars
             PROVE  ScenarioInv'
  OBVIOUS
<1>1. ReturnsKnown
  BY ReturnsAreKnown
<1>2. ASSUME UNCHANGED <<stream, customers, orders, returns, fired>>
      PROVE  ScenarioInv'
  BY <1>2 DEF ScenarioInv, MarksKnown, FiringsAreMarked, HistoriesMatch, AllCharged, Charged,
              Refused, RefusedOf, RefusedTo, Firings, History, MarksIn, ChargesIn, ChargesOf
<1>3. CASE PlaceOrder
  <2>1. PICK items, ord, o, tail :
          /\ items = draft[1].items
          /\ orders' = Append(orders, ord)
          /\ tail = [i \in DOMAIN items |-> ItemMsg(o, items[i])]
          /\ stream' = stream \o (<<OrderMsg(o, ord)>> \o tail)
    BY <1>3 DEF PlaceOrder, Emit
  <2>2. items \in Seq(Item)
    <3>1. draft[1] \in Draft
      BY <1>3, EmptySeq, ElementOfSeq DEF PlaceOrder, TypeOK
    <3> QED
      BY <2>1, <3>1 DEF Draft
  <2> DEFINE I == {ItemMsg(o, items[i]) : i \in DOMAIN items}
  <2>3. tail \in Seq(I)
    <3>1. DOMAIN items = 1..Len(items) /\ Len(items) \in Nat
      BY <2>2, LenProperties
    <3>2. tail = [i \in 1..Len(items) |-> ItemMsg(o, items[i])]
      BY <2>1, <3>1
    <3>3. \A i \in 1..Len(items) : ItemMsg(o, items[i]) \in I
      BY <3>1
    <3> HIDE DEF I
    <3> QED
      BY <3>1, <3>2, <3>3, IsASeq
  <2>4. \A e \in {OrderMsg(o, ord)} \cup I : e.topic \in {"orders", "order_items"}
    BY DEF OrderMsg, ItemMsg, Message
  <2> HIDE DEF I
  <2>5. PICK T, msgs : /\ T = {OrderMsg(o, ord)} \cup I /\ msgs = <<OrderMsg(o, ord)>> \o tail
    OBVIOUS
  <2>6. msgs \in Seq(T)
    BY <2>3, <2>5, Heading
  <2>7. stream' = stream \o msgs
    BY <2>1, <2>5
  <2>8. Quiet(T, Len(orders))
    BY <2>4, <2>5 DEF Quiet
  <2>9. SameOrders(orders, orders')
    <3>1. PICK old, new : old = orders /\ new = orders'
      OBVIOUS
    <3>2. /\ old \in Seq(Order) /\ new = Append(old, ord) /\ new \in Seq(Order)
      BY <2>1, <3>1 DEF TypeOK
    <3>3. Len(old) \in Nat /\ Len(new) = Len(old) + 1 /\ \A i \in 1..Len(old) : new[i] = old[i]
      BY <3>2
    <3>4. SameOrders(old, new)
      BY <3>3 DEF SameOrders
    <3> QED
      BY <3>1, <3>4
  <2>10. UNCHANGED <<customers, fired, returns>>
    BY <1>3 DEF PlaceOrder
  <2>11. NoneRefused(returns, returns')
    BY <2>10, Sizes DEF NoneRefused
  <2> QED
    BY <1>1, <2>6, <2>7, <2>8, <2>9, <2>10, <2>11, QuietTrace
<1>4. CASE InventorySnapshots
  <2>1. UNCHANGED <<customers, fired, returns, orders>>
    BY <1>4 DEF InventorySnapshots, state
  <2>2. CASE UNCHANGED stream
    BY <1>2, <2>1, <2>2
  <2>3. CASE stream' = stream \o SnapshotMsgs(inventory)
    <3> DEFINE R == {SnapshotMsg(r, inventory[r]) : r \in Rows}
    <3>1. PICK msgs : msgs = SnapshotMsgs(inventory)
      OBVIOUS
    <3>2. msgs \in Seq(R)
      BY <3>1, IsASeq, SizesAssumption DEF Rows, SnapshotMsgs
    <3>3. Quiet(R, Len(orders))
      BY DEF Quiet, SnapshotMsg, Message
    <3> HIDE DEF R
    <3>4. SameOrders(orders, orders') /\ NoneRefused(returns, returns')
      BY <2>1, Sizes DEF SameOrders, NoneRefused
    <3>5. stream' = stream \o msgs
      BY <2>3, <3>1
    <3> QED
      BY <1>1, <2>1, <3>2, <3>3, <3>4, <3>5, QuietTrace
  <2> QED
    BY <1>4, <2>2, <2>3 DEF InventorySnapshots, Emit
<1>5. CASE RequestReturn
  <2>1. PICK o, ret, m :
          /\ o \in 1..Len(orders)
          /\ ret = [order |-> o, status |-> "REQUESTED", reason |-> "customer_request"]
          /\ m = ReturnMsg(Len(returns) + 1, ret)
          /\ returns' = Append(returns, ret)
          /\ stream' = stream \o <<m>>
    BY <1>5 DEF RequestReturn, Emit
  <2>2. ret \in Return /\ ret.status # "REJECTED"
    BY <2>1, Sizes DEF Return
  <2>3. m.topic = "returns"
    BY <2>1 DEF ReturnMsg, Message
  <2>4. UNCHANGED <<customers, orders, fired>>
    BY <1>5 DEF RequestReturn
  <2> QED
    BY <1>1, <2>1, <2>2, <2>3, <2>4, QuietTraceOfOne
<1>6. CASE RandomPayment
  <2>1. PICK o, kind, m :
          /\ o \in 1..Len(orders) /\ kind \in {"FAILED", "REFUND"}
          /\ m = PaymentMsg(o, kind) /\ stream' = stream \o <<m>>
    BY <1>6 DEF RandomPayment, Emit
  <2>2. m.key = o /\ m.body.kind # "CHARGEBACK" /\ m.topic = "payments"
    BY <2>1 DEF PaymentMsg, Message
  <2>3. UNCHANGED <<customers, orders, fired>> /\ UNCHANGED returns
    BY <1>6 DEF RandomPayment, state
  <2> QED
    BY <1>1, <2>1, <2>2, <2>3, QuietTraceOfOne
<1>7. CASE OpenTicket
  <2>1. PICK tic, m : m = TicketMsg(Len(tickets) + 1, tic) /\ stream' = stream \o <<m>>
    BY <1>7 DEF OpenTicket, Emit
  <2>2. m.topic = "tickets"
    BY <2>1 DEF TicketMsg, Message
  <2>3. UNCHANGED <<customers, orders, fired>> /\ UNCHANGED returns
    BY <1>7 DEF OpenTicket
  <2> QED
    BY <1>1, <2>1, <2>2, <2>3, QuietTraceOfOne
<1>8. CASE AdvanceOrder
  <2>1. PICK o, ord, msgs :
          /\ o \in 1..Len(orders)
          /\ orders[o].status \in DOMAIN NextStatus
          /\ ord = [orders[o] EXCEPT !.status = NextStatus[orders[o].status]]
          /\ msgs = AdvanceMsgs(o, ord)
          /\ orders' = [orders EXCEPT ![o] = ord] /\ stream' = stream \o msgs
    BY <1>8 DEF AdvanceOrder, Emit
  <2>2. PICK T : T = {OrderMsg(o, ord), PaymentMsg(o, "CAPTURED")}
    OBVIOUS
  <2>3. msgs \in Seq(T)
    <3>1. PICK a, b : a = OrderMsg(o, ord) /\ b = PaymentMsg(o, "CAPTURED")
      OBVIOUS
    <3>2. T = {a, b} /\ (msgs = <<a, b>> \/ msgs = <<a>>)
      BY <2>1, <2>2, <3>1 DEF AdvanceMsgs
    <3>3. <<a, b>> \in Seq({a, b}) /\ <<a>> \in Seq({a, b})
      OBVIOUS
    <3> QED
      BY <3>2, <3>3
  <2>4. Quiet(T, Len(orders))
    BY <2>1, <2>2 DEF Quiet, OrderMsg, PaymentMsg, Message
  <2>5. SameOrders(orders, orders')
    <3>1. PICK old, new : old = orders /\ new = orders'
      OBVIOUS
    <3>2. old \in Seq(Order) /\ new = [old EXCEPT ![o] = ord] /\ DOMAIN old = 1..Len(old)
      BY <2>1, <3>1, LenProperties DEF TypeOK
    <3>3. ord.customer = old[o].customer
      <4>1. orders[o] \in Order
        BY <2>1, ElementOfSeq DEF TypeOK
      <4> QED
        BY <2>1, <3>1, <4>1 DEF Order
    <3>4. \A i \in 1..Len(old) : new[i] = IF i = o THEN ord ELSE old[i]
      BY <3>2
    <3>5. Len(new) = Len(old) /\ Len(old) \in Nat
      BY <3>1, <3>2, ExceptSeq, LenProperties DEF TypeOK
    <3>6. SameOrders(old, new)
      BY <3>3, <3>4, <3>5 DEF SameOrders
    <3> QED
      BY <3>1, <3>6
  <2>6. UNCHANGED <<customers, fired>> /\ UNCHANGED returns
    BY <1>8 DEF AdvanceOrder
  <2>7. NoneRefused(returns, returns')
    BY <2>6, Sizes DEF NoneRefused
  <2> QED
    BY <1>1, <2>1, <2>3, <2>4, <2>5, <2>6, <2>7, QuietTrace
<1>9. CASE Fire
  <2> DEFINE Cust(p) == orders[p].customer
             After(rec) == [tier |-> OneStepDown(rec.tier), version |-> rec.version + 1,
                            updatedAt |-> Now]
  <2>1. PICK s \in DOMAIN FireAt, o \in Eligible :
          /\ ~fired[s] /\ fired' = [fired EXCEPT ![s] = TRUE]
          /\ customers' = [customers EXCEPT ![Cust(o)] = After(customers[Cust(o)])]
          /\ returns' = Append(returns, Rejected(o))
          /\ stream' = stream \o FireMsgs(o, Cust(o), customers[Cust(o)],
                                         After(customers[Cust(o)]), Len(returns) + 1)
    BY <1>9 DEF Fire, Emit, Due
  <2>2. PICK c, old, new, n, msgs :
          /\ c = Cust(o) /\ old = customers[c] /\ new = After(old) /\ n = Len(returns) + 1
          /\ msgs = FireMsgs(o, c, old, new, n)
    OBVIOUS
  <2>3. /\ c = orders[o].customer /\ old = customers[c]
        /\ new = [tier |-> OneStepDown(old.tier), version |-> old.version + 1,
                  updatedAt |-> Now]
        /\ msgs = FireMsgs(o, c, old, new, n)
        /\ customers' = [customers EXCEPT ![c] = new]
        /\ stream' = stream \o msgs
    BY <2>1, <2>2
  <2> HIDE DEF Cust, After
  <2>4. o \in 1..Len(orders) /\ old.tier # "BRONZE"
    BY <2>3 DEF Eligible
  <2>5. c \in Customers
    <3>1. orders[o] \in Order
      BY <2>4, ElementOfSeq DEF TypeOK
    <3> QED
      BY <2>3, <3>1 DEF Order
  <2>6. UNCHANGED orders
    BY <1>9 DEF Fire
  <2>7. ~fired[s] /\ fired' = [fired EXCEPT ![s] = TRUE] /\ returns' = Append(returns, Rejected(o))
    BY <2>1
  <2> QED
    BY <1>1, <2>3, <2>4, <2>5, <2>6, <2>7, FireTrace
<1>10. CASE DraftOrder \/ DraftItem \/ BootstrapDone \/ OrdersDone
  BY <1>2, <1>10 DEF DraftOrder, DraftItem, BootstrapDone, OrdersDone, state
<1>11. CASE NoReturn \/ NoPayment \/ NoAdvance \/ NoFire
  BY <1>2, <1>11 DEF NoReturn, NoPayment, NoAdvance, NoFire, state
<1>12. CASE ReturnsDone \/ PaymentsDone \/ LifecycleDone \/ TicketsDone \/ TickDone
  BY <1>2, <1>12 DEF ReturnsDone, PaymentsDone, LifecycleDone, TicketsDone, TickDone, Over, state
<1>13. CASE Returned \/ UNCHANGED vars
  BY <1>2, <1>13 DEF Returned, vars, state
<1> QED
  BY <1>3, <1>4, <1>5, <1>6, <1>7, <1>8, <1>9, <1>10, <1>11, <1>12, <1>13 DEF Next

\* The trace of the scenarios over four topics is consistent in every run: a chargeback,
\* a refused return and a tier change for each firing, about one order, and each
\* customer's tier changes chain strictly down to its tier.
THEOREM ScenariosLeaveTraces == Spec => []ScenarioTrace
<1>1. TypeOK /\ StreamInv /\ ReplayInv /\ ScenarioInv => ScenarioTrace
  <2> SUFFICES ASSUME TypeOK, StreamInv, ReplayInv, ScenarioInv PROVE ScenarioTrace
    OBVIOUS
  <2>1. /\ DOMAIN orders = 1..Len(orders) /\ DOMAIN returns = 1..Len(returns)
        /\ DOMAIN stream = 1..Len(stream)
    BY LenProperties DEF TypeOK, StreamInv, Causal
  <2>2. \A o : Payments(o, {"CHARGEBACK"}) = Charged(o)
    BY <2>1 DEF Payments, Charged, ChargesOf, ChargesIn
  <2>3. UNION {Payments(o, {"CHARGEBACK"}) : o \in DOMAIN orders} = AllCharged
    <3>1. \A o : Charged(o) = {i \in AllCharged : stream[i].key = o}
      BY DEF Charged, ChargesOf, AllCharged
    <3>2. \A i \in AllCharged : stream[i].key \in DOMAIN orders
      BY <2>1 DEF AllCharged, ChargesIn, ScenarioInv, MarksKnown, MarksIn
    <3>3. UNION {Payments(o, {"CHARGEBACK"}) : o \in DOMAIN orders}
            = UNION {Charged(o) : o \in DOMAIN orders}
      BY <2>2
    <3> QED
      BY <3>1, <3>2, <3>3
  <2>4. {n \in DOMAIN returns : returns[n].status = "REJECTED"} = Refused
    BY <2>1 DEF Refused
  <2>5. \A o : {n \in Refused : returns[n].order = o} = RefusedOf(o)
    BY DEF RefusedOf
  <2>6. \A c : {n \in Refused : orders[returns[n].order].customer = c} = RefusedTo(c)
    BY DEF RefusedTo
  <2>7. {s \in DOMAIN FireAt : fired[s]} = Firings
    BY DEF Firings
  <2>8. \A c \in Customers : TierChanges(c) = History(c)
    <3>1. Customers \subseteq Nat /\ "append" \in Kinds /\ StreamIsKnown
      BY SizesAssumption DEF Customers, Kinds, ReplayInv
    <3>2. \A e \in Messages : e.topic = "tier_changes" => e.key \in Customers
      BY <2>1 DEF Messages, ScenarioInv, MarksKnown, MarksIn
    <3>3. Replayed("tier_changes", "append", Customers)
            = OnKeys(Customers, View("tier_changes", "append", stream))
      BY <3>1, <3>2, ReplayIsView
    <3> QED
      BY <3>3, Zenon DEF TierChanges, History, OnKeys
  <2>9. ASSUME NEW c \in Customers
        PROVE  /\ customers[c].version = Len(TierChanges(c)) + 1
               /\ Len(TierChanges(c)) = Cardinality(RefusedTo(c))
               /\ \A i \in DOMAIN TierChanges(c) :
                    /\ Rank(TierChanges(c)[i].body.to) < Rank(TierChanges(c)[i].body.from)
                    /\ i > 1 => TierChanges(c)[i].body.from = TierChanges(c)[i - 1].body.to
                    /\ i = Len(TierChanges(c)) => TierChanges(c)[i].body.to = customers[c].tier
    <3>1. PICK tcs : tcs = History(c)
      OBVIOUS
    <3>2. Matching(customers[c], tcs, Cardinality(RefusedTo(c)))
      BY <3>1 DEF ScenarioInv, HistoriesMatch
    <3>3. StreamIsKnown
      BY DEF ReplayInv
    <3>4. tcs \in Seq(Messages)
      BY <3>1, <3>3, HistoryIsRead
    <3>5. DOMAIN tcs = 1..Len(tcs)
      BY <3>4, LenProperties
    <3>6. TierChanges(c) = tcs
      BY <2>8, <3>1
    <3> QED
      BY <3>2, <3>5, <3>6 DEF Matching, Chain
  <2>10. /\ Cardinality(AllCharged) = Cardinality(Firings)
         /\ Cardinality(Refused) = Cardinality(Firings)
         /\ \A o \in DOMAIN orders : Cardinality(Charged(o)) = Cardinality(RefusedOf(o))
    BY <2>1 DEF ScenarioInv, FiringsAreMarked
  <2>11. \A o \in DOMAIN orders :
           Cardinality(Payments(o, {"CHARGEBACK"})) = Cardinality({n \in Refused : returns[n].order = o})
    BY <2>2, <2>5, <2>10
  <2>12. \A c \in Customers :
           Len(TierChanges(c)) = Cardinality({n \in Refused : orders[returns[n].order].customer = c})
    BY <2>6, <2>9
  <2> QED
    BY <2>3, <2>4, <2>7, <2>9, <2>10, <2>11, <2>12, Zenon DEF ScenarioTrace
<1>2. ReplayInv => StreamIsKnown
  BY DEF ReplayInv
<1> QED
  BY <1>1, <1>2, InitScenario, NextScenario, InitTells, NextTells, InitStream, NextStream,
     TypeCorrect, IntegrityHolds, PTL DEF Spec
===============================================================================
