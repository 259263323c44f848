--------------------------- MODULE KafkaSinkProofs ---------------------------
(***************************************************************************)
(* Theorems about KafkaSink, for every number of entities, ticks and       *)
(* messages, and every size of the queue.                                  *)
(***************************************************************************)
EXTENDS KafkaSink, ProjectorProofs, FiniteSetTheorems

\* A sequence over the numbers of the messages stays one when a message is added.
LEMMA MoreNumbers ==
  ASSUME NEW n \in Nat, NEW s \in Seq(1..n)
  PROVE  s \in Seq(1..(n + 1))
<1>1. 1..n \subseteq 1..(n + 1)
  OBVIOUS
<1> QED BY <1>1

\* The sets of message numbers are finite.
LEMMA FiniteNumbers ==
  ASSUME TypeOK, NEW S, S \subseteq DOMAIN sent
  PROVE  IsFiniteSet(S) /\ Cardinality(S) \in Nat
<1>1. DOMAIN sent = 1..Len(sent) /\ Len(sent) \in Nat
  BY DEF TypeOK
<1>2. IsFiniteSet(DOMAIN sent)
  BY <1>1, FS_Interval
<1> QED BY <1>2, FS_Subset, FS_CardinalityType

\* What the assumption says of the operation begun last.
LEMMA DoingTypes ==
  ASSUME TypeOK
  PROVE  /\ doing.changes \subseteq Keys
         /\ doing.tells \in Seq(Keys)
         /\ Len(doing.tells) \in Nat /\ DOMAIN doing.tells = 1..Len(doing.tells)
         /\ done \in Nat /\ done <= Len(doing.tells)
         /\ \A i, j \in 1..Len(doing.tells) : doing.tells[i] = doing.tells[j] => i = j
<1>1. CASE doing = Nothing
  BY <1>1 DEF TypeOK, Nothing
<1>2. CASE doing \in Operations
  <2>1. doing.changes \subseteq Keys /\ doing.tells \in Seq(Keys)
    BY <1>2, SinkAssumption DEF OperationsAssumption
  <2>2. DOMAIN doing.tells = 1..Len(doing.tells) /\ Len(doing.tells) \in Nat
    BY <2>1
  <2>3. \A i, j \in DOMAIN doing.tells : doing.tells[i] = doing.tells[j] => i = j
    BY <1>2, SinkAssumption DEF OperationsAssumption
  <2>4. done \in Nat /\ done <= Len(doing.tells)
    BY <2>2 DEF TypeOK
  <2> QED BY <2>1, <2>2, <2>3, <2>4
<1> QED BY <1>1, <1>2 DEF TypeOK

\* The next message is one of the operation's, and of an entity.
LEMMA DueTypes ==
  ASSUME TypeOK, Emitting
  PROVE  done + 1 \in 1..Len(doing.tells) /\ Due \in Keys /\ world[Due] \in Nat
<1>1. done # Len(doing.tells)
  BY DEF Emitting, Idle
<1>2. done + 1 \in 1..Len(doing.tells)
  BY <1>1, DoingTypes
<1>3. Due \in Keys
  BY <1>2, DoingTypes DEF Due
<1> QED BY <1>2, <1>3 DEF TypeOK

-------------------------------------------------------------------------------
LEMMA InitTypes == Init => TypeOK
BY SinkAssumption DEF Init, TypeOK, Phases, Message, Nothing

\* Operations are no longer than the room that is left for their messages.
LEMMA ChangeTypes ==
  ASSUME TypeOK, NEW op \in Operations, Change(op)
  PROVE  TypeOK' /\ sent' = sent
<1>1. op.changes \subseteq Keys /\ op.tells \in Seq(Keys) /\ Len(op.tells) \in Nat
  BY SinkAssumption DEF OperationsAssumption
<1>2. world' \in [Keys -> Nat]
  BY DEF Change, TypeOK
<1>3. done' \in 0..Len(doing'.tells) /\ doing' \in Operations
  BY <1>1 DEF Change
<1>4. Len(sent') + Len(doing'.tells) - done' <= MaxSent
  BY <1>1 DEF Change, TypeOK
<1> QED BY <1>2, <1>3, <1>4 DEF Change, TypeOK

\* The effect of an emit on the types, shared by the proofs below.
LEMMA EmitTypes ==
  ASSUME TypeOK, Emit
  PROVE  /\ TypeOK'
         /\ Len(sent') = Len(sent) + 1
         /\ sent'[Len(sent) + 1].key = Due
         /\ sent'[Len(sent) + 1].ver = world[Due]
         /\ \A i \in DOMAIN sent : sent'[i] = sent[i]
         /\ DOMAIN sent' = DOMAIN sent \cup {Len(sent) + 1}
         /\ Len(sent) + 1 \notin DOMAIN sent
<1> DEFINE e == [key |-> Due, at |-> tick, ver |-> world[Due], no |-> Len(sent) + 1]
<1>1. /\ sent \in Seq(Message) /\ Len(sent) \in Nat /\ DOMAIN sent = 1..Len(sent)
      /\ tick \in 0..Ticks /\ queue \subseteq DOMAIN sent
  BY DEF TypeOK
<1>2. done + 1 \in 1..Len(doing.tells) /\ Due \in Keys /\ world[Due] \in Nat
  BY DueTypes DEF Emit
<1>3. e \in Message /\ e.key = Due /\ e.ver = world[Due]
  BY <1>1, <1>2 DEF Message
<1>4. sent' = Append(sent, e)
  BY DEF Emit, Produce
<1>5. /\ sent' \in Seq(Message)
      /\ Len(sent') = Len(sent) + 1
      /\ sent'[Len(sent) + 1] = e
      /\ \A i \in DOMAIN sent : sent'[i] = sent[i]
      /\ DOMAIN sent' = 1..(Len(sent) + 1)
  <2> HIDE DEF e
  <2> QED BY <1>1, <1>3, <1>4
<1>6. DOMAIN sent' = DOMAIN sent \cup {Len(sent) + 1} /\ Len(sent) + 1 \notin DOMAIN sent
  BY <1>1, <1>5
<1>7. queue' \subseteq DOMAIN sent' /\ reports' = {}
  BY <1>1, <1>6 DEF Emit, Produce
<1>8. log' \in Seq(DOMAIN sent')
  <2>1. log \in Seq(1..Len(sent))
    BY <1>1 DEF TypeOK
  <2>2. log \in Seq(1..(Len(sent) + 1))
    BY <2>1, <1>1, MoreNumbers
  <2> QED BY <2>2, <1>5 DEF Emit
<1>9. backlog' \in Nat
  <2>1. DOMAIN sent' = 1..(Len(sent) + 1)
    BY <1>5
  <2>2. IsFiniteSet(DOMAIN sent')
    BY <2>1, <1>1, FS_Interval
  <2>3. Cardinality(queue') \in Nat
    BY <2>2, <1>7, FS_Subset, FS_CardinalityType
  <2> QED BY <2>3 DEF Emit
<1>10. done' \in 0..Len(doing'.tells) /\ doing' \in Operations \cup {Nothing}
  BY <1>2, DoingTypes DEF Emit, Produce, TypeOK
<1>11. phase' \in Phases /\ tick' \in 0..Ticks /\ world' \in [Keys -> Nat]
  BY DEF TypeOK, Emit
<1>12. Len(sent') + Len(doing'.tells) - done' <= MaxSent
  <2>1. Len(sent) + Len(doing.tells) - done <= MaxSent
    BY DEF TypeOK
  <2>2. doing' = doing /\ done' = done + 1
    BY DEF Emit, Produce
  <2> QED BY <1>1, <1>5, <2>1, <2>2, DoingTypes, SinkAssumption
<1>13. TypeOK'
  BY <1>5, <1>7, <1>8, <1>9, <1>10, <1>11, <1>12 DEF TypeOK
<1> QED BY <1>3, <1>5, <1>6, <1>13

\* A step that adds no message keeps the types when it keeps those of what it changes.
LEMMA OtherTypes ==
  ASSUME TypeOK, [Next]_vars, ~Emit
  PROVE  TypeOK' /\ sent' = sent
<1> USE DEF TypeOK
<1>1. ASSUME NEW op \in Operations, Change(op)
      PROVE  TypeOK' /\ sent' = sent
  BY <1>1, ChangeTypes
<1>2. CASE EmitFull \/ SchemaRefused
  BY <1>2 DEF EmitFull, SchemaRefused, Phases, state
<1>3. CASE TickDone
  BY <1>3, SinkAssumption DEF TickDone, Phases, state
<1>4. CASE Flush
  BY <1>4 DEF Flush, Phases, state
<1>5. CASE Exit
  BY <1>5 DEF Exit, Phases, state
<1>6. ASSUME NEW m \in queue, Deliver(m)
      PROVE  TypeOK' /\ sent' = sent
  BY <1>6 DEF Deliver, run, state
<1>7. ASSUME NEW m \in queue, DeliverUnacked(m)
      PROVE  TypeOK' /\ sent' = sent
  BY <1>7 DEF DeliverUnacked, run, state
<1>8. ASSUME NEW m \in queue, GiveUp(m)
      PROVE  TypeOK' /\ sent' = sent
  BY <1>8 DEF GiveUp, run, state
<1>9. CASE UNCHANGED vars
  BY <1>9 DEF vars, state
<1> QED BY <1>1, <1>2, <1>3, <1>4, <1>5, <1>6, <1>7, <1>8, <1>9
        DEF Next, Generator, Broker, Exited

LEMMA NextTypes == TypeOK /\ [Next]_vars => TypeOK'
BY EmitTypes, OtherTypes

\* The state keeps its types: message numbers name accepted messages only.
THEOREM TypeCorrect == Spec => []TypeOK
<1>1. Init => TypeOK
  BY InitTypes
<1>2. TypeOK /\ [Next]_vars => TypeOK'
  BY NextTypes
<1> QED BY <1>1, <1>2, PTL DEF Spec

LEMMA SentTypes ==
  ASSUME TypeOK
  PROVE  \A i \in DOMAIN sent : sent[i].key \in Keys /\ sent[i].ver \in Nat
<1>1. \A i \in DOMAIN sent : sent[i] \in Message
  BY DEF TypeOK
<1> QED BY <1>1 DEF Message

-------------------------------------------------------------------------------
\* A message of the operation that has not been emitted is about k.
Awaited(k) == \E j \in 1..Len(doing.tells) : done < j /\ doing.tells[j] = k

\* The only versions without a message are the newest ones of what the operation changed
\* and has still to tell.
MissingIsAwaited ==
  \A k \in Keys \ Stock : \A v \in 1..world[k] :
    ~Emitted(k, v) => v = world[k] /\ k \in doing.changes /\ Awaited(k)

\* No message has a version that its entity did not have, nor is what the operation
\* changed told before its turn.
NoneIsEarly ==
  /\ \A i \in DOMAIN sent : sent[i].ver <= world[sent[i].key]
  /\ \A k \in doing.changes : world[k] > 0
  /\ \A k \in doing.changes : Awaited(k) => ~Emitted(k, world[k])

\* The inductive invariant behind NothingVanishes.
Progress ==
  /\ phase \in {"flushing", "returned"} => Idle
  /\ MissingIsAwaited
  /\ NoneIsEarly

LEMMA ProgressNothing ==
  ASSUME TypeOK, Progress
  PROVE  NothingVanishes
<1>1. /\ doing.tells \in Seq(Keys) /\ doing.changes \subseteq Keys
      /\ Len(doing.tells) \in Nat /\ DOMAIN doing.tells = 1..Len(doing.tells)
      /\ done \in Nat
      /\ \A i, j \in 1..Len(doing.tells) : doing.tells[i] = doing.tells[j] => i = j
  BY DoingTypes
<1>2. \A k \in Untold : k \in doing.changes /\ Awaited(k)
  BY DEF Untold, Progress, MissingIsAwaited
<1>3. Idle => Untold = {}
  <2> SUFFICES ASSUME Idle, NEW k \in Untold PROVE FALSE
    OBVIOUS
  <2> QED BY <1>1, <1>2 DEF Idle, Awaited
<1>4. ASSUME NEW k \in Untold, NEW v \in 1..(world[k] - 1)
      PROVE  Emitted(k, v)
  <2>1. k \in Keys \ Stock /\ world[k] \in Nat
    BY <1>4 DEF Untold, TypeOK
  <2>2. v \in 1..world[k] /\ v # world[k]
    BY <1>4, <2>1
  <2> QED BY <2>1, <2>2 DEF Progress, MissingIsAwaited
<1>5. ASSUME NEW i \in DOMAIN doing.tells, NEW j \in DOMAIN doing.tells, i < j,
             doing.tells[i] \in Untold, doing.tells[j] \in doing.changes \ Stock
      PROVE  doing.tells[j] \in Untold
  <2>1. PICK k : k = doing.tells[j]
    OBVIOUS
  <2>2. PICK n \in 1..Len(doing.tells) : done < n /\ doing.tells[n] = doing.tells[i]
    BY <1>2, <1>5 DEF Awaited
  <2>3. n = i
    BY <1>1, <1>5, <2>2
  <2>4. Awaited(k)
    BY <1>1, <1>5, <2>1, <2>2, <2>3 DEF Awaited
  <2>5. k \in Keys \ Stock /\ k \in doing.changes /\ world[k] \in Nat
    BY <1>1, <1>5, <2>1 DEF TypeOK
  <2>6. world[k] > 0 /\ ~Emitted(k, world[k])
    BY <2>4, <2>5 DEF Progress, NoneIsEarly
  <2>7. world[k] \in 1..world[k]
    BY <2>5, <2>6
  <2> QED BY <2>1, <2>5, <2>6, <2>7 DEF Untold
<1> QED BY <1>2, <1>3, <1>4, <1>5 DEF NothingVanishes, Progress

\* An operation begins when nothing is missing, and owes a message of what it changes.
LEMMA ChangeProgress ==
  ASSUME TypeOK, Progress, NEW op \in Operations, Change(op)
  PROVE  Progress'
<1>1. /\ op.changes \subseteq Keys /\ op.tells \in Seq(Keys)
      /\ Len(op.tells) \in Nat /\ DOMAIN op.tells = 1..Len(op.tells)
      /\ op.changes \ Stock \subseteq {op.tells[i] : i \in 1..Len(op.tells)}
  BY SinkAssumption DEF OperationsAssumption
<1>2. /\ Idle /\ phase' = "running" /\ doing' = op /\ done' = 0 /\ sent' = sent
      /\ world \in [Keys -> Nat]
      /\ world' = [k \in Keys |-> IF k \in op.changes THEN world[k] + 1 ELSE world[k]]
  BY DEF Change, TypeOK
<1>3. PICK after : after = world'
  OBVIOUS
<1>4. \A k \in Keys : /\ world[k] \in Nat
                      /\ k \in op.changes => after[k] = world[k] + 1
                      /\ k \notin op.changes => after[k] = world[k]
  BY <1>2, <1>3
<1>5. \A k, v : Emitted(k, v)' <=> Emitted(k, v)
  BY <1>2 DEF Emitted
<1>6. \A k \in Keys : ~Awaited(k)
  BY <1>2, DoingTypes DEF Awaited, Idle
<1>7. \A k \in op.changes \ Stock : Awaited(k)'
  <2> SUFFICES ASSUME NEW k \in op.changes \ Stock PROVE Awaited(k)'
    OBVIOUS
  <2>1. PICK j \in 1..Len(op.tells) : op.tells[j] = k
    BY <1>1
  <2>2. 0 < j
    BY <1>1
  <2> QED BY <1>2, <2>1, <2>2 DEF Awaited
<1>8. ASSUME NEW k \in Keys \ Stock, NEW v \in 1..after[k], ~Emitted(k, v)
      PROVE  v = after[k] /\ k \in op.changes /\ Awaited(k)'
  <2>1. v \notin 1..world[k]
    BY <1>6, <1>8 DEF Progress, MissingIsAwaited
  <2>2. k \in op.changes /\ v = after[k]
    BY <1>4, <1>8, <2>1
  <2> QED BY <1>7, <1>8, <2>2
<1>9. \A i \in DOMAIN sent : sent[i].ver <= after[sent[i].key]
  BY <1>4, SentTypes DEF Progress, NoneIsEarly
<1>10. ASSUME NEW k \in op.changes
       PROVE  after[k] > 0 /\ ~Emitted(k, after[k])
  <2>1. after[k] = world[k] + 1 /\ world[k] \in Nat
    BY <1>1, <1>4
  <2>2. \A i \in DOMAIN sent : sent[i].key = k => sent[i].ver <= world[k]
    BY DEF Progress, NoneIsEarly
  <2> QED BY <2>1, <2>2, SentTypes DEF Emitted
<1>11. MissingIsAwaited'
  BY <1>2, <1>3, <1>5, <1>8 DEF MissingIsAwaited
<1>12. NoneIsEarly'
  BY <1>2, <1>3, <1>5, <1>9, <1>10 DEF NoneIsEarly
<1> QED BY <1>2, <1>11, <1>12 DEF Progress

\* An emit tells the newest version of the entity whose turn it is.
LEMMA EmitProgress ==
  ASSUME TypeOK, Progress, Emit
  PROVE  Progress'
<1>1. /\ phase' = "running" /\ world' = world /\ doing' = doing /\ done' = done + 1
  BY DEF Emit, Produce, Emitting
<1>2. PICK n : n = Len(sent) + 1
  OBVIOUS
<1>3. PICK later : later = sent'
  OBVIOUS
<1>4. PICK d : d = Due
  OBVIOUS
<1>5. /\ later[n].key = d /\ later[n].ver = world[d]
      /\ \A i \in DOMAIN sent : later[i] = sent[i]
      /\ DOMAIN later = DOMAIN sent \cup {n}
  BY <1>2, <1>3, <1>4, EmitTypes
<1>6. /\ done \in Nat /\ Len(doing.tells) \in Nat /\ doing.changes \subseteq Keys
      /\ done + 1 \in 1..Len(doing.tells) /\ doing.tells[done + 1] = d /\ d \in Keys
      /\ \A i, j \in 1..Len(doing.tells) : doing.tells[i] = doing.tells[j] => i = j
  BY <1>4, DoingTypes, DueTypes DEF Emit, Due
<1>7. \A k, v : Emitted(k, v)' <=> Emitted(k, v) \/ (k = d /\ v = world[d])
  BY <1>3, <1>5 DEF Emitted
<1>8. \A k : Awaited(k)' <=> Awaited(k) /\ k # d
  <2> SUFFICES ASSUME NEW k PROVE Awaited(k)' <=> Awaited(k) /\ k # d
    OBVIOUS
  <2>1. Awaited(k)' <=> \E j \in 1..Len(doing.tells) : done + 1 < j /\ doing.tells[j] = k
    BY <1>1 DEF Awaited
  <2>2. \A j \in 1..Len(doing.tells) : done + 1 < j <=> done < j /\ j # done + 1
    BY <1>6
  <2> QED BY <1>6, <2>1, <2>2 DEF Awaited
<1>9. MissingIsAwaited'
  <2>1. ASSUME NEW k \in Keys \ Stock, NEW v \in 1..world[k], ~Emitted(k, v)'
        PROVE  v = world[k] /\ k \in doing.changes /\ Awaited(k)'
    <3>1. ~Emitted(k, v) /\ ~(k = d /\ v = world[d])
      BY <1>7, <2>1
    <3>2. v = world[k] /\ k \in doing.changes /\ Awaited(k)
      BY <2>1, <3>1 DEF Progress, MissingIsAwaited
    <3> QED BY <1>8, <3>1, <3>2
  <2> QED BY <1>1, <2>1 DEF MissingIsAwaited
<1>10. NoneIsEarly'
  <2>1. world[d] <= world[d]
    BY <1>6 DEF TypeOK
  <2>2. \A i \in DOMAIN later : later[i].ver <= world[later[i].key]
    BY <1>5, <2>1 DEF Progress, NoneIsEarly
  <2>3. ASSUME NEW k \in doing.changes, Awaited(k)'
        PROVE  ~Emitted(k, world[k])'
    <3>1. k # d /\ ~Emitted(k, world[k])
      BY <1>8, <2>3 DEF Progress, NoneIsEarly
    <3>2. PICK v : v = world'[k]
      OBVIOUS
    <3>3. ~Emitted(k, v)'
      BY <1>1, <1>7, <3>1, <3>2
    <3> QED BY <3>2, <3>3 DEF Emitted
  <2> QED BY <1>1, <1>3, <2>2, <2>3 DEF Progress, NoneIsEarly
<1> QED BY <1>1, <1>9, <1>10 DEF Progress

LEMMA NextProgress ==
  ASSUME TypeOK, Progress, [Next]_vars
  PROVE  Progress'
<1>1. ASSUME NEW op \in Operations, Change(op)
      PROVE  Progress'
  BY <1>1, ChangeProgress
<1>2. CASE Emit
  BY <1>2, EmitProgress
<1>3. ASSUME UNCHANGED <<state, sent>>, phase' \in {"flushing", "returned"} => Idle
      PROVE  Progress'
  <2>1. world' = world /\ doing' = doing /\ done' = done /\ sent' = sent
    BY <1>3 DEF state
  <2>2. \A k, v : Emitted(k, v)' <=> Emitted(k, v)
    BY <2>1 DEF Emitted
  <2>3. \A k : Awaited(k)' <=> Awaited(k)
    BY <2>1 DEF Awaited
  <2>4. MissingIsAwaited' /\ NoneIsEarly'
    BY <2>1, <2>2, <2>3 DEF Progress, MissingIsAwaited, NoneIsEarly
  <2> QED BY <1>3, <2>1, <2>4 DEF Progress, Idle
<1>4. CASE EmitFull \/ SchemaRefused \/ Exit
  BY <1>3, <1>4 DEF EmitFull, SchemaRefused, Exit
<1>5. CASE TickDone \/ Flush
  BY <1>3, <1>5 DEF TickDone, Flush, Progress
<1>6. CASE Broker
  BY <1>3, <1>6 DEF Broker, Deliver, DeliverUnacked, GiveUp, run, Progress
<1>7. CASE UNCHANGED vars
  BY <1>3, <1>7 DEF vars, Progress
<1> QED BY <1>1, <1>2, <1>4, <1>5, <1>6, <1>7 DEF Next, Generator, Exited

\* Nothing vanishes but with the operation that an error of emit() cut short, and of that
\* one the first messages are kept: for all operations that tell what they change.
THEOREM NothingIsForgotten == Spec => []NothingVanishes
<1>1. Init => Progress
  <2> SUFFICES ASSUME Init PROVE Progress
    OBVIOUS
  <2>1. /\ phase = "running" /\ doing.changes = {}
        /\ \A k \in Keys : world[k] = 0
        /\ DOMAIN sent = {}
    BY DEF Init, Nothing
  <2>2. \A k \in Keys : 1..world[k] = {}
    BY <2>1
  <2> QED BY <2>1, <2>2 DEF Progress, MissingIsAwaited, NoneIsEarly
<1>2. TypeOK /\ Progress /\ [Next]_vars => Progress'
  BY NextProgress
<1>3. TypeOK /\ Progress => NothingVanishes
  BY ProgressNothing
<1> QED BY <1>1, <1>2, <1>3, TypeCorrect, PTL DEF Spec

-------------------------------------------------------------------------------
\* The slots in use are never more than the backlog of the last emit.
Slots == Cardinality(queue \cup reports) <= backlog

LEMMA NextSlots ==
  ASSUME TypeOK, Slots, [Next]_vars
  PROVE  Slots'
<1>1. CASE Emit
  <2>1. queue' \cup reports' = queue' /\ backlog' = Cardinality(queue')
    BY <1>1 DEF Emit
  <2>2. backlog' \in Nat
    BY <1>1, EmitTypes DEF TypeOK
  <2> QED BY <2>1, <2>2 DEF Slots
<1>2. ASSUME queue' \cup reports' \subseteq queue \cup reports, backlog' = backlog
      PROVE  Slots'
  <2>1. IsFiniteSet(queue \cup reports) /\ Cardinality(queue \cup reports) \in Nat
    BY FiniteNumbers DEF TypeOK
  <2>2. /\ Cardinality(queue' \cup reports') \in Nat
        /\ Cardinality(queue' \cup reports') <= Cardinality(queue \cup reports)
    BY <1>2, <2>1, FS_Subset, FS_CardinalityType
  <2>3. backlog \in Nat
    BY DEF TypeOK
  <2> QED BY <1>2, <2>1, <2>2, <2>3 DEF Slots
<1>3. (\E op \in Operations : Change(op)) \/ EmitFull \/ SchemaRefused => Slots'
  BY <1>2 DEF Change, EmitFull, SchemaRefused
<1>4. CASE TickDone \/ Flush \/ Exit
  BY <1>2, <1>4 DEF TickDone, Flush, Exit
<1>5. CASE Broker
  BY <1>2, <1>5 DEF Broker, Deliver, DeliverUnacked, GiveUp, run
<1>6. CASE UNCHANGED vars
  BY <1>2, <1>6 DEF vars
<1> QED BY <1>1, <1>3, <1>4, <1>5, <1>6 DEF Next, Generator, Exited

\* A full queue stops a run only when the broker had as many messages outstanding as the
\* last emit returned.
THEOREM BacklogStopsRuns == Spec => OnlyBacklogStopsRuns
<1>1. Init => Slots
  <2>1. ASSUME Init PROVE queue \cup reports = {} /\ backlog = 0
    BY <2>1 DEF Init
  <2> QED BY <2>1, FS_EmptySet DEF Slots
<1>2. TypeOK /\ Slots /\ [Next]_vars => Slots'
  BY NextSlots
<1>3. TypeOK /\ Slots /\ [Next]_vars
        => [EmitFull => backlog >= Capacity]_vars
  <2> SUFFICES ASSUME TypeOK, Slots, EmitFull
               PROVE  backlog >= Capacity
    OBVIOUS
  <2>1. Cardinality(queue \cup reports) \in Nat /\ backlog \in Nat
    BY FiniteNumbers DEF TypeOK
  <2>2. Cardinality(queue \cup reports) >= Capacity
    BY DEF EmitFull, Full
  <2> QED BY <2>1, <2>2, SinkAssumption DEF Slots
<1> QED BY <1>1, <1>2, <1>3, TypeCorrect, PTL DEF Spec, OnlyBacklogStopsRuns

-------------------------------------------------------------------------------
\* The messages in the order in which the broker stored them.
Arrived == [i \in DOMAIN log |-> sent[log[i]]]

LEMMA ArrivedTypes ==
  ASSUME TypeOK
  PROVE  /\ Arrived \in Seq(Message) /\ Len(Arrived) = Len(log)
         /\ \A i \in 1..Len(log) : log[i] \in DOMAIN sent /\ Arrived[i] = sent[log[i]]
         /\ AreEvents(Message, Keys)
<1>1. /\ Len(log) \in Nat /\ DOMAIN log = 1..Len(log)
      /\ \A i \in 1..Len(log) : log[i] \in DOMAIN sent
      /\ \A m \in DOMAIN sent : sent[m] \in Message
  BY DEF TypeOK
<1>2. PICK n \in Nat : n = Len(log)
  BY <1>1
<1>3. Arrived = [i \in 1..n |-> sent[log[i]]] /\ \A i \in 1..n : sent[log[i]] \in Message
  BY <1>1, <1>2 DEF Arrived
<1>4. Arrived \in Seq(Message) /\ Len(Arrived) = n /\ \A i \in 1..n : Arrived[i] = sent[log[i]]
  BY <1>3
<1>5. AreEvents(Message, Keys)
  BY SinkAssumption DEF AreEvents, Message
<1> QED
  BY <1>1, <1>2, <1>4, <1>5

\* The numbers of a key's messages.
Mine(k) == {i \in DOMAIN sent : sent[i].key = k}

\* A message that nothing else of its key is beyond, or level with, is the one kept.
LEMMA FirstIsKept ==
  ASSUME TypeOK, NEW kind \in {"by_version", "by_time"}, NEW k \in Keys,
         Mine(k) \subseteq ToSet(log), NEW i \in Mine(k),
         \A j \in Mine(k) \ {i} : Priority(kind, sent[j]) < Priority(kind, sent[i])
  PROVE  ProjectAll(kind, Empty(Keys), Arrived)[k] = <<sent[i]>>
<1>1. /\ Arrived \in Seq(Message) /\ Len(Arrived) = Len(log)
      /\ \A m \in 1..Len(log) : log[m] \in DOMAIN sent /\ Arrived[m] = sent[log[m]]
      /\ AreEvents(Message, Keys)
  BY ArrivedTypes
<1>2. PICK val : val = ProjectAll(kind, Empty(Keys), Arrived)[k]
  OBVIOUS
<1>3. KeepsWinner(kind, Arrived, k, val)
  BY <1>1, <1>2, RecordsKeep
<1>4. PICK p \in 1..Len(log) : log[p] = i
  BY DEF ToSet, TypeOK
<1>5. Arrived[p] = sent[i] /\ sent[i].key = k
  BY <1>1, <1>4 DEF Mine
<1>6. PICK w \in 1..Len(log) : val = <<Arrived[w]>> /\ Wins(kind, Arrived, k, w)
  BY <1>1, <1>3, <1>4, <1>5 DEF KeepsWinner
<1>7. log[w] = i
  <2> SUFFICES ASSUME log[w] # i PROVE FALSE
    OBVIOUS
  <2>1. Arrived[w] = sent[log[w]] /\ log[w] \in DOMAIN sent /\ Arrived[w].key = k
    BY <1>1, <1>6 DEF Wins
  <2>2. log[w] \in Mine(k) \ {i}
    BY <2>1 DEF Mine
  <2>3. Priority(kind, Arrived[w]) < Priority(kind, Arrived[p])
    BY <1>5, <2>1, <2>2
  <2>4. p # w
    BY <1>4
  <2>5. \/ Priority(kind, Arrived[p]) < Priority(kind, Arrived[w])
        \/ Priority(kind, Arrived[p]) = Priority(kind, Arrived[w]) /\ p < w
    BY <1>1, <1>5, <1>6, <2>4 DEF Wins, Priority
  <2>6. Priority(kind, Arrived[p]) \in Int /\ Priority(kind, Arrived[w]) \in Int
    BY <1>1, SinkAssumption DEF Priority, AreEvents
  <2> QED
    BY <2>3, <2>5, <2>6
<1> QED
  BY <1>1, <1>2, <1>6, <1>7

\* A list has all messages of its key, and no others.
LEMMA ListHolds ==
  ASSUME TypeOK, NEW k \in Keys, Mine(k) \subseteq ToSet(log)
  PROVE  ToSet(ProjectAll("append", Empty(Keys), Arrived)[k]) = {sent[i] : i \in Mine(k)}
<1>1. /\ Arrived \in Seq(Message) /\ Len(Arrived) = Len(log)
      /\ \A m \in 1..Len(log) : log[m] \in DOMAIN sent /\ Arrived[m] = sent[log[m]]
      /\ AreEvents(Message, Keys)
  BY ArrivedTypes
<1>2. ToSet(ProjectAll("append", Empty(Keys), Arrived)[k]) = EventsOf(Arrived, k)
  BY <1>1, ListsKeep, OfKeyHolds
<1>3. PICK n : n = Len(log)
  OBVIOUS
<1>4. EventsOf(Arrived, k) = {Arrived[m] : m \in {j \in 1..n : Arrived[j].key = k}}
  BY <1>1, <1>3 DEF EventsOf
<1>5. \A i \in Mine(k) : \E m \in 1..n : log[m] = i
  BY <1>3 DEF ToSet, TypeOK
<1>6. \A m \in 1..n : Arrived[m].key = k => log[m] \in Mine(k) /\ Arrived[m] = sent[log[m]]
  BY <1>1, <1>3 DEF Mine
<1>7. \A i \in Mine(k) : \E m \in 1..n : Arrived[m].key = k /\ Arrived[m] = sent[i]
  BY <1>1, <1>3, <1>5 DEF Mine
<1>8. EventsOf(Arrived, k) = {sent[i] : i \in Mine(k)}
  <2>1. \A e \in EventsOf(Arrived, k) : e \in {sent[i] : i \in Mine(k)}
    BY <1>4, <1>6
  <2>2. \A e \in {sent[i] : i \in Mine(k)} : e \in EventsOf(Arrived, k)
    BY <1>4, <1>7
  <2> QED
    BY <2>1, <2>2
<1> QED
  BY <1>2, <1>8

\* Whatever the order in which the broker stores a key's messages, and however often,
\* once it has all of them the projectors have what the generator has told.
LEMMA AllConverge ==
  ASSUME TypeOK
  PROVE  ReplicasConverge
<1>1. ASSUME NEW k \in Keys, Mine(k) \subseteq ToSet(log), NEW i \in Mine(k),
             \A j \in Mine(k) \ {i} : sent[j].ver < sent[i].ver
      PROVE  ProjectAll("by_version", Empty(Keys), Arrived)[k] = <<sent[i]>>
  <2>1. \A j \in Mine(k) \ {i} :
          Priority("by_version", sent[j]) < Priority("by_version", sent[i])
    BY <1>1 DEF Priority
  <2> QED
    BY <1>1, <2>1, FirstIsKept
<1>2. ASSUME NEW k \in Keys, Mine(k) \subseteq ToSet(log), NEW i \in Mine(k),
             \A j \in Mine(k) \ {i} : sent[j].at < sent[i].at
      PROVE  ProjectAll("by_time", Empty(Keys), Arrived)[k] = <<sent[i]>>
  <2>1. \A j \in Mine(k) \ {i} : Priority("by_time", sent[j]) < Priority("by_time", sent[i])
    BY <1>2 DEF Priority
  <2> QED
    BY <1>2, <2>1, FirstIsKept
<1>3. \A k \in Keys : Mine(k) \subseteq ToSet(log) =>
        ToSet(ProjectAll("append", Empty(Keys), Arrived)[k]) = {sent[i] : i \in Mine(k)}
  BY ListHolds
<1>4. \A k \in Keys : Mine(k) # {} /\ Mine(k) \subseteq ToSet(log) =>
        /\ \A i \in {i \in Mine(k) : \A j \in Mine(k) \ {i} : sent[j].ver < sent[i].ver} :
             ProjectAll("by_version", Empty(Keys), Arrived)[k] = <<sent[i]>>
        /\ \A i \in {i \in Mine(k) : \A j \in Mine(k) \ {i} : sent[j].at < sent[i].at} :
             ProjectAll("by_time", Empty(Keys), Arrived)[k] = <<sent[i]>>
        /\ ToSet(ProjectAll("append", Empty(Keys), Arrived)[k]) = {sent[i] : i \in Mine(k)}
  BY <1>1, <1>2, <1>3
<1> QED
  BY <1>4, Zenon DEF ReplicasConverge, Mine, Arrived, Empty

\* Late, reordered and repeated messages of a key leave the projectors, once all are
\* stored, with what the generator has told.
THEOREM ReplicasMeet == Spec => []ReplicasConverge
<1>1. TypeOK => ReplicasConverge
  BY AllConverge
<1> QED BY <1>1, TypeCorrect, PTL
===============================================================================
