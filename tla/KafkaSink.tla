------------------------------ MODULE KafkaSink ------------------------------
(***************************************************************************)
(* A generator run into Kafka: kafka/producer.py under generator.run.      *)
(*                                                                         *)
(* The generator works in operations: it changes or makes some entities    *)
(* and then emits messages, one after the other: a new order takes stock,  *)
(* which nothing tells, and is followed by the messages of the order and   *)
(* of its items; a snapshot tells a row that may not have changed.         *)
(* emit() puts a message into the queue of the client library, which       *)
(* sends it when it can, and flush() at the end of the run waits a limited *)
(* time for the rest.  Nobody looks at what was delivered.  The library    *)
(* and the broker are external: a message in the queue may be delivered    *)
(* after a later one, delivered twice, or given up, and it keeps its slot  *)
(* of the queue until a poll() has taken its delivery report.              *)
(***************************************************************************)
EXTENDS Projectors, FiniteSets

CONSTANTS
  Keys,        \* entities, each of a topic of its own
  Stock,       \* those whose changes are silent: rows of the inventory
  Operations,  \* what the generator does in one go
  Ticks,       \* duration_sec / tick_sec
  Capacity,    \* queue.buffering.max.messages, 100000 unless configured
  MaxSent,     \* bound: messages of a run
  MaxLog       \* bound: messages the broker stores, duplicates included

\* An operation tells every entity it makes or changes, but for the stock, and none twice.
OperationsAssumption ==
  /\ Stock \subseteq Keys
  /\ \A op \in Operations :
       /\ op.made \subseteq op.changes /\ op.changes \subseteq Keys
       /\ op.tells \in Seq(Keys)
       /\ \A i, j \in DOMAIN op.tells : op.tells[i] = op.tells[j] => i = j
       /\ op.changes \ Stock \subseteq {op.tells[i] : i \in DOMAIN op.tells}

ASSUME SinkAssumption ==
  /\ Ticks \in Nat
  /\ Capacity \in Nat
  /\ MaxSent \in Nat
  /\ MaxLog \in Nat
  /\ OperationsAssumption

VARIABLES
  phase,    \* the generator: running, flushing, returned, aborted; exited
  tick,     \* the outbox's time
  world,    \* the generator's version of each entity, 0 before it is made
  doing,    \* the operation begun last
  done,     \* how many of its messages are emitted
  sent,     \* the messages emit() accepted
  queue,    \* the numbers of those that the broker has not acknowledged
  reports,  \* of those acknowledged or given up, and not polled since
  log,      \* what the broker stored, in its order
  backlog   \* history: messages that waited for the broker when the last emit returned

state == <<world, doing, done>>
run == <<phase, tick, state, sent, backlog>>
vars == <<phase, tick, state, sent, queue, reports, log, backlog>>

Phases == {"running", "flushing", "returned", "aborted", "exited"}
Nothing == [made |-> {}, changes |-> {}, tells |-> <<>>]

Init ==
  /\ phase = "running"
  /\ tick = 0
  /\ world = [k \in Keys |-> 0]
  /\ doing = Nothing /\ done = 0
  /\ sent = <<>>
  /\ queue = {} /\ reports = {}
  /\ log = <<>>
  /\ backlog = 0

-------------------------------------------------------------------------------
\* The library's queue is at its limit: produce() would raise BufferError.
Full == Cardinality(queue \cup reports) >= Capacity

\* The operation begun last has emitted all its messages.
Idle == done = Len(doing.tells)

\* An operation begins with its changes of the state: a new order takes stock, is
\* registered with its items, and only then told.
Change(op) ==
  /\ phase = "running" /\ Idle
  /\ Len(sent) + Len(op.tells) <= MaxSent
  /\ \A k \in op.made : world[k] = 0
  /\ \A k \in op.changes \ (op.made \cup Stock) : world[k] > 0
  /\ world' = [k \in Keys |-> IF k \in op.changes THEN world[k] + 1 ELSE world[k]]
  /\ doing' = op /\ done' = 0
  /\ UNCHANGED <<phase, tick, sent, queue, reports, log, backlog>>

Emitting == phase = "running" /\ ~Idle

\* The entity of the next message: its values are read from the state as it is emitted.
Due == doing.tells[done + 1]

\* produce(): the library takes the message.
Produce ==
  /\ sent' = Append(sent, [key |-> Due, at |-> tick, ver |-> world[Due], no |-> Len(sent) + 1])
  /\ queue' = queue \cup {Len(sent) + 1}
  /\ done' = done + 1

\* Mutated: produce() without the poll that takes the delivery reports.
EmitUnpolled ==
  /\ Emitting /\ ~Full
  /\ Produce
  /\ backlog' = Cardinality(queue')
  /\ UNCHANGED <<phase, tick, world, doing, reports, log>>

\* emit: produce(), then poll(0).
Emit ==
  /\ Emitting /\ ~Full
  /\ Produce
  /\ reports' = {}
  /\ backlog' = Cardinality(queue')
  /\ UNCHANGED <<phase, tick, world, doing, log>>

\* Mutated: the error is swallowed and the run goes on.
EmitFullIgnored ==
  /\ Emitting /\ Full
  /\ done' = done + 1
  /\ UNCHANGED <<phase, tick, world, doing, sent, queue, reports, log, backlog>>

\* emit: produce() raises.  Nothing catches it, so the operation is left with what it has
\* emitted and run() without its flush.
EmitFull ==
  /\ Emitting /\ Full
  /\ phase' = "aborted"
  /\ UNCHANGED <<tick, state, sent, queue, reports, log, backlog>>

\* emit: the serializer asks the registry about a topic's schema the first time, and raises.
SchemaRefused ==
  /\ Emitting
  /\ \A i \in DOMAIN sent : sent[i].key # Due
  /\ phase' = "aborted"
  /\ UNCHANGED <<tick, state, sent, queue, reports, log, backlog>>

\* Mutated: one tick too many.
TickDoneLate ==
  /\ phase = "running" /\ Idle
  /\ IF tick <= Ticks
     THEN tick' = tick + 1 /\ UNCHANGED phase
     ELSE phase' = "flushing" /\ UNCHANGED tick
  /\ UNCHANGED <<state, sent, queue, reports, log, backlog>>

\* run: the next tick, or the flush after the last one.
TickDone ==
  /\ phase = "running" /\ Idle
  /\ IF tick < Ticks
     THEN tick' = tick + 1 /\ UNCHANGED phase
     ELSE phase' = "flushing" /\ UNCHANGED tick
  /\ UNCHANGED <<state, sent, queue, reports, log, backlog>>

\* Mutated: flush() waits until the queue is empty.
FlushUnlimited ==
  /\ phase = "flushing"
  /\ queue = {}
  /\ phase' = "returned"
  /\ reports' = {}
  /\ UNCHANGED <<tick, state, sent, queue, log, backlog>>

\* flush(10): the queue is empty or the ten seconds are over; run() returns in both cases.
Flush ==
  /\ phase = "flushing"
  /\ phase' = "returned"
  /\ reports' = {}
  /\ UNCHANGED <<tick, state, sent, queue, log, backlog>>

\* The process ends, and what is still queued ends with it.
Exit ==
  /\ phase \in {"returned", "aborted"}
  /\ phase' = "exited"
  /\ queue' = {} /\ reports' = {}
  /\ UNCHANGED <<tick, state, sent, log, backlog>>

\* Nothing is left to do.
Exited == phase = "exited" /\ UNCHANGED vars

-------------------------------------------------------------------------------
\* The broker stores a queued message, in any order: a batch that failed is sent again
\* behind its successors.
Deliver(m) ==
  /\ m \in queue
  /\ Len(log) < MaxLog
  /\ log' = Append(log, m)
  /\ queue' = queue \ {m}
  /\ reports' = reports \cup {m}
  /\ UNCHANGED run

\* The broker stores it and the acknowledgement gets lost, so it will be sent again.
DeliverUnacked(m) ==
  /\ m \in queue
  /\ Len(log) < MaxLog
  /\ log' = Append(log, m)
  /\ UNCHANGED <<run, queue, reports>>

\* The library gives a message up (message.timeout.ms), which only its report says.
GiveUp(m) ==
  /\ m \in queue
  /\ queue' = queue \ {m}
  /\ reports' = reports \cup {m}
  /\ UNCHANGED <<run, log>>

Generator ==
  \/ \E op \in Operations : Change(op)
  \/ Emit \/ EmitFull \/ SchemaRefused
  \/ TickDone
  \/ Flush
  \/ Exit

Broker == \E m \in queue : Deliver(m) \/ DeliverUnacked(m) \/ GiveUp(m)

Next == Generator \/ Broker \/ Exited

\* The generator's loops and the flush go on by themselves; nothing is assumed of the
\* broker, which may be down for the whole run.
Spec == Init /\ [][Next]_vars /\ WF_vars(Generator)

-------------------------------------------------------------------------------
Message == [key : Keys, at : 0..Ticks, ver : Nat, no : Nat]

\* Types.
TypeOK ==
  /\ phase \in Phases
  /\ tick \in 0..Ticks
  /\ world \in [Keys -> Nat]
  /\ doing \in Operations \cup {Nothing}
  /\ done \in 0..Len(doing.tells)
  /\ sent \in Seq(Message)
  /\ Len(sent) + Len(doing.tells) - done <= MaxSent
  /\ queue \subseteq DOMAIN sent
  /\ reports \subseteq DOMAIN sent
  /\ log \in Seq(DOMAIN sent)
  /\ backlog \in Nat

Emitted(k, v) == \E i \in DOMAIN sent : sent[i].key = k /\ sent[i].ver = v

\* The entities with a version that no message has; the stock's changes are not owed one.
Untold == {k \in Keys \ Stock : \E v \in 1..world[k] : ~Emitted(k, v)}

\* Nothing vanishes but with the operation at which the run stops: whatever was changed by
\* an operation that is over has been emitted, all of it when the run goes on to its
\* flush; of the one that an error of emit() cut short, the changes that are told are
\* those of its first messages, so a consumer may have an order without its items, but
\* no item without its order, and misses nothing that was changed before.
NothingVanishes ==
  /\ Idle \/ phase \in {"flushing", "returned"} => Untold = {}
  /\ \A k \in Untold : k \in doing.changes /\ \A v \in 1..(world[k] - 1) : Emitted(k, v)
  /\ \A i, j \in DOMAIN doing.tells :
       i < j /\ doing.tells[i] \in Untold /\ doing.tells[j] \in doing.changes \ Stock
         => doing.tells[j] \in Untold

\* A broker that keeps up is never the one that stops a run: when produce() finds the
\* queue full, that many messages were waiting for the broker as the last emit returned.
\* Reports that have not been polled hold slots too, but never those of earlier emits.
OnlyBacklogStopsRuns == [][EmitFull => backlog >= Capacity]_vars

\* Whatever the order and the duplicates of a key's messages, once all of them are stored
\* the projectors have what the generator has told: the newest version and the latest time,
\* when no other message has the same, and all messages of a list.
ReplicasConverge ==
  LET arrived == [i \in DOMAIN log |-> sent[log[i]]]
      empty == [k \in Keys |-> <<>>]
      view(kind) == ProjectAll(kind, empty, arrived)
  IN \A k \in Keys :
       LET mine == {i \in DOMAIN sent : sent[i].key = k}
           newest == {i \in mine : \A j \in mine \ {i} : sent[j].ver < sent[i].ver}
           latest == {i \in mine : \A j \in mine \ {i} : sent[j].at < sent[i].at}
       IN mine # {} /\ mine \subseteq ToSet(log) =>
            /\ \A i \in newest : view("by_version")[k] = <<sent[i]>>
            /\ \A i \in latest : view("by_time")[k] = <<sent[i]>>
            /\ ToSet(view("append")[k]) = {sent[i] : i \in mine}

\* A run ends, even when the broker never answers.
RunEnds == <>(phase = "exited")
===============================================================================
