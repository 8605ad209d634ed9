------------------------ MODULE SamplePipeline_proofs -----------------------
(***************************************************************************)
(* Proofs about SamplePipeline for any masters, limits and bounds.         *)
(***************************************************************************)
EXTENDS SamplePipeline, FiniteSetTheorems, WellFoundedInduction, TLAPS

-----------------------------------------------------------------------------
(* Part 1: the order of the batches and the gaps between them.             *)

(* Batch b follows batch a, or says that something is missing between.     *)
Follows(a, b) == b.gap \/ b.n = a + 1

(* Every task follows the one before it; the next to be submitted would    *)
(* follow the last one.                                                    *)
InOrder == \A i \in 1..Len(tasks) - 1 : Follows(tasks[i].n, tasks[i + 1])

(* What stands after batch number a: the head of the queue, or what will   *)
(* be submitted next.                                                      *)
Onward(a) ==
  IF tasks = <<>> THEN gapPending \/ batches = a ELSE Follows(a, Head(tasks))

LastFollowed == tasks # <<>> => gapPending \/ batches = tasks[Len(tasks)].n

ConsumerInOrder ==
  CASE consumer.at \in {"history", "alarm"} ->
         /\ alarmGap
         /\ consumer.gap \/ consumer.task.n = alarms.seen + 1
         /\ Onward(consumer.task.n)
    [] OTHER -> alarmGap \/ Onward(alarms.seen)

Joined == stop \notin {"running", "joining"} => \A m \in Masters : worker[m].at = "ended"

StoppedQueue == ~accepting => stop \notin {"running", "joining"}

OrderInv ==
  /\ ControlOK
  /\ InOrder /\ LastFollowed /\ ConsumerInOrder
  /\ Joined /\ StoppedQueue
  /\ CountsAreContinuous

-----------------------------------------------------------------------------
(* Part 2: the queue, the threads and the clock keep their types.          *)

LEMMA BatchIsTask ==
  ASSUME NEW m \in Masters, ControlOK
  PROVE  Batch(m) \in Tasks
BY DEF ControlOK, Batch, Tasks

WorkerStates ==
  [at : {"idle", "sampled", "prepared", "ended"}, bucket : Buckets, axis : Nat,
   good : BOOLEAN, gen : Nat]

LEMMA IdleIsWorkerState == Idle \in WorkerStates
<1>1. 0 \in Buckets BY BoundsAssumption DEF Buckets
<1>2. QED BY <1>1 DEF Idle, WorkerStates

LEMMA ControlInit == Init => ControlOK
<1> SUFFICES ASSUME Init PROVE ControlOK
  OBVIOUS
<1>1. worker \in [Masters -> WorkerStates]
  BY IdleIsWorkerState DEF Init
<1>2. tasks \in Seq(Tasks)
  BY DEF Init
<1>3. clock \in Buckets /\ axis \in Nat /\ cleared \in 0..axis /\ generation \in Nat
  BY DEF Init
<1>4. consumer \in [at : {"waiting", "history", "alarm", "ended"},
                    task : Tasks \cup {NoTask}, gap : BOOLEAN]
  BY DEF Init
<1>5. consumer.at = "waiting" BY DEF Init
<1>6. alarms \in [seen : Nat, first : Nat, count : Nat] BY DEF Init
<1>7. queuedPoints \in Int /\ batches \in Nat /\ stop = "running"
  BY DEF Init
<1>13. accepting \in BOOLEAN /\ gapPending \in BOOLEAN /\ alarmGap \in BOOLEAN
  BY Zenon DEF Init
<1>8. worker \in [Masters -> [at : {"idle", "sampled", "prepared", "ended"},
                             bucket : Buckets, axis : Nat, good : BOOLEAN, gen : Nat]]
  BY <1>1 DEF WorkerStates
<1>9. ~(consumer.at \in {"history", "alarm"})
  BY <1>5
<1>10. stop \in {"running", "joining", "draining", "flushing", "writing", "stopped"}
  BY <1>7
<1>11. QED BY <1>2, <1>3, <1>4, <1>6, <1>7, <1>8, <1>9, <1>10, <1>13 DEF ControlOK

LEMMA ControlWorker ==
  ASSUME ControlOK, NEW m \in Masters, Worker(m)
  PROVE  ControlOK'
<1>1. CASE Collect(m)
  BY <1>1 DEF Collect, ControlOK, time, queue, task, records, ending
<1>2. CASE Discard(m)
  <2>1. worker \in [Masters -> WorkerStates] BY DEF ControlOK, WorkerStates
  <2>2. worker' \in [Masters -> WorkerStates] BY <1>2, <2>1, IdleIsWorkerState DEF Discard
  <2>3. QED BY <1>2, <2>2 DEF Discard, ControlOK, WorkerStates, time, queue, task, records, ending
<1>3. CASE Prepare(m)
  <2>1. worker \in [Masters -> WorkerStates] /\ generation \in Nat BY DEF ControlOK, WorkerStates
  <2>2. worker' \in [Masters -> WorkerStates] BY <1>3, <2>1 DEF Prepare, WorkerStates
  <2>3. QED BY <1>3, <2>2 DEF Prepare, ControlOK, WorkerStates, time, queue, task, records, ending
<1>4. CASE Submit(m)
  <2>1. worker' \in [Masters -> WorkerStates]
    <3>1. worker \in [Masters -> WorkerStates] BY DEF ControlOK, WorkerStates
    <3>2. QED BY <1>4, <3>1, IdleIsWorkerState DEF Submit
  <2>2. tasks' \in Seq(Tasks) /\ queuedPoints' \in Int /\ gapPending' \in BOOLEAN
    <3>1. CASE Accept(m)
      <4>1. Batch(m) \in Tasks BY BatchIsTask
      <4>2. tasks \in Seq(Tasks) /\ queuedPoints \in Int BY DEF ControlOK
      <4>3. Weight[m] \in Nat BY MastersAssumption
      <4>4. tasks' = Append(tasks, Batch(m)) /\ queuedPoints' = queuedPoints + Weight[m]
            /\ gapPending' = FALSE
        BY <3>1 DEF Accept
      <4>5. tasks' \in Seq(Tasks) BY <4>1, <4>2, <4>4
      <4>6. queuedPoints' \in Int BY <4>2, <4>3, <4>4
      <4>7. QED BY <4>4, <4>5, <4>6
    <3>2. CASE Reject(m)
      BY <3>2 DEF Reject, ControlOK
    <3>3. QED BY <1>4, <3>1, <3>2 DEF Submit
  <2>3. QED BY <1>4, <2>1, <2>2 DEF Submit, ControlOK, WorkerStates, time, task, records, ending
<1>5. CASE WorkerEnds(m)
  BY <1>5 DEF WorkerEnds, ControlOK, time, queue, task, records, ending
<1>6. QED BY <1>1, <1>2, <1>3, <1>4, <1>5 DEF Worker

LEMMA ControlConsumer ==
  ASSUME ControlOK, Consumer
  PROVE  ControlOK'
<1>1. CASE Take
  <2>1. Head(tasks) \in Tasks /\ Tail(tasks) \in Seq(Tasks)
    BY <1>1 DEF Take, ControlOK
  <2>2. Weight[Head(tasks).m] \in Nat
    BY <2>1, MastersAssumption DEF Tasks
  <2>3. queuedPoints' \in Int
    BY <1>1, <2>2 DEF Take, ControlOK
  <2>4. consumer' = [at |-> "history", task |-> Head(tasks),
                     gap |-> alarmGap \/ Head(tasks).gap]
    BY <1>1 DEF Take
  <2>5. alarmGap \in BOOLEAN /\ Head(tasks).gap \in BOOLEAN
    BY <2>1 DEF ControlOK, Tasks
  <2>6. consumer' \in [at : {"waiting", "history", "alarm", "ended"},
                       task : Tasks \cup {NoTask}, gap : BOOLEAN]
    BY <2>1, <2>4, <2>5
  <2>7. consumer'.task \in Tasks BY <2>1, <2>4
  <2>8. QED BY <1>1, <2>1, <2>3, <2>6, <2>7 DEF Take, ControlOK, time, records, ending
<1>2. CASE ConsumerEnds
  BY <1>2 DEF ConsumerEnds, ControlOK, time, queue, records, ending
<1>3. CASE Void
  BY <1>3 DEF Void, Done, ControlOK, time, queue, records, ending
<1>4. CASE WriteHistory
  BY <1>4 DEF WriteHistory, ControlOK, time, queue, ending
<1>5. CASE EvaluateAlarms
  <2>1. alarms' \in [seen : Nat, first : Nat, count : Nat] /\ alarmGap' \in BOOLEAN
    <3>1. consumer.task \in Tasks
      BY <1>5 DEF EvaluateAlarms, ControlOK
    <3>2. CASE alarms' = Counted /\ alarmGap' = FALSE
      <4>1. consumer.task.n \in Nat BY <3>1 DEF Tasks
      <4>2. alarms \in [seen : Nat, first : Nat, count : Nat] BY DEF ControlOK
      <4>3. Counted \in [seen : Nat, first : Nat, count : Nat] BY <4>1, <4>2 DEF Counted
      <4>4. QED BY <3>2, <4>3
    <3>3. CASE UNCHANGED <<alarms, alarmGap>>
      BY <3>3 DEF ControlOK
    <3>4. QED BY <1>5, <3>2, <3>3 DEF EvaluateAlarms
  <2>2. QED BY <1>5, <2>1 DEF EvaluateAlarms, Done, ControlOK, time, queue, records, ending
<1>6. QED BY <1>1, <1>2, <1>3, <1>4, <1>5 DEF Consumer

LEMMA ControlStep == ControlOK /\ [Next]_vars => ControlOK'
<1> SUFFICES ASSUME ControlOK, [Next]_vars PROVE ControlOK'
  OBVIOUS
<1>1. CASE Run
  BY <1>1 DEF Run, ControlOK, Buckets, queue, task, records, ending
<1>2. CASE SetClock
  BY <1>2 DEF SetClock, ControlOK, queue, task, records, ending
<1>3. CASE TimeAdjusted
  BY <1>3 DEF TimeAdjusted, ControlOK, queue, task, ending
<1>4. CASE \E m \in Masters : Worker(m)
  BY <1>4, ControlWorker
<1>5. CASE Consumer
  BY <1>5, ControlConsumer
<1>6. CASE RequestStop
  BY <1>6 DEF RequestStop, ControlOK, time, queue, task, records
<1>7. CASE StopQueue
  BY <1>7 DEF StopQueue, ControlOK, time, task, records
<1>8. CASE FlushTake
  BY <1>8 DEF FlushTake, ControlOK, time, queue, task
<1>9. CASE FlushCheck
  BY <1>9 DEF FlushCheck, ControlOK, time, queue, task
<1>10. CASE FlushWrite
  BY <1>10 DEF FlushWrite, ControlOK, time, queue, task
<1>11. CASE UNCHANGED vars
  BY <1>11 DEF vars, ControlOK, time, queue, task, records, ending
<1>12. QED
  BY <1>1, <1>2, <1>3, <1>4, <1>5, <1>6, <1>7, <1>8, <1>9, <1>10, <1>11 DEF Next, Stop

-----------------------------------------------------------------------------
(* Part 3: the order is kept by every step.                                *)

Order == InOrder /\ LastFollowed /\ ConsumerInOrder /\ CountsAreContinuous

LEMMA OrderInit == Init => OrderInv
<1> SUFFICES ASSUME Init PROVE OrderInv
  OBVIOUS
<1>1. ControlOK BY ControlInit
<1>2. tasks = <<>> /\ batches = 0 /\ consumer.at = "waiting" /\ accepting /\ stop = "running"
  BY DEF Init
<1>3. alarms = [seen |-> 0, first |-> 1, count |-> 0]
  BY DEF Init
<1>4. InOrder BY <1>2 DEF InOrder
<1>5. LastFollowed BY <1>2 DEF LastFollowed
<1>6. ConsumerInOrder BY <1>2, <1>3 DEF ConsumerInOrder, Onward
<1>7. CountsAreContinuous BY <1>3 DEF CountsAreContinuous
<1>8. QED BY <1>1, <1>2, <1>4, <1>5, <1>6, <1>7 DEF OrderInv, Joined, StoppedQueue

LEMMA OrderUntouched ==
  ASSUME Order, UNCHANGED <<tasks, gapPending, batches, consumer, alarmGap, alarms>>
  PROVE  Order'
<1>1. InOrder' BY DEF Order, InOrder, Follows
<1>2. LastFollowed' BY DEF Order, LastFollowed
<1>3. ConsumerInOrder' BY DEF Order, ConsumerInOrder, Onward, Follows
<1>4. CountsAreContinuous' BY DEF Order, CountsAreContinuous
<1>5. QED BY <1>1, <1>2, <1>3, <1>4 DEF Order

(* A batch that is taken is the last and follows; one that is refused      *)
(* leaves a gap, for a thread that submits finds the queue accepting.      *)
LEMMA OrderSubmit ==
  ASSUME OrderInv, NEW m \in Masters, Submit(m)
  PROVE  Order'
<1>1. tasks \in Seq(Tasks) /\ batches \in Nat /\ gapPending \in BOOLEAN
  BY DEF OrderInv, ControlOK
<1>2. batches' = batches + 1 /\ UNCHANGED <<consumer, alarmGap, alarms>>
  BY DEF Submit, task
<1>3. accepting
  BY DEF Submit, OrderInv, Joined, StoppedQueue
<1>4. CountsAreContinuous'
  BY <1>2 DEF OrderInv, CountsAreContinuous
<1>5. CASE Accept(m)
  <2> DEFINE new == Batch(m)
  <2>1. tasks' = Append(tasks, new) /\ gapPending' = FALSE
    BY <1>5 DEF Accept
  <2>2. new \in Tasks BY BatchIsTask DEF OrderInv
  <2>3. new.n = batches + 1 /\ new.gap = gapPending
    BY DEF Batch
  <2> HIDE DEF new
  <2>4. /\ Len(tasks') = Len(tasks) + 1 /\ Len(tasks) \in Nat
        /\ tasks' # <<>>
        /\ tasks'[Len(tasks) + 1] = new
        /\ \A i \in 1..Len(tasks) : tasks'[i] = tasks[i]
    BY <1>1, <2>1, <2>2
  <2>5. InOrder'
    <3> SUFFICES ASSUME NEW i \in 1..Len(tasks')-1
                 PROVE  Follows(tasks'[i].n, tasks'[i + 1])
      BY DEF InOrder, Follows
    <3>1. i \in 1..Len(tasks) BY <2>4
    <3>2. CASE i = Len(tasks)
      <4>1. tasks'[i + 1] = new /\ tasks'[i] = tasks[Len(tasks)] BY <3>2, <2>4, <3>1
      <4>2. tasks # <<>> BY <3>1
      <4>3. gapPending \/ batches = tasks[Len(tasks)].n BY <4>2 DEF OrderInv, LastFollowed
      <4>4. QED BY <4>1, <4>3, <2>3 DEF Follows
    <3>3. CASE i # Len(tasks)
      <4>1. i \in 1..Len(tasks) - 1 /\ i + 1 \in 1..Len(tasks) BY <3>1, <3>3, <2>4
      <4>2. Follows(tasks[i].n, tasks[i + 1]) BY <4>1 DEF OrderInv, InOrder
      <4>3. QED BY <4>1, <4>2, <2>4, <3>1
    <3>4. QED BY <3>2, <3>3
  <2>6. LastFollowed'
    BY <2>3, <2>4, <1>2 DEF LastFollowed
  <2>7. \A a : Onward(a) => Onward(a)'
    <3> SUFFICES ASSUME NEW a, Onward(a) PROVE Follows(a, Head(tasks'))
      BY <2>4 DEF Onward, Follows
    <3>1. Head(tasks') = tasks'[1] BY <2>1
    <3>2. CASE tasks = <<>>
      <4>1. Head(tasks') = new BY <3>1, <3>2, <2>4
      <4>2. gapPending \/ batches = a BY <3>2 DEF Onward
      <4>3. QED BY <4>1, <4>2, <2>3 DEF Follows
    <3>3. CASE tasks # <<>>
      <4>1. 1 \in 1..Len(tasks) /\ Head(tasks) = tasks[1] BY <3>3, <1>1
      <4>2. QED BY <4>1, <3>1, <3>3, <2>4 DEF Onward
    <3>4. QED BY <3>2, <3>3
  <2>8. ConsumerInOrder'
    BY <2>7, <1>2 DEF OrderInv, ConsumerInOrder
  <2>9. QED BY <1>4, <2>5, <2>6, <2>8 DEF Order
<1>6. CASE Reject(m)
  <2>1. tasks' = tasks /\ gapPending' = TRUE
    BY <1>3, <1>6 DEF Reject
  <2>2. InOrder' BY <2>1 DEF OrderInv, InOrder, Follows
  <2>3. LastFollowed' BY <2>1 DEF LastFollowed
  <2>4. \A a : Onward(a) => Onward(a)' BY <2>1 DEF Onward, Follows
  <2>5. ConsumerInOrder' BY <2>4, <1>2 DEF OrderInv, ConsumerInOrder
  <2>6. QED BY <1>4, <2>2, <2>3, <2>5 DEF Order
<1>7. QED BY <1>5, <1>6 DEF Submit

LEMMA OrderTake ==
  ASSUME OrderInv, Take
  PROVE  Order'
<1> DEFINE t == Head(tasks)
<1>1. tasks \in Seq(Tasks) /\ tasks # <<>> /\ consumer.at = "waiting" /\ alarmGap \in BOOLEAN
  BY DEF Take, OrderInv, ControlOK
<1>2. /\ tasks' = Tail(tasks) /\ alarmGap' = TRUE
      /\ UNCHANGED <<gapPending, batches, alarms>>
  BY DEF Take
<1>3. consumer' = [at |-> "history", task |-> t, gap |-> alarmGap \/ t.gap]
  BY DEF Take
<1>4. t = tasks[1] /\ t \in Tasks
  BY <1>1
<1>5. t.gap \in BOOLEAN BY <1>4 DEF Tasks
<1>6. /\ Len(tasks) \in Nat \ {0} /\ Len(tasks') = Len(tasks) - 1
      /\ \A i \in 1..Len(tasks') : tasks'[i] = tasks[i + 1]
  BY <1>1, <1>2
<1>7. InOrder'
  <2> SUFFICES ASSUME NEW i \in 1..Len(tasks')-1
               PROVE  Follows(tasks'[i].n, tasks'[i + 1])
    BY DEF InOrder, Follows
  <2>1. /\ i \in 1..Len(tasks') /\ i + 1 \in 1..Len(tasks')
        /\ i + 1 \in 1..Len(tasks) - 1
    BY <1>6
  <2>2. Follows(tasks[i + 1].n, tasks[(i + 1) + 1]) BY <2>1 DEF OrderInv, InOrder
  <2>3. QED BY <2>1, <2>2, <1>6
<1>8. LastFollowed'
  <2> SUFFICES ASSUME tasks' # <<>> PROVE gapPending \/ batches = tasks'[Len(tasks')].n
    BY <1>2 DEF LastFollowed
  <2>1. tasks' \in Seq(Tasks) BY <1>1, <1>2
  <2>2. Len(tasks') \in 1..Len(tasks') BY <2>1
  <2>3. tasks'[Len(tasks')] = tasks[Len(tasks)] BY <2>2, <1>6
  <2>4. QED BY <2>3, <1>1 DEF OrderInv, LastFollowed
<1>9. ConsumerInOrder'
  <2>1. alarmGap \/ t.gap \/ t.n = alarms.seen + 1
    BY <1>1 DEF OrderInv, ConsumerInOrder, Onward, Follows
  <2>2. Onward(consumer.task.n)'
    <3>0. consumer'.task = t BY <1>3
    <3>1. CASE tasks' = <<>>
      <4>1. Len(tasks) = 1 BY <3>1, <1>6
      <4>2. gapPending \/ batches = t.n BY <4>1, <1>1, <1>4 DEF OrderInv, LastFollowed
      <4>3. QED BY <3>0, <3>1, <4>2, <1>2 DEF Onward
    <3>2. CASE tasks' # <<>>
      <4>1. tasks' \in Seq(Tasks) BY <1>1, <1>2
      <4>2. 1 \in 1..Len(tasks') /\ Head(tasks') = tasks'[1] BY <3>2, <4>1
      <4>3. 1 \in 1..Len(tasks) - 1 BY <4>2, <1>6
      <4>4. Follows(tasks[1].n, tasks[1 + 1]) BY <4>3 DEF OrderInv, InOrder
      <4>5. Follows(t.n, Head(tasks')) BY <4>2, <4>4, <1>4, <1>6
      <4>6. QED BY <3>0, <3>2, <4>5 DEF Onward, Follows
    <3>3. QED BY <3>1, <3>2
  <2>3. consumer'.at = "history" /\ consumer'.task = t
    BY <1>3
  <2>4. consumer'.gap = (alarmGap \/ t.gap)
    BY <1>3
  <2>5. consumer'.gap \/ consumer'.task.n = alarms'.seen + 1
    BY <2>1, <2>3, <2>4, <1>2
  <2>6. QED
    BY <1>2, <2>2, <2>3, <2>5 DEF ConsumerInOrder, Onward, Follows
<1>10. CountsAreContinuous' BY <1>2 DEF OrderInv, CountsAreContinuous
<1>11. QED BY <1>7, <1>8, <1>9, <1>10 DEF Order

LEMMA OrderConsumer ==
  ASSUME OrderInv, Consumer
  PROVE  Order'
<1>1. CASE Take
  BY <1>1, OrderTake
<1>2. CASE ConsumerEnds
  <2>1. consumer.at = "waiting" /\ consumer'.at = "ended"
    BY <1>2 DEF ConsumerEnds, OrderInv, ControlOK
  <2>2. UNCHANGED <<tasks, gapPending, batches, alarmGap, alarms>>
    BY <1>2 DEF ConsumerEnds, queue
  <2>3. InOrder' /\ LastFollowed' /\ CountsAreContinuous'
    BY <2>2 DEF OrderInv, InOrder, LastFollowed, CountsAreContinuous, Follows
  <2>4. ConsumerInOrder'
    BY <2>1, <2>2 DEF OrderInv, ConsumerInOrder, Onward, Follows
  <2>5. QED BY <2>3, <2>4 DEF Order
<1>3. CASE Void
  <2>1. consumer.at \in {"history", "alarm"} /\ consumer'.at = "waiting"
    BY <1>3 DEF Void, Done, OrderInv, ControlOK
  <2>2. UNCHANGED <<tasks, gapPending, batches, alarmGap, alarms>>
    BY <1>3 DEF Void, queue
  <2>3. InOrder' /\ LastFollowed' /\ CountsAreContinuous'
    BY <2>2 DEF OrderInv, InOrder, LastFollowed, CountsAreContinuous, Follows
  <2>4. ConsumerInOrder'
    BY <2>1, <2>2 DEF OrderInv, ConsumerInOrder
  <2>5. QED BY <2>3, <2>4 DEF Order
<1>4. CASE WriteHistory
  <2>1. /\ consumer.at = "history" /\ consumer' = [consumer EXCEPT !.at = "alarm"]
        /\ UNCHANGED <<tasks, gapPending, batches, alarmGap, alarms>>
    BY <1>4 DEF WriteHistory, queue
  <2>2. consumer'.at = "alarm" /\ consumer'.task = consumer.task /\ consumer'.gap = consumer.gap
    BY <2>1 DEF OrderInv, ControlOK
  <2>3. InOrder' /\ LastFollowed' /\ CountsAreContinuous'
    BY <2>1 DEF OrderInv, InOrder, LastFollowed, CountsAreContinuous, Follows
  <2>4. ConsumerInOrder'
    BY <2>1, <2>2 DEF OrderInv, ConsumerInOrder, Onward, Follows
  <2>5. QED BY <2>3, <2>4 DEF Order
<1>5. CASE EvaluateAlarms
  <2>1. consumer.at = "alarm" /\ consumer'.at = "waiting" /\ UNCHANGED <<tasks, gapPending, batches>>
    BY <1>5 DEF EvaluateAlarms, Done, queue, OrderInv, ControlOK
  <2>2. InOrder' /\ LastFollowed'
    BY <2>1 DEF OrderInv, InOrder, LastFollowed, Follows
  <2>3. /\ alarmGap
        /\ consumer.gap \/ consumer.task.n = alarms.seen + 1
        /\ Onward(consumer.task.n)
    BY <2>1 DEF OrderInv, ConsumerInOrder
  <2>4. CASE alarms' = Counted /\ alarmGap' = FALSE
    <3>1. alarms'.seen = consumer.task.n BY <2>4 DEF Counted
    <3>2. ConsumerInOrder' BY <2>1, <2>3, <3>1 DEF ConsumerInOrder, Onward, Follows
    <3>3. CountsAreContinuous'
      <4>1. consumer.task.n \in Nat /\ alarms \in [seen : Nat, first : Nat, count : Nat]
        BY <2>1 DEF OrderInv, ControlOK, Tasks
      <4>2. alarms.seen + 1 = alarms.first + alarms.count
        BY DEF OrderInv, CountsAreContinuous
      <4>3. CASE consumer.gap
        BY <4>1, <4>3, <2>4 DEF Counted, CountsAreContinuous
      <4>4. CASE ~consumer.gap
        BY <4>1, <4>2, <4>4, <2>3, <2>4 DEF Counted, CountsAreContinuous
      <4>5. QED BY <4>3, <4>4
    <3>4. QED BY <2>2, <3>2, <3>3 DEF Order
  <2>5. CASE UNCHANGED <<alarms, alarmGap>>
    BY <2>1, <2>2, <2>3, <2>5 DEF Order, OrderInv, ConsumerInOrder, CountsAreContinuous
  <2>6. QED BY <1>5, <2>4, <2>5 DEF EvaluateAlarms
<1>6. QED BY <1>1, <1>2, <1>3, <1>4, <1>5 DEF Consumer
LEMMA OrderStep == OrderInv /\ [Next]_vars => OrderInv'
<1> SUFFICES ASSUME OrderInv, [Next]_vars PROVE OrderInv'
  OBVIOUS
<1>1. ControlOK' BY ControlStep DEF OrderInv
<1>2. Order BY DEF Order, OrderInv
<1>3. Order'
  <2>1. CASE \E m \in Masters : Worker(m)
    <3>1. PICK m \in Masters : Worker(m) BY <2>1
    <3>2. CASE Submit(m) BY <3>2, OrderSubmit
    <3>3. CASE Collect(m) \/ Discard(m) \/ Prepare(m) \/ WorkerEnds(m)
      <4>1. UNCHANGED <<queue, task>>
        BY <3>3 DEF Collect, Discard, Prepare, WorkerEnds
      <4>2. QED BY <4>1, <1>2, OrderUntouched DEF queue, task
    <3>4. QED BY <3>1, <3>2, <3>3 DEF Worker
  <2>2. CASE Consumer BY <2>2, OrderConsumer
  <2>3. CASE Run \/ SetClock \/ TimeAdjusted \/ RequestStop \/ UNCHANGED vars
    <3>1. UNCHANGED <<queue, task>>
      BY <2>3 DEF Run, SetClock, TimeAdjusted, RequestStop, vars
    <3>2. QED BY <3>1, <1>2, OrderUntouched DEF queue, task
  <2>4. CASE Stop
    <3>1. UNCHANGED <<tasks, gapPending, batches, consumer, alarmGap, alarms>>
      BY <2>4 DEF Stop, StopQueue, FlushTake, FlushCheck, FlushWrite, queue, task
    <3>2. QED BY <3>1, <1>2, OrderUntouched
  <2>5. QED BY <2>1, <2>2, <2>3, <2>4 DEF Next
<1>4. Joined' /\ StoppedQueue'
  <2>1. CASE \E m \in Masters : Worker(m)
    <3>1. PICK m \in Masters : Worker(m) BY <2>1
    <3>2. stop' = stop /\ accepting' = accepting
      BY <3>1 DEF Worker, Collect, Discard, Prepare, Submit, WorkerEnds, queue, ending
    <3>3. CASE WorkerEnds(m)
      <4>1. \A k \in Masters : worker[k].at = "ended" => worker'[k].at = "ended"
        BY <3>3 DEF WorkerEnds, OrderInv, ControlOK
      <4>2. QED BY <3>2, <4>1 DEF OrderInv, Joined, StoppedQueue
    <3>4. CASE Collect(m) \/ Discard(m) \/ Prepare(m) \/ Submit(m)
      <4>1. worker[m].at # "ended"
        BY <3>4 DEF Collect, Discard, Prepare, Submit
      <4>2. stop \in {"running", "joining"}
        BY <4>1 DEF OrderInv, Joined
      <4>3. QED BY <3>2, <4>2 DEF OrderInv, Joined, StoppedQueue
    <3>5. QED BY <3>1, <3>3, <3>4 DEF Worker
  <2>2. CASE Consumer \/ Run \/ SetClock \/ TimeAdjusted \/ UNCHANGED vars
    <3>1. UNCHANGED <<stop, worker, accepting>>
      BY <2>2 DEF Consumer, Take, ConsumerEnds, Void, WriteHistory, EvaluateAlarms,
                  Run, SetClock, TimeAdjusted, vars, queue, ending
    <3>2. QED BY <3>1 DEF OrderInv, Joined, StoppedQueue
  <2>3. CASE RequestStop
    BY <2>3 DEF RequestStop, queue, OrderInv, Joined, StoppedQueue
  <2>4. CASE StopQueue
    BY <2>4 DEF StopQueue, Joined, StoppedQueue
  <2>5. CASE FlushTake \/ FlushCheck \/ FlushWrite
    <3>1. UNCHANGED <<worker, accepting>> /\ stop \notin {"running", "joining"}
      BY <2>5 DEF FlushTake, FlushCheck, FlushWrite, queue
    <3>2. stop' \notin {"running", "joining"}
      BY <2>5 DEF FlushTake, FlushCheck, FlushWrite
    <3>3. QED BY <3>1, <3>2 DEF OrderInv, Joined, StoppedQueue
  <2>6. QED BY <2>1, <2>2, <2>3, <2>4, <2>5 DEF Next, Stop
<1>5. QED BY <1>1, <1>3, <1>4 DEF Order, OrderInv

THEOREM OrderIsInvariant == Spec => []OrderInv
<1>1. QED BY OrderInit, OrderStep, PTL DEF Spec

(***************************************************************************)
(* The batches counted as one run by the alarm evaluator were submitted    *)
(* one right after the other, for any number of masters, any limits of the *)
(* queue and any order of rejections, changes of time, failures and stops. *)
(***************************************************************************)
THEOREM RunsHaveNoGap == Spec => []CountsAreContinuous
<1>1. OrderInv => CountsAreContinuous BY DEF OrderInv
<1>2. QED BY <1>1, OrderIsInvariant, PTL

(***************************************************************************)
(* stop() joins the collection threads before it stops the queue: no batch *)
(* reaches a queue that would refuse it without leaving a gap.             *)
(***************************************************************************)
THEOREM QueueStopsLast == Spec => []NothingComesLate
<1>1. OrderInv => NothingComesLate
  BY DEF OrderInv, Joined, StoppedQueue, NothingComesLate
<1>2. QED BY <1>1, OrderIsInvariant, PTL

-----------------------------------------------------------------------------
(* Part 4: what is kept of the history.                                    *)

HasStopped == stop \in {"flushing", "writing", "stopped"}

ConsumerJoined == HasStopped => consumer.at = "ended"

AllCurrent(held, gen) == \A m \in Masters : \A b \in DOMAIN held[m] : held[m][b].gen = gen

AllLatest(held) == \A m \in Masters : \A b \in DOMAIN held[m] : held[m][b].n = latest[m][b]

(* What waits is the latest sample, while there is a service to write it.  *)
PendingIsLatest == stop # "stopped" => AllLatest(pending)

NothingLatest == \A m \in Masters : \A b \in Buckets : latest[m][b] = 0

(* What has been taken to be written at the end is what was latest then,   *)
(* or a change of time has made it void.                                   *)
FlushedInOrder ==
  stop \in {"flushing", "writing"} =>
    /\ pending = Nothing
    /\ AllCurrent(flushed.records, flushed.gen)
    /\ flushed.gen <= generation
    /\ IF flushed.gen = generation THEN AllLatest(flushed.records) ELSE NothingLatest

HistoryInv ==
  /\ ControlOK /\ HistoryOK
  /\ ConsumerJoined
  /\ PendingIsCurrent /\ PendingIsLatest
  /\ FlushedInOrder
  /\ LatestIsKept

-----------------------------------------------------------------------------
(* Part 5: lemmas on records and on the limit of the backlog.              *)

LEMMA SmallestExists ==
  ASSUME NEW S, S \subseteq Nat, S # {}
  PROVE  \E x \in S : \A y \in S : x <= y
<1>1. PICK x \in S : \A y \in S : ~ (<<y, x>> \in OpToRel(<, Nat))
  BY NatLessThanWellFounded, WFMin
<1>2. \A y \in S : ~(y < x)
  BY <1>1 DEF OpToRel
<1>3. QED BY <1>2

LEMMA BucketsAreFinite ==
  ASSUME NEW S, S \subseteq Buckets
  PROVE  IsFiniteSet(S) /\ S \subseteq Nat
<1>1. IsFiniteSet(Buckets)
  BY FS_Interval, BoundsAssumption DEF Buckets
<1>2. IsFiniteSet(S)
  BY <1>1, FS_Subset
<1>3. S \subseteq Nat
  BY BoundsAssumption DEF Buckets
<1>4. QED BY <1>2, <1>3

(* The smallest of the newest buckets has fewer than MaxPending above it.  *)
LEMMA NewestIsBounded ==
  ASSUME NEW S, S \subseteq Buckets
  PROVE  Newest(S) \subseteq S /\ Cardinality(Newest(S)) <= MaxPending
<1>1. Newest(S) \subseteq S
  BY DEF Newest
<1>2. CASE Newest(S) = {}
  BY <1>1, <1>2, FS_EmptySet, BoundsAssumption
<1>3. CASE Newest(S) # {}
  <2>1. Newest(S) \subseteq Nat BY <1>1, BucketsAreFinite
  <2>2. PICK x \in Newest(S) : \A y \in Newest(S) : x <= y
    BY <1>3, <2>1, SmallestExists
  <2> DEFINE above == {c \in S : c > x}
  <2>3. Cardinality(above) < MaxPending BY <2>2 DEF Newest
  <2>4. IsFiniteSet(above) BY BucketsAreFinite
  <2>5. IsFiniteSet(above \cup {x}) /\ Cardinality(above \cup {x}) <= Cardinality(above) + 1
    BY <2>4, FS_AddElement, FS_CardinalityType
  <2>6. Newest(S) \subseteq above \cup {x}
    <3> SUFFICES ASSUME NEW y \in Newest(S), y # x PROVE y > x
      BY <1>1
    <3>1. x \in Nat /\ y \in Nat /\ x <= y BY <2>1, <2>2
    <3>2. QED BY <3>1
  <2>7. Cardinality(Newest(S)) <= Cardinality(above \cup {x})
    BY <2>5, <2>6, FS_Subset
  <2>8. IsFiniteSet(Newest(S)) BY <1>1, BucketsAreFinite
  <2>9. /\ Cardinality(Newest(S)) \in Nat /\ Cardinality(above) \in Nat
        /\ Cardinality(above \cup {x}) \in Nat
    BY <2>4, <2>5, <2>8, FS_CardinalityType
  <2> HIDE DEF above
  <2>10. QED BY <1>1, <2>3, <2>5, <2>7, <2>9, BoundsAssumption
<1>4. QED BY <1>2, <1>3

LEMMA OverIsUnion ==
  ASSUME NEW f, NEW g
  PROVE  /\ DOMAIN Over(f, g) = DOMAIN f \cup DOMAIN g
         /\ \A c \in DOMAIN f : Over(f, g)[c] = f[c]
         /\ \A c \in DOMAIN g \ DOMAIN f : Over(f, g)[c] = g[c]
BY DEF Over

(* The waiting records of one point.                                       *)
Backlog(f) ==
  /\ f = [b \in DOMAIN f |-> f[b]]
  /\ DOMAIN f \subseteq Buckets
  /\ Cardinality(DOMAIN f) <= MaxPending
  /\ \A b \in DOMAIN f : f[b] \in Samples

LEMMA BacklogsOfMasters ==
  ASSUME NEW held
  PROVE  Backlogs(held) <=> held = [m \in Masters |-> held[m]] /\ \A m \in Masters : Backlog(held[m])
BY DEF Backlogs, Backlog

LEMMA NothingIsBacklogs == Backlogs(Nothing) /\ DOMAIN NoRecords = {} /\ Backlog(NoRecords)
<1>1. Cardinality({}) = 0 BY FS_EmptySet
<1>2. DOMAIN NoRecords = {} BY DEF NoRecords
<1>3. Backlog(NoRecords)
  BY <1>1, <1>2, BoundsAssumption DEF Backlog, NoRecords
<1>4. Backlogs(Nothing) BY <1>3, BacklogsOfMasters DEF Nothing
<1>5. QED BY <1>2, <1>3, <1>4

LEMMA OneIsBacklog ==
  ASSUME NEW b \in Buckets, NEW sample \in Samples
  PROVE  /\ Backlog(OneRecord(b, sample))
         /\ DOMAIN OneRecord(b, sample) = {b} /\ OneRecord(b, sample)[b] = sample
<1>1. Cardinality({b}) = 1 BY FS_Singleton
<1>2. DOMAIN OneRecord(b, sample) = {b} /\ OneRecord(b, sample)[b] = sample BY DEF OneRecord
<1>3. QED BY <1>1, <1>2, BoundsAssumption DEF Backlog, OneRecord

-----------------------------------------------------------------------------
(* Part 6: a sample is written, or kept because the database refuses.      *)

LEMMA PendingExcept ==
  ASSUME Backlogs(pending), NEW m \in Masters, NEW f, Backlog(f),
         pending' = [pending EXCEPT ![m] = f]
  PROVE  /\ Backlogs(pending') /\ pending'[m] = f
         /\ \A k \in Masters \ {m} : pending'[k] = pending[k]
<1>1. pending = [k \in Masters |-> pending[k]] /\ \A k \in Masters : Backlog(pending[k])
  BY BacklogsOfMasters
<1>2. pending' = [k \in Masters |-> IF k = m THEN f ELSE pending[k]]
  BY <1>1
<1>3. pending'[m] = f /\ \A k \in Masters \ {m} : pending'[k] = pending[k]
  BY <1>2
<1>4. pending' = [k \in Masters |-> pending'[k]]
  BY <1>2
<1>5. \A k \in Masters : Backlog(pending'[k])
  BY <1>1, <1>3
<1>6. Backlogs(pending') BY <1>4, <1>5, BacklogsOfMasters
<1>7. QED BY <1>3, <1>6

LEMMA KeysAreKeys ==
  ASSUME HistoryOK, NEW m \in Masters, NEW B, B \subseteq Buckets
  PROVE  Keys(m, B) \subseteq Masters \X Buckets /\ Throttled(m) \subseteq Buckets
<1>1. throttled \subseteq Masters \X Buckets BY DEF HistoryOK
<1>2. \A key \in throttled : key[2] \in Buckets BY <1>1
<1>3. Throttled(m) \subseteq Buckets BY <1>2 DEF Throttled
<1>4. Keys(m, B) \subseteq Masters \X Buckets BY <1>1 DEF Keys
<1>5. QED BY <1>3, <1>4

(* What is written for a sample of bucket b: the sample itself, if it is   *)
(* due, and the records that were waiting for other buckets.               *)
LEMMA WrittenRecords ==
  ASSUME HistoryInv, NEW m \in Masters, NEW b \in Buckets, NEW sample \in Samples,
         NEW due \in BOOLEAN, NEW now, now = Due(m, b, sample, due),
         NEW write, write = Over(now, Displaced(m, b))
  PROVE  /\ DOMAIN now \subseteq {b}
         /\ DOMAIN write \subseteq Buckets
         /\ b \in DOMAIN write => write[b] = sample
         /\ \A c \in Buckets \ {b} :
              /\ c \in DOMAIN write <=> c \in DOMAIN pending[m]
              /\ c \in DOMAIN write => write[c] = pending[m][c] /\ write[c] \in Samples
         /\ KeysAfter(m, b, now) \subseteq Buckets
<1>1. Backlog(pending[m])
  BY BacklogsOfMasters DEF HistoryInv, HistoryOK
<1>2. /\ DOMAIN now \subseteq {b}
      /\ b \in DOMAIN now => now[b] = sample
  <2>1. now = OneRecord(b, sample) \/ now = NoRecords BY DEF Due
  <2>2. QED BY <2>1, OneIsBacklog, NothingIsBacklogs
<1> DEFINE old == Displaced(m, b)
<1>3. /\ DOMAIN old = DOMAIN pending[m] \ {b}
      /\ \A c \in DOMAIN old : old[c] = pending[m][c]
  BY DEF Displaced, Restrict
<1> HIDE DEF old
<1>4. /\ DOMAIN write = DOMAIN now \cup DOMAIN old
      /\ \A c \in DOMAIN now : write[c] = now[c]
      /\ \A c \in DOMAIN old \ DOMAIN now : write[c] = old[c]
  <2>1. write = Over(now, old) BY DEF old
  <2>2. QED BY <2>1 DEF Over
<1>5. DOMAIN pending[m] \subseteq Buckets /\ \A c \in DOMAIN pending[m] : pending[m][c] \in Samples
  BY <1>1 DEF Backlog
<1>6. DOMAIN write \subseteq Buckets BY <1>2, <1>3, <1>4, <1>5
<1>7. b \in DOMAIN write => write[b] = sample BY <1>2, <1>3, <1>4
<1>8. \A c \in Buckets \ {b} :
        /\ c \in DOMAIN write <=> c \in DOMAIN pending[m]
        /\ c \in DOMAIN write => write[c] = pending[m][c] /\ write[c] \in Samples
  BY <1>2, <1>3, <1>4, <1>5
<1>9. KeysAfter(m, b, now) \subseteq Buckets
  <2>1. Throttled(m) \subseteq Buckets BY KeysAreKeys DEF HistoryInv
  <2>2. QED BY <2>1, <1>2 DEF KeysAfter
<1>10. QED BY <1>2, <1>6, <1>7, <1>8, <1>9

(* What a step at the end of which only point m has changed must show.     *)
LEMMA OnePointKept ==
  ASSUME HistoryInv, ~HasStopped, NEW m \in Masters, UNCHANGED <<stop, flushed, generation>>,
         HistoryOK',
         \A k \in Masters \ {m} :
           pending'[k] = pending[k] /\ table'[k] = table[k] /\ latest'[k] = latest[k],
         \A c \in DOMAIN pending'[m] :
           pending'[m][c].gen = generation /\ pending'[m][c].n = latest'[m][c],
         \A c \in Buckets :
           latest'[m][c] # 0 => \/ table'[m][c].n = latest'[m][c]
                                \/ c \in DOMAIN pending'[m]
  PROVE  PendingIsCurrent' /\ PendingIsLatest' /\ FlushedInOrder' /\ LatestIsKept'
<1>1. PendingIsCurrent'
  BY DEF PendingIsCurrent, HistoryInv
<1>2. PendingIsLatest'
  BY DEF PendingIsLatest, AllLatest, HistoryInv, HasStopped
<1>3. FlushedInOrder'
  BY DEF FlushedInOrder, HasStopped
<1>4. LatestIsKept'
  <2> SUFFICES ASSUME NEW k \in Masters, NEW c \in Buckets, latest'[k][c] # 0
               PROVE  \/ table'[k][c].n = latest'[k][c]
                      \/ c \in DOMAIN pending'[k] /\ pending'[k][c].n = latest'[k][c]
    BY DEF LatestIsKept, OnItsWay, HasStopped
  <2>1. CASE k = m
    BY <2>1
  <2>2. CASE k # m
    <3>1. latest[k][c] # 0 BY <2>2
    <3>2. \/ table[k][c].n = latest[k][c]
          \/ c \in DOMAIN pending[k] /\ pending[k][c].n = latest[k][c]
      BY <3>1 DEF HistoryInv, LatestIsKept, OnItsWay, HasStopped
    <3>3. QED BY <2>2, <3>2
  <2>3. QED BY <2>1, <2>2
<1>5. QED BY <1>1, <1>2, <1>3, <1>4

LEMMA RecordKeeps ==
  ASSUME HistoryInv, ~HasStopped, NEW m \in Masters, NEW b \in Buckets,
         NEW sample \in Samples, sample.gen = generation, NEW due \in BOOLEAN,
         UNCHANGED <<stop, flushed, generation>>, Record(m, b, sample, due)
  PROVE  /\ HistoryOK' /\ PendingIsCurrent' /\ PendingIsLatest'
         /\ FlushedInOrder' /\ LatestIsKept'
<1>1. PICK now : now = Due(m, b, sample, due) OBVIOUS
<1>2. PICK write : write = Over(now, Displaced(m, b)) OBVIOUS
<1>3. /\ table' = [table EXCEPT ![m] = Over(write, table[m])]
      /\ pending' = [pending EXCEPT ![m] = OneRecord(b, sample)]
      /\ throttled' = Keys(m, KeysAfter(m, b, now))
      /\ latest' = [latest EXCEPT ![m][b] = sample.n]
  BY <1>1, <1>2 DEF Record
<1>4. /\ DOMAIN write \subseteq Buckets
      /\ b \in DOMAIN write => write[b] = sample
      /\ \A c \in Buckets \ {b} :
           /\ c \in DOMAIN write <=> c \in DOMAIN pending[m]
           /\ c \in DOMAIN write => write[c] = pending[m][c] /\ write[c] \in Samples
      /\ KeysAfter(m, b, now) \subseteq Buckets
  BY <1>1, <1>2, WrittenRecords
<1>5. /\ HistoryOK /\ Backlogs(pending)
      /\ table \in [Masters -> [Buckets -> Samples \cup {NoSample}]]
      /\ latest \in [Masters -> [Buckets -> Nat]]
  BY DEF HistoryInv, HistoryOK
<1>6. /\ Backlogs(pending') /\ pending'[m] = OneRecord(b, sample)
      /\ \A k \in Masters \ {m} : pending'[k] = pending[k]
  <2>1. Backlog(OneRecord(b, sample)) BY OneIsBacklog
  <2>2. QED BY <2>1, <1>3, <1>5, PendingExcept
<1>7. DOMAIN pending'[m] = {b} /\ pending'[m][b] = sample
  BY <1>6, OneIsBacklog
<1> DEFINE row == Over(write, table[m])
<1>8. row \in [Buckets -> Samples \cup {NoSample}]
  <2>1. DOMAIN table[m] = Buckets /\ \A c \in Buckets : table[m][c] \in Samples \cup {NoSample}
    BY <1>5
  <2>2. DOMAIN row = Buckets /\ \A c \in Buckets : row[c] \in Samples \cup {NoSample}
    <3>1. /\ DOMAIN row = DOMAIN write \cup Buckets
          /\ \A c \in DOMAIN write : row[c] = write[c]
          /\ \A c \in Buckets \ DOMAIN write : row[c] = table[m][c]
      BY <2>1, OverIsUnion
    <3> HIDE DEF row
    <3>2. \A c \in DOMAIN write : write[c] \in Samples BY <1>4
    <3>3. QED BY <3>1, <3>2, <2>1, <1>4
  <2>3. row = [c \in DOMAIN row |-> row[c]] BY <2>1 DEF Over
  <2> HIDE DEF row
  <2>4. QED BY <2>2, <2>3
<1>9. /\ \A c \in DOMAIN write : row[c] = write[c]
      /\ \A c \in Buckets \ DOMAIN write : row[c] = table[m][c]
  <2>1. DOMAIN table[m] = Buckets BY <1>5
  <2>2. QED BY <2>1, OverIsUnion
<1> HIDE DEF row
<1>10. /\ table'[m] = row /\ \A k \in Masters \ {m} : table'[k] = table[k]
       /\ table' \in [Masters -> [Buckets -> Samples \cup {NoSample}]]
  BY <1>3, <1>5, <1>8 DEF row
<1>11. sample.n \in Nat BY DEF Samples
<1>12. /\ latest'[m][b] = sample.n
       /\ \A c \in Buckets \ {b} : latest'[m][c] = latest[m][c]
       /\ \A k \in Masters \ {m} : latest'[k] = latest[k]
       /\ latest' \in [Masters -> [Buckets -> Nat]]
  BY <1>3, <1>5, <1>11
<1>13. throttled' \subseteq Masters \X Buckets
  BY <1>3, <1>4, <1>5, KeysAreKeys
<1>14. HistoryOK'
  BY <1>5, <1>6, <1>10, <1>12, <1>13 DEF HistoryOK
<1>15. \A c \in DOMAIN pending'[m] :
         pending'[m][c].gen = generation /\ pending'[m][c].n = latest'[m][c]
  BY <1>7, <1>12
<1>16. ASSUME NEW c \in Buckets, latest'[m][c] # 0
       PROVE  table'[m][c].n = latest'[m][c] \/ c \in DOMAIN pending'[m]
  <2>1. CASE c = b
    BY <2>1, <1>7
  <2>2. CASE c # b /\ c \in DOMAIN write
    <3>1. table'[m][c] = pending[m][c] BY <2>2, <1>4, <1>9, <1>10
    <3>2. c \in DOMAIN pending[m] BY <2>2, <1>4
    <3>3. pending[m][c].n = latest[m][c] BY <3>2 DEF HistoryInv, PendingIsLatest, AllLatest, HasStopped
    <3>4. QED BY <3>1, <3>3, <2>2, <1>12
  <2>3. CASE c # b /\ c \notin DOMAIN write
    <3>1. c \notin DOMAIN pending[m] BY <2>3, <1>4
    <3>2. latest[m][c] # 0 BY <2>3, <1>12, <1>16
    <3>3. table[m][c].n = latest[m][c]
      BY <3>1, <3>2 DEF HistoryInv, LatestIsKept, OnItsWay, HasStopped
    <3>4. QED BY <3>3, <2>3, <1>9, <1>10, <1>12
  <2>4. QED BY <2>1, <2>2, <2>3
<1>17. QED
  BY <1>6, <1>10, <1>12, <1>14, <1>15, <1>16, OnePointKept

LEMMA RestoreKeeps ==
  ASSUME HistoryInv, ~HasStopped, NEW m \in Masters, NEW b \in Buckets,
         NEW sample \in Samples, sample.gen = generation, NEW due \in BOOLEAN,
         UNCHANGED <<stop, flushed, generation>>, Restore(m, b, sample, due)
  PROVE  /\ HistoryOK' /\ PendingIsCurrent' /\ PendingIsLatest'
         /\ FlushedInOrder' /\ LatestIsKept'
<1>1. PICK now : now = Due(m, b, sample, due) OBVIOUS
<1>2. PICK write : write = Over(now, Displaced(m, b)) OBVIOUS
<1>3. PICK backlog : backlog = Over(write, OneRecord(b, sample)) OBVIOUS
<1>4. PICK kept : kept = Newest(DOMAIN backlog) OBVIOUS
<1>5. PICK lost : lost = DOMAIN backlog \ kept OBVIOUS
<1>6. /\ pending' = [pending EXCEPT ![m] = Restrict(backlog, kept)]
      /\ throttled' = Keys(m, (KeysAfter(m, b, now) \cup DOMAIN write) \ lost)
      /\ latest' = [latest EXCEPT ![m] =
           [c \in Buckets |-> IF c \in lost THEN 0 ELSE IF c = b THEN sample.n ELSE latest[m][c]]]
      /\ table' = table
  BY <1>1, <1>2, <1>3, <1>4, <1>5 DEF Restore
<1>7. /\ DOMAIN write \subseteq Buckets
      /\ b \in DOMAIN write => write[b] = sample
      /\ \A c \in Buckets \ {b} :
           /\ c \in DOMAIN write <=> c \in DOMAIN pending[m]
           /\ c \in DOMAIN write => write[c] = pending[m][c] /\ write[c] \in Samples
      /\ KeysAfter(m, b, now) \subseteq Buckets
  BY <1>1, <1>2, WrittenRecords
<1>8. /\ DOMAIN backlog = DOMAIN write \cup {b}
      /\ backlog[b] = sample
      /\ \A c \in DOMAIN write : backlog[c] = write[c]
  <2>1. DOMAIN OneRecord(b, sample) = {b} /\ OneRecord(b, sample)[b] = sample
    BY OneIsBacklog
  <2>2. /\ DOMAIN backlog = DOMAIN write \cup DOMAIN OneRecord(b, sample)
        /\ \A c \in DOMAIN write : backlog[c] = write[c]
        /\ \A c \in DOMAIN OneRecord(b, sample) \ DOMAIN write :
             backlog[c] = OneRecord(b, sample)[c]
    BY <1>3 DEF Over
  <2>3. QED BY <2>1, <2>2, <1>7
<1>9. /\ DOMAIN backlog \subseteq Buckets
      /\ \A c \in DOMAIN backlog : backlog[c] \in Samples
  BY <1>7, <1>8
<1>10. kept \subseteq DOMAIN backlog /\ Cardinality(kept) <= MaxPending
  BY <1>4, <1>9, NewestIsBounded
<1> DEFINE new == Restrict(backlog, kept)
<1>11. DOMAIN new = kept /\ new = [c \in DOMAIN new |-> new[c]]
       /\ \A c \in kept : new[c] = backlog[c]
  BY DEF Restrict
<1> HIDE DEF new
<1>12. Backlog(new)
  BY <1>9, <1>10, <1>11 DEF Backlog
<1>13. /\ HistoryOK /\ Backlogs(pending) /\ latest \in [Masters -> [Buckets -> Nat]]
  BY DEF HistoryInv, HistoryOK
<1>14. /\ Backlogs(pending') /\ pending'[m] = new
       /\ \A k \in Masters \ {m} : pending'[k] = pending[k]
  <2>1. pending' = [pending EXCEPT ![m] = new] BY <1>6 DEF new
  <2>2. QED BY <2>1, <1>12, <1>13, PendingExcept
<1>15. sample.n \in Nat BY DEF Samples
<1>16. latest[m] \in [Buckets -> Nat] BY <1>13
<1> DEFINE last == [c \in Buckets |->
             IF c \in lost THEN 0 ELSE IF c = b THEN sample.n ELSE latest[m][c]]
<1>17. last \in [Buckets -> Nat] BY <1>15, <1>16
<1>18. \A c \in Buckets :
         last[c] = IF c \in lost THEN 0 ELSE IF c = b THEN sample.n ELSE latest[m][c]
  OBVIOUS
<1>19. latest' = [latest EXCEPT ![m] = last] BY <1>6
<1> HIDE DEF last
<1>20. /\ latest' \in [Masters -> [Buckets -> Nat]] /\ latest'[m] = last
       /\ \A k \in Masters \ {m} : latest'[k] = latest[k]
  BY <1>13, <1>17, <1>19
<1>21. throttled' \subseteq Masters \X Buckets
  <2>1. (KeysAfter(m, b, now) \cup DOMAIN write) \ lost \subseteq Buckets BY <1>7
  <2>2. QED BY <2>1, <1>6, <1>13, KeysAreKeys
<1>22. HistoryOK'
  BY <1>6, <1>13, <1>14, <1>20, <1>21 DEF HistoryOK
<1>23. ASSUME NEW c \in DOMAIN pending'[m]
       PROVE  pending'[m][c].gen = generation /\ pending'[m][c].n = latest'[m][c]
  <2>1. c \in kept /\ pending'[m][c] = backlog[c] /\ c \in Buckets /\ c \notin lost
    BY <1>5, <1>9, <1>10, <1>11, <1>14
  <2>2. CASE c = b
    BY <2>1, <2>2, <1>8, <1>18, <1>20
  <2>3. CASE c # b
    <3>1. c \in DOMAIN pending[m] /\ backlog[c] = pending[m][c]
      BY <2>1, <2>3, <1>7, <1>8, <1>10
    <3>2. pending[m][c].gen = generation /\ pending[m][c].n = latest[m][c]
      BY <3>1 DEF HistoryInv, PendingIsCurrent, PendingIsLatest, AllLatest, HasStopped
    <3>3. latest'[m][c] = latest[m][c]
      BY <2>1, <2>3, <1>18, <1>20
    <3>4. QED BY <2>1, <3>1, <3>2, <3>3
  <2>4. QED BY <2>2, <2>3
<1>24. ASSUME NEW c \in Buckets, latest'[m][c] # 0
       PROVE  table'[m][c].n = latest'[m][c] \/ c \in DOMAIN pending'[m]
  <2>1. c \notin lost BY <1>18, <1>20, <1>24
  <2>2. CASE c \in DOMAIN backlog
    BY <2>1, <2>2, <1>5, <1>11, <1>14
  <2>3. CASE c \notin DOMAIN backlog
    <3>1. c # b /\ c \notin DOMAIN pending[m] BY <2>3, <1>7, <1>8
    <3>2. latest'[m][c] = latest[m][c] BY <2>1, <3>1, <1>18, <1>20
    <3>3. table[m][c].n = latest[m][c]
      BY <3>1, <3>2, <1>24 DEF HistoryInv, LatestIsKept, OnItsWay, HasStopped
    <3>4. QED BY <3>2, <3>3, <1>6
  <2>4. QED BY <2>2, <2>3
<1>25. QED
  BY <1>6, <1>14, <1>20, <1>22, <1>23, <1>24, OnePointKept

LEMMA RemoveKeeps ==
  ASSUME HistoryInv, ~HasStopped, NEW m \in Masters, NEW b \in Buckets,
         NEW sample \in Samples, sample.gen = generation, NEW due \in BOOLEAN,
         UNCHANGED <<stop, flushed, generation>>, Remove(m, b, sample, due)
  PROVE  /\ HistoryOK' /\ PendingIsCurrent' /\ PendingIsLatest'
         /\ FlushedInOrder' /\ LatestIsKept'
<1>1. PICK now : now = Due(m, b, sample, due) OBVIOUS
<1>2. PICK lost : lost = DOMAIN Displaced(m, b) OBVIOUS
<1>3. PICK last : last = [c \in Buckets |->
             IF c = b THEN sample.n ELSE IF c \in lost THEN 0 ELSE latest[m][c]]
      OBVIOUS
<1>4. /\ table' = table
      /\ pending' = [pending EXCEPT ![m] = OneRecord(b, sample)]
      /\ throttled' = Keys(m, KeysAfter(m, b, now))
      /\ latest' = [latest EXCEPT ![m] = last]
  BY <1>1, <1>2, <1>3 DEF Remove
<1>5. KeysAfter(m, b, now) \subseteq Buckets
  <2>1. PICK write : write = Over(now, Displaced(m, b)) OBVIOUS
  <2>2. QED BY <2>1, <1>1, WrittenRecords
<1>6. lost = DOMAIN pending[m] \ {b}
  BY <1>2 DEF Displaced, Restrict
<1>7. /\ HistoryOK /\ Backlogs(pending) /\ latest \in [Masters -> [Buckets -> Nat]]
  BY DEF HistoryInv, HistoryOK
<1>8. /\ Backlogs(pending') /\ pending'[m] = OneRecord(b, sample)
      /\ \A k \in Masters \ {m} : pending'[k] = pending[k]
  <2>1. Backlog(OneRecord(b, sample)) BY OneIsBacklog
  <2>2. QED BY <2>1, <1>4, <1>7, PendingExcept
<1>9. DOMAIN pending'[m] = {b} /\ pending'[m][b] = sample
  BY <1>8, OneIsBacklog
<1>10. last \in [Buckets -> Nat]
  <2>1. sample.n \in Nat /\ latest[m] \in [Buckets -> Nat] BY <1>7 DEF Samples
  <2>2. QED BY <2>1, <1>3
<1>11. \A c \in Buckets :
         last[c] = IF c = b THEN sample.n ELSE IF c \in lost THEN 0 ELSE latest[m][c]
  BY <1>3
<1>12. /\ latest' \in [Masters -> [Buckets -> Nat]] /\ latest'[m] = last
       /\ \A k \in Masters \ {m} : latest'[k] = latest[k]
  BY <1>4, <1>7, <1>10
<1>13. throttled' \subseteq Masters \X Buckets
  BY <1>4, <1>5, <1>7, KeysAreKeys
<1>14. HistoryOK'
  BY <1>4, <1>7, <1>8, <1>12, <1>13 DEF HistoryOK
<1>15. \A c \in DOMAIN pending'[m] :
         pending'[m][c].gen = generation /\ pending'[m][c].n = latest'[m][c]
  BY <1>9, <1>11, <1>12
<1>16. ASSUME NEW c \in Buckets, latest'[m][c] # 0
       PROVE  table'[m][c].n = latest'[m][c] \/ c \in DOMAIN pending'[m]
  <2>1. CASE c = b
    BY <2>1, <1>9
  <2>2. CASE c # b
    <3>1. c \notin lost /\ latest'[m][c] = latest[m][c] BY <2>2, <1>11, <1>12, <1>16
    <3>2. c \notin DOMAIN pending[m] BY <2>2, <3>1, <1>6
    <3>3. table[m][c].n = latest[m][c]
      BY <3>1, <3>2, <1>16 DEF HistoryInv, LatestIsKept, OnItsWay, HasStopped
    <3>4. QED BY <3>1, <3>3, <1>4
  <2>3. QED BY <2>1, <2>2
<1>17. QED
  BY <1>4, <1>8, <1>12, <1>14, <1>15, <1>16, OnePointKept

LEMMA WriteHistoryKeeps ==
  ASSUME HistoryInv, WriteHistory
  PROVE  /\ HistoryOK' /\ PendingIsCurrent' /\ PendingIsLatest'
         /\ FlushedInOrder' /\ LatestIsKept'
<1> DEFINE t == consumer.task
<1>1. /\ consumer.at = "history" /\ t.gen = generation
      /\ UNCHANGED <<stop, flushed, generation>>
  BY DEF WriteHistory, Current, time, ending
<1>2. t \in Tasks
  BY <1>1 DEF HistoryInv, ControlOK
<1>3. ~HasStopped
  BY <1>1 DEF HistoryInv, ConsumerJoined
<1>4. CASE UNCHANGED records
  <2>1. UNCHANGED <<pending, throttled, table, latest>> BY <1>4 DEF records
  <2>2. HistoryOK' BY <2>1, <1>1 DEF HistoryInv, HistoryOK, Backlogs
  <2>3. QED
    BY <2>1, <2>2, <1>1 DEF HistoryInv, PendingIsCurrent, PendingIsLatest, AllLatest,
         FlushedInOrder, AllCurrent, NothingLatest, LatestIsKept, OnItsWay
<1>5. CASE \E due \in BOOLEAN :
             \/ Record(t.m, t.bucket, Sample(t), due)
             \/ Restore(t.m, t.bucket, Sample(t), due)
             \/ Remove(t.m, t.bucket, Sample(t), due)
  <2>1. t.m \in Masters /\ t.bucket \in Buckets BY <1>2 DEF Tasks
  <2>2. Sample(t) \in Samples /\ Sample(t).gen = generation
    BY <1>1, <1>2 DEF Tasks, Sample, Samples
  <2>3. PICK due \in BOOLEAN :
          \/ Record(t.m, t.bucket, Sample(t), due)
          \/ Restore(t.m, t.bucket, Sample(t), due)
          \/ Remove(t.m, t.bucket, Sample(t), due)
    BY <1>5
  <2>4. CASE Record(t.m, t.bucket, Sample(t), due)
    BY <2>1, <2>2, <2>4, <1>1, <1>3, RecordKeeps
  <2>5. CASE Restore(t.m, t.bucket, Sample(t), due)
    BY <2>1, <2>2, <2>5, <1>1, <1>3, RestoreKeeps
  <2>6. CASE Remove(t.m, t.bucket, Sample(t), due)
    BY <2>1, <2>2, <2>6, <1>1, <1>3, RemoveKeeps
  <2>7. QED BY <2>3, <2>4, <2>5, <2>6
<1>6. QED BY <1>4, <1>5 DEF WriteHistory

-----------------------------------------------------------------------------
(* Part 7: changes of time and the last write.                             *)

Kept == HistoryOK /\ PendingIsCurrent /\ PendingIsLatest /\ FlushedInOrder /\ LatestIsKept

LEMMA TimeAdjustedKeeps ==
  ASSUME HistoryInv, TimeAdjusted
  PROVE  Kept'
<1>1. /\ generation' = generation + 1 /\ pending' = Nothing /\ throttled' = {}
      /\ latest' = [m \in Masters |-> [b \in Buckets |-> 0]]
      /\ UNCHANGED <<table, stop, flushed>>
  BY DEF TimeAdjusted, ending
<1>2. generation \in Nat BY DEF HistoryInv, ControlOK
<1>3. HistoryOK'
  <2>1. Backlogs(pending') BY <1>1, NothingIsBacklogs
  <2>2. latest' \in [Masters -> [Buckets -> Nat]] BY <1>1
  <2>3. QED BY <2>1, <2>2, <1>1 DEF HistoryInv, HistoryOK, Backlogs
<1>4. \A m \in Masters : DOMAIN pending'[m] = {}
  BY <1>1, NothingIsBacklogs DEF Nothing
<1>5. PendingIsCurrent' /\ PendingIsLatest'
  BY <1>4 DEF PendingIsCurrent, PendingIsLatest, AllLatest
<1>6. NothingLatest'
  BY <1>1 DEF NothingLatest
<1>7. LatestIsKept'
  BY <1>6 DEF LatestIsKept, NothingLatest
<1>8. FlushedInOrder'
  <2> SUFFICES ASSUME stop \in {"flushing", "writing"}
               PROVE  FlushedInOrder'
    BY <1>1 DEF FlushedInOrder
  <2>1. AllCurrent(flushed.records, flushed.gen) /\ flushed.gen <= generation
    BY DEF HistoryInv, FlushedInOrder
  <2>2. flushed.gen \in Nat BY DEF HistoryInv, HistoryOK
  <2>3. flushed.gen <= generation' /\ flushed.gen # generation' BY <2>1, <2>2, <1>1, <1>2
  <2>4. AllCurrent(flushed.records, flushed.gen)' BY <2>1, <1>1 DEF AllCurrent
  <2>5. pending' = Nothing' BY <1>1 DEF Nothing, NoRecords
  <2>6. flushed'.gen = flushed.gen BY <1>1
  <2>7. QED BY <2>3, <2>4, <2>5, <2>6, <1>6 DEF FlushedInOrder
<1>9. QED BY <1>3, <1>5, <1>7, <1>8 DEF Kept

LEMMA FlushTakeKeeps ==
  ASSUME HistoryInv, FlushTake
  PROVE  Kept'
<1>1. /\ stop = "draining" /\ stop' = "flushing"
      /\ flushed' = [gen |-> generation, records |-> pending]
      /\ pending' = Nothing /\ throttled' = {}
      /\ UNCHANGED <<generation, table, latest>>
  BY DEF FlushTake, time
<1>2. generation \in Nat BY DEF HistoryInv, ControlOK
<1>3. flushed'.gen = generation /\ flushed'.records = pending
  BY <1>1
<1>4. HistoryOK'
  <2>1. Backlogs(pending') BY <1>1, NothingIsBacklogs
  <2>2. Backlogs(flushed'.records)
    <3>1. Backlogs(pending) BY DEF HistoryInv, HistoryOK
    <3>2. QED BY <3>1, <1>3
  <2>3. flushed' = [gen |-> flushed'.gen, records |-> flushed'.records] /\ flushed'.gen \in Nat
    BY <1>1, <1>2
  <2>4. /\ table' \in [Masters -> [Buckets -> Samples \cup {NoSample}]]
        /\ latest' \in [Masters -> [Buckets -> Nat]]
        /\ throttled' \subseteq Masters \X Buckets
    BY <1>1 DEF HistoryInv, HistoryOK
  <2>5. QED BY <2>1, <2>2, <2>3, <2>4 DEF HistoryOK
<1>5. \A m \in Masters : DOMAIN pending'[m] = {}
  BY <1>1, NothingIsBacklogs DEF Nothing
<1>6. PendingIsCurrent' /\ PendingIsLatest'
  BY <1>5 DEF PendingIsCurrent, PendingIsLatest, AllLatest
<1>7. FlushedInOrder'
  <2>1. \A m \in Masters : \A b \in DOMAIN pending[m] :
          pending[m][b].gen = generation /\ pending[m][b].n = latest[m][b]
    BY <1>1 DEF HistoryInv, PendingIsCurrent, PendingIsLatest, AllLatest
  <2>2. AllCurrent(flushed.records, flushed.gen)' /\ AllLatest(flushed.records)'
    BY <2>1, <1>1, <1>3 DEF AllCurrent, AllLatest
  <2>3. flushed'.gen <= generation' /\ flushed'.gen = generation' BY <1>1, <1>2, <1>3
  <2>4. pending' = Nothing' BY <1>1 DEF Nothing, NoRecords
  <2>5. QED BY <2>2, <2>3, <2>4 DEF FlushedInOrder
<1>8. LatestIsKept'
  BY <1>1, <1>3 DEF HistoryInv, LatestIsKept, OnItsWay
<1>9. QED BY <1>4, <1>6, <1>7, <1>8 DEF Kept

LEMMA WithoutIs ==
  ASSUME NEW lost, latest \in [Masters -> [Buckets -> Nat]]
  PROVE  /\ Without(lost) \in [Masters -> [Buckets -> Nat]]
         /\ \A m \in Masters : \A b \in Buckets :
              Without(lost)[m][b] = IF b \in lost[m] THEN 0 ELSE latest[m][b]
BY DEF Without

(* What is removed is no longer claimed, so that the claims stay those of  *)
(* what is left.                                                           *)
LEMMA FlushCheckKeeps ==
  ASSUME HistoryInv, FlushCheck
  PROVE  Kept'
<1>1. PICK off \in SUBSET Masters :
        /\ flushed' = [flushed EXCEPT !.records =
                         [m \in Masters |-> IF m \in off THEN NoRecords ELSE @[m]]]
        /\ latest' = Without(BucketsOf(flushed.records, off))
  BY DEF FlushCheck
<1>2. /\ stop = "flushing"
      /\ stop' = IF flushed.gen = generation /\ flushed'.records # Nothing
                 THEN "writing" ELSE "stopped"
      /\ UNCHANGED <<generation, pending, throttled, table>>
  BY DEF FlushCheck, time
<1>3. PICK held : held = flushed.records OBVIOUS
<1>4. PICK left : left = [m \in Masters |-> IF m \in off THEN NoRecords ELSE held[m]] OBVIOUS
<1>5. /\ HistoryOK /\ Backlogs(held) /\ \A m \in Masters : Backlog(held[m])
      /\ latest \in [Masters -> [Buckets -> Nat]]
      /\ flushed = [gen |-> flushed.gen, records |-> held] /\ flushed.gen \in Nat
  BY <1>3, BacklogsOfMasters DEF HistoryInv, HistoryOK
<1>6. flushed' = [gen |-> flushed.gen, records |-> left]
  BY <1>1, <1>3, <1>4, <1>5
<1>7. flushed'.gen = flushed.gen /\ flushed'.records = left
  BY <1>6
<1>8. /\ latest' \in [Masters -> [Buckets -> Nat]]
      /\ \A m \in Masters : \A b \in Buckets :
           latest'[m][b] = IF m \in off /\ b \in DOMAIN held[m] THEN 0 ELSE latest[m][b]
  <2>1. PICK lost : lost = BucketsOf(held, off) OBVIOUS
  <2>2. \A m \in Masters : \A b \in Buckets : b \in lost[m] <=> m \in off /\ b \in DOMAIN held[m]
    BY <2>1 DEF BucketsOf
  <2>3. latest' = Without(lost) BY <1>1, <1>3, <2>1
  <2>4. QED BY <2>2, <2>3, <1>5, WithoutIs
<1>9. \A m \in Masters : IF m \in off THEN left[m] = NoRecords ELSE left[m] = held[m]
  BY <1>4
<1>10. Backlogs(left)
  <2>1. Backlog(NoRecords) BY NothingIsBacklogs
  <2>2. \A m \in Masters : Backlog(left[m]) BY <2>1, <1>5, <1>9
  <2>3. left = [m \in Masters |-> left[m]] BY <1>4
  <2>4. QED BY <2>2, <2>3, BacklogsOfMasters
<1>11. HistoryOK'
  <2>1. flushed' = [gen |-> flushed'.gen, records |-> flushed'.records] BY <1>6, <1>7
  <2>2. Backlogs(flushed'.records) BY <1>7, <1>10
  <2>3. Backlogs(pending') BY <1>2, <1>5 DEF HistoryOK
  <2>4. QED BY <2>1, <2>2, <2>3, <1>2, <1>5, <1>7, <1>8 DEF HistoryOK
<1>12. \A m \in Masters : DOMAIN pending'[m] = {}
  <2>1. pending = Nothing BY <1>2 DEF HistoryInv, FlushedInOrder
  <2>2. QED BY <2>1, <1>2, NothingIsBacklogs DEF Nothing
<1>13. PendingIsCurrent' /\ PendingIsLatest'
  BY <1>12 DEF PendingIsCurrent, PendingIsLatest, AllLatest
<1>14. \A m \in Masters : \A b \in DOMAIN left[m] :
         m \notin off /\ b \in DOMAIN held[m] /\ left[m][b] = held[m][b] /\ b \in Buckets
  <2>1. \A m \in Masters : DOMAIN held[m] \subseteq Buckets BY <1>5 DEF Backlog
  <2>2. QED BY <2>1, <1>9, NothingIsBacklogs
<1>15. /\ pending = Nothing /\ AllCurrent(held, flushed.gen) /\ flushed.gen <= generation
       /\ IF flushed.gen = generation THEN AllLatest(held) ELSE NothingLatest
  BY <1>2, <1>3 DEF HistoryInv, FlushedInOrder
<1>16. FlushedInOrder'
  <2>1. AllCurrent(left, flushed.gen)
    BY <1>14, <1>15 DEF AllCurrent
  <2>2. AllCurrent(flushed.records, flushed.gen)'
    BY <2>1, <1>7 DEF AllCurrent
  <2>3. CASE flushed.gen = generation
    <3>1. \A m \in Masters : \A b \in DOMAIN left[m] : left[m][b].n = latest'[m][b]
      BY <2>3, <1>8, <1>14, <1>15 DEF AllLatest
    <3>2. AllLatest(flushed.records)'
      BY <3>1, <1>7 DEF AllLatest
    <3>3. QED BY <2>2, <2>3, <3>2, <1>2, <1>7, <1>15 DEF FlushedInOrder, Nothing, NoRecords
  <2>4. CASE flushed.gen # generation
    <3>1. NothingLatest' BY <2>4, <1>8, <1>15 DEF NothingLatest
    <3>2. QED BY <2>2, <2>4, <3>1, <1>2, <1>7, <1>15 DEF FlushedInOrder, Nothing, NoRecords
  <2>5. QED BY <2>3, <2>4
<1>17. ASSUME NEW m \in Masters, NEW b \in Buckets, latest'[m][b] # 0
       PROVE  \/ table[m][b].n = latest'[m][b]
              \/ /\ stop' = "writing"
                 /\ b \in DOMAIN left[m] /\ left[m][b].n = latest'[m][b]
  <2>1. latest'[m][b] = latest[m][b] /\ ~(m \in off /\ b \in DOMAIN held[m])
    BY <1>8, <1>17
  <2>2. flushed.gen = generation BY <2>1, <1>15, <1>17 DEF NothingLatest
  <2>3. \/ table[m][b].n = latest[m][b]
        \/ b \in DOMAIN held[m] /\ held[m][b].n = latest[m][b]
    BY <2>1, <1>2, <1>3, <1>12, <1>17 DEF HistoryInv, LatestIsKept, OnItsWay
  <2>4. CASE b \in DOMAIN held[m] /\ held[m][b].n = latest[m][b]
    <3>1. left[m] = held[m] BY <2>1, <2>4, <1>9
    <3>2. left # Nothing
      BY <2>4, <3>1, NothingIsBacklogs DEF Nothing
    <3>3. stop' = "writing" BY <2>2, <3>2, <1>2, <1>7
    <3>4. QED BY <2>1, <2>4, <3>1, <3>3
  <2>5. QED BY <2>1, <2>3, <2>4
<1>18. LatestIsKept'
  BY <1>2, <1>7, <1>17 DEF LatestIsKept, OnItsWay
<1>19. QED BY <1>11, <1>13, <1>16, <1>18 DEF Kept

LEMMA FlushWriteKeeps ==
  ASSUME HistoryInv, FlushWrite
  PROVE  Kept'
<1> DEFINE held == flushed.records
<1>1. stop = "writing" /\ stop' = "stopped" /\ UNCHANGED <<generation, flushed>>
  BY DEF FlushWrite, time
<1>2. FlushedInOrder' BY <1>1 DEF FlushedInOrder
<1>3. /\ pending = Nothing
      /\ AllCurrent(held, flushed.gen)
      /\ IF flushed.gen = generation THEN AllLatest(held) ELSE NothingLatest
  BY <1>1 DEF HistoryInv, FlushedInOrder
<1>4. \A m \in Masters : DOMAIN pending[m] = {}
  BY <1>3, NothingIsBacklogs DEF Nothing
<1>5. /\ HistoryOK
      /\ Backlogs(held) /\ \A m \in Masters : Backlog(held[m])
      /\ table \in [Masters -> [Buckets -> Samples \cup {NoSample}]]
  BY BacklogsOfMasters DEF HistoryInv, HistoryOK
<1>6. CASE /\ table' = [m \in Masters |-> Over(held[m], table[m])]
           /\ UNCHANGED <<pending, throttled, latest>>
  <2>1. ASSUME NEW m \in Masters
        PROVE  /\ table'[m] \in [Buckets -> Samples \cup {NoSample}]
               /\ \A c \in Buckets :
                    table'[m][c] = IF c \in DOMAIN held[m] THEN held[m][c] ELSE table[m][c]
    <3>1. /\ table'[m] = Over(held[m], table[m])
          /\ DOMAIN table[m] = Buckets
          /\ \A c \in Buckets : table[m][c] \in Samples \cup {NoSample}
      BY <1>5, <1>6
    <3>2. /\ DOMAIN held[m] \subseteq Buckets
          /\ \A c \in DOMAIN held[m] : held[m][c] \in Samples
      BY <1>5 DEF Backlog
    <3>3. table'[m] = [c \in Buckets |-> IF c \in DOMAIN held[m] THEN held[m][c] ELSE table[m][c]]
      <4>1. DOMAIN held[m] \cup DOMAIN table[m] = Buckets BY <3>1, <3>2
      <4>2. QED BY <3>1, <4>1 DEF Over
    <3>4. QED BY <3>1, <3>2, <3>3
  <2>2. table' \in [Masters -> [Buckets -> Samples \cup {NoSample}]]
    BY <2>1, <1>6
  <2>3. HistoryOK'
    BY <2>2, <1>1, <1>5, <1>6 DEF HistoryOK, Backlogs
  <2>4. PendingIsCurrent' /\ PendingIsLatest'
    BY <1>1, <1>4, <1>6 DEF PendingIsCurrent, PendingIsLatest
  <2>5. LatestIsKept'
    <3> SUFFICES ASSUME NEW m \in Masters, NEW c \in Buckets, latest[m][c] # 0
                 PROVE  table'[m][c].n = latest[m][c]
      BY <1>6 DEF LatestIsKept
    <3>1. flushed.gen = generation BY <1>3 DEF NothingLatest
    <3>2. CASE c \in DOMAIN held[m]
      BY <3>1, <3>2, <2>1, <1>3 DEF AllLatest
    <3>3. CASE c \notin DOMAIN held[m]
      <4>1. table[m][c].n = latest[m][c]
        BY <3>3, <1>4 DEF HistoryInv, LatestIsKept, OnItsWay
      <4>2. QED BY <4>1, <3>3, <2>1
    <3>4. QED BY <3>2, <3>3
  <2>6. QED BY <2>3, <2>4, <2>5, <1>2 DEF Kept
<1>7. CASE /\ flushed.gen = generation
           /\ pending' = held
           /\ throttled' = {key \in Masters \X Buckets : key[2] \in DOMAIN held[key[1]]}
           /\ latest' = Without(BucketsOf(held, Masters))
           /\ UNCHANGED table
  <2>1. PICK lost : lost = BucketsOf(held, Masters) OBVIOUS
  <2>2. \A m \in Masters : lost[m] = DOMAIN held[m]
    BY <2>1 DEF BucketsOf
  <2>3. /\ latest' \in [Masters -> [Buckets -> Nat]]
        /\ \A m \in Masters : \A c \in Buckets :
             latest'[m][c] = IF c \in DOMAIN held[m] THEN 0 ELSE latest[m][c]
    <3>1. latest \in [Masters -> [Buckets -> Nat]] BY <1>5 DEF HistoryOK
    <3>2. QED BY <2>1, <2>2, <3>1, <1>7, WithoutIs
  <2>4. HistoryOK'
    <3>1. Backlogs(pending') BY <1>5, <1>7
    <3>2. throttled' \subseteq Masters \X Buckets BY <1>7
    <3>3. Backlogs(flushed'.records) BY <1>1, <1>5
    <3>4. QED BY <2>3, <3>1, <3>2, <3>3, <1>1, <1>5, <1>7 DEF HistoryOK
  <2>5. PendingIsCurrent' /\ PendingIsLatest'
    BY <1>1, <1>3, <1>7 DEF PendingIsCurrent, PendingIsLatest, AllCurrent
  <2>6. LatestIsKept'
    <3> SUFFICES ASSUME NEW m \in Masters, NEW c \in Buckets, latest'[m][c] # 0
                 PROVE  table[m][c].n = latest'[m][c]
      BY <1>7 DEF LatestIsKept
    <3>1. c \notin DOMAIN held[m] /\ latest'[m][c] = latest[m][c] BY <2>3
    <3>2. QED BY <3>1, <1>4 DEF HistoryInv, LatestIsKept, OnItsWay
  <2>7. QED BY <2>4, <2>5, <2>6, <1>2 DEF Kept
<1>8. CASE flushed.gen # generation /\ UNCHANGED <<pending, throttled, table, latest>>
  <2>1. HistoryOK' BY <1>1, <1>5, <1>8 DEF HistoryOK, Backlogs
  <2>2. PendingIsCurrent' /\ PendingIsLatest'
    BY <1>1, <1>4, <1>8 DEF PendingIsCurrent, PendingIsLatest
  <2>3. LatestIsKept' BY <1>3, <1>8 DEF LatestIsKept, NothingLatest
  <2>4. QED BY <2>1, <2>2, <2>3, <1>2 DEF Kept
<1>9. QED BY <1>6, <1>7, <1>8 DEF FlushWrite

-----------------------------------------------------------------------------
(* Part 8: the invariant of the history.                                   *)

LEMMA HistoryInit == Init => HistoryInv
<1> SUFFICES ASSUME Init PROVE HistoryInv
  OBVIOUS
<1>1. /\ pending = Nothing /\ throttled = {} /\ stop = "running" /\ generation = 0
      /\ flushed = [gen |-> 0, records |-> Nothing]
      /\ table = [m \in Masters |-> [b \in Buckets |-> NoSample]]
      /\ latest = [m \in Masters |-> [b \in Buckets |-> 0]]
  BY DEF Init
<1>2. \A m \in Masters : DOMAIN pending[m] = {}
  BY <1>1, NothingIsBacklogs DEF Nothing
<1>3. HistoryOK
  <2>1. Backlogs(pending) /\ Backlogs(flushed.records) BY <1>1, NothingIsBacklogs
  <2>2. /\ table \in [Masters -> [Buckets -> Samples \cup {NoSample}]]
        /\ latest \in [Masters -> [Buckets -> Nat]]
    BY <1>1
  <2>3. flushed = [gen |-> flushed.gen, records |-> flushed.records] /\ flushed.gen \in Nat
    BY <1>1
  <2>4. QED BY <1>1, <2>1, <2>2, <2>3 DEF HistoryOK
<1>4. ConsumerJoined /\ FlushedInOrder
  BY <1>1 DEF ConsumerJoined, HasStopped, FlushedInOrder
<1>5. PendingIsCurrent /\ PendingIsLatest
  BY <1>2 DEF PendingIsCurrent, PendingIsLatest, AllLatest
<1>6. LatestIsKept
  BY <1>1 DEF LatestIsKept
<1>7. QED BY <1>3, <1>4, <1>5, <1>6, ControlInit DEF HistoryInv

(* The steps that neither touch the history nor begin the last write.      *)
LEMMA HistoryUntouched ==
  ASSUME HistoryInv, UNCHANGED <<records, flushed, generation>>,
         stop' = stop \/ (~HasStopped /\ ~HasStopped')
  PROVE  Kept'
<1>1. UNCHANGED <<pending, throttled, table, latest>> BY DEF records
<1>2. HistoryOK' BY <1>1 DEF HistoryInv, HistoryOK, Backlogs
<1>3. PendingIsCurrent' /\ PendingIsLatest'
  BY <1>1 DEF HistoryInv, PendingIsCurrent, PendingIsLatest, AllLatest, HasStopped
<1>4. CASE stop' = stop
  <2>1. FlushedInOrder'
    BY <1>1, <1>4 DEF HistoryInv, FlushedInOrder, AllCurrent, AllLatest, NothingLatest, Nothing,
                      NoRecords
  <2>2. LatestIsKept'
    BY <1>1, <1>4 DEF HistoryInv, LatestIsKept, OnItsWay
  <2>3. QED BY <1>2, <1>3, <2>1, <2>2 DEF Kept
<1>5. CASE ~HasStopped /\ ~HasStopped'
  <2>1. FlushedInOrder'
    BY <1>5 DEF FlushedInOrder, HasStopped
  <2>2. LatestIsKept'
    BY <1>1, <1>5 DEF HistoryInv, LatestIsKept, OnItsWay, HasStopped
  <2>3. QED BY <1>2, <1>3, <2>1, <2>2 DEF Kept
<1>6. QED BY <1>4, <1>5

LEMMA HistoryStep == HistoryInv /\ [Next]_vars => HistoryInv'
<1> SUFFICES ASSUME HistoryInv, [Next]_vars PROVE HistoryInv'
  OBVIOUS
<1>1. ControlOK' BY ControlStep DEF HistoryInv
<1>2. Kept'
  <2>1. CASE \E m \in Masters : Worker(m)
    <3>1. UNCHANGED <<records, flushed, generation>> /\ stop' = stop
      BY <2>1 DEF Worker, Collect, Discard, Prepare, Submit, WorkerEnds, time, ending
    <3>2. QED BY <3>1, HistoryUntouched
  <2>2. CASE Take \/ ConsumerEnds \/ Void \/ EvaluateAlarms
    <3>1. UNCHANGED <<records, flushed, generation>> /\ stop' = stop
      BY <2>2 DEF Take, ConsumerEnds, Void, EvaluateAlarms, time, ending
    <3>2. QED BY <3>1, HistoryUntouched
  <2>3. CASE WriteHistory BY <2>3, WriteHistoryKeeps DEF Kept
  <2>4. CASE TimeAdjusted BY <2>4, TimeAdjustedKeeps
  <2>5. CASE Run \/ SetClock \/ UNCHANGED vars
    <3>1. UNCHANGED <<records, flushed, generation>> /\ stop' = stop
      BY <2>5 DEF Run, SetClock, vars, time, ending
    <3>2. QED BY <3>1, HistoryUntouched
  <2>6. CASE RequestStop \/ StopQueue
    <3>1. UNCHANGED <<records, flushed, generation>> /\ ~HasStopped /\ ~HasStopped'
      BY <2>6 DEF RequestStop, StopQueue, time, HasStopped
    <3>2. QED BY <3>1, HistoryUntouched
  <2>7. CASE FlushTake BY <2>7, FlushTakeKeeps
  <2>8. CASE FlushCheck BY <2>8, FlushCheckKeeps
  <2>9. CASE FlushWrite BY <2>9, FlushWriteKeeps
  <2>10. QED
    BY <2>1, <2>2, <2>3, <2>4, <2>5, <2>6, <2>7, <2>8, <2>9 DEF Next, Consumer, Stop
<1>3. ConsumerJoined'
  <2>1. CASE (\E m \in Masters : Worker(m)) \/ Run \/ SetClock \/ TimeAdjusted \/ UNCHANGED vars
    <3>1. UNCHANGED <<stop, consumer>>
      BY <2>1 DEF Worker, Collect, Discard, Prepare, Submit, WorkerEnds, Run, SetClock,
                  TimeAdjusted, vars, task, ending
    <3>2. QED BY <3>1 DEF HistoryInv, ConsumerJoined, HasStopped
  <2>2. CASE Consumer
    <3>1. stop' = stop /\ consumer.at # "ended"
      BY <2>2 DEF Consumer, Take, ConsumerEnds, Void, WriteHistory, EvaluateAlarms, ending
    <3>2. QED BY <3>1 DEF HistoryInv, ConsumerJoined, HasStopped
  <2>3. CASE RequestStop \/ StopQueue
    BY <2>3 DEF RequestStop, StopQueue, ConsumerJoined, HasStopped
  <2>4. CASE FlushTake \/ FlushCheck \/ FlushWrite
    <3>1. consumer'.at = "ended"
      BY <2>4 DEF FlushTake, FlushCheck, FlushWrite, task, HistoryInv, ConsumerJoined, HasStopped
    <3>2. QED BY <3>1 DEF ConsumerJoined
  <2>5. QED BY <2>1, <2>2, <2>3, <2>4 DEF Next, Stop
<1>4. QED BY <1>1, <1>2, <1>3 DEF Kept, HistoryInv

THEOREM HistoryIsInvariant == Spec => []HistoryInv
<1>1. QED BY HistoryInit, HistoryStep, PTL DEF Spec

(***************************************************************************)
(* No point ever has more than MaxPending buckets waiting, and everything  *)
(* keeps its type, for any masters and any limits.                         *)
(***************************************************************************)
THEOREM BacklogIsBounded == Spec => []TypeOK
<1>1. HistoryInv => TypeOK BY DEF HistoryInv, TypeOK
<1>2. QED BY <1>1, HistoryIsInvariant, PTL

(* Record writes the sample and what was waiting, all of the time in force.*)
LEMMA RecordIsInTime ==
  ASSUME HistoryInv, NEW m \in Masters, NEW b \in Buckets, NEW sample \in Samples,
         sample.gen = generation, NEW due \in BOOLEAN, Record(m, b, sample, due),
         NEW k \in Masters, NEW c \in Buckets, Rewritten(k, c)
  PROVE  table'[k][c].gen = generation
<1>1. PICK now : now = Due(m, b, sample, due) OBVIOUS
<1>2. PICK write : write = Over(now, Displaced(m, b)) OBVIOUS
<1>3. PICK row : row = Over(write, table[m]) OBVIOUS
<1>4. table' = [table EXCEPT ![m] = row]
  BY <1>1, <1>2, <1>3 DEF Record
<1>5. /\ b \in DOMAIN write => write[b] = sample
      /\ \A d \in Buckets \ {b} :
           d \in DOMAIN write => d \in DOMAIN pending[m] /\ write[d] = pending[m][d]
  BY <1>1, <1>2, WrittenRecords
<1>6. table \in [Masters -> [Buckets -> Samples \cup {NoSample}]]
  BY DEF HistoryInv, HistoryOK
<1>7. k = m /\ table'[k] = row
  BY <1>4, <1>6 DEF Rewritten
<1>8. c \in DOMAIN write /\ row[c] = write[c]
  <2>1. PICK old : old = table[m] OBVIOUS
  <2>2. DOMAIN old = Buckets BY <2>1, <1>6
  <2>3. row = Over(write, old) BY <2>1, <1>3
  <2>4. row[c] = IF c \in DOMAIN write THEN write[c] ELSE old[c]
    BY <2>2, <2>3 DEF Over
  <2>5. row[c] # old[c] BY <2>1, <1>7 DEF Rewritten
  <2>6. QED BY <2>4, <2>5
<1>9. CASE c = b
  BY <1>5, <1>7, <1>8, <1>9
<1>10. CASE c # b
  BY <1>5, <1>7, <1>8, <1>10 DEF HistoryInv, PendingIsCurrent
<1>11. QED BY <1>9, <1>10

LEMMA WritesAreInTime == HistoryInv /\ [Next]_vars => [WrittenInItsTime]_vars
<1> SUFFICES ASSUME HistoryInv, Next PROVE WrittenInItsTime
  OBVIOUS
<1>1. CASE table' = table
  BY <1>1 DEF WrittenInItsTime, Rewritten
<1>2. CASE WriteHistory
  <2>1. PICK t : t = consumer.task OBVIOUS
  <2>2. t.gen = generation /\ consumer.at = "history"
    BY <2>1, <1>2 DEF WriteHistory, Current
  <2>3. t \in Tasks BY <2>1, <2>2 DEF HistoryInv, ControlOK
  <2>4. t.m \in Masters /\ t.bucket \in Buckets /\ Sample(t) \in Samples /\ Sample(t).gen = generation
    BY <2>2, <2>3 DEF Tasks, Sample, Samples
  <2>5. table' = table \/ \E due \in BOOLEAN : Record(t.m, t.bucket, Sample(t), due)
    BY <2>1, <1>2 DEF WriteHistory, Restore, Remove, records
  <2>6. CASE \E due \in BOOLEAN : Record(t.m, t.bucket, Sample(t), due)
    <3>1. PICK due \in BOOLEAN : Record(t.m, t.bucket, Sample(t), due) BY <2>6
    <3>2. PICK sample : sample = Sample(t) OBVIOUS
    <3>3. \A k \in Masters : \A c \in Buckets : Rewritten(k, c) => table'[k][c].gen = generation
      BY <2>4, <3>1, <3>2, RecordIsInTime
    <3>4. QED BY <3>3 DEF WrittenInItsTime
  <2>7. QED BY <1>1, <2>5, <2>6
<1>3. CASE FlushWrite
  BY <1>3 DEF FlushWrite, WrittenInItsTime
<1>4. table' = table \/ WriteHistory \/ FlushWrite
  BY DEF Next, Worker, Consumer, Stop, Collect, Discard, Prepare, Submit, WorkerEnds, Take,
         ConsumerEnds, Void, EvaluateAlarms, Run, SetClock, TimeAdjusted, RequestStop, StopQueue,
         FlushTake, FlushCheck, records
<1>5. QED BY <1>1, <1>2, <1>3, <1>4

(***************************************************************************)
(* A sample the history has taken is written or on its way, whatever       *)
(* fails and however the service is stopped; what waits to be written was  *)
(* queued after the last change of time that has been handled; and but for *)
(* the last write, what is written belongs to the time in force.           *)
(***************************************************************************)
THEOREM BacklogStaysRight == Spec => BacklogIsRight
<1>1. HistoryInv => LatestIsKept /\ PendingIsCurrent BY DEF HistoryInv
<1>2. Spec => [](LatestIsKept /\ PendingIsCurrent)
  BY <1>1, HistoryIsInvariant, PTL
<1>3. Spec => [][WrittenInItsTime]_vars
  BY WritesAreInTime, HistoryIsInvariant, PTL DEF Spec
<1>4. QED BY <1>2, <1>3 DEF BacklogIsRight

-----------------------------------------------------------------------------
(* Part 9: the account of the queue.                                       *)

LEMMA WeightsArePositive ==
  ASSUME NEW t \in Tasks
  PROVE  Weight[t.m] \in Nat \ {0}
BY MastersAssumption DEF Tasks

LEMMA PointIs ==
  ASSUME NEW s, NEW e
  PROVE  e \in PointsOf(s) <=>
           \E i \in DOMAIN s : \E k \in 1 .. Weight[s[i].m] : e = <<i, k>>
BY DEF PointsOf

LEMMA PointsOfOne ==
  ASSUME NEW i, NEW w \in Nat
  PROVE  IsFiniteSet({i} \X (1 .. w)) /\ Cardinality({i} \X (1 .. w)) = w
<1>1. IsFiniteSet(1 .. w) /\ Cardinality(1 .. w) = w
      BY FS_Interval
<1>2. IsFiniteSet({i}) /\ Cardinality({i}) = 1
      BY FS_Singleton
<1> QED  BY <1>1, <1>2, FS_Product

(* r is s, n tasks long, with a task of w points behind it.                *)
IsLonger(r, s, n, w) ==
  /\ DOMAIN s = 1 .. n /\ DOMAIN r = 1 .. (n + 1)
  /\ Weight[r[n + 1].m] = w /\ \A i \in 1 .. n : r[i] = s[i]

(* r is s without its first task, of w points; n tasks are left.           *)
IsShorter(r, s, n, w) ==
  /\ DOMAIN s = 1 .. (n + 1) /\ DOMAIN r = 1 .. n
  /\ Weight[s[1].m] = w /\ \A i \in 1 .. n : r[i] = s[i + 1]

(* A task that is submitted brings its points.                             *)
LEMMA PointsAdded ==
  ASSUME NEW s, NEW r, NEW n \in Nat, NEW w \in Nat \ {0},
         IsLonger(r, s, n, w), IsFiniteSet(PointsOf(s))
  PROVE  /\ IsFiniteSet(PointsOf(r))
         /\ Cardinality(PointsOf(r)) = Cardinality(PointsOf(s)) + w
<1>3. /\ DOMAIN s = 1 .. n /\ DOMAIN r = 1 .. (n + 1) /\ Weight[r[n + 1].m] = w
      /\ \A i \in 1 .. n : r[i] = s[i]
      BY DEF IsLonger
<1>4. PICK new : new = {n + 1} \X (1 .. w)
      OBVIOUS
<1>5. PointsOf(r) = PointsOf(s) \cup new
  <2>1. ASSUME NEW e \in PointsOf(r)
        PROVE  e \in PointsOf(s) \cup new
    <3>1. PICK i \in DOMAIN r : \E k \in 1 .. Weight[r[i].m] : e = <<i, k>>
          BY <2>1, PointIs
    <3>2. CASE i \in 1 .. n
          BY <1>3, <3>1, <3>2, PointIs
    <3>3. CASE i = n + 1
          BY <1>3, <1>4, <3>1, <3>3
    <3> QED  BY <1>3, <3>1, <3>2, <3>3
  <2>2. ASSUME NEW e \in PointsOf(s)
        PROVE  e \in PointsOf(r)
    <3>1. PICK i \in DOMAIN s : \E k \in 1 .. Weight[s[i].m] : e = <<i, k>>
          BY <2>2, PointIs
    <3>2. i \in DOMAIN r /\ r[i] = s[i]
          BY <1>3
    <3> QED  BY <3>1, <3>2, PointIs
  <2>3. ASSUME NEW e \in new
        PROVE  e \in PointsOf(r)
    <3>1. PICK k \in 1 .. w : e = <<n + 1, k>>
          BY <1>4, <2>3
    <3>2. n + 1 \in DOMAIN r
          BY <1>3
    <3> QED  BY <1>3, <3>1, <3>2, PointIs
  <2> QED  BY <2>1, <2>2, <2>3
<1>6. PointsOf(s) \cap new = {}
  <2> SUFFICES ASSUME NEW e \in PointsOf(s), e \in new
               PROVE  FALSE
      OBVIOUS
  <2>1. PICK i \in DOMAIN s : \E k \in 1 .. Weight[s[i].m] : e = <<i, k>>
        BY PointIs
  <2>2. e[1] = i /\ e[1] = n + 1
        BY <1>4, <2>1
  <2> QED  BY <1>3, <2>2
<1>7. IsFiniteSet(new) /\ Cardinality(new) = w
      BY <1>4, PointsOfOne
<1>8. Cardinality(PointsOf(s) \cap new) = 0
      BY <1>6, FS_EmptySet
<1>9. /\ IsFiniteSet(PointsOf(s) \cup new)
      /\ Cardinality(PointsOf(s) \cup new) = Cardinality(PointsOf(s)) + Cardinality(new) - 0
      BY <1>7, <1>8, FS_Union
<1>10. Cardinality(PointsOf(s)) \in Nat
      BY FS_CardinalityType
<1> QED  BY <1>5, <1>7, <1>9, <1>10

(* The task that is taken takes its points with it.                        *)
LEMMA PointsTaken ==
  ASSUME NEW s, NEW r, NEW n \in Nat, NEW w \in Nat \ {0},
         IsShorter(r, s, n, w), IsFiniteSet(PointsOf(s))
  PROVE  /\ IsFiniteSet(PointsOf(r))
         /\ Cardinality(PointsOf(r)) = Cardinality(PointsOf(s)) - w
<1>3. /\ DOMAIN s = 1 .. (n + 1) /\ DOMAIN r = 1 .. n /\ Weight[s[1].m] = w
      /\ \A i \in 1 .. n : r[i] = s[i + 1]
      BY DEF IsShorter
<1>4. PICK first, rest : first = {1} \X (1 .. w) /\ rest = PointsOf(s) \ first
      OBVIOUS
<1>5. \A e : e \in rest <=> \E i \in 2 .. (n + 1) : \E k \in 1 .. Weight[s[i].m] : e = <<i, k>>
  <2> SUFFICES ASSUME NEW e
               PROVE  e \in rest <=>
                        \E i \in 2 .. (n + 1) : \E k \in 1 .. Weight[s[i].m] : e = <<i, k>>
      OBVIOUS
  <2>1. ASSUME e \in rest
        PROVE  \E i \in 2 .. (n + 1) : \E k \in 1 .. Weight[s[i].m] : e = <<i, k>>
    <3>1. PICK i \in DOMAIN s : \E k \in 1 .. Weight[s[i].m] : e = <<i, k>>
          BY <1>4, <2>1, PointIs
    <3>2. PICK k \in 1 .. Weight[s[i].m] : e = <<i, k>>
          BY <3>1
    <3>3. i # 1
      <4>1. i = 1 => e \in first
            BY <1>3, <1>4, <3>2
      <4> QED  BY <1>4, <2>1, <4>1
    <3>4. i \in 2 .. (n + 1)
          BY <1>3, <3>3
    <3> QED  BY <3>1, <3>4
  <2>2. ASSUME NEW i \in 2 .. (n + 1), NEW k \in 1 .. Weight[s[i].m], e = <<i, k>>
        PROVE  e \in rest
    <3>1. i \in DOMAIN s /\ i # 1
          BY <1>3
    <3>2. e \in PointsOf(s)
          BY <2>2, <3>1, PointIs
    <3>3. e \notin first
          BY <1>4, <2>2, <3>1
    <3> QED  BY <1>4, <3>2, <3>3
  <2> QED  BY <2>1, <2>2
<1>6. PICK f : f = [e \in rest |-> <<e[1] - 1, e[2]>>]
      OBVIOUS
<1>7. \A i \in 2 .. (n + 1) : \A k \in 1 .. Weight[s[i].m] : f[<<i, k>>] = <<i - 1, k>>
      BY <1>5, <1>6
<1>8. f \in [rest -> PointsOf(r)]
  <2> SUFFICES ASSUME NEW e \in rest
               PROVE  f[e] \in PointsOf(r)
      BY <1>6
  <2>1. PICK i \in 2 .. (n + 1) : \E k \in 1 .. Weight[s[i].m] : e = <<i, k>>
        BY <1>5
  <2>2. PICK k \in 1 .. Weight[s[i].m] : e = <<i, k>>
        BY <2>1
  <2>3. f[e] = <<i - 1, k>>
        BY <1>7, <2>2
  <2>4. i - 1 \in DOMAIN r /\ r[i - 1] = s[i]
        BY <1>3
  <2> QED  BY <2>3, <2>4, PointIs
<1>9. \A a, b \in rest : f[a] = f[b] => a = b
  <2> SUFFICES ASSUME NEW a \in rest, NEW b \in rest, f[a] = f[b]
               PROVE  a = b
      OBVIOUS
  <2>1. PICK i \in 2 .. (n + 1) : \E k \in 1 .. Weight[s[i].m] : a = <<i, k>>
        BY <1>5
  <2>2. PICK k \in 1 .. Weight[s[i].m] : a = <<i, k>>
        BY <2>1
  <2>3. PICK j \in 2 .. (n + 1) : \E l \in 1 .. Weight[s[j].m] : b = <<j, l>>
        BY <1>5
  <2>4. PICK l \in 1 .. Weight[s[j].m] : b = <<j, l>>
        BY <2>3
  <2>5. <<i - 1, k>> = <<j - 1, l>>
        BY <1>7, <2>2, <2>4
  <2>6. i - 1 = j - 1 /\ k = l
        BY <2>5
  <2>7. i = j
        BY <2>6
  <2> QED  BY <2>2, <2>4, <2>6, <2>7
<1>10. \A e \in PointsOf(r) : \E a \in rest : f[a] = e
  <2> SUFFICES ASSUME NEW e \in PointsOf(r)
               PROVE  \E a \in rest : f[a] = e
      OBVIOUS
  <2>1. PICK i \in DOMAIN r : \E k \in 1 .. Weight[r[i].m] : e = <<i, k>>
        BY PointIs
  <2>2. PICK k \in 1 .. Weight[r[i].m] : e = <<i, k>>
        BY <2>1
  <2>6. PICK j : j = i + 1
        OBVIOUS
  <2>3. j \in 2 .. (n + 1) /\ s[j] = r[i] /\ j - 1 = i
        BY <1>3, <2>6
  <2>4. <<j, k>> \in rest
        BY <1>5, <2>2, <2>3
  <2>5. f[<<j, k>>] = <<i, k>>
        BY <1>7, <2>2, <2>3
  <2> QED  BY <2>2, <2>4, <2>5
<1>11. ExistsBijection(rest, PointsOf(r))
  <2>1. f \in Injection(rest, PointsOf(r))
        BY <1>8, <1>9 DEF Injection, IsInjective
  <2>2. f \in Surjection(rest, PointsOf(r))
        BY <1>8, <1>10 DEF Surjection
  <2> QED  BY <2>1, <2>2 DEF ExistsBijection, Bijection
<1>12. IsFiniteSet(first) /\ Cardinality(first) = w
      BY <1>4, PointsOfOne
<1>13. PointsOf(s) \cap first = first
  <2>1. 1 \in DOMAIN s
        BY <1>3
  <2>2. ASSUME NEW e \in first
        PROVE  e \in PointsOf(s)
    <3>1. PICK k \in 1 .. w : e = <<1, k>>
          BY <1>4, <2>2
    <3> QED  BY <1>3, <2>1, <3>1, PointIs
  <2> QED  BY <2>2
<1>14. IsFiniteSet(rest) /\ Cardinality(rest) = Cardinality(PointsOf(s)) - w
  <2>1. /\ IsFiniteSet(PointsOf(s) \ first)
        /\ Cardinality(PointsOf(s) \ first)
             = Cardinality(PointsOf(s)) - Cardinality(PointsOf(s) \cap first)
        BY FS_Difference
  <2> QED  BY <1>4, <1>12, <1>13, <2>1
<1>15. IsFiniteSet(PointsOf(r)) /\ Cardinality(PointsOf(r)) = Cardinality(rest)
      BY <1>11, <1>14, FS_Bijection
<1> QED  BY <1>14, <1>15

-----------------------------------------------------------------------------
AccountInv == ControlOK /\ IsFiniteSet(PointsOf(tasks)) /\ QueueIsBounded

LEMMA AccountBegins == Init => AccountInv
<1> SUFFICES ASSUME Init
             PROVE  AccountInv
    OBVIOUS
<1>1. ControlOK
      BY ControlInit
<1>2. PointsOf(tasks) = {}
  <2>1. DOMAIN tasks = {}
        BY DEF Init
  <2> QED  BY <2>1, PointIs
<1>3. Len(tasks) = 0 /\ queuedPoints = 0
      BY DEF Init
<1> QED  BY <1>1, <1>2, <1>3, FS_EmptySet, BoundsAssumption DEF AccountInv, QueueIsBounded

LEMMA AccountStep ==
  ASSUME AccountInv, ControlOK', [Next]_vars
  PROVE  AccountInv'
<1>1. CASE UNCHANGED <<tasks, queuedPoints>>
      BY <1>1 DEF AccountInv, QueueIsBounded, PointsOf
<1>2. CASE \E m \in Masters : Accept(m)
  <2>1. PICK m \in Masters : Accept(m)
        BY <1>2
  <2>2. PICK t, s, r : t = Batch(m) /\ s = tasks /\ r = tasks'
        OBVIOUS
  <2>3. t \in Tasks /\ s \in Seq(Tasks) /\ r = Append(s, t) /\ t.m = m
        BY <2>1, <2>2, BatchIsTask DEF AccountInv, ControlOK, Accept, Batch
  <2>5. PICK n, w : n = Len(s) /\ w = Weight[m]
        OBVIOUS
  <2>8. n \in Nat /\ w \in Nat \ {0}
        BY <2>3, <2>5, WeightsArePositive
  <2>9. IsLonger(r, s, n, w)
        BY <2>3, <2>5 DEF IsLonger
  <2>4. /\ IsFiniteSet(PointsOf(r))
        /\ Cardinality(PointsOf(r)) = Cardinality(PointsOf(s)) + w
        BY <2>2, <2>8, <2>9, PointsAdded DEF AccountInv
  <2>10. Len(r) = n + 1
        BY <2>3, <2>5
  <2>11. ~Full(m) /\ queuedPoints' = queuedPoints + w
        BY <2>1, <2>5 DEF Accept
  <2>12. queuedPoints \in Int
        BY DEF AccountInv, ControlOK
  <2>6. n < MaxTasks /\ queuedPoints + w <= MaxPoints
        BY <2>2, <2>5, <2>8, <2>11, <2>12, BoundsAssumption DEF Full
  <2>7. queuedPoints = Cardinality(PointsOf(s))
        BY <2>2 DEF AccountInv, QueueIsBounded
  <2> QED  BY <2>2, <2>4, <2>6, <2>7, <2>8, <2>10, <2>11, <2>12, BoundsAssumption DEF AccountInv, QueueIsBounded
<1>3. CASE Take
  <2>1. PICK s, r : s = tasks /\ r = tasks'
        OBVIOUS
  <2>2. s \in Seq(Tasks) /\ s # <<>> /\ r = Tail(s)
        BY <1>3, <2>1 DEF AccountInv, ControlOK, Take
  <2>4. Weight[Head(s).m] \in Nat \ {0}
    <3>1. Head(s) \in Tasks
          BY <2>2
    <3> QED  BY <3>1, WeightsArePositive
  <2>7. PICK n, w : n = Len(r) /\ w = Weight[Head(s).m]
        OBVIOUS
  <2>8. n \in Nat /\ w \in Nat \ {0} /\ IsShorter(r, s, n, w)
        BY <2>2, <2>4, <2>7 DEF IsShorter
  <2>3. /\ IsFiniteSet(PointsOf(r))
        /\ Cardinality(PointsOf(r)) = Cardinality(PointsOf(s)) - w
        BY <2>1, <2>8, PointsTaken DEF AccountInv
  <2>5. /\ Len(s) \in Nat /\ Len(r) = Len(s) - 1
        /\ queuedPoints' = queuedPoints - Weight[Head(s).m] /\ queuedPoints \in Int
        BY <1>3, <2>1, <2>2 DEF Take, AccountInv, ControlOK
  <2>6. queuedPoints = Cardinality(PointsOf(s)) /\ queuedPoints <= MaxPoints /\ Len(s) <= MaxTasks
        BY <2>1 DEF AccountInv, QueueIsBounded
  <2> QED  BY <2>1, <2>3, <2>4, <2>5, <2>6, <2>7, BoundsAssumption DEF AccountInv, QueueIsBounded
<1>4. UNCHANGED <<tasks, queuedPoints>> \/ (\E m \in Masters : Accept(m)) \/ Take
  <2>1. CASE \E m \in Masters : Submit(m)
        BY <2>1 DEF Submit, Reject
  <2>2. CASE ~\E m \in Masters : Submit(m)
        BY <2>2 DEF Next, Worker, Consumer, Stop, Collect, Discard, Prepare, WorkerEnds,
                    ConsumerEnds, Void, WriteHistory, EvaluateAlarms, Run, SetClock, TimeAdjusted,
                    RequestStop, StopQueue, FlushTake, FlushCheck, FlushWrite, vars, queue
  <2> QED  BY <2>1, <2>2
<1> QED  BY <1>1, <1>2, <1>3, <1>4

(***************************************************************************)
(* OrderedTaskQueue: neither limit is ever passed and the points counted   *)
(* are those of the tasks that wait, so the subtraction in try_submit does *)
(* not wrap, for any weights, limits and number of collection threads.     *)
(***************************************************************************)
THEOREM QueueStaysBounded == Spec => []QueueIsBounded
<1>1. AccountInv /\ ControlOK' /\ [Next]_vars => AccountInv'
      BY AccountStep
<1>2. OrderInv => ControlOK
      BY DEF OrderInv
<1>3. AccountInv => QueueIsBounded
      BY DEF AccountInv
<1> QED  BY <1>1, <1>2, <1>3, AccountBegins, OrderIsInvariant, PTL DEF Spec

=============================================================================
