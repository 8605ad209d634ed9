---------------------------- MODULE SamplePipeline ----------------------------
(***************************************************************************)
(* What becomes of a sample after its publication: the collection threads  *)
(* of one PollingService submit a batch per round to OrderedTaskQueue; its *)
(* single consumer writes the history (throttled, with a retry backlog)    *)
(* and then has the alarms evaluated.  A significant change of the system  *)
(* clock clears the history that is not yet written and makes the batches  *)
(* that are on their way void.  Stopping joins the collection threads,     *)
(* drains the queue and writes what is pending.                            *)
(*                                                                         *)
(* A master stands for its one history point.  A time is the number of its *)
(* ten-minute bucket; bucket 0 stands for every time before 2020, which    *)
(* the code does not trust.  Whether the two minutes since the last write  *)
(* of a bucket are over (due) is left open, and so is whether the types    *)
(* that are published at that moment want a history of the point.  A       *)
(* sample is known by the number n of its submission.                      *)
(***************************************************************************)
EXTENDS Integers, Sequences, FiniteSets, Functions

CONSTANTS
  Masters,      (* masters of different channels (a thread per channel)    *)
  Weight,       (* Weight[m]: the points a batch of master m counts for    *)
  MaxTasks,     (* kept from the code: tasks in the queue (128)            *)
  MaxPoints,    (* kept from the code: points in the queue (16384)         *)
  MaxPending,   (* kept from the code: pending buckets of a point (6)      *)
  LastBucket,   (* bound: the latest time                                  *)
  MaxBatches,   (* bound: batches submitted                                *)
  MaxJumps      (* bound: significant changes of the clock                 *)

ASSUME MastersAssumption ==
  /\ IsFiniteSet(Masters)
  /\ Weight \in [Masters -> Nat \ {0}]

ASSUME BoundsAssumption ==
  /\ MaxTasks \in Nat \ {0} /\ MaxPoints \in Nat \ {0} /\ MaxPending \in Nat \ {0}
  /\ LastBucket \in Nat /\ MaxBatches \in Nat /\ MaxJumps \in Nat

VARIABLES
  clock,         (* the bucket of the system time                          *)
  axis,          (* history: significant changes of the clock so far       *)
  cleared,       (* history: how many of them have been handled            *)
  generation,    (* history_time_generation_                               *)
  worker,        (* how far the collection thread of a master is           *)
  tasks,         (* OrderedTaskQueue: tasks_                               *)
  queuedPoints,  (* OrderedTaskQueue: queued_points_                       *)
  accepting,     (* OrderedTaskQueue: accepting_                           *)
  gapPending,    (* OrderedTaskQueue: gap_pending_                         *)
  consumer,      (* the persistence thread and the task it runs            *)
  alarmGap,      (* persistence_alarm_gap_                                 *)
  pending,       (* pending_history_records_                               *)
  throttled,     (* the keys of history_write_times_                       *)
  table,         (* the raw rows of HistoryStore                           *)
  stop,          (* how far stop() is                                      *)
  flushed,       (* what flush_pending_history_records has taken           *)
  batches,       (* history: batches submitted                             *)
  alarms,        (* history: what the evaluator counted                    *)
  latest         (* history: the last sample a point got in each bucket    *)

time    == <<clock, axis, cleared, generation>>
queue   == <<tasks, queuedPoints, accepting, gapPending, batches>>
task    == <<consumer, alarmGap, alarms>>
records == <<pending, throttled, table, latest>>
ending  == <<stop, flushed>>
vars    == <<time, worker, queue, task, records, ending>>

Buckets == 0..LastBucket

NoSample == [n |-> 0, gen |-> 0, axis |-> 0]

NoTask ==
  [m |-> CHOOSE m \in Masters : TRUE, n |-> 0, gen |-> 0, axis |-> 0, bucket |-> 0,
   good |-> FALSE, gap |-> FALSE]

Sample(t) == [n |-> t.n, gen |-> t.gen, axis |-> t.axis]

NoRecords == [b \in {} |-> NoSample]

Nothing == [m \in Masters |-> NoRecords]

OneRecord(b, sample) == [c \in {b} |-> sample]

(* The records of f, and those of g for the other buckets.                 *)
Over(f, g) == [c \in DOMAIN f \cup DOMAIN g |-> IF c \in DOMAIN f THEN f[c] ELSE g[c]]

(***************************************************************************)
(* The clock: it runs and is slewed; it is set by the operator or by NTP.  *)
(* Steps below the threshold count as running.                             *)
(***************************************************************************)
Run ==
  /\ clock' \in {clock + 1, clock - 1} \cap Buckets
  /\ UNCHANGED <<axis, cleared, generation, worker, queue, task, records, ending>>

SetClock ==
  /\ axis < MaxJumps
  /\ axis' = axis + 1
  /\ clock' \in Buckets
  /\ UNCHANGED <<cleared, generation, worker, queue, task, records, ending>>

(***************************************************************************)
(* handle_system_time_changed finds the service running or being stopped.  *)
(* It waits for the task in hand to leave its locked part; in this model   *)
(* those parts are single steps.                                           *)
(***************************************************************************)
TimeAdjusted ==
  /\ cleared < axis
  /\ stop # "stopped"
  /\ cleared' = axis
  /\ generation' = generation + 1
  /\ pending' = Nothing
  /\ throttled' = {}
  /\ latest' = [m \in Masters |-> [b \in Buckets |-> 0]]
  /\ UNCHANGED <<clock, axis, worker, queue, task, table, ending>>

(***************************************************************************)
(* A collection thread.  A sample is stamped when it is read; a failed     *)
(* round makes a batch of bad points.  It is dropped when the polling      *)
(* service stops or its channel has changed meanwhile.                     *)
(***************************************************************************)
Idle == [at |-> "idle", bucket |-> 0, axis |-> 0, good |-> FALSE, gen |-> 0]

Collect(m) ==
  /\ worker[m].at = "idle"
  /\ stop = "running"
  /\ batches < MaxBatches
  /\ \E good \in BOOLEAN :
       worker' = [worker EXCEPT ![m] =
         [at |-> "sampled", bucket |-> clock, axis |-> axis, good |-> good, gen |-> 0]]
  /\ UNCHANGED <<time, queue, task, records, ending>>

Discard(m) ==
  /\ worker[m].at = "sampled"
  /\ worker' = [worker EXCEPT ![m] = Idle]
  /\ UNCHANGED <<time, queue, task, records, ending>>

(* enqueue_persistence reads the generation first ...                      *)
Prepare(m) ==
  /\ worker[m].at = "sampled"
  /\ worker' = [worker EXCEPT ![m].at = "prepared", ![m].gen = generation]
  /\ UNCHANGED <<time, queue, task, records, ending>>

(* ... and then submits the batch.                                         *)
(* Mutation: the limits are off by one.                                    *)
FullLate(m) == Len(tasks) > MaxTasks \/ queuedPoints + Weight[m] > MaxPoints + 1

Full(m) == Len(tasks) >= MaxTasks \/ queuedPoints + Weight[m] > MaxPoints

Batch(m) ==
  [m |-> m, n |-> batches + 1, gen |-> worker[m].gen, axis |-> worker[m].axis,
   bucket |-> worker[m].bucket, good |-> worker[m].good, gap |-> gapPending]

Accept(m) ==
  /\ accepting
  /\ ~Full(m)
  /\ tasks' = Append(tasks, Batch(m))
  /\ queuedPoints' = queuedPoints + Weight[m]
  /\ gapPending' = FALSE

(* Mutation: a refused batch leaves no gap.                                *)
RejectSilently(m) ==
  /\ accepting => Full(m)
  /\ UNCHANGED <<tasks, queuedPoints, gapPending>>

Reject(m) ==
  /\ accepting => Full(m)
  /\ gapPending' = (gapPending \/ accepting)
  /\ UNCHANGED <<tasks, queuedPoints>>

Submit(m) ==
  /\ worker[m].at = "prepared"
  /\ Accept(m) \/ Reject(m)
  /\ batches' = batches + 1
  /\ worker' = [worker EXCEPT ![m] = Idle]
  /\ UNCHANGED <<time, accepting, task, records, ending>>

WorkerEnds(m) ==
  /\ worker[m].at = "idle"
  /\ stop # "running"
  /\ worker' = [worker EXCEPT ![m].at = "ended"]
  /\ UNCHANGED <<time, queue, task, records, ending>>

(***************************************************************************)
(* The persistence thread: one task at a time.  It keeps the gap until the *)
(* alarms have been evaluated.                                             *)
(***************************************************************************)
Take ==
  /\ consumer.at = "waiting"
  /\ tasks # <<>>
  /\ LET t == Head(tasks) IN
       /\ consumer' = [at |-> "history", task |-> t, gap |-> alarmGap \/ t.gap]
       /\ queuedPoints' = queuedPoints - Weight[t.m]
  /\ tasks' = Tail(tasks)
  /\ alarmGap' = TRUE
  /\ UNCHANGED <<time, worker, accepting, gapPending, batches, alarms, records, ending>>

ConsumerEnds ==
  /\ consumer.at = "waiting"
  /\ tasks = <<>>
  /\ ~accepting
  /\ consumer' = [consumer EXCEPT !.at = "ended"]
  /\ UNCHANGED <<time, worker, queue, alarmGap, alarms, records, ending>>

Done == consumer' = [consumer EXCEPT !.at = "waiting"]

(* A batch of an older generation is void, and so is one that throws.      *)
Void ==
  /\ consumer.at \in {"history", "alarm"}
  /\ Done
  /\ UNCHANGED <<time, worker, queue, alarmGap, alarms, records, ending>>

Current == consumer.task.gen = generation

(***************************************************************************)
(* The history of one point.  Records of other buckets are written and     *)
(* forgotten; a bucket's own record stays pending after it has been        *)
(* written, for the bucket's last sample is written when the next begins.  *)
(***************************************************************************)
Throttled(m) == {key[2] : key \in {k \in throttled : k[1] = m}}

Keys(m, buckets) == {k \in throttled : k[1] # m} \cup {<<m, b>> : b \in buckets}

(* Mutation: one bucket too many is kept.                                  *)
NewestAndOne(buckets) == {b \in buckets : Cardinality({c \in buckets : c > b}) <= MaxPending}

Newest(buckets) == {b \in buckets : Cardinality({c \in buckets : c > b}) < MaxPending}

(* collect_history_records_for_write: what a new sample makes due.         *)
Due(m, b, sample, due) ==
  IF b \notin Throttled(m) \/ due THEN OneRecord(b, sample) ELSE NoRecords

(* Mutation: a new bucket makes the old ones forgotten.                    *)
DisplacedNone(m, b) == NoRecords

Displaced(m, b) == Restrict(pending[m], DOMAIN pending[m] \ {b})

KeysAfter(m, b, now) == (Throttled(m) \ DOMAIN Displaced(m, b)) \cup DOMAIN now

Record(m, b, sample, due) ==
  LET now == Due(m, b, sample, due) IN
    /\ table' = [table EXCEPT ![m] = Over(Over(now, Displaced(m, b)), @)]
    /\ pending' = [pending EXCEPT ![m] = OneRecord(b, sample)]
    /\ throttled' = Keys(m, KeysAfter(m, b, now))
    /\ latest' = [latest EXCEPT ![m][b] = sample.n]

(* restore_pending_history_records and prune_history_retry_backlog, when   *)
(* the database refuses: the oldest buckets beyond the limit are given up. *)
Restore(m, b, sample, due) ==
  LET now     == Due(m, b, sample, due)
      write   == Over(now, Displaced(m, b))
      backlog == Over(write, OneRecord(b, sample))
      lost    == DOMAIN backlog \ Newest(DOMAIN backlog)
  IN  /\ write # NoRecords
      /\ pending' = [pending EXCEPT ![m] = Restrict(backlog, Newest(DOMAIN backlog))]
      /\ throttled' = Keys(m, (KeysAfter(m, b, now) \cup DOMAIN write) \ lost)
      /\ latest' = [latest EXCEPT ![m] =
           [c \in Buckets |-> IF c \in lost THEN 0 ELSE IF c = b THEN sample.n ELSE @[c]]]
      /\ UNCHANGED table

(* remove_disabled_history_records: the type in force wants no history of  *)
(* the point any more.  What was to be written is given up; the sample     *)
(* itself stays pending.                                                   *)
Remove(m, b, sample, due) ==
  /\ pending' = [pending EXCEPT ![m] = OneRecord(b, sample)]
  /\ throttled' = Keys(m, KeysAfter(m, b, Due(m, b, sample, due)))
  /\ latest' = [latest EXCEPT ![m] =
       [c \in Buckets |-> IF c = b THEN sample.n ELSE IF c \in DOMAIN Displaced(m, b) THEN 0 ELSE @[c]]]
  /\ UNCHANGED table

WriteHistory ==
  /\ consumer.at = "history"
  /\ Current
  /\ LET t == consumer.task IN
       IF clock = 0 \/ ~t.good \/ t.bucket = 0
       THEN UNCHANGED records
       ELSE \E due \in BOOLEAN :
              \/ Record(t.m, t.bucket, Sample(t), due)
              \/ Restore(t.m, t.bucket, Sample(t), due)
              \/ Remove(t.m, t.bucket, Sample(t), due)
  /\ consumer' = [consumer EXCEPT !.at = "alarm"]
  /\ UNCHANGED <<time, worker, queue, alarmGap, alarms, ending>>

(* The evaluator counts a batch after a gap as the first of a new run.     *)
Counted ==
  [seen  |-> consumer.task.n,
   first |-> IF consumer.gap THEN consumer.task.n ELSE alarms.first,
   count |-> IF consumer.gap THEN 1 ELSE alarms.count + 1]

EvaluateAlarms ==
  /\ consumer.at = "alarm"
  /\ Current
  /\ \/ alarms' = Counted /\ alarmGap' = FALSE
     \/ UNCHANGED <<alarms, alarmGap>>     (* the transaction failed *)
  /\ Done
  /\ UNCHANGED <<time, worker, queue, records, ending>>

(***************************************************************************)
(* stop(): the collection threads, the queue, the pending records.         *)
(***************************************************************************)
RequestStop ==
  /\ stop = "running"
  /\ stop' = "joining"
  /\ UNCHANGED <<time, worker, queue, task, records, flushed>>

(* Mutation: the queue is stopped before the collection threads are joined.*)
StopQueueFirst ==
  /\ stop = "joining"
  /\ stop' = "draining"
  /\ accepting' = FALSE
  /\ UNCHANGED <<time, worker, tasks, queuedPoints, gapPending, batches, task, records, flushed>>

(* Mutation: the consumer is not told.                                     *)
StopQueueUntold ==
  /\ stop = "joining"
  /\ \A m \in Masters : worker[m].at = "ended"
  /\ stop' = "draining"
  /\ UNCHANGED <<time, worker, queue, task, records, flushed>>

StopQueue ==
  /\ stop = "joining"
  /\ \A m \in Masters : worker[m].at = "ended"
  /\ stop' = "draining"
  /\ accepting' = FALSE
  /\ UNCHANGED <<time, worker, tasks, queuedPoints, gapPending, batches, task, records, flushed>>

FlushTake ==
  /\ stop = "draining"
  /\ consumer.at = "ended"
  /\ stop' = "flushing"
  /\ flushed' = [gen |-> generation, records |-> pending]
  /\ pending' = Nothing
  /\ throttled' = {}
  /\ UNCHANGED <<time, worker, queue, task, table, latest>>

(* The history without the claims on the buckets lost[m].                  *)
Without(lost) == [m \in Masters |-> [b \in Buckets |-> IF b \in lost[m] THEN 0 ELSE latest[m][b]]]

BucketsOf(held, S) == [m \in Masters |-> IF m \in S THEN DOMAIN held[m] ELSE {}]

(* The records of points whose type wants no history (off) are removed;    *)
(* then the generation is compared, without the lock of the epoch.         *)
FlushCheck ==
  /\ stop = "flushing"
  /\ \E off \in SUBSET Masters :
       /\ flushed' = [flushed EXCEPT !.records =
                        [m \in Masters |-> IF m \in off THEN NoRecords ELSE @[m]]]
       /\ latest' = Without(BucketsOf(flushed.records, off))
  /\ stop' = IF flushed.gen = generation /\ flushed'.records # Nothing THEN "writing" ELSE "stopped"
  /\ UNCHANGED <<time, worker, queue, task, pending, throttled, table>>

(* The last write.  A change of time after the comparison does not hold it *)
(* up; what goes back when it fails is lost with the service.              *)
FlushWrite ==
  /\ stop = "writing"
  /\ stop' = "stopped"
  /\ \/ /\ table' = [m \in Masters |-> Over(flushed.records[m], table[m])]
        /\ UNCHANGED <<pending, throttled, latest>>
     \/ /\ flushed.gen = generation
        /\ pending' = flushed.records
        /\ throttled' = {key \in Masters \X Buckets : key[2] \in DOMAIN flushed.records[key[1]]}
        /\ latest' = Without(BucketsOf(flushed.records, Masters))
        /\ UNCHANGED table
     \/ /\ flushed.gen # generation
        /\ UNCHANGED <<pending, throttled, table, latest>>
  /\ UNCHANGED <<time, worker, queue, task, flushed>>

-----------------------------------------------------------------------------
Init ==
  /\ clock \in Buckets
  /\ axis = 0 /\ cleared = 0 /\ generation = 0
  /\ worker = [m \in Masters |-> Idle]
  /\ tasks = <<>> /\ queuedPoints = 0 /\ accepting = TRUE /\ gapPending = FALSE
  /\ consumer = [at |-> "waiting", task |-> NoTask, gap |-> FALSE]
  /\ alarmGap = FALSE
  /\ pending = Nothing /\ throttled = {}
  /\ table = [m \in Masters |-> [b \in Buckets |-> NoSample]]
  /\ stop = "running"
  /\ flushed = [gen |-> 0, records |-> Nothing]
  /\ batches = 0
  /\ alarms = [seen |-> 0, first |-> 1, count |-> 0]
  /\ latest = [m \in Masters |-> [b \in Buckets |-> 0]]

Worker(m) == Collect(m) \/ Discard(m) \/ Prepare(m) \/ Submit(m) \/ WorkerEnds(m)

Consumer == Take \/ ConsumerEnds \/ Void \/ WriteHistory \/ EvaluateAlarms

Stop == StopQueue \/ FlushTake \/ FlushCheck \/ FlushWrite

Next ==
  \/ Run \/ SetClock \/ TimeAdjusted
  \/ \E m \in Masters : Worker(m)
  \/ Consumer
  \/ RequestStop \/ Stop

Spec == Init /\ [][Next]_vars

(* Threads run; nobody need set the clock or ask for a stop.               *)
FairSpec ==
  /\ Spec
  /\ \A m \in Masters : WF_vars(Worker(m))
  /\ WF_vars(Consumer)
  /\ WF_vars(Stop)

-----------------------------------------------------------------------------
Samples == [n : Nat, gen : Nat, axis : Nat]

Tasks ==
  [m : Masters, n : Nat, gen : Nat, axis : Nat, bucket : Buckets, good : BOOLEAN, gap : BOOLEAN]

Backlogs(held) ==
  /\ held = [m \in Masters |-> held[m]]
  /\ \A m \in Masters :
       /\ held[m] = [b \in DOMAIN held[m] |-> held[m][b]]
       /\ DOMAIN held[m] \subseteq Buckets
       /\ Cardinality(DOMAIN held[m]) <= MaxPending
       /\ \A b \in DOMAIN held[m] : held[m][b] \in Samples

ControlOK ==
  /\ clock \in Buckets /\ axis \in Nat /\ cleared \in 0..axis /\ generation \in Nat
  /\ worker \in [Masters -> [at : {"idle", "sampled", "prepared", "ended"}, bucket : Buckets,
                             axis : Nat, good : BOOLEAN, gen : Nat]]
  /\ tasks \in Seq(Tasks) /\ queuedPoints \in Int
  /\ accepting \in BOOLEAN /\ gapPending \in BOOLEAN /\ alarmGap \in BOOLEAN
  /\ consumer \in [at : {"waiting", "history", "alarm", "ended"}, task : Tasks \cup {NoTask},
                   gap : BOOLEAN]
  /\ consumer.at \in {"history", "alarm"} => consumer.task \in Tasks
  /\ stop \in {"running", "joining", "draining", "flushing", "writing", "stopped"}
  /\ batches \in Nat /\ alarms \in [seen : Nat, first : Nat, count : Nat]

HistoryOK ==
  /\ Backlogs(pending) /\ Backlogs(flushed.records)
  /\ flushed = [gen |-> flushed.gen, records |-> flushed.records] /\ flushed.gen \in Nat
  /\ throttled \subseteq Masters \X Buckets
  /\ table \in [Masters -> [Buckets -> Samples \cup {NoSample}]]
  /\ latest \in [Masters -> [Buckets -> Nat]]

(***************************************************************************)
(* Every variable keeps its type; no point has more than MaxPending        *)
(* buckets waiting, however long the database refuses.                     *)
(***************************************************************************)
TypeOK == ControlOK /\ HistoryOK

(* The points of the tasks in a queue: the k-th of the i-th task.          *)
PointsOf(s) == UNION {{i} \X (1 .. Weight[s[i].m]) : i \in DOMAIN s}

(***************************************************************************)
(* The queue's account of its points is exact, so that neither limit can   *)
(* be passed and the subtraction that tests the second never wraps.        *)
(***************************************************************************)
QueueIsBounded ==
  /\ Len(tasks) <= MaxTasks
  /\ queuedPoints <= MaxPoints
  /\ queuedPoints = Cardinality(PointsOf(tasks))

(***************************************************************************)
(* The batches the evaluator counts as one run were submitted one right    *)
(* after the other: a batch that was refused, made void by a new time or   *)
(* not evaluated for an error is always told to the next that is.          *)
(***************************************************************************)
CountsAreContinuous == alarms.seen + 1 = alarms.first + alarms.count

(***************************************************************************)
(* Whatever fails, a sample the history has taken is in the database or    *)
(* still on its way there, until a newer one of its bucket replaces it,    *)
(* the backlog is full, the type wants no history any more, the time       *)
(* changes or the last write of a service that stops fails.                *)
(***************************************************************************)
OnItsWay(m, b, n) ==
  \/ stop # "stopped" /\ b \in DOMAIN pending[m] /\ pending[m][b].n = n
  \/ stop \in {"flushing", "writing"} /\ b \in DOMAIN flushed.records[m] /\ flushed.records[m][b].n = n

LatestIsKept ==
  \A m \in Masters, b \in Buckets :
    latest[m][b] # 0 => table[m][b].n = latest[m][b] \/ OnItsWay(m, b, latest[m][b])

(***************************************************************************)
(* After a change of time nothing queued before it becomes pending again.  *)
(***************************************************************************)
PendingIsCurrent ==
  \A m \in Masters : \A b \in DOMAIN pending[m] : pending[m][b].gen = generation

(***************************************************************************)
(* What is written belongs to the time in force.  Only the last write of a *)
(* service that stops may bring what was taken before a change of time: it *)
(* compares the generation before it writes, without the epoch's lock.     *)
(***************************************************************************)
Rewritten(m, b) == table'[m][b] # table[m][b]

WrittenInItsTime ==
  \A m \in Masters, b \in Buckets :
    Rewritten(m, b) => table'[m][b].gen = generation \/ stop = "writing"

(***************************************************************************)
(* All three: the last sample of every bucket reaches the table, and       *)
(* before the last write no sample of a former time does.                  *)
(***************************************************************************)
BacklogIsRight == [](LatestIsKept /\ PendingIsCurrent) /\ [][WrittenInItsTime]_vars

(***************************************************************************)
(* What the documents say of a change of time: it clears the buckets that  *)
(* are not written yet, so that the old and the new time are not mixed.    *)
(* No sample of a former time is written, by whatever way.                 *)
(***************************************************************************)
TimesAreNotMixed ==
  [][\A m \in Masters, b \in Buckets : Rewritten(m, b) => table'[m][b].gen = generation]_vars

(***************************************************************************)
(* No batch comes to a queue that does not accept it any more: such a one  *)
(* would be lost without leaving a gap.                                    *)
(***************************************************************************)
NothingComesLate ==
  ~accepting => \A m \in Masters : worker[m].at = "ended"

(***************************************************************************)
(* A service that was asked to stop does stop.                             *)
(***************************************************************************)
StopEnds == stop = "joining" ~> stop = "stopped"
=============================================================================
