--------------------------- MODULE AlarmEvaluator ---------------------------
(***************************************************************************)
(* The alarm state machine of the backend (AlarmEvaluator) together with   *)
(* the three SQLite tables it owns (AlarmStore: alarm_rules,               *)
(* alarm_runtime_states, alarm_event_outbox) and the persistence worker    *)
(* that feeds it (PollingService::enqueue_persistence).                    *)
(*                                                                         *)
(* A sample is abstracted to where it lies with respect to the thresholds  *)
(* of the current rule (Readings); a timestamp to a value of 1..MaxTime.   *)
(* Every public operation of AlarmEvaluator holds mutation_mutex_ from     *)
(* beginning to end, so one operation is one action.  What can come        *)
(* between operations is a crash, a store failure, a lost batch, a         *)
(* restart of the polling service, an edit of the configuration and an     *)
(* import of a configuration package.                                      *)
(***************************************************************************)
EXTENDS Naturals

CONSTANTS
  Points,        (* alarm keys: a device and the key of one of its points  *)
  Masters,       (* the point sets that are sampled together               *)
  Rules,         (* the rules an operator may save                         *)
  MaxCount,      (* bound: largest trigger_count or recovery_count in use  *)
  MaxTime,       (* bound: largest timestamp                               *)
  ClockMaySlip   (* may the system clock be set back?                      *)

NoRule == [enabled |-> FALSE, high |-> FALSE, low |-> FALSE, trigger |-> 0, recovery |-> 0]

ValidRule(r) ==
  /\ r.enabled \in BOOLEAN /\ r.high \in BOOLEAN /\ r.low \in BOOLEAN
  /\ r.trigger \in 1..MaxCount
  /\ r.recovery \in 1..MaxCount
  /\ r.enabled => (r.high \/ r.low)

ASSUME BoundsAssumption ==
  /\ MaxCount \in Nat \ {0}
  /\ MaxTime \in Nat \ {0}
  /\ ClockMaySlip \in BOOLEAN

ASSUME PointsAssumption == Masters \subseteq SUBSET Points

ASSUME RulesAssumption ==
  /\ Rules \subseteq [enabled : BOOLEAN, high : BOOLEAN, low : BOOLEAN,
                      trigger : Nat, recovery : Nat]
  /\ \A r \in Rules : ValidRule(r)

(* "low" and "high" breach a threshold, "mid" is inside both recovery      *)
(* boundaries, "band" is inside the thresholds but within the hysteresis   *)
(* of both; "bad" stands for a missing, invalid or offline point.          *)
Readings == {"low", "band", "mid", "high", "bad"}

(* The "normal" state of an alarm: no row in alarm_runtime_states.         *)
NoAlarm == [phase |-> "none", dir |-> "none", trig |-> 0, rec |-> 0,
            since |-> 0, eval |-> 0, upd |-> 0, acked |-> FALSE]

VARIABLES
  up,         (* the process runs and the evaluator is initialized         *)
  rules,      (* rules_                                                    *)
  states,     (* states_                                                   *)
  contexts,   (* contexts_: the points the evaluator knows                 *)
  config,     (* the summary points of system_config_                      *)
  dbRules,    (* table alarm_rules                                         *)
  dbStates,   (* table alarm_runtime_states                                *)
  topology,   (* the summary points of the stored configuration            *)
  gap,        (* PollingService::persistence_alarm_gap_                    *)
  stage,      (* progress of a configuration change: see Stages            *)
  saved,      (* what an import copied before it replaced the tables       *)
  clock,      (* system time                                               *)
  journal,    (* history: the last event of each point in the outbox       *)
  silent,     (* history: points that changed without an event             *)
  run,        (* history: the unbroken run of like rounds of each point    *)
  carried,    (* history: points whose counts outlived a lost round        *)
  bypassed    (* history: what last wrote the tables past the evaluator    *)

store  == <<dbRules, dbStates, topology>>
memory == <<rules, states, contexts, config>>
vars == <<up, rules, states, contexts, config, dbRules, dbStates, topology, gap,
          stage, saved, clock, journal, silent, run, carried, bypassed>>

(* "no": no change in progress.  "edit": the polling service is stopped    *)
(* and the changed configuration is stored.  "wipe": a factory reset has   *)
(* loaded it and empties the tables.  "drain": an import has switched      *)
(* events off and waits for the polling service to stop.  "import": its    *)
(* transaction has committed.  "trial": the imported configuration runs,   *)
(* and events are still switched off.                                      *)
Stages == {"no", "edit", "wipe", "drain", "import", "trial"}

Muted == stage \in {"drain", "import", "trial"}

NoCopy == [valid |-> FALSE, replaced |-> FALSE, topology |-> {},
           rules |-> [p \in Points |-> NoRule], states |-> [p \in Points |-> NoAlarm]]

(***************************************************************************)
(* The state machine of one point.                                         *)
(***************************************************************************)
Later(a, b) == IF a < b THEN b ELSE a

Breach(rule, reading) ==
  IF rule.high /\ reading = "high" THEN "high"
  ELSE IF rule.low /\ reading = "low" THEN "low" ELSE "none"

BeyondRecovery(dir, reading) ==
  reading \in IF dir = "high" THEN {"mid", "low"} ELSE {"mid", "high"}

(* What evaluating one point does: the next state, the event it plans and  *)
(* whether the state has to be written (must_persist).                     *)
Outcome(s, event, durable) == [state |-> s, event |-> event, durable |-> durable]

Raised(s, rule, ts) ==
  IF s.trig >= rule.trigger THEN
    Outcome([s EXCEPT !.phase = "active", !.since = ts], "trigger", TRUE)
  ELSE Outcome(s, "none", TRUE)

(* A point without a state: the first breach opens a pending alarm, or an  *)
(* active one when the rule asks for a single sample.                      *)
EvaluateNormal(rule, reading, ts) ==
  LET dir == Breach(rule, reading) IN
  IF dir = "none" THEN Outcome(NoAlarm, "none", FALSE)
  ELSE Raised([NoAlarm EXCEPT !.phase = "pending", !.dir = dir, !.trig = 1,
                              !.eval = ts, !.upd = ts], rule, ts)

(* Mutation: a change of direction does not restart the count.             *)
EvaluatePendingEitherWay(s, rule, reading, ts) ==
  LET dir == Breach(rule, reading) IN
  IF dir = "none" THEN Outcome(NoAlarm, "none", TRUE)
  ELSE Raised([s EXCEPT !.dir = dir, !.eval = ts, !.upd = ts, !.trig = s.trig + 1], rule, ts)

EvaluatePending(s, rule, reading, ts) ==
  LET dir == Breach(rule, reading) IN
  IF dir = "none" THEN Outcome(NoAlarm, "none", TRUE)
  ELSE Raised([s EXCEPT !.dir = dir, !.eval = ts, !.upd = ts,
                        !.trig = IF dir = s.dir THEN s.trig + 1 ELSE 1], rule, ts)

(* Mutation: a recovery count that starts over is not written.             *)
EvaluateActiveUnsaved(s, rule, reading, ts) ==
  LET seen == [s EXCEPT !.eval = ts, !.upd = Later(ts, s.upd)] IN
  IF BeyondRecovery(s.dir, reading) THEN
    IF s.rec + 1 >= rule.recovery THEN Outcome(NoAlarm, "recovery", TRUE)
    ELSE Outcome([seen EXCEPT !.trig = 0, !.rec = s.rec + 1], "none", TRUE)
  ELSE Outcome([seen EXCEPT !.rec = 0], "none", FALSE)

EvaluateActive(s, rule, reading, ts) ==
  LET seen == [s EXCEPT !.eval = ts, !.upd = Later(ts, s.upd)] IN
  IF BeyondRecovery(s.dir, reading) THEN
    IF s.rec + 1 >= rule.recovery THEN Outcome(NoAlarm, "recovery", TRUE)
    ELSE Outcome([seen EXCEPT !.trig = 0, !.rec = s.rec + 1], "none", TRUE)
  ELSE Outcome([seen EXCEPT !.rec = 0], "none", s.rec # 0)

(* A sample older than the last one evaluated is ignored.                  *)
EvaluatePoint(s, rule, reading, ts) ==
  IF s.phase # "none" /\ ts < s.eval THEN Outcome(s, "none", FALSE)
  ELSE CASE s.phase = "none"    -> EvaluateNormal(rule, reading, ts)
         [] s.phase = "pending" -> EvaluatePending(s, rule, reading, ts)
         [] s.phase = "active"  -> EvaluateActive(s, rule, reading, ts)

(* Mutation: the gap discards pending alarms only.                         *)
AfterGapPendingOnly(s) ==
  IF s.phase = "pending" THEN Outcome(NoAlarm, "none", TRUE) ELSE Outcome(s, "none", FALSE)

(* A sampling gap discards a pending alarm and every running count.        *)
AfterGap(s) ==
  CASE s.phase = "none"    -> Outcome(NoAlarm, "none", FALSE)
    [] s.phase = "pending" -> Outcome(NoAlarm, "none", TRUE)
    [] s.phase = "active"  -> Outcome([s EXCEPT !.trig = 0, !.rec = 0], "none", TRUE)

(* A bad, missing or offline point discards a pending alarm and a running  *)
(* recovery count, unless the status is older than the state.              *)
Interrupt(s, ts) ==
  IF s.phase = "none" \/ ts < s.eval THEN Outcome(s, "none", FALSE)
  ELSE IF s.phase = "pending" THEN Outcome(NoAlarm, "none", TRUE)
  ELSE IF s.rec = 0 THEN Outcome(s, "none", FALSE)
  ELSE Outcome([s EXCEPT !.rec = 0, !.eval = ts, !.upd = Later(s.upd, ts)], "none", TRUE)

(***************************************************************************)
(* The history variables.                                                  *)
(***************************************************************************)
Broken == [dir |-> "none", n |-> 0, calm |-> 0]

Counted(n) == IF n < MaxCount THEN n + 1 ELSE n

(* The run of a point after a round in which it read as given.             *)
Longer(old, s, rule, reading) ==
  LET dir == Breach(rule, reading) IN
  [dir  |-> dir,
   n    |-> IF dir = "none" THEN 0 ELSE IF dir = old.dir THEN Counted(old.n) ELSE 1,
   calm |-> IF s.phase = "active" /\ BeyondRecovery(s.dir, reading)
            THEN Counted(old.calm) ELSE 0]

(* A state that remembers part of a run.                                   *)
Counting(s) == s.phase = "pending" \/ s.rec > 0

(* The counts of the points in more now span a lost round.                 *)
Carry(more, st) == carried' = {p \in carried \cup more : Counting(st[p])}

(***************************************************************************)
(* A batch of the persistence queue: the statuses of the devices of one    *)
(* master, evaluated with the gap flag and committed in one transaction.   *)
(***************************************************************************)
Watched(p) == p \in contexts /\ rules[p].enabled

(* The gap flag takes effect on every point before the samples do.         *)
Before(p) == IF gap THEN AfterGap(states[p]) ELSE Outcome(states[p], "none", FALSE)

Sampled(m, r, p) ==
  LET s == Before(p).state IN
  IF p \notin m \/ (r[p] # "bad" /\ ~Watched(p)) THEN Outcome(s, "none", FALSE)
  ELSE IF r[p] = "bad" THEN Interrupt(s, clock)
  ELSE EvaluatePoint(s, rules[p], r[p], clock)

Durable(m, r, p) == Before(p).durable \/ Sampled(m, r, p).durable

(* A sample older than the state it meets is no round.                     *)
RunAfter(m, r, p) ==
  LET s == Before(p).state IN
  IF p \notin m \/ (s.phase # "none" /\ clock < s.eval) THEN run[p]
  ELSE IF r[p] = "bad" \/ ~Watched(p) THEN Broken
  ELSE Longer(run[p], s, rules[p], r[p])

(* due: the active points whose last write is kActiveCheckpointInterval    *)
(* ago, written although nothing but the time of evaluation changed.       *)
EvaluateBatch ==
  /\ up /\ stage \in {"no", "drain", "trial"}
  /\ \E m \in Masters : \E r \in [m -> Readings] : \E due \in SUBSET m :
       LET written == {p \in Points :
             \/ Durable(m, r, p)
             \/ p \in due /\ r[p] # "bad" /\ Watched(p)
                /\ Sampled(m, r, p).state.phase = "active"}
           told == {p \in Points : Sampled(m, r, p).event # "none"}
       IN /\ states' = [p \in Points |-> Sampled(m, r, p).state]
          /\ dbStates' = [p \in Points |-> IF p \in written THEN states'[p]
                                                            ELSE dbStates[p]]
          /\ journal' = [p \in Points |-> IF p \in told /\ ~Muted
                                           THEN Sampled(m, r, p).event ELSE journal[p]]
          /\ silent' = IF Muted THEN silent \cup told ELSE silent \ told
          /\ run' = [p \in Points |-> RunAfter(m, r, p)]
  /\ gap' = FALSE
  /\ Carry({}, states')
  /\ UNCHANGED <<up, rules, contexts, config, dbRules, topology, stage, saved,
                 clock, bypassed>>

(* A batch is lost: the queue is full, the time generation has moved on,   *)
(* the transaction fails or the task throws.  The next batch that is       *)
(* evaluated carries the gap.                                              *)
LoseBatch ==
  /\ up /\ stage \in {"no", "drain", "trial"}
  /\ gap' = TRUE
  /\ \E m \in Masters : run' = [p \in Points |-> IF p \in m THEN Broken ELSE run[p]]
  /\ UNCHANGED <<up, memory, store, stage, saved, clock, journal, silent,
                 carried, bypassed>>

(***************************************************************************)
(* Clearing states: rows and memory together, with a recovery event for an *)
(* active alarm whose rule and context are known.                          *)
(***************************************************************************)
Cleared(st, C) == [p \in Points |-> IF p \in C THEN NoAlarm ELSE st[p]]

Erased(ru, D) == [p \in Points |-> IF p \in D THEN NoRule ELSE ru[p]]

(* Mutations: no event is planned; or one for a pending alarm as well.     *)
TellNothing(ru, st, ctx, C) == UNCHANGED <<journal, silent>>

TellPending(ru, st, ctx, C) ==
  /\ journal' = [p \in Points |-> IF p \in C /\ ~Muted THEN "recovery" ELSE journal[p]]
  /\ silent' = IF Muted THEN silent \cup C ELSE silent \ C

(* ru, st and ctx are what the evaluator knows while it clears C.          *)
TellRecovery(ru, st, ctx, C) ==
  LET ended == {p \in C : st[p].phase = "active"}
      told  == IF Muted THEN {} ELSE {p \in ended : ru[p] # NoRule /\ p \in ctx}
  IN /\ journal' = [p \in Points |-> IF p \in told THEN "recovery" ELSE journal[p]]
     /\ silent' = (silent \ told) \cup (ended \ told)

(***************************************************************************)
(* Operator commands; each is refused while a configuration is applied.    *)
(***************************************************************************)
Command == up /\ stage = "no"

(* The rule is stored and takes effect at once; then a state it no longer  *)
(* allows is cleared, and an active one rewritten with the new threshold.  *)
(* done = FALSE: the second write fails and the rule stays changed.        *)
Disallows(rule, s) ==
  \/ ~rule.enabled
  \/ s.dir = "high" /\ ~rule.high
  \/ s.dir = "low" /\ ~rule.low

(* Mutations: the time is taken from the clock as it is; or the new rule   *)
(* asks for a new acknowledgement.                                         *)
TouchedNow(s) == [s EXCEPT !.upd = clock]

TouchedAnew(s) == [s EXCEPT !.upd = Later(clock, s.eval), !.acked = FALSE]

Touched(s) == [s EXCEPT !.upd = Later(clock, s.eval)]

UpsertRule ==
  /\ Command
  /\ \E p \in config, rule \in Rules, done \in BOOLEAN :
       LET s == states[p]
           C == IF done /\ s.phase # "none" /\ Disallows(rule, s) THEN {p} ELSE {}
           touch == done /\ s.phase = "active" /\ ~Disallows(rule, s)
           After(st) == IF touch THEN [st EXCEPT ![p] = Touched(s)] ELSE Cleared(st, C)
       IN /\ rules' = [rules EXCEPT ![p] = rule]
          /\ dbRules' = [dbRules EXCEPT ![p] = rule]
          /\ contexts' = contexts \cup {p}
          /\ states' = After(states)
          /\ dbStates' = After(dbStates)
          /\ TellRecovery(rules', states, contexts', C)
          /\ Carry(IF Disallows(rule, s) THEN {p} ELSE {}, states')
  /\ UNCHANGED <<up, config, topology, gap, stage, saved, clock, run, bypassed>>

(* The state is cleared first; done = FALSE: the rule could not be deleted *)
(* and stays, in memory and in the table.                                  *)
DeleteRule ==
  /\ Command
  /\ \E p \in Points, done \in BOOLEAN :
       LET C == {p} \cap {q \in Points : states[q].phase # "none"}
           D == IF done THEN {p} ELSE {}
       IN /\ rules[p] # NoRule
          /\ states' = Cleared(states, C)
          /\ dbStates' = Cleared(dbStates, C)
          /\ rules' = Erased(rules, D)
          /\ dbRules' = Erased(dbRules, D)
          /\ contexts' = contexts \ D
          /\ TellRecovery(rules, states, contexts, C)
  /\ Carry({}, states')
  /\ UNCHANGED <<up, config, topology, gap, stage, saved, clock, run, bypassed>>

Acknowledge ==
  /\ Command
  /\ \E p \in contexts :
       LET acked == [states[p] EXCEPT !.acked = TRUE,
                                      !.upd = Later(states[p].upd, clock)]
       IN /\ states[p].phase = "active" /\ ~states[p].acked /\ rules[p].enabled
          /\ states' = [states EXCEPT ![p] = acked]
          /\ dbStates' = [dbStates EXCEPT ![p] = acked]
          /\ journal' = [journal EXCEPT ![p] = "ack"]
          /\ silent' = silent \ {p}
  /\ UNCHANGED <<up, rules, contexts, config, dbRules, topology, gap, stage, saved,
                 clock, run, carried, bypassed>>

(***************************************************************************)
(* synchronize_topology: rules of points that left the configuration go,   *)
(* each after its state, then the states no enabled rule covers.  The      *)
(* first write that fails ends it: D and C are the rules and the states    *)
(* removed so far, and only a complete pass adopts the new contexts.       *)
(***************************************************************************)
Orphans(ru, next) == {p \in Points : ru[p] # NoRule /\ p \notin next}

Stale(ru, st, next) ==
  {p \in Points : st[p].phase # "none" /\ (p \notin next \/ ~ru[p].enabled)}

Partial(ru, st, next, D, C) ==
  /\ D \subseteq Orphans(ru, next)
  /\ C \subseteq Stale(ru, st, next)
  /\ {p \in D : st[p].phase # "none"} \subseteq C
  /\ D # Orphans(ru, next) => \A p, q \in C \ D : p = q /\ p \in Orphans(ru, next)

Complete(ru, st, next, D, C) == D = Orphans(ru, next) /\ C = Stale(ru, st, next)

Synchronize(D, C) ==
  /\ Partial(rules, states, config', D, C)
  /\ rules' = Erased(rules, D)
  /\ dbRules' = Erased(dbRules, D)
  /\ states' = Cleared(states, C)
  /\ dbStates' = Cleared(dbStates, C)
  /\ contexts' = IF Complete(rules, states, config', D, C) THEN config' ELSE contexts
  /\ TellRecovery(rules, states, contexts, C)

(***************************************************************************)
(* Configuration changes.  A PollingService that is started again begins   *)
(* without a gap flag, whatever the one it replaces had to report.         *)
(***************************************************************************)
NewPollingService(st) ==
  /\ gap' = FALSE
  /\ Carry(IF gap THEN Points ELSE {}, st)

RestartPolling ==
  /\ Command
  /\ NewPollingService(states)
  /\ UNCHANGED <<up, memory, store, stage, saved, clock, journal, silent, run, bypassed>>

(* The polling service has stopped, the changed configuration is stored.   *)
EditTopology ==
  /\ Command
  /\ topology' \in SUBSET Points
  /\ stage' = "edit"
  /\ UNCHANGED <<up, memory, dbRules, dbStates, gap, saved, clock, journal,
                 silent, run, carried, bypassed>>

(* The stored configuration is compiled and replaces the running one.      *)
Reload(next) ==
  /\ config' = topology
  /\ \E D, C \in SUBSET Points : Synchronize(D, C)
  /\ NewPollingService(states')
  /\ stage' = next
  /\ UNCHANGED <<up, topology, saved, clock, run, bypassed>>

FinishEdit == up /\ stage = "edit" /\ Reload("no")

(* It does not compile: the old configuration is stored again, which may   *)
(* fail as well, and the old one goes on running.                          *)
AbandonEdit ==
  /\ up /\ stage = "edit"
  /\ topology' \in {topology, config}
  /\ stage' = "no"
  /\ NewPollingService(states)
  /\ UNCHANGED <<up, memory, dbRules, dbStates, saved, clock, journal, silent,
                 run, bypassed>>

(* A factory reset stores the empty default configuration and loads it;    *)
(* then it empties the tables and the outbox, each of which may fail, and  *)
(* only when all of it succeeded does the evaluator start afresh.          *)
ResetBegin == up /\ stage = "edit" /\ topology = {} /\ Reload("wipe")

FactoryReset ==
  /\ up /\ stage = "wipe"
  /\ \E wiped \in SUBSET {"rules", "states", "events", "history"} :
       LET all == wiped = {"rules", "states", "events", "history"} IN
       /\ dbRules' = IF "rules" \in wiped THEN Erased(dbRules, Points) ELSE dbRules
       /\ dbStates' = IF "states" \in wiped THEN Cleared(dbStates, Points) ELSE dbStates
       /\ journal' = IF "events" \in wiped THEN [p \in Points |-> "none"] ELSE journal
       /\ silent' = IF all THEN {} ELSE Points
       /\ rules' = IF all THEN dbRules' ELSE rules
       /\ states' = IF all THEN dbStates' ELSE states
       /\ contexts' = IF all THEN config ELSE contexts
       /\ bypassed' = IF all THEN "no" ELSE "reset"
  /\ Carry({}, states')
  /\ stage' = "no"
  /\ UNCHANGED <<up, config, topology, gap, saved, clock, run>>

(***************************************************************************)
(* Import of a configuration package.  Nothing of it calls the evaluator   *)
(* except the reload, which synchronizes the rules it has in memory.       *)
(***************************************************************************)
ImportBegin ==
  /\ Command
  /\ stage' = "drain"
  /\ UNCHANGED <<up, memory, store, gap, saved, clock, journal, silent, run,
                 carried, bypassed>>

(* A snapshot or the transaction fails: nothing was stored.                *)
ImportRefused ==
  /\ up /\ stage = "drain"
  /\ stage' = "trial"
  /\ saved' = NoCopy
  /\ NewPollingService(states)
  /\ UNCHANGED <<up, memory, store, clock, journal, silent, run, bypassed>>

(* One transaction over every configuration table; the alarm tables only   *)
(* when the package includes alarm rules, and then with no states.         *)
ImportCommit ==
  /\ up /\ stage = "drain"
  /\ topology' \in SUBSET Points
  /\ \E replaced \in BOOLEAN :
       /\ saved' = [valid |-> TRUE, replaced |-> replaced, topology |-> config,
                    rules |-> dbRules, states |-> dbStates]
       /\ bypassed' = IF replaced THEN "import" ELSE bypassed
       /\ IF replaced
          THEN /\ \E ru \in [topology' -> Rules \cup {NoRule}] :
                     dbRules' = [p \in Points |-> IF p \in topology' THEN ru[p] ELSE NoRule]
               /\ dbStates' = [p \in Points |-> NoAlarm]
          ELSE UNCHANGED <<dbRules, dbStates>>
  /\ stage' = "import"
  /\ UNCHANGED <<up, memory, gap, clock, journal, silent, run, carried>>

ImportReload == up /\ stage = "import" /\ Reload("trial")

(* The reload fails: the tables are put back when that succeeds, and the   *)
(* old configuration goes on running.                                      *)
PutBack ==
  /\ topology' = saved.topology
  /\ IF saved.replaced
     THEN dbRules' = saved.rules /\ dbStates' = saved.states
     ELSE UNCHANGED <<dbRules, dbStates>>

ImportAbandon ==
  /\ up /\ stage = "import"
  /\ IF saved.valid THEN PutBack \/ UNCHANGED store ELSE UNCHANGED store
  /\ stage' = "trial"
  /\ saved' = NoCopy
  /\ NewPollingService(states)
  /\ UNCHANGED <<up, memory, clock, journal, silent, run, bypassed>>

(* What follows the reload fails (polling, the Modbus server): the tables  *)
(* are put back and reloaded.                                              *)
ImportUndo ==
  /\ up /\ stage \in {"import", "trial"} /\ saved.valid
  /\ PutBack
  /\ stage' = "import"
  /\ saved' = NoCopy
  /\ UNCHANGED <<up, memory, gap, clock, journal, silent, run, carried, bypassed>>

ImportEnd ==
  /\ up /\ stage = "trial"
  /\ stage' = "no"
  /\ saved' = NoCopy
  /\ UNCHANGED <<up, memory, store, gap, clock, journal, silent, run, carried, bypassed>>

(***************************************************************************)
(* The process and the clock.                                              *)
(***************************************************************************)
Activity(s) == <<s.phase = "active", s.acked>>

Counts(s) == <<s.phase, s.dir, s.trig, s.rec>>

(* The rows outlive the process; what the evaluator knew otherwise is lost.*)
Down(rows, kept) ==
  /\ up' = FALSE
  /\ dbStates' = rows
  /\ rules' = [p \in Points |-> NoRule]
  /\ states' = [p \in Points |-> NoAlarm]
  /\ contexts' = {} /\ config' = {}
  /\ gap' = FALSE /\ stage' = "no" /\ saved' = NoCopy
  /\ carried' = {p \in Points : Counting(rows[p]) /\ p \notin kept}
  /\ silent' = silent \cup {p \in Points : Activity(rows[p]) # Activity(states[p])}
  /\ UNCHANGED <<dbRules, topology, clock, journal, bypassed>>

(* Batches already queued are lost with the process.                       *)
Crash == up /\ Down(dbStates, {}) /\ run' = [p \in Points |-> Broken]

(* Stopping drains the queue and save_now writes every state, if it can.   *)
Shutdown ==
  /\ Command
  /\ \E ok \in BOOLEAN :
       LET rows == [p \in Points |-> IF ok /\ states[p].phase # "none"
                                     THEN states[p] ELSE dbStates[p]]
       IN Down(rows, {p \in Points \ carried : ~gap /\ Counts(rows[p]) = Counts(states[p])})
  /\ UNCHANGED run

(* The tables are loaded, the contexts set from the stored configuration,  *)
(* and then synchronized with it; if that fails the process exits.         *)
Restart ==
  /\ ~up
  /\ \E D, C \in SUBSET Points :
       LET complete == Complete(dbRules, dbStates, topology, D, C) IN
       /\ Partial(dbRules, dbStates, topology, D, C)
       /\ dbRules' = Erased(dbRules, D)
       /\ dbStates' = Cleared(dbStates, C)
       /\ TellRecovery(dbRules, dbStates, topology, C)
       /\ up' = complete
       /\ IF complete
          THEN /\ rules' = dbRules' /\ states' = dbStates'
               /\ contexts' = topology /\ config' = topology
               /\ bypassed' = "no"
          ELSE UNCHANGED <<memory, bypassed>>
  /\ Carry({}, dbStates')
  /\ UNCHANGED <<topology, gap, stage, saved, clock, run>>

AdvanceClock ==
  /\ clock < MaxTime
  /\ clock' = clock + 1
  /\ UNCHANGED <<up, memory, store, gap, stage, saved, journal, silent, run,
                 carried, bypassed>>

SlipClock ==
  /\ ClockMaySlip /\ clock > 1
  /\ clock' \in 1..(clock - 1)
  /\ UNCHANGED <<up, memory, store, gap, stage, saved, journal, silent, run,
                 carried, bypassed>>

Init ==
  /\ up = FALSE
  /\ rules = [p \in Points |-> NoRule] /\ dbRules = rules
  /\ states = [p \in Points |-> NoAlarm] /\ dbStates = states
  /\ contexts = {} /\ config = {} /\ topology = Points
  /\ gap = FALSE /\ stage = "no" /\ saved = NoCopy
  /\ clock = 1
  /\ journal = [p \in Points |-> "none"]
  /\ silent = {} /\ carried = {}
  /\ run = [p \in Points |-> Broken]
  /\ bypassed = "no"

Next ==
  \/ EvaluateBatch \/ LoseBatch
  \/ UpsertRule \/ DeleteRule \/ Acknowledge
  \/ RestartPolling \/ EditTopology \/ FinishEdit \/ AbandonEdit
  \/ ResetBegin \/ FactoryReset
  \/ ImportBegin \/ ImportRefused \/ ImportCommit \/ ImportReload
  \/ ImportAbandon \/ ImportUndo \/ ImportEnd
  \/ Crash \/ Shutdown \/ Restart
  \/ AdvanceClock \/ SlipClock

Spec == Init /\ [][Next]_vars

(* As long as nobody writes the tables past the evaluator: no import is    *)
(* begun, and no factory reset fails half-way.                             *)
NobodyBypasses == stage' # "drain" /\ bypassed' = "no"

UndisturbedSpec == Init /\ [][Next /\ NobodyBypasses]_vars

-----------------------------------------------------------------------------
Directions == {"none", "high", "low"}

AlarmStates ==
  [phase : {"none", "pending", "active"}, dir : Directions, trig : 0..MaxCount,
   rec : 0..MaxCount, since : 0..MaxTime, eval : 0..MaxTime, upd : 0..MaxTime,
   acked : BOOLEAN]

RuleTables  == [Points -> Rules \cup {NoRule}]
StateTables == [Points -> AlarmStates]

(* Every variable keeps its type, the counters within their bounds.        *)
TypeOK ==
  /\ up \in BOOLEAN /\ gap \in BOOLEAN
  /\ bypassed \in {"no", "import", "reset"}
  /\ stage \in Stages
  /\ rules \in RuleTables /\ dbRules \in RuleTables
  /\ states \in StateTables /\ dbStates \in StateTables
  /\ contexts \in SUBSET Points /\ config \in SUBSET Points
  /\ topology \in SUBSET Points
  /\ saved \in [valid : BOOLEAN, replaced : BOOLEAN, topology : SUBSET Points,
                rules : RuleTables, states : StateTables]
  /\ clock \in 1..MaxTime
  /\ journal \in [Points -> {"none", "trigger", "ack", "recovery"}]
  /\ silent \in SUBSET Points /\ carried \in SUBSET Points
  /\ run \in [Points -> [dir : Directions, n : 0..MaxCount, calm : 0..MaxCount]]

(* valid_runtime_state: what AlarmStore refuses to write.  One such state  *)
(* would make every transaction that contains it fail, again and again.    *)
ValidState(s) ==
  /\ s.eval <= s.upd
  /\ s.acked => s.phase = "active"
  /\ s.phase = "none" => s = NoAlarm
  /\ s.phase # "none" => s.dir # "none" /\ s.eval > 0
  /\ s.phase = "pending" => s.since = 0 /\ s.trig > 0 /\ s.rec = 0
  /\ s.phase = "active" => 0 < s.since /\ s.since <= s.eval /\ (s.trig = 0 \/ s.rec = 0)

(* No sequence of samples, commands, clock changes, restarts and imports   *)
(* leads the evaluator to a state its own store refuses to save, nor the   *)
(* table to a row it could not write back.                                 *)
StatesAreValid ==
  \A p \in Points : ValidState(states[p]) /\ ValidState(dbStates[p])

(* What a crash at any instant would bring back is what the evaluator now  *)
(* believes: the same rules, and for every point the same phase, counts,   *)
(* activation time and acknowledgement (only the times of evaluation may   *)
(* lag behind), unless an import or a half-way factory reset has written   *)
(* the tables past it.                                                     *)
Kept(s) == <<s.phase, s.dir, s.trig, s.rec, s.since, s.acked>>

MemoryIsDurable ==
  up /\ bypassed = "no" =>
    rules = dbRules /\ \A p \in Points : Kept(states[p]) = Kept(dbStates[p])

(* A rule in memory always has the context evaluate_batch looks up, so no  *)
(* rule is silently left out of the evaluation, and every alarm state      *)
(* still has its rule, whichever step of a command failed.                 *)
RulesAreWatched ==
  up => \A p \in Points : /\ rules[p] # NoRule => p \in contexts
                          /\ states[p].phase # "none" => rules[p] # NoRule

(* Whatever fails, is edited or is set back, the evaluator is never stuck  *)
(* with a state that cannot be written or a rule that is not evaluated.    *)
AlarmsAreSound == StatesAreValid /\ RulesAreWatched

(* The last event of a point in the outbox tells its state: raised,        *)
(* acknowledged or quiet, across crashes and partial failures, except      *)
(* where a change is known to have written no event.                       *)
Standing(p) == IF up THEN states[p] ELSE dbStates[p]

JournalTellsState ==
  \A p \in Points \ silent :
    /\ journal[p] = "trigger" <=> Standing(p).phase = "active" /\ ~Standing(p).acked
    /\ journal[p] = "ack" <=> Standing(p).acked

(* The counts the evaluator acts on never exceed the unbroken run of       *)
(* rounds that earned them, unless they were carried across a lost round.  *)
Earned(s, r) ==
  /\ s.phase = "pending" => s.dir = r.dir /\ s.trig <= r.n
  /\ s.phase = "active" => s.rec <= r.calm

CountsAreEarned ==
  ~gap => \A p \in Points \ carried : Earned(Standing(p), run[p])

(* An alarm is raised by trigger_count rounds beyond the same threshold.   *)
RaisedBy(p) ==
  states[p].phase # "active" /\ states'[p].phase = "active" =>
    \/ p \in carried
    \/ run'[p].dir = states'[p].dir /\ run'[p].n >= rules[p].trigger

(* A batch ends one by recovery_count rounds within the recovery boundary. *)
EndedBy(p) ==
  states[p].phase = "active" /\ states'[p].phase # "active" =>
    p \in carried \/ run'[p].calm >= rules[p].recovery

(* An alarm is raised, and ended by a batch, only by as many unbroken      *)
(* rounds as its rule demands, although batches are lost, transactions     *)
(* fail, rules change and the process restarts in between; losing contact  *)
(* is no recovery.                                                         *)
ChangesAreEarned ==
  [][\A p \in Points : (up /\ up' => RaisedBy(p)) /\ (EvaluateBatch => EndedBy(p))]_vars

(* While an alarm stays active, its row keeps the activation time that     *)
(* identifies it and is never un-acknowledged, not even by a restart, as   *)
(* long as only the evaluator writes the tables.                           *)
SameAlarm(s, t) ==
  s.phase = "active" /\ t.phase = "active" => s.since = t.since /\ (s.acked => t.acked)

AlarmsKeepTheirIdentity ==
  [][bypassed = "no" => \A p \in Points : SameAlarm(dbStates[p], dbStates'[p])]_vars

(***************************************************************************)
(* The tables implement AlarmLifecycle unless they are written past the    *)
(* evaluator.                                                              *)
(***************************************************************************)
Phase(s) ==
  IF s.phase # "active" THEN "quiet" ELSE IF s.acked THEN "acknowledged" ELSE "raised"

Lifecycle == INSTANCE AlarmLifecycle
  WITH alarm <- [p \in Points |-> Phase(dbStates[p])], told <- journal

(* Every alarm is raised, acknowledged and ended in that order, each with  *)
(* its event in the same transaction, whatever crashes or fails meanwhile. *)
ImplementsLifecycle == Lifecycle!Spec
=============================================================================
