------------------------ MODULE AlarmEvaluator_proofs -----------------------
(***************************************************************************)
(* Proofs about AlarmEvaluator for any set of points, masters and rules.   *)
(***************************************************************************)
EXTENDS AlarmEvaluator, TLAPS

(* A state the store accepts, with its counts still short of every bound.  *)
GoodState(s) ==
  /\ s \in AlarmStates
  /\ ValidState(s)
  /\ s.phase = "pending" => s.trig < MaxCount
  /\ s.rec < MaxCount

LEMMA RuleFacts ==
  ASSUME NEW r \in Rules
  PROVE  /\ r.enabled \in BOOLEAN /\ r.high \in BOOLEAN /\ r.low \in BOOLEAN
         /\ r.trigger \in 1..MaxCount /\ r.recovery \in 1..MaxCount
BY RulesAssumption DEF ValidRule

LEMMA NoAlarmIsGood == GoodState(NoAlarm)
BY BoundsAssumption DEF GoodState, NoAlarm, AlarmStates, ValidState, Directions

(* What a pending and an active state must look like.                      *)
LEMMA GoodPending ==
  ASSUME NEW s \in AlarmStates, s.phase = "pending", s.dir # "none", s.trig \in 1..MaxCount,
         s.trig < MaxCount, s.rec = 0, s.since = 0, s.eval > 0, s.eval <= s.upd, ~s.acked
  PROVE  GoodState(s)
BY BoundsAssumption DEF GoodState, ValidState, AlarmStates

LEMMA GoodActive ==
  ASSUME NEW s \in AlarmStates, s.phase = "active", s.dir # "none", s.rec < MaxCount,
         s.trig = 0 \/ s.rec = 0, s.since > 0, s.since <= s.eval, s.eval <= s.upd
  PROVE  GoodState(s)
BY BoundsAssumption DEF GoodState, ValidState, AlarmStates

(* Counting up to the trigger stops short of the bound.                    *)
LEMMA RaisedIsGood ==
  ASSUME NEW s \in AlarmStates, NEW rule \in Rules, NEW ts \in 1..MaxTime,
         s.phase = "pending", s.dir # "none", s.trig \in 1..MaxCount, s.rec = 0,
         s.since = 0, s.eval = ts, s.upd = ts, ~s.acked
  PROVE  GoodState(Raised(s, rule, ts).state)
<1> DEFINE t == [s EXCEPT !.phase = "active", !.since = ts]
<1>1. CASE s.trig >= rule.trigger
  <2>1. t \in AlarmStates
    BY BoundsAssumption DEF AlarmStates
  <2>2. /\ t.phase = "active" /\ t.since = ts /\ t.dir = s.dir
        /\ t.eval = ts /\ t.upd = ts /\ t.rec = 0
    BY DEF AlarmStates
  <2>3. Raised(s, rule, ts).state = t
    BY <1>1 DEF Raised, Outcome
  <2> HIDE DEF t
  <2>4. t.rec < MaxCount /\ t.since > 0 /\ t.since <= t.eval /\ t.eval <= t.upd
    BY <2>2, BoundsAssumption
  <2> QED BY <2>1, <2>2, <2>3, <2>4, GoodActive
<1>2. CASE ~(s.trig >= rule.trigger)
  <2>1. s.trig < MaxCount
    BY <1>2, RuleFacts, BoundsAssumption
  <2>2. GoodState(s)
    BY <2>1, GoodPending, BoundsAssumption
  <2> QED BY <1>2, <2>2 DEF Raised, Outcome
<1> QED BY <1>1, <1>2

LEMMA EvaluateNormalIsGood ==
  ASSUME NEW rule \in Rules, NEW reading \in Readings, NEW ts \in 1..MaxTime
  PROVE  GoodState(EvaluateNormal(rule, reading, ts).state)
<1> DEFINE dir == Breach(rule, reading)
           s == [NoAlarm EXCEPT !.phase = "pending", !.dir = dir, !.trig = 1,
                                !.eval = ts, !.upd = ts]
<1>1. EvaluateNormal(rule, reading, ts) =
        IF dir = "none" THEN Outcome(NoAlarm, "none", FALSE) ELSE Raised(s, rule, ts)
  BY DEF EvaluateNormal
<1>2. dir \in {"high", "low", "none"}
  BY DEF Breach
<1> HIDE DEF dir
<1>3. dir \in Directions /\ 1 \in 0..MaxCount /\ ts \in 0..MaxTime
  BY <1>2, BoundsAssumption DEF Directions
<1>4. /\ s.phase = "pending" /\ s.dir = dir /\ s.trig = 1 /\ s.rec = 0
      /\ s.since = 0 /\ s.eval = ts /\ s.upd = ts /\ ~s.acked
  BY DEF NoAlarm
<1>5. s \in AlarmStates
  BY <1>3, NoAlarmIsGood DEF AlarmStates, GoodState
<1> HIDE DEF s
<1>6. CASE dir = "none"
  BY <1>1, <1>6, NoAlarmIsGood DEF Outcome
<1>7. CASE dir # "none"
  <2>1. s.trig \in 1..MaxCount
    BY <1>4, BoundsAssumption
  <2>2. GoodState(Raised(s, rule, ts).state)
    BY <1>4, <1>5, <1>7, <2>1, RaisedIsGood
  <2> QED BY <1>1, <1>7, <2>2
<1> QED BY <1>6, <1>7

LEMMA EvaluatePendingIsGood ==
  ASSUME NEW s, GoodState(s), s.phase = "pending",
         NEW rule \in Rules, NEW reading \in Readings, NEW ts \in 1..MaxTime
  PROVE  GoodState(EvaluatePending(s, rule, reading, ts).state)
<1> DEFINE dir == Breach(rule, reading)
           n == IF dir = s.dir THEN s.trig + 1 ELSE 1
           t == [s EXCEPT !.dir = dir, !.eval = ts, !.upd = ts, !.trig = n]
<1>1. EvaluatePending(s, rule, reading, ts) =
        IF dir = "none" THEN Outcome(NoAlarm, "none", TRUE) ELSE Raised(t, rule, ts)
  BY DEF EvaluatePending
<1>2. dir \in {"high", "low", "none"}
  BY DEF Breach
<1> HIDE DEF dir
<1>3. /\ s \in AlarmStates /\ s.trig \in 1..(MaxCount - 1) /\ s.rec = 0
      /\ s.since = 0 /\ ~s.acked
  BY BoundsAssumption DEF GoodState, ValidState, AlarmStates
<1>4. n \in 1..MaxCount /\ n \in 0..MaxCount
  BY <1>3, BoundsAssumption
<1> HIDE DEF n
<1>5. t \in AlarmStates
  <2>1. s \in AlarmStates /\ dir \in Directions /\ n \in 0..MaxCount /\ ts \in 0..MaxTime
    BY <1>2, <1>3, <1>4, BoundsAssumption DEF Directions
  <2> QED BY <2>1 DEF AlarmStates
<1>6. /\ t.phase = "pending" /\ t.dir = dir /\ t.trig = n /\ t.rec = 0
      /\ t.since = 0 /\ t.eval = ts /\ t.upd = ts /\ ~t.acked
  BY <1>3 DEF AlarmStates
<1> HIDE DEF t
<1>7. CASE dir = "none"
  BY <1>1, <1>7, NoAlarmIsGood DEF Outcome
<1>8. CASE dir # "none"
  <2>1. GoodState(Raised(t, rule, ts).state)
    BY <1>4, <1>5, <1>6, <1>8, RaisedIsGood
  <2> QED BY <1>1, <1>8, <2>1
<1> QED BY <1>7, <1>8

(* What a good active state gives its successors.                          *)
LEMMA ActiveFacts ==
  ASSUME NEW s, GoodState(s), s.phase = "active"
  PROVE  /\ s \in AlarmStates /\ s.dir # "none"
         /\ s.eval \in 1..MaxTime /\ s.upd \in 1..MaxTime /\ s.since \in 1..MaxTime
         /\ s.since <= s.eval /\ s.eval <= s.upd
         /\ s.rec \in 0..(MaxCount - 1) /\ s.trig \in 0..MaxCount
         /\ s.trig = 0 \/ s.rec = 0
BY BoundsAssumption DEF GoodState, ValidState, AlarmStates

LEMMA EvaluateActiveIsGood ==
  ASSUME NEW s, GoodState(s), s.phase = "active",
         NEW rule \in Rules, NEW reading \in Readings, NEW ts \in 1..MaxTime,
         ts >= s.eval
  PROVE  GoodState(EvaluateActive(s, rule, reading, ts).state)
<1> DEFINE late == Later(ts, s.upd)
           calm == [s EXCEPT !.eval = ts, !.upd = late, !.trig = 0, !.rec = s.rec + 1]
           loud == [s EXCEPT !.eval = ts, !.upd = late, !.rec = 0]
<1>1. late \in 1..MaxTime /\ ts <= late
  BY ActiveFacts, BoundsAssumption DEF Later
<1>2. EvaluateActive(s, rule, reading, ts).state \in {NoAlarm, loud}
        \cup (IF s.rec + 1 >= rule.recovery THEN {} ELSE {calm})
  BY ActiveFacts DEF EvaluateActive, Outcome, AlarmStates
<1> HIDE DEF late
<1>3. GoodState(loud)
  <2>1. loud \in AlarmStates
    <3>1. s \in AlarmStates /\ late \in 0..MaxTime /\ ts \in 0..MaxTime /\ 0 \in 0..MaxCount
      BY <1>1, ActiveFacts, BoundsAssumption
    <3> QED BY <3>1 DEF AlarmStates
  <2>2. /\ loud.phase = "active" /\ loud.dir = s.dir /\ loud.rec = 0
        /\ loud.since = s.since /\ loud.eval = ts /\ loud.upd = late
    BY ActiveFacts DEF AlarmStates
  <2> HIDE DEF loud
  <2> QED BY <1>1, <2>1, <2>2, ActiveFacts, GoodActive, BoundsAssumption
<1>4. ASSUME ~(s.rec + 1 >= rule.recovery) PROVE GoodState(calm)
  <2>1. s.rec + 1 \in 0..(MaxCount - 1)
    BY <1>4, RuleFacts, ActiveFacts, BoundsAssumption
  <2>2. calm \in AlarmStates
    <3>1. /\ s \in AlarmStates /\ late \in 0..MaxTime /\ ts \in 0..MaxTime
          /\ 0 \in 0..MaxCount /\ s.rec + 1 \in 0..MaxCount
      BY <1>1, <2>1, ActiveFacts, BoundsAssumption
    <3> QED BY <3>1 DEF AlarmStates
  <2>3. /\ calm.phase = "active" /\ calm.dir = s.dir /\ calm.rec = s.rec + 1 /\ calm.trig = 0
        /\ calm.since = s.since /\ calm.eval = ts /\ calm.upd = late
    BY ActiveFacts DEF AlarmStates
  <2> HIDE DEF calm
  <2> QED BY <1>1, <2>1, <2>2, <2>3, ActiveFacts, GoodActive, BoundsAssumption
<1> QED BY <1>2, <1>3, <1>4, NoAlarmIsGood

(* evaluate_point: a good state stays good.                                *)
LEMMA EvaluatePointIsGood ==
  ASSUME NEW s, GoodState(s), NEW rule \in Rules, NEW reading \in Readings,
         NEW ts \in 1..MaxTime
  PROVE  GoodState(EvaluatePoint(s, rule, reading, ts).state)
<1>1. s.phase \in {"none", "pending", "active"} /\ s.eval \in Nat /\ ts \in Nat
  BY BoundsAssumption DEF GoodState, AlarmStates
<1>2. CASE s.phase # "none" /\ ts < s.eval
  BY <1>1, <1>2 DEF EvaluatePoint, Outcome
<1>3. CASE s.phase = "none"
  BY <1>3, EvaluateNormalIsGood DEF EvaluatePoint
<1>4. CASE s.phase = "pending" /\ ts >= s.eval
  <2>1. ~(ts < s.eval)
    BY <1>1, <1>4
  <2>2. EvaluatePoint(s, rule, reading, ts) = EvaluatePending(s, rule, reading, ts)
    BY <1>4, <2>1 DEF EvaluatePoint
  <2> QED BY <1>4, <2>2, EvaluatePendingIsGood
<1>5. CASE s.phase = "active" /\ ts >= s.eval
  <2>1. ~(ts < s.eval)
    BY <1>1, <1>5
  <2>2. EvaluatePoint(s, rule, reading, ts) = EvaluateActive(s, rule, reading, ts)
    BY <1>5, <2>1 DEF EvaluatePoint
  <2> QED BY <1>5, <2>2, EvaluateActiveIsGood
<1> QED BY <1>1, <1>2, <1>3, <1>4, <1>5

LEMMA AfterGapIsGood ==
  ASSUME NEW s, GoodState(s)
  PROVE  GoodState(AfterGap(s).state)
<1> DEFINE t == [s EXCEPT !.trig = 0, !.rec = 0]
<1>1. s.phase \in {"none", "pending", "active"}
  BY DEF GoodState, AlarmStates
<1>2. CASE s.phase # "active"
  BY <1>1, <1>2, NoAlarmIsGood DEF AfterGap, Outcome
<1>3. CASE s.phase = "active"
  <2>1. AfterGap(s).state = t
    BY <1>3 DEF AfterGap, Outcome
  <2>2. t \in AlarmStates
    <3>1. s \in AlarmStates /\ 0 \in 0..MaxCount
      BY <1>3, ActiveFacts, BoundsAssumption
    <3> QED BY <3>1 DEF AlarmStates
  <2>3. /\ t.phase = "active" /\ t.dir = s.dir /\ t.rec = 0 /\ t.trig = 0
        /\ t.since = s.since /\ t.eval = s.eval /\ t.upd = s.upd
    BY <1>3, ActiveFacts DEF AlarmStates
  <2> HIDE DEF t
  <2> QED BY <1>3, <2>1, <2>2, <2>3, ActiveFacts, GoodActive, BoundsAssumption
<1> QED BY <1>2, <1>3

LEMMA InterruptIsGood ==
  ASSUME NEW s, GoodState(s), NEW ts \in 1..MaxTime
  PROVE  GoodState(Interrupt(s, ts).state)
<1> DEFINE late == Later(s.upd, ts)
           t == [s EXCEPT !.rec = 0, !.eval = ts, !.upd = late]
<1>1. s.phase \in {"none", "pending", "active"} /\ s.eval \in Nat /\ ts \in Nat
  BY BoundsAssumption DEF GoodState, AlarmStates
<1>2. CASE s.phase # "active" \/ ts < s.eval \/ s.rec = 0
  BY <1>1, <1>2, NoAlarmIsGood DEF Interrupt, Outcome
<1>3. CASE s.phase = "active" /\ ts >= s.eval /\ s.rec # 0
  <2>1. Interrupt(s, ts).state = t
    BY <1>1, <1>3 DEF Interrupt, Outcome
  <2>2. late \in 1..MaxTime /\ ts <= late
    BY <1>3, ActiveFacts, BoundsAssumption DEF Later
  <2> HIDE DEF late
  <2>3. t \in AlarmStates
    <3>1. s \in AlarmStates /\ 0 \in 0..MaxCount /\ ts \in 0..MaxTime /\ late \in 0..MaxTime
      BY <1>3, <2>2, ActiveFacts, BoundsAssumption
    <3> QED BY <3>1 DEF AlarmStates
  <2>4. /\ t.phase = "active" /\ t.dir = s.dir /\ t.rec = 0
        /\ t.since = s.since /\ t.eval = ts /\ t.upd = late
    BY <1>3, ActiveFacts DEF AlarmStates
  <2> HIDE DEF t
  <2> QED BY <1>3, <2>1, <2>2, <2>3, <2>4, ActiveFacts, GoodActive, BoundsAssumption
<1> QED BY <1>1, <1>2, <1>3

-----------------------------------------------------------------------------
(* The inductive invariant: every table, the copy an import keeps included,*)
(* holds good states only.                                                 *)
GoodTable(st) == st \in StateTables /\ \A p \in Points : GoodState(st[p])

IInv ==
  /\ TypeOK
  /\ GoodTable(states) /\ GoodTable(dbStates) /\ GoodTable(saved.states)

LEMMA NoStatesAreGood == GoodTable([p \in Points |-> NoAlarm])
BY NoAlarmIsGood DEF GoodTable, StateTables, GoodState

LEMMA NoCopyIsTyped ==
  /\ NoCopy \in [valid : BOOLEAN, replaced : BOOLEAN, topology : SUBSET Points,
                 rules : RuleTables, states : StateTables]
  /\ GoodTable(NoCopy.states)
BY NoStatesAreGood DEF NoCopy, RuleTables, GoodTable

LEMMA ClearedIsGood ==
  ASSUME NEW st, GoodTable(st), NEW C
  PROVE  GoodTable(Cleared(st, C))
BY NoAlarmIsGood DEF GoodTable, StateTables, GoodState, Cleared

LEMMA ErasedIsTyped ==
  ASSUME NEW ru \in RuleTables, NEW D
  PROVE  Erased(ru, D) \in RuleTables
BY DEF RuleTables, Erased

LEMMA TellRecoveryIsTyped ==
  ASSUME TypeOK, NEW ru, NEW st, NEW ctx, NEW C \in SUBSET Points,
         TellRecovery(ru, st, ctx, C)
  PROVE  /\ journal' \in [Points -> {"none", "trigger", "ack", "recovery"}]
         /\ silent' \in SUBSET Points
BY DEF TypeOK, TellRecovery

LEMMA CarryIsTyped ==
  ASSUME TypeOK, NEW more \in SUBSET Points, NEW st, Carry(more, st)
  PROVE  carried' \in SUBSET Points
BY DEF TypeOK, Carry

LEMMA WatchedRule ==
  ASSUME TypeOK, NEW p \in Points, Watched(p)
  PROVE  rules[p] \in Rules
BY DEF TypeOK, RuleTables, Watched, NoRule

LEMMA SampledIsGood ==
  ASSUME IInv, NEW m \in Masters, NEW r \in [m -> Readings], NEW p \in Points
  PROVE  GoodState(Before(p).state) /\ GoodState(Sampled(m, r, p).state)
<1> DEFINE s == Before(p).state
<1>1. GoodState(states[p]) /\ clock \in 1..MaxTime
  BY DEF IInv, GoodTable, TypeOK
<1>2. GoodState(s)
  <2>1. CASE gap
    BY <1>1, <2>1, AfterGapIsGood DEF Before
  <2>2. CASE ~gap
    BY <1>1, <2>2 DEF Before, Outcome
  <2> QED BY <2>1, <2>2
<1> HIDE DEF s
<1>3. CASE p \notin m \/ (r[p] # "bad" /\ ~Watched(p))
  BY <1>2, <1>3 DEF Sampled, Outcome, s
<1>4. CASE p \in m /\ r[p] = "bad"
  BY <1>1, <1>2, <1>4, InterruptIsGood DEF Sampled, s
<1>5. CASE p \in m /\ r[p] # "bad" /\ Watched(p)
  <2>1. rules[p] \in Rules /\ r[p] \in Readings
    BY <1>5, WatchedRule DEF IInv
  <2>2. Sampled(m, r, p) = EvaluatePoint(s, rules[p], r[p], clock)
    BY <1>5 DEF Sampled, s
  <2>3. GoodState(EvaluatePoint(s, rules[p], r[p], clock).state)
    BY <1>1, <1>2, <2>1, EvaluatePointIsGood
  <2> QED BY <1>2, <2>2, <2>3 DEF s
<1>6. GoodState(Sampled(m, r, p).state)
  BY <1>3, <1>4, <1>5
<1> QED BY <1>2, <1>6 DEF s

(* The event of a batch is one the journal knows.                          *)
LEMMA SampledEvents ==
  ASSUME NEW m, NEW r, NEW p, GoodState(Before(p).state)
  PROVE  Sampled(m, r, p).event \in {"none", "trigger", "recovery"}
<1> DEFINE Events == {"none", "trigger", "recovery"}
           s == Before(p).state
<1>1. ASSUME NEW t, NEW rule, NEW ts PROVE Raised(t, rule, ts).event \in Events
  BY DEF Raised, Outcome
<1>2. ASSUME NEW rule, NEW reading, NEW ts
      PROVE  EvaluateNormal(rule, reading, ts).event \in Events
  BY <1>1 DEF EvaluateNormal, Outcome
<1>3. ASSUME NEW rule, NEW reading, NEW ts
      PROVE  EvaluatePending(s, rule, reading, ts).event \in Events
  BY <1>1 DEF EvaluatePending, Outcome
<1>4. ASSUME NEW rule, NEW reading, NEW ts
      PROVE  EvaluateActive(s, rule, reading, ts).event \in Events
  BY DEF EvaluateActive, Outcome
<1>5. ASSUME NEW rule, NEW reading, NEW ts
      PROVE  EvaluatePoint(s, rule, reading, ts).event \in Events
  <2>1. s.phase \in {"none", "pending", "active"}
    BY DEF GoodState, AlarmStates
  <2>2. CASE s.phase # "none" /\ ts < s.eval
    BY <2>2 DEF EvaluatePoint, Outcome
  <2>3. CASE ~(s.phase # "none" /\ ts < s.eval)
    BY <1>2, <1>3, <1>4, <2>1, <2>3 DEF EvaluatePoint
  <2> QED BY <2>2, <2>3
<1>6. Interrupt(s, clock).event \in Events
  BY DEF Interrupt, Outcome
<1> QED BY <1>5, <1>6 DEF Sampled, Outcome

LEMMA RunIsTyped ==
  ASSUME IInv, NEW m \in Masters, NEW r \in [m -> Readings], NEW p \in Points
  PROVE  RunAfter(m, r, p) \in [dir : Directions, n : 0..MaxCount, calm : 0..MaxCount]
<1> DEFINE T == [dir : Directions, n : 0..MaxCount, calm : 0..MaxCount]
<1>1. run[p] \in T
  BY DEF IInv, TypeOK
<1>2. Broken \in T
  BY BoundsAssumption DEF Broken, Directions
<1>3. ASSUME NEW old \in T, NEW s, NEW rule, NEW reading
      PROVE  Longer(old, s, rule, reading) \in T
  <2> DEFINE dir == Breach(rule, reading)
             n == IF dir = "none" THEN 0 ELSE IF dir = old.dir THEN Counted(old.n) ELSE 1
             calm == IF s.phase = "active" /\ BeyondRecovery(s.dir, reading)
                     THEN Counted(old.calm) ELSE 0
  <2>1. dir \in Directions
    BY DEF Breach, Directions
  <2>2. Counted(old.n) \in 0..MaxCount /\ Counted(old.calm) \in 0..MaxCount
    BY BoundsAssumption DEF Counted
  <2>3. n \in 0..MaxCount /\ calm \in 0..MaxCount
    BY <2>2, BoundsAssumption
  <2>4. Longer(old, s, rule, reading) = [dir |-> dir, n |-> n, calm |-> calm]
    BY DEF Longer
  <2> HIDE DEF dir, n, calm
  <2> QED BY <2>1, <2>3, <2>4
<1> HIDE DEF T
<1> QED BY <1>1, <1>2, <1>3 DEF RunAfter, T

-----------------------------------------------------------------------------
(* One lemma per action, or per group of actions that write the same part. *)
LEMMA EvaluateBatchInv ==
  ASSUME IInv, EvaluateBatch
  PROVE  IInv'
<1>1. PICK m \in Masters : \E r \in [m -> Readings] : \E due \in SUBSET m :
        LET written == {p \in Points :
              \/ Durable(m, r, p)
              \/ p \in due /\ r[p] # "bad" /\ Watched(p)
                 /\ Sampled(m, r, p).state.phase = "active"}
            told == {p \in Points : Sampled(m, r, p).event # "none"}
        IN /\ states' = [p \in Points |-> Sampled(m, r, p).state]
           /\ dbStates' = [p \in Points |-> IF p \in written THEN states'[p]
                                                             ELSE dbStates[p]]
           /\ journal' = [p \in Points |-> IF p \in told /\ ~Muted
                                            THEN Sampled(m, r, p).event ELSE journal[p]]
           /\ silent' = IF Muted THEN silent \cup told ELSE silent \ told
           /\ run' = [p \in Points |-> RunAfter(m, r, p)]
  BY DEF EvaluateBatch
<1>2. PICK r \in [m -> Readings], written \in SUBSET Points, told \in SUBSET Points :
        /\ states' = [p \in Points |-> Sampled(m, r, p).state]
        /\ dbStates' = [p \in Points |-> IF p \in written THEN states'[p] ELSE dbStates[p]]
        /\ journal' = [p \in Points |-> IF p \in told /\ ~Muted
                                         THEN Sampled(m, r, p).event ELSE journal[p]]
        /\ silent' = IF Muted THEN silent \cup told ELSE silent \ told
        /\ run' = [p \in Points |-> RunAfter(m, r, p)]
        /\ told = {p \in Points : Sampled(m, r, p).event # "none"}
  BY <1>1
<1>3. GoodTable(states')
  BY <1>2, SampledIsGood DEF GoodTable, StateTables, GoodState
<1>4. GoodTable(dbStates')
  BY <1>2, <1>3 DEF GoodTable, StateTables, IInv
<1>5. /\ journal' \in [Points -> {"none", "trigger", "ack", "recovery"}]
      /\ silent' \in SUBSET Points
  <2>1. \A p \in told : Sampled(m, r, p).event \in {"trigger", "recovery"}
    BY <1>2, SampledIsGood, SampledEvents
  <2> QED BY <1>2, <2>1 DEF IInv, TypeOK
<1>6. run' \in [Points -> [dir : Directions, n : 0..MaxCount, calm : 0..MaxCount]]
  BY <1>2, RunIsTyped
<1>7. carried' \in SUBSET Points
  BY CarryIsTyped DEF EvaluateBatch, IInv
<1>8. /\ gap' = FALSE
      /\ UNCHANGED <<up, rules, contexts, config, dbRules, topology, stage, saved,
                     clock, bypassed>>
  BY DEF EvaluateBatch
<1> QED BY <1>3, <1>4, <1>5, <1>6, <1>7, <1>8 DEF IInv, TypeOK, GoodTable

(* Rewriting one state of a good table with a good one.                    *)
LEMMA OneStateIsGood ==
  ASSUME NEW st, GoodTable(st), NEW p \in Points, NEW s, GoodState(s)
  PROVE  GoodTable([st EXCEPT ![p] = s])
BY DEF GoodTable, StateTables, GoodState

(* Touching the update time of an active alarm, and acknowledging it.      *)
LEMMA TouchedIsGood ==
  ASSUME NEW s, GoodState(s), s.phase = "active", NEW u \in 1..MaxTime, s.eval <= u
  PROVE  /\ GoodState([s EXCEPT !.upd = u])
         /\ GoodState([s EXCEPT !.acked = TRUE, !.upd = u])
<1> DEFINE t == [s EXCEPT !.upd = u]
           a == [s EXCEPT !.acked = TRUE, !.upd = u]
<1>1. s \in AlarmStates /\ u \in 0..MaxTime
  BY BoundsAssumption DEF GoodState
<1>2. t \in AlarmStates /\ a \in AlarmStates
  BY <1>1 DEF AlarmStates
<1>3. /\ t.phase = "active" /\ t.dir = s.dir /\ t.rec = s.rec /\ t.trig = s.trig
      /\ t.since = s.since /\ t.eval = s.eval /\ t.upd = u
  BY <1>1 DEF AlarmStates
<1>4. /\ a.phase = "active" /\ a.dir = s.dir /\ a.rec = s.rec /\ a.trig = s.trig
      /\ a.since = s.since /\ a.eval = s.eval /\ a.upd = u
  BY <1>1 DEF AlarmStates
<1> HIDE DEF t, a
<1>5. GoodState(t)
  BY <1>2, <1>3, ActiveFacts, GoodActive, BoundsAssumption
<1>6. GoodState(a)
  BY <1>2, <1>4, ActiveFacts, GoodActive, BoundsAssumption
<1> QED BY <1>5, <1>6 DEF t, a

LEMMA LaterIsTyped ==
  ASSUME NEW a \in 0..MaxTime, NEW b \in 1..MaxTime
  PROVE  /\ Later(a, b) \in 1..MaxTime /\ Later(b, a) \in 1..MaxTime
         /\ a <= Later(a, b) /\ a <= Later(b, a)
BY BoundsAssumption DEF Later

LEMMA UpsertRuleInv ==
  ASSUME IInv, UpsertRule
  PROVE  IInv'
<1>1. PICK p \in config, rule \in Rules, done \in BOOLEAN :
       LET s == states[p]
           C == IF done /\ s.phase # "none" /\ Disallows(rule, s) THEN {p} ELSE {}
           touch == done /\ s.phase = "active" /\ ~Disallows(rule, s)
           After(st) == IF touch THEN [st EXCEPT ![p] = Touched(s)] ELSE Cleared(st, C)
       IN /\ rules' = [rules EXCEPT ![p] = rule]
          /\ dbRules' = [dbRules EXCEPT ![p] = rule]
          /\ contexts' = contexts \cup {p}
          /\ states' = After(states)
          /\ dbStates' = After(dbStates)
          /\ TellRecovery(rules', states, contexts', C)
          /\ Carry(IF Disallows(rule, s) THEN {p} ELSE {}, states')
  BY DEF UpsertRule
<1>2. p \in Points /\ GoodState(states[p]) /\ clock \in 1..MaxTime
  BY DEF IInv, TypeOK, GoodTable
<1>3. PICK C \in SUBSET Points, touch \in BOOLEAN, more \in SUBSET Points :
        /\ states' = IF touch THEN [states EXCEPT ![p] = Touched(states[p])]
                     ELSE Cleared(states, C)
        /\ dbStates' = IF touch THEN [dbStates EXCEPT ![p] = Touched(states[p])]
                       ELSE Cleared(dbStates, C)
        /\ touch => states[p].phase = "active"
        /\ TellRecovery(rules', states, contexts', C)
        /\ Carry(more, states')
  <2>1. /\ (IF done /\ states[p].phase # "none" /\ Disallows(rule, states[p])
            THEN {p} ELSE {}) \in SUBSET Points
        /\ (IF Disallows(rule, states[p]) THEN {p} ELSE {}) \in SUBSET Points
        /\ (done /\ states[p].phase = "active" /\ ~Disallows(rule, states[p])) \in BOOLEAN
    BY <1>2
  <2> QED BY <1>1, <2>1
<1>4. ASSUME touch PROVE GoodState(Touched(states[p]))
  <2>1. states[p].phase = "active" /\ states[p].eval \in 0..MaxTime
    BY <1>2, <1>3, <1>4 DEF GoodState, AlarmStates
  <2>2. /\ Later(clock, states[p].eval) \in 1..MaxTime
        /\ states[p].eval <= Later(clock, states[p].eval)
    BY <1>2, <2>1, LaterIsTyped
  <2> QED BY <1>2, <2>1, <2>2, TouchedIsGood DEF Touched
<1>5. GoodTable(states') /\ GoodTable(dbStates')
  BY <1>2, <1>3, <1>4, ClearedIsGood, OneStateIsGood DEF IInv
<1>6. rules' \in RuleTables /\ dbRules' \in RuleTables /\ contexts' \in SUBSET Points
  BY <1>1, <1>2 DEF IInv, TypeOK, RuleTables
<1>7. /\ journal' \in [Points -> {"none", "trigger", "ack", "recovery"}]
      /\ silent' \in SUBSET Points /\ carried' \in SUBSET Points
  BY <1>3, TellRecoveryIsTyped, CarryIsTyped DEF IInv
<1> QED BY <1>5, <1>6, <1>7 DEF UpsertRule, IInv, TypeOK, GoodTable

LEMMA DeleteRuleInv ==
  ASSUME IInv, DeleteRule
  PROVE  IInv'
<1>1. PICK C \in SUBSET Points, D \in SUBSET Points :
        /\ states' = Cleared(states, C)
        /\ dbStates' = Cleared(dbStates, C)
        /\ rules' = Erased(rules, D)
        /\ dbRules' = Erased(dbRules, D)
        /\ contexts' = contexts \ D
        /\ TellRecovery(rules, states, contexts, C)
  BY DEF DeleteRule
<1>2. GoodTable(states') /\ GoodTable(dbStates')
  BY <1>1, ClearedIsGood DEF IInv
<1>3. rules' \in RuleTables /\ dbRules' \in RuleTables
  BY <1>1, ErasedIsTyped DEF IInv, TypeOK
<1>4. /\ journal' \in [Points -> {"none", "trigger", "ack", "recovery"}]
      /\ silent' \in SUBSET Points /\ carried' \in SUBSET Points
  BY <1>1, TellRecoveryIsTyped, CarryIsTyped DEF IInv, DeleteRule
<1> QED BY <1>1, <1>2, <1>3, <1>4 DEF DeleteRule, IInv, TypeOK, GoodTable

LEMMA AcknowledgeInv ==
  ASSUME IInv, Acknowledge
  PROVE  IInv'
<1>1. PICK p \in contexts :
        LET acked == [states[p] EXCEPT !.acked = TRUE, !.upd = Later(states[p].upd, clock)]
        IN /\ states[p].phase = "active" /\ ~states[p].acked /\ rules[p].enabled
           /\ states' = [states EXCEPT ![p] = acked]
           /\ dbStates' = [dbStates EXCEPT ![p] = acked]
           /\ journal' = [journal EXCEPT ![p] = "ack"]
           /\ silent' = silent \ {p}
  BY DEF Acknowledge
<1> DEFINE u == Later(states[p].upd, clock)
           acked == [states[p] EXCEPT !.acked = TRUE, !.upd = u]
<1>2. /\ p \in Points /\ GoodState(states[p]) /\ states[p] \in AlarmStates
      /\ clock \in 1..MaxTime
  BY DEF IInv, TypeOK, GoodTable, GoodState
<1>3. u \in 1..MaxTime /\ states[p].eval <= u
  <2>1. /\ states[p].upd \in 1..MaxTime /\ states[p].eval \in 1..MaxTime
        /\ states[p].eval <= states[p].upd
    BY <1>1, <1>2, ActiveFacts
  <2> QED BY <1>2, <2>1, LaterIsTyped, BoundsAssumption DEF Later
<1> HIDE DEF u
<1>4. GoodState(acked)
  BY <1>1, <1>2, <1>3, TouchedIsGood
<1> HIDE DEF acked
<1>5. GoodTable(states') /\ GoodTable(dbStates')
  BY <1>1, <1>2, <1>4, OneStateIsGood DEF IInv, acked, u
<1>6. /\ journal' \in [Points -> {"none", "trigger", "ack", "recovery"}]
      /\ silent' \in SUBSET Points
  BY <1>1 DEF IInv, TypeOK
<1> QED BY <1>5, <1>6 DEF Acknowledge, IInv, TypeOK, GoodTable

LEMMA NewPollingServiceIsTyped ==
  ASSUME TypeOK, NEW st, NewPollingService(st)
  PROVE  gap' \in BOOLEAN /\ carried' \in SUBSET Points
BY CarryIsTyped DEF NewPollingService

LEMMA ReloadInv ==
  ASSUME IInv, NEW next \in Stages, Reload(next), UNCHANGED <<up, topology, saved, clock, run, bypassed>>
  PROVE  IInv'
<1>1. PICK D \in SUBSET Points, C \in SUBSET Points : Synchronize(D, C)
  BY DEF Reload
<1>2. GoodTable(states') /\ GoodTable(dbStates')
  BY <1>1, ClearedIsGood DEF IInv, Synchronize
<1>3. rules' \in RuleTables /\ dbRules' \in RuleTables
  BY <1>1, ErasedIsTyped DEF IInv, TypeOK, Synchronize
<1>4. /\ journal' \in [Points -> {"none", "trigger", "ack", "recovery"}]
      /\ silent' \in SUBSET Points
  BY <1>1, TellRecoveryIsTyped DEF IInv, Synchronize
<1>5. config' \in SUBSET Points /\ contexts' \in SUBSET Points
  BY <1>1 DEF Reload, Synchronize, IInv, TypeOK
<1>6. gap' \in BOOLEAN /\ carried' \in SUBSET Points /\ stage' = next
  BY NewPollingServiceIsTyped DEF Reload, IInv
<1> QED BY <1>2, <1>3, <1>4, <1>5, <1>6 DEF IInv, TypeOK, GoodTable

(* The steps that leave the rules, the states and their rows alone.        *)
LEMMA PollingInv ==
  ASSUME IInv, LoseBatch \/ RestartPolling
  PROVE  IInv'
<1>1. CASE LoseBatch
  <2>1. PICK m \in Masters : run' = [p \in Points |-> IF p \in m THEN Broken ELSE run[p]]
    BY <1>1 DEF LoseBatch
  <2>2. Broken \in [dir : Directions, n : 0..MaxCount, calm : 0..MaxCount]
    BY BoundsAssumption DEF Broken, Directions
  <2>3. run' \in [Points -> [dir : Directions, n : 0..MaxCount, calm : 0..MaxCount]]
    BY <2>1, <2>2 DEF IInv, TypeOK
  <2> QED BY <1>1, <2>3 DEF LoseBatch, memory, store, IInv, TypeOK, GoodTable
<1>2. CASE RestartPolling
  <2>1. gap' \in BOOLEAN /\ carried' \in SUBSET Points
    BY <1>2, NewPollingServiceIsTyped DEF RestartPolling, IInv
  <2> QED BY <1>2, <2>1 DEF RestartPolling, memory, store, IInv, TypeOK, GoodTable
<1> QED BY <1>1, <1>2

LEMMA EditInv ==
  ASSUME IInv, EditTopology \/ FinishEdit \/ AbandonEdit
  PROVE  IInv'
<1>1. CASE EditTopology
  BY <1>1 DEF EditTopology, memory, IInv, TypeOK, GoodTable, Stages
<1>2. CASE FinishEdit
  BY <1>2, ReloadInv DEF FinishEdit, Reload, Stages
<1>3. CASE AbandonEdit
  <2>1. gap' \in BOOLEAN /\ carried' \in SUBSET Points
    BY <1>3, NewPollingServiceIsTyped DEF AbandonEdit, IInv
  <2>2. topology' \in SUBSET Points /\ stage' \in Stages
    BY <1>3 DEF AbandonEdit, IInv, TypeOK, Stages
  <2> QED BY <1>3, <2>1, <2>2 DEF AbandonEdit, memory, IInv, TypeOK, GoodTable
<1> QED BY <1>1, <1>2, <1>3

LEMMA FactoryResetInv ==
  ASSUME IInv, ResetBegin \/ FactoryReset
  PROVE  IInv'
<1>1. CASE ResetBegin
  BY <1>1, ReloadInv DEF ResetBegin, Reload, Stages
<1>2. CASE FactoryReset
  <2>1. PICK D \in SUBSET Points, C \in SUBSET Points, E \in SUBSET Points, all \in BOOLEAN :
         /\ dbRules' = Erased(dbRules, D)
         /\ dbStates' = Cleared(dbStates, C)
         /\ journal' = [p \in Points |-> IF p \in E THEN "none" ELSE journal[p]]
         /\ silent' = IF all THEN {} ELSE Points
         /\ rules' = IF all THEN dbRules' ELSE rules
         /\ states' = IF all THEN dbStates' ELSE states
         /\ contexts' = IF all THEN config ELSE contexts
         /\ bypassed' = IF all THEN "no" ELSE "reset"
    <3>1. PICK wiped \in SUBSET {"rules", "states", "events", "history"} :
       LET all == wiped = {"rules", "states", "events", "history"} IN
       /\ dbRules' = IF "rules" \in wiped THEN Erased(dbRules, Points) ELSE dbRules
       /\ dbStates' = IF "states" \in wiped THEN Cleared(dbStates, Points) ELSE dbStates
       /\ journal' = IF "events" \in wiped THEN [p \in Points |-> "none"] ELSE journal
       /\ silent' = IF all THEN {} ELSE Points
       /\ rules' = IF all THEN dbRules' ELSE rules
       /\ states' = IF all THEN dbStates' ELSE states
       /\ contexts' = IF all THEN config ELSE contexts
       /\ bypassed' = IF all THEN "no" ELSE "reset"
      BY <1>2 DEF FactoryReset
    <3> DEFINE all == wiped = {"rules", "states", "events", "history"}
               D == IF "rules" \in wiped THEN Points ELSE {}
               C == IF "states" \in wiped THEN Points ELSE {}
               E == IF "events" \in wiped THEN Points ELSE {}
    <3>2. /\ Erased(dbRules, {}) = dbRules /\ Cleared(dbStates, {}) = dbStates
          /\ journal = [p \in Points |-> journal[p]]
      BY DEF IInv, TypeOK, RuleTables, StateTables, Erased, Cleared
    <3>3. /\ dbRules' = Erased(dbRules, D) /\ dbStates' = Cleared(dbStates, C)
          /\ journal' = [p \in Points |-> IF p \in E THEN "none" ELSE journal[p]]
      BY <3>1, <3>2
    <3>4. D \in SUBSET Points /\ C \in SUBSET Points /\ E \in SUBSET Points /\ all \in BOOLEAN
      OBVIOUS
    <3>5. /\ silent' = IF all THEN {} ELSE Points
          /\ rules' = IF all THEN dbRules' ELSE rules
          /\ states' = IF all THEN dbStates' ELSE states
          /\ contexts' = IF all THEN config ELSE contexts
          /\ bypassed' = IF all THEN "no" ELSE "reset"
      BY <3>1
    <3> HIDE DEF all, D, C, E
    <3> QED BY <3>3, <3>4, <3>5
  <2>2. GoodTable(dbStates') /\ dbRules' \in RuleTables
    BY <2>1, ClearedIsGood, ErasedIsTyped DEF IInv, TypeOK
  <2>3. /\ GoodTable(states') /\ rules' \in RuleTables /\ contexts' \in SUBSET Points
        /\ bypassed' \in {"no", "import", "reset"} /\ silent' \in SUBSET Points
    BY <2>1, <2>2 DEF IInv, TypeOK
  <2>4. journal' \in [Points -> {"none", "trigger", "ack", "recovery"}]
    BY <2>1 DEF IInv, TypeOK
  <2>5. carried' \in SUBSET Points
    BY <1>2, CarryIsTyped DEF FactoryReset, IInv
  <2>6. stage' = "no" /\ UNCHANGED <<up, config, topology, gap, saved, clock, run>>
    BY <1>2 DEF FactoryReset
  <2> QED BY <2>2, <2>3, <2>4, <2>5, <2>6 DEF IInv, TypeOK, GoodTable, Stages
<1> QED BY <1>1, <1>2

LEMMA ImportCommitInv ==
  ASSUME IInv, ImportCommit
  PROVE  IInv'
<1>1. PICK replaced \in BOOLEAN :
       /\ saved' = [valid |-> TRUE, replaced |-> replaced, topology |-> config,
                    rules |-> dbRules, states |-> dbStates]
       /\ bypassed' = IF replaced THEN "import" ELSE bypassed
       /\ IF replaced
          THEN /\ \E ru \in [topology' -> Rules \cup {NoRule}] :
                     dbRules' = [p \in Points |-> IF p \in topology' THEN ru[p] ELSE NoRule]
               /\ dbStates' = [p \in Points |-> NoAlarm]
          ELSE UNCHANGED <<dbRules, dbStates>>
  BY DEF ImportCommit
<1>2. topology' \in SUBSET Points /\ stage' \in Stages
  BY DEF ImportCommit, Stages
<1>3. bypassed' \in {"no", "import", "reset"}
  BY <1>1 DEF IInv, TypeOK
<1>4. dbRules' \in RuleTables /\ GoodTable(dbStates')
  <2>1. CASE replaced
    <3>1. PICK ru \in [topology' -> Rules \cup {NoRule}] :
            dbRules' = [p \in Points |-> IF p \in topology' THEN ru[p] ELSE NoRule]
      BY <1>1, <2>1
    <3>2. dbRules' \in RuleTables
      BY <1>2, <3>1 DEF RuleTables
    <3> QED BY <1>1, <2>1, <3>2, NoStatesAreGood
  <2>2. CASE ~replaced
    BY <1>1, <2>2 DEF IInv, TypeOK, GoodTable
  <2> QED BY <2>1, <2>2
<1>5. /\ saved' \in [valid : BOOLEAN, replaced : BOOLEAN, topology : SUBSET Points,
                     rules : RuleTables, states : StateTables]
      /\ GoodTable(saved.states')
  BY <1>1 DEF IInv, TypeOK
<1>6. UNCHANGED <<up, memory, gap, clock, journal, silent, run, carried>>
  BY DEF ImportCommit
<1> QED BY <1>2, <1>3, <1>4, <1>5, <1>6 DEF memory, IInv, TypeOK, GoodTable

(* Putting the saved tables back, or leaving the tables as they are.       *)
LEMMA PutBackIsTyped ==
  ASSUME IInv, PutBack \/ UNCHANGED store
  PROVE  /\ topology' \in SUBSET Points /\ dbRules' \in RuleTables
         /\ dbStates' \in StateTables /\ GoodTable(dbStates')
<1>1. CASE PutBack
  BY <1>1 DEF PutBack, IInv, TypeOK, GoodTable
<1>2. CASE UNCHANGED store
  BY <1>2 DEF store, IInv, TypeOK, GoodTable
<1> QED BY <1>1, <1>2

LEMMA ImportInv ==
  ASSUME IInv, \/ ImportBegin \/ ImportRefused \/ ImportReload
               \/ ImportAbandon \/ ImportUndo \/ ImportEnd
  PROVE  IInv'
<1>1. CASE ImportBegin
  BY <1>1 DEF ImportBegin, memory, store, IInv, TypeOK, GoodTable, Stages
<1>2. CASE ImportRefused
  <2>1. gap' \in BOOLEAN /\ carried' \in SUBSET Points
    BY <1>2, NewPollingServiceIsTyped DEF ImportRefused, IInv
  <2> QED
    BY <1>2, <2>1, NoCopyIsTyped DEF ImportRefused, memory, store, IInv, TypeOK, GoodTable, Stages
<1>3. CASE ImportReload
  BY <1>3, ReloadInv DEF ImportReload, Reload, Stages
<1>4. CASE ImportAbandon
  <2>1. gap' \in BOOLEAN /\ carried' \in SUBSET Points
    BY <1>4, NewPollingServiceIsTyped DEF ImportAbandon, IInv
  <2>2. PutBack \/ UNCHANGED store
    BY <1>4 DEF ImportAbandon
  <2>3. /\ topology' \in SUBSET Points /\ dbRules' \in RuleTables
        /\ dbStates' \in StateTables /\ GoodTable(dbStates')
    BY <2>2, PutBackIsTyped
  <2> QED
    BY <1>4, <2>1, <2>3, NoCopyIsTyped DEF ImportAbandon, memory, IInv, TypeOK, GoodTable, Stages
<1>5. CASE ImportUndo
  <2>1. /\ topology' \in SUBSET Points /\ dbRules' \in RuleTables
        /\ dbStates' \in StateTables /\ GoodTable(dbStates')
    BY <1>5, PutBackIsTyped DEF ImportUndo
  <2> QED
    BY <1>5, <2>1, NoCopyIsTyped DEF ImportUndo, memory, IInv, TypeOK, GoodTable, Stages
<1>6. CASE ImportEnd
  BY <1>6, NoCopyIsTyped DEF ImportEnd, memory, store, IInv, TypeOK, GoodTable, Stages
<1> QED BY <1>1, <1>2, <1>3, <1>4, <1>5, <1>6

LEMMA DownInv ==
  ASSUME IInv, NEW rows, GoodTable(rows), NEW kept, Down(rows, kept),
         run' \in [Points -> [dir : Directions, n : 0..MaxCount, calm : 0..MaxCount]]
  PROVE  IInv'
<1>1. GoodTable(states')
  BY NoStatesAreGood DEF Down
<1>2. GoodTable(dbStates')
  BY DEF Down
<1>3. rules' \in RuleTables
  BY DEF Down, RuleTables
<1>4. silent' \in SUBSET Points /\ carried' \in SUBSET Points
  BY DEF Down, IInv, TypeOK
<1> QED
  BY <1>1, <1>2, <1>3, <1>4, NoCopyIsTyped DEF Down, IInv, TypeOK, GoodTable, Stages

LEMMA StopInv ==
  ASSUME IInv, Crash \/ Shutdown
  PROVE  IInv'
<1>1. CASE Crash
  <2>1. Broken \in [dir : Directions, n : 0..MaxCount, calm : 0..MaxCount]
    BY BoundsAssumption DEF Broken, Directions
  <2>2. run' \in [Points -> [dir : Directions, n : 0..MaxCount, calm : 0..MaxCount]]
    BY <1>1, <2>1 DEF Crash
  <2> QED BY <1>1, <2>2, DownInv DEF Crash, IInv
<1>2. CASE Shutdown
  <2>1. PICK ok \in BOOLEAN :
       LET rows == [p \in Points |-> IF ok /\ states[p].phase # "none"
                                     THEN states[p] ELSE dbStates[p]]
       IN Down(rows, {p \in Points \ carried : ~gap /\ Counts(rows[p]) = Counts(states[p])})
    BY <1>2 DEF Shutdown
  <2> DEFINE rows == [p \in Points |-> IF ok /\ states[p].phase # "none"
                                     THEN states[p] ELSE dbStates[p]]
  <2>2. GoodTable(rows)
    BY DEF IInv, GoodTable, StateTables
  <2>3. \E kept : Down(rows, kept)
    BY <2>1
  <2> HIDE DEF rows
  <2>4. run' \in [Points -> [dir : Directions, n : 0..MaxCount, calm : 0..MaxCount]]
    BY <1>2 DEF Shutdown, IInv, TypeOK
  <2> QED BY <2>2, <2>3, <2>4, DownInv
<1> QED BY <1>1, <1>2

LEMMA RestartInv ==
  ASSUME IInv, Restart
  PROVE  IInv'
<1>1. PICK D \in SUBSET Points, C \in SUBSET Points, complete \in BOOLEAN :
       /\ dbRules' = Erased(dbRules, D)
       /\ dbStates' = Cleared(dbStates, C)
       /\ TellRecovery(dbRules, dbStates, topology, C)
       /\ up' = complete
       /\ IF complete
          THEN /\ rules' = dbRules' /\ states' = dbStates'
               /\ contexts' = topology /\ config' = topology
               /\ bypassed' = "no"
          ELSE UNCHANGED <<memory, bypassed>>
  <2>1. \A D, C : Complete(dbRules, dbStates, topology, D, C) \in BOOLEAN
    BY DEF Complete
  <2> QED BY <2>1 DEF Restart
<1>2. dbRules' \in RuleTables
  BY <1>1, ErasedIsTyped DEF IInv, TypeOK
<1>3. GoodTable(dbStates')
  BY <1>1, ClearedIsGood DEF IInv
<1>4. /\ journal' \in [Points -> {"none", "trigger", "ack", "recovery"}]
      /\ silent' \in SUBSET Points
  BY <1>1, TellRecoveryIsTyped DEF IInv
<1>5. carried' \in SUBSET Points
  BY CarryIsTyped DEF Restart, IInv
<1>6. /\ rules' \in RuleTables /\ GoodTable(states')
      /\ contexts' \in SUBSET Points /\ config' \in SUBSET Points
      /\ bypassed' \in {"no", "import", "reset"}
  <2>1. CASE complete
    BY <1>1, <1>2, <1>3, <2>1 DEF IInv, TypeOK
  <2>2. CASE ~complete
    BY <1>1, <2>2 DEF memory, IInv, TypeOK, GoodTable
  <2> QED BY <2>1, <2>2
<1>7. up' \in BOOLEAN /\ UNCHANGED <<topology, gap, stage, saved, clock, run>>
  BY <1>1 DEF Restart
<1> QED BY <1>2, <1>3, <1>4, <1>5, <1>6, <1>7 DEF IInv, TypeOK, GoodTable

LEMMA ClockInv ==
  ASSUME IInv, AdvanceClock \/ SlipClock \/ UNCHANGED vars
  PROVE  IInv'
<1>1. clock' \in 1..MaxTime
  BY BoundsAssumption DEF AdvanceClock, SlipClock, vars, IInv, TypeOK
<1>2. /\ UNCHANGED <<up, memory, store, gap, stage, saved, journal, silent, run,
                     carried, bypassed>>
  BY DEF AdvanceClock, SlipClock, vars, memory, store
<1> QED BY <1>1, <1>2 DEF memory, store, IInv, TypeOK, GoodTable

LEMMA InitInv == Init => IInv
<1> SUFFICES ASSUME Init PROVE IInv
  OBVIOUS
<1>1. GoodTable(states) /\ GoodTable(dbStates)
  BY NoStatesAreGood DEF Init
<1>2. rules \in RuleTables /\ dbRules \in RuleTables
  BY DEF Init, RuleTables
<1>3. run \in [Points -> [dir : Directions, n : 0..MaxCount, calm : 0..MaxCount]]
  <2>1. Broken \in [dir : Directions, n : 0..MaxCount, calm : 0..MaxCount]
    BY BoundsAssumption DEF Broken, Directions
  <2> QED BY <2>1 DEF Init
<1>4. clock \in 1..MaxTime
  BY BoundsAssumption DEF Init
<1> QED
  BY <1>1, <1>2, <1>3, <1>4, NoCopyIsTyped DEF Init, IInv, TypeOK, GoodTable, Stages

LEMMA StepInv == IInv /\ [Next]_vars => IInv'
<1> SUFFICES ASSUME IInv, [Next]_vars PROVE IInv'
  OBVIOUS
<1> QED
  BY EvaluateBatchInv, PollingInv, UpsertRuleInv, DeleteRuleInv, AcknowledgeInv, EditInv,
     FactoryResetInv, ImportCommitInv, ImportInv, StopInv, RestartInv, ClockInv
  DEF Next

LEMMA Inductive == Spec => []IInv
BY InitInv, StepInv, PTL DEF Spec

(* Every variable keeps its type, and no count, timestamp or direction     *)
(* leaves its range, for any set of points, rules and bounds: the counters *)
(* stop at the trigger_count and recovery_count of the rule in force.      *)
THEOREM TypeCorrect == Spec => []TypeOK
<1>1. IInv => TypeOK
  BY DEF IInv
<1> QED BY <1>1, Inductive, PTL

(* evaluate_batch, acknowledge, upsert_rule and the loading of the tables  *)
(* never make a state that valid_runtime_state of the store would refuse,  *)
(* however the clock moves, batches are lost and writes fail.              *)
THEOREM StatesStayValid == Spec => []StatesAreValid
<1>1. IInv => StatesAreValid
  BY DEF IInv, GoodTable, GoodState, StatesAreValid
<1> QED BY <1>1, Inductive, PTL

-----------------------------------------------------------------------------
(* RulesAreWatched.                                                        *)
LEMMA EnabledRule ==
  ASSUME NEW p, Watched(p)
  PROVE  rules[p] # NoRule
BY DEF Watched, NoRule

LEMMA GapKeepsNone ==
  ASSUME NEW p, states[p] = NoAlarm
  PROVE  Before(p).state = NoAlarm
<1>1. NoAlarm.phase = "none"
  BY DEF NoAlarm
<1>2. AfterGap(NoAlarm).state = NoAlarm
  BY <1>1 DEF AfterGap, Outcome
<1> QED BY <1>2 DEF Before, Outcome

(* A batch opens a state only for a point it watches.                      *)
LEMMA SampledIsWatched ==
  ASSUME IInv, NEW m, NEW r, NEW p \in Points,
         Sampled(m, r, p).state.phase # "none", ~Watched(p)
  PROVE  states[p].phase # "none"
<1> SUFFICES ASSUME states[p].phase = "none" PROVE FALSE
  OBVIOUS
<1>1. states[p] = NoAlarm
  BY DEF IInv, GoodTable, GoodState, ValidState
<1>2. Before(p).state = NoAlarm
  BY <1>1, GapKeepsNone
<1>3. Sampled(m, r, p).state = NoAlarm
  BY <1>2 DEF Sampled, Interrupt, Outcome, NoAlarm
<1> QED BY <1>3 DEF NoAlarm

LEMMA WatchedBatch ==
  ASSUME IInv, RulesAreWatched, EvaluateBatch
  PROVE  RulesAreWatched'
<1>1. PICK m \in Masters : \E r \in [m -> Readings] :
        states' = [p \in Points |-> Sampled(m, r, p).state]
  BY DEF EvaluateBatch
<1> PICK r \in [m -> Readings] : states' = [p \in Points |-> Sampled(m, r, p).state]
  BY <1>1
<1>2. UNCHANGED <<up, rules, contexts>>
  BY DEF EvaluateBatch
<1>3. ASSUME up, NEW p \in Points, states'[p].phase # "none" PROVE rules[p] # NoRule
  <2>1. Sampled(m, r, p).state.phase # "none"
    BY <1>1, <1>3
  <2>2. CASE Watched(p)
    BY <2>2, EnabledRule
  <2>3. CASE ~Watched(p)
    BY <1>3, <2>1, <2>3, SampledIsWatched DEF RulesAreWatched
  <2> QED BY <2>2, <2>3
<1> QED BY <1>2, <1>3 DEF RulesAreWatched

(* Clearing the states of C after erasing the rules of D keeps every other *)
(* state with its rule, if no state outlives its rule.                     *)
LEMMA ClearedIsWatched ==
  ASSUME NEW st, NEW ru, NEW D \in SUBSET Points, NEW C \in SUBSET Points,
         \A p \in Points : st[p].phase # "none" => ru[p] # NoRule,
         {p \in D : st[p].phase # "none"} \subseteq C
  PROVE  \A p \in Points : Cleared(st, C)[p].phase # "none" => Erased(ru, D)[p] # NoRule
BY DEF Cleared, Erased, NoAlarm

LEMMA WatchedUpsert ==
  ASSUME IInv, RulesAreWatched, UpsertRule
  PROVE  RulesAreWatched'
<1>0. PICK p \in config, rule \in Rules, touch \in BOOLEAN : \E C :
        /\ rules' = [rules EXCEPT ![p] = rule]
        /\ contexts' = contexts \cup {p}
        /\ states' = IF touch THEN [states EXCEPT ![p] = Touched(states[p])]
                     ELSE Cleared(states, C)
  <2>1. \A s, rule, done : (done /\ s.phase = "active" /\ ~Disallows(rule, s)) \in BOOLEAN
    OBVIOUS
  <2> QED BY <2>1 DEF UpsertRule
<1>1. PICK C :
        /\ rules' = [rules EXCEPT ![p] = rule]
        /\ contexts' = contexts \cup {p}
        /\ states' = IF touch THEN [states EXCEPT ![p] = Touched(states[p])]
                     ELSE Cleared(states, C)
  BY <1>0
<1>2. p \in Points /\ rule # NoRule /\ up
  BY RuleFacts DEF IInv, TypeOK, UpsertRule, Command, NoRule
<1>3. /\ rules \in RuleTables /\ states \in StateTables
  BY DEF IInv, TypeOK
<1>4. rules'[p] = rule /\ \A q \in Points \ {p} : rules'[q] = rules[q]
  BY <1>1, <1>2, <1>3 DEF RuleTables
<1>5. \A q \in Points \ {p} : states'[q].phase # "none" => states[q].phase # "none"
  BY <1>1, <1>2, <1>3 DEF StateTables, Cleared, NoAlarm
<1> QED BY <1>1, <1>2, <1>4, <1>5 DEF RulesAreWatched

LEMMA WatchedDelete ==
  ASSUME IInv, RulesAreWatched, DeleteRule
  PROVE  RulesAreWatched'
<1>1. PICK C \in SUBSET Points, D \in SUBSET Points :
        /\ states' = Cleared(states, C)
        /\ rules' = Erased(rules, D)
        /\ contexts' = contexts \ D
        /\ {p \in D : states[p].phase # "none"} \subseteq C
  <2>1. PICK p \in Points, done \in BOOLEAN :
       LET C == {p} \cap {q \in Points : states[q].phase # "none"}
           D == IF done THEN {p} ELSE {}
       IN /\ states' = Cleared(states, C)
          /\ rules' = Erased(rules, D)
          /\ contexts' = contexts \ D
    BY DEF DeleteRule
  <2> DEFINE E == {p} \cap {q \in Points : states[q].phase # "none"}
             F == IF done THEN {p} ELSE {}
  <2>2. /\ E \in SUBSET Points /\ F \in SUBSET Points
        /\ {q \in F : states[q].phase # "none"} \subseteq E
    OBVIOUS
  <2>3. /\ states' = Cleared(states, E) /\ rules' = Erased(rules, F)
        /\ contexts' = contexts \ F
    BY <2>1
  <2> HIDE DEF E, F
  <2> QED BY <2>2, <2>3
<1>2. up
  BY DEF DeleteRule, Command
<1>3. \A p \in Points : rules'[p] # NoRule => p \in contexts'
  BY <1>1, <1>2 DEF Erased, RulesAreWatched
<1>4. \A p \in Points : states'[p].phase # "none" => rules'[p] # NoRule
  BY <1>1, <1>2, ClearedIsWatched DEF RulesAreWatched
<1> QED BY <1>3, <1>4 DEF RulesAreWatched

LEMMA WatchedReload ==
  ASSUME IInv, RulesAreWatched, FinishEdit \/ ResetBegin \/ ImportReload
  PROVE  RulesAreWatched'
<1>1. PICK D \in SUBSET Points, C \in SUBSET Points :
        /\ D \subseteq Orphans(rules, config')
        /\ {p \in D : states[p].phase # "none"} \subseteq C
        /\ rules' = Erased(rules, D)
        /\ states' = Cleared(states, C)
        /\ contexts' = IF Complete(rules, states, config', D, C) THEN config' ELSE contexts
  BY DEF FinishEdit, ResetBegin, ImportReload, Reload, Synchronize, Partial
<1>2. up
  BY DEF FinishEdit, ResetBegin, ImportReload
<1>3. \A p \in Points : rules'[p] # NoRule => p \in contexts'
  BY <1>1, <1>2 DEF Erased, RulesAreWatched, Complete, Orphans
<1>4. \A p \in Points : states'[p].phase # "none" => rules'[p] # NoRule
  BY <1>1, <1>2, ClearedIsWatched DEF RulesAreWatched
<1> QED BY <1>3, <1>4 DEF RulesAreWatched

LEMMA WatchedRestart ==
  ASSUME IInv, Restart
  PROVE  RulesAreWatched'
<1> SUFFICES ASSUME up' PROVE RulesAreWatched'
  BY DEF RulesAreWatched
<1>1. PICK D \in SUBSET Points, C \in SUBSET Points :
       /\ Complete(dbRules, dbStates, topology, D, C)
       /\ dbRules' = Erased(dbRules, D) /\ dbStates' = Cleared(dbStates, C)
       /\ rules' = dbRules' /\ states' = dbStates' /\ contexts' = topology
  BY DEF Restart
<1>2. \A p \in Points : rules'[p] # NoRule => p \in contexts'
  BY <1>1 DEF Erased, Complete, Orphans
<1>3. \A p \in Points : states'[p].phase # "none" => rules'[p] # NoRule
  BY <1>1 DEF Erased, Cleared, Complete, Orphans, Stale, NoAlarm, NoRule
<1> QED BY <1>2, <1>3 DEF RulesAreWatched

(* A factory reset that failed half-way leaves memory alone.               *)
LEMMA WatchedReset ==
  ASSUME RulesAreWatched, FactoryReset
  PROVE  RulesAreWatched'
<1>1. PICK wiped \in SUBSET {"rules", "states", "events", "history"} :
        LET all == wiped = {"rules", "states", "events", "history"} IN
        /\ dbRules' = IF "rules" \in wiped THEN Erased(dbRules, Points) ELSE dbRules
        /\ dbStates' = IF "states" \in wiped THEN Cleared(dbStates, Points) ELSE dbStates
        /\ rules' = IF all THEN dbRules' ELSE rules
        /\ states' = IF all THEN dbStates' ELSE states
        /\ contexts' = IF all THEN config ELSE contexts
  BY DEF FactoryReset
<1>2. up /\ up'
  BY DEF FactoryReset
<1>3. CASE wiped = {"rules", "states", "events", "history"}
  <2>1. /\ \A p \in Points : Erased(dbRules, Points)[p] = NoRule
        /\ \A p \in Points : Cleared(dbStates, Points)[p].phase = "none"
    BY DEF Erased, Cleared, NoAlarm
  <2>2. rules' = Erased(dbRules, Points) /\ states' = Cleared(dbStates, Points)
    BY <1>1, <1>3
  <2> QED BY <2>1, <2>2 DEF RulesAreWatched
<1>4. CASE wiped # {"rules", "states", "events", "history"}
  BY <1>1, <1>2, <1>4 DEF RulesAreWatched
<1> QED BY <1>3, <1>4

(* The remaining steps leave memory alone or stop the process.             *)
LEMMA WatchedElse ==
  ASSUME RulesAreWatched,
         \/ LoseBatch \/ Acknowledge \/ RestartPolling \/ EditTopology \/ AbandonEdit
         \/ ImportBegin \/ ImportRefused \/ ImportCommit \/ ImportAbandon
         \/ ImportUndo \/ ImportEnd \/ Crash \/ Shutdown \/ AdvanceClock \/ SlipClock
         \/ UNCHANGED vars
  PROVE  RulesAreWatched'
<1>1. CASE Crash \/ Shutdown
  BY <1>1 DEF Crash, Shutdown, Down, RulesAreWatched
<1>2. CASE Acknowledge
  <2>1. PICK p, u : /\ states' = [states EXCEPT ![p] = [@ EXCEPT !.acked = TRUE, !.upd = u]]
                    /\ states[p].phase = "active"
    BY <1>2 DEF Acknowledge
  <2>2. \A q \in Points : states'[q].phase # "none" => states[q].phase # "none"
    BY <2>1
  <2> QED BY <1>2, <2>2 DEF Acknowledge, RulesAreWatched
<1>3. CASE UNCHANGED <<up, rules, states, contexts>>
  BY <1>3 DEF RulesAreWatched
<1> QED
  BY <1>1, <1>2, <1>3
  DEF LoseBatch, RestartPolling, EditTopology, AbandonEdit, ImportBegin, ImportRefused,
      ImportCommit, ImportAbandon, ImportUndo, ImportEnd, AdvanceClock, SlipClock, vars, memory

(* No sequence of commands, edits, imports, partial failures and restarts  *)
(* leaves a rule without the context evaluate_batch needs, or a state      *)
(* without a rule.                                                         *)
THEOREM RulesStayWatched == Spec => []RulesAreWatched
<1>1. Init => RulesAreWatched
  BY DEF Init, RulesAreWatched
<1>2. IInv /\ RulesAreWatched /\ [Next]_vars => RulesAreWatched'
  BY WatchedBatch, WatchedUpsert, WatchedDelete, WatchedReload, WatchedReset,
     WatchedRestart, WatchedElse
  DEF Next
<1> QED BY <1>1, <1>2, Inductive, PTL DEF Spec

(* Both: no state is one the store refuses, and no rule is left out.       *)
THEOREM AlarmsStaySound == Spec => []AlarmsAreSound
BY StatesStayValid, RulesStayWatched, PTL DEF AlarmsAreSound

-----------------------------------------------------------------------------
(* MemoryIsDurable.  The copy an import keeps can put other tables back    *)
(* only while bypassed says so.                                            *)
DurableInv ==
  /\ MemoryIsDurable
  /\ saved.valid => stage \in {"import", "trial"}
  /\ saved.valid /\ saved.replaced => bypassed # "no"
  /\ ~up => stage = "no"

(* What is not written has changed nothing but times of evaluation.        *)
LEMMA RaisedIsDurable ==
  ASSUME NEW s, NEW rule, NEW ts
  PROVE  Raised(s, rule, ts).durable
BY DEF Raised, Outcome

LEMMA PointIsDurable ==
  ASSUME NEW s, GoodState(s), NEW rule, NEW reading, NEW ts,
         ~EvaluatePoint(s, rule, reading, ts).durable
  PROVE  Kept(EvaluatePoint(s, rule, reading, ts).state) = Kept(s)
<1>1. s \in AlarmStates /\ s.phase \in {"none", "pending", "active"}
  BY DEF GoodState, AlarmStates
<1>2. CASE s.phase # "none" /\ ts < s.eval
  BY <1>2 DEF EvaluatePoint, Outcome
<1>3. CASE s.phase = "none"
  <2>1. s = NoAlarm
    BY <1>3 DEF GoodState, ValidState
  <2>2. EvaluatePoint(s, rule, reading, ts) = EvaluateNormal(rule, reading, ts)
    BY <1>3 DEF EvaluatePoint
  <2>3. EvaluateNormal(rule, reading, ts).state = NoAlarm
    BY <2>2, RaisedIsDurable DEF EvaluateNormal, Outcome
  <2> QED BY <2>1, <2>2, <2>3
<1>4. CASE s.phase = "pending" /\ ~(ts < s.eval)
  <2>1. EvaluatePoint(s, rule, reading, ts) = EvaluatePending(s, rule, reading, ts)
    BY <1>4 DEF EvaluatePoint
  <2>2. EvaluatePending(s, rule, reading, ts).durable
    BY RaisedIsDurable DEF EvaluatePending, Outcome
  <2> QED BY <2>1, <2>2
<1>5. CASE s.phase = "active" /\ ~(ts < s.eval)
  <2> DEFINE late == Later(ts, s.upd)
             seen == [s EXCEPT !.eval = ts, !.upd = late]
             t == [seen EXCEPT !.rec = 0]
  <2>1. EvaluatePoint(s, rule, reading, ts) = EvaluateActive(s, rule, reading, ts)
    BY <1>5 DEF EvaluatePoint
  <2>2. EvaluateActive(s, rule, reading, ts).state = t /\ s.rec = 0
    <3>1. ~BeyondRecovery(s.dir, reading)
      BY <2>1 DEF EvaluateActive, Outcome
    <3>2. EvaluateActive(s, rule, reading, ts) = Outcome(t, "none", s.rec # 0)
      BY <3>1 DEF EvaluateActive
    <3> HIDE DEF t
    <3>3. /\ EvaluateActive(s, rule, reading, ts).state = t
          /\ EvaluateActive(s, rule, reading, ts).durable = (s.rec # 0)
      BY <3>2 DEF Outcome
    <3>4. ~EvaluateActive(s, rule, reading, ts).durable
      BY <2>1
    <3> QED BY <3>3, <3>4
  <2> HIDE DEF late
  <2>3. /\ t.phase = s.phase /\ t.dir = s.dir /\ t.trig = s.trig /\ t.rec = 0
        /\ t.since = s.since /\ t.acked = s.acked
    BY <1>1 DEF AlarmStates
  <2> QED BY <2>1, <2>2, <2>3 DEF Kept
<1> QED BY <1>1, <1>2, <1>3, <1>4, <1>5

LEMMA SampledIsDurable ==
  ASSUME IInv, NEW m \in Masters, NEW r \in [m -> Readings], NEW p \in Points,
         ~Durable(m, r, p)
  PROVE  Kept(Sampled(m, r, p).state) = Kept(states[p])
<1> DEFINE s == Before(p).state
<1>1. GoodState(s) /\ GoodState(states[p])
  BY SampledIsGood DEF IInv, GoodTable
<1>2. s = states[p]
  <2>1. states[p].phase \in {"none", "pending", "active"}
    BY <1>1 DEF GoodState, AlarmStates
  <2>2. CASE gap
    <3>1. ~AfterGap(states[p]).durable /\ s = AfterGap(states[p]).state
      BY <2>2 DEF Durable, Before
    <3>2. states[p].phase = "none"
      BY <2>1, <3>1 DEF AfterGap, Outcome
    <3>3. states[p] = NoAlarm
      BY <1>1, <3>2 DEF GoodState, ValidState
    <3>4. AfterGap(states[p]).state = NoAlarm
      BY <3>2 DEF AfterGap, Outcome
    <3> QED BY <3>1, <3>3, <3>4
  <2>3. CASE ~gap
    BY <2>3 DEF Before, Outcome
  <2> QED BY <2>2, <2>3
<1> HIDE DEF s
<1>3. ~Sampled(m, r, p).durable
  BY DEF Durable
<1>4. CASE p \notin m \/ (r[p] # "bad" /\ ~Watched(p))
  BY <1>2, <1>4 DEF Sampled, Outcome, s
<1>5. CASE p \in m /\ r[p] = "bad"
  <2>1. Sampled(m, r, p) = Interrupt(s, clock)
    BY <1>5 DEF Sampled, s
  <2>2. Interrupt(s, clock).state = s
    BY <1>3, <2>1 DEF Interrupt, Outcome
  <2> QED BY <1>2, <2>1, <2>2
<1>6. CASE p \in m /\ r[p] # "bad" /\ Watched(p)
  <2>1. Sampled(m, r, p) = EvaluatePoint(s, rules[p], r[p], clock)
    BY <1>6 DEF Sampled, s
  <2> QED BY <1>1, <1>2, <1>3, <2>1, PointIsDurable
<1> QED BY <1>4, <1>5, <1>6

LEMMA DurableBatch ==
  ASSUME IInv, DurableInv, EvaluateBatch
  PROVE  DurableInv'
<1>1. PICK m \in Masters : \E r \in [m -> Readings] : \E due \in SUBSET m :
        LET written == {p \in Points :
              \/ Durable(m, r, p)
              \/ p \in due /\ r[p] # "bad" /\ Watched(p)
                 /\ Sampled(m, r, p).state.phase = "active"}
            told == {p \in Points : Sampled(m, r, p).event # "none"}
        IN /\ states' = [p \in Points |-> Sampled(m, r, p).state]
           /\ dbStates' = [p \in Points |-> IF p \in written THEN states'[p]
                                                             ELSE dbStates[p]]
           /\ journal' = [p \in Points |-> IF p \in told /\ ~Muted
                                            THEN Sampled(m, r, p).event ELSE journal[p]]
           /\ silent' = IF Muted THEN silent \cup told ELSE silent \ told
           /\ run' = [p \in Points |-> RunAfter(m, r, p)]
  BY DEF EvaluateBatch
<1>2. PICK r \in [m -> Readings], written \in SUBSET Points :
        /\ states' = [p \in Points |-> Sampled(m, r, p).state]
        /\ dbStates' = [p \in Points |-> IF p \in written THEN states'[p] ELSE dbStates[p]]
        /\ \A p \in Points \ written : ~Durable(m, r, p)
  BY <1>1
<1>3. UNCHANGED <<up, rules, dbRules, stage, saved, bypassed>>
  BY DEF EvaluateBatch
<1>4. ASSUME up, bypassed = "no", NEW p \in Points
      PROVE  Kept(states'[p]) = Kept(dbStates'[p])
  <2>1. CASE p \in written
    BY <1>2, <2>1
  <2>2. CASE p \notin written
    <3>1. Kept(Sampled(m, r, p).state) = Kept(states[p])
      BY <1>2, <2>2, SampledIsDurable
    <3> QED BY <1>2, <1>4, <2>2, <3>1 DEF DurableInv, MemoryIsDurable
  <2> QED BY <2>1, <2>2
<1> QED BY <1>3, <1>4 DEF DurableInv, MemoryIsDurable

(* Clearing the same states in both tables.                                *)
LEMMA ClearedTogether ==
  ASSUME NEW st, NEW db, NEW C, \A p \in Points : Kept(st[p]) = Kept(db[p])
  PROVE  \A p \in Points : Kept(Cleared(st, C)[p]) = Kept(Cleared(db, C)[p])
BY DEF Cleared

LEMMA DurableUpsert ==
  ASSUME IInv, DurableInv, UpsertRule
  PROVE  DurableInv'
<1>0. PICK p \in config, rule \in Rules, touch \in BOOLEAN : \E C :
        /\ rules' = [rules EXCEPT ![p] = rule]
        /\ dbRules' = [dbRules EXCEPT ![p] = rule]
        /\ states' = IF touch THEN [states EXCEPT ![p] = Touched(states[p])]
                     ELSE Cleared(states, C)
        /\ dbStates' = IF touch THEN [dbStates EXCEPT ![p] = Touched(states[p])]
                       ELSE Cleared(dbStates, C)
  <2>1. \A s, rule, done : (done /\ s.phase = "active" /\ ~Disallows(rule, s)) \in BOOLEAN
    OBVIOUS
  <2> QED BY <2>1 DEF UpsertRule
<1>1. PICK C :
        /\ rules' = [rules EXCEPT ![p] = rule]
        /\ dbRules' = [dbRules EXCEPT ![p] = rule]
        /\ states' = IF touch THEN [states EXCEPT ![p] = Touched(states[p])]
                     ELSE Cleared(states, C)
        /\ dbStates' = IF touch THEN [dbStates EXCEPT ![p] = Touched(states[p])]
                       ELSE Cleared(dbStates, C)
  BY <1>0
<1>2. up /\ UNCHANGED <<up, stage, saved, bypassed>>
  BY DEF UpsertRule, Command
<1>3. states \in StateTables /\ dbStates \in StateTables
  BY DEF IInv, TypeOK
<1>4. ASSUME bypassed = "no" PROVE \A q \in Points : Kept(states'[q]) = Kept(dbStates'[q])
  <2>1. \A q \in Points : Kept(states[q]) = Kept(dbStates[q])
    BY <1>2, <1>4 DEF DurableInv, MemoryIsDurable
  <2>2. CASE touch
    BY <1>1, <1>3, <2>1, <2>2 DEF StateTables
  <2>3. CASE ~touch
    BY <1>1, <2>1, <2>3, ClearedTogether
  <2> QED BY <2>2, <2>3
<1> QED BY <1>1, <1>2, <1>4 DEF DurableInv, MemoryIsDurable

(* DeleteRule and the reloads erase and clear both copies alike.           *)
LEMMA DurableClearing ==
  ASSUME DurableInv, NEW C, NEW D, up, UNCHANGED up,
         states' = Cleared(states, C), dbStates' = Cleared(dbStates, C),
         rules' = Erased(rules, D), dbRules' = Erased(dbRules, D),
         UNCHANGED bypassed
  PROVE  MemoryIsDurable'
<1> SUFFICES ASSUME bypassed = "no" PROVE MemoryIsDurable'
  BY DEF MemoryIsDurable
<1>1. rules = dbRules /\ \A p \in Points : Kept(states[p]) = Kept(dbStates[p])
  BY DEF DurableInv, MemoryIsDurable
<1> QED BY <1>1, ClearedTogether DEF MemoryIsDurable

LEMMA DurableCommands ==
  ASSUME IInv, DurableInv, DeleteRule \/ FinishEdit \/ ResetBegin \/ ImportReload
  PROVE  DurableInv'
<1>1. CASE DeleteRule
  <2>1. PICK C, D :
        /\ states' = Cleared(states, C) /\ dbStates' = Cleared(dbStates, C)
        /\ rules' = Erased(rules, D) /\ dbRules' = Erased(dbRules, D)
    BY <1>1 DEF DeleteRule
  <2>2. up /\ UNCHANGED <<up, stage, saved, bypassed>>
    BY <1>1 DEF DeleteRule, Command
  <2> QED BY <2>1, <2>2, DurableClearing DEF DurableInv
<1>2. CASE FinishEdit \/ ResetBegin \/ ImportReload
  <2>1. PICK C, D :
        /\ states' = Cleared(states, C) /\ dbStates' = Cleared(dbStates, C)
        /\ rules' = Erased(rules, D) /\ dbRules' = Erased(dbRules, D)
    BY <1>2 DEF FinishEdit, ResetBegin, ImportReload, Reload, Synchronize
  <2>2. up /\ UNCHANGED <<up, saved, bypassed>>
    BY <1>2 DEF FinishEdit, ResetBegin, ImportReload, Reload
  <2>3. saved.valid => stage' \in {"import", "trial"}
    BY <1>2 DEF FinishEdit, ResetBegin, ImportReload, Reload, DurableInv
  <2> QED BY <2>1, <2>2, <2>3, DurableClearing DEF DurableInv
<1> QED BY <1>1, <1>2

LEMMA DurableAcknowledge ==
  ASSUME IInv, DurableInv, Acknowledge
  PROVE  DurableInv'
<1>1. PICK p, a : /\ states' = [states EXCEPT ![p] = a]
                  /\ dbStates' = [dbStates EXCEPT ![p] = a]
  BY DEF Acknowledge
<1>2. UNCHANGED <<up, rules, dbRules, stage, saved, bypassed>>
  BY DEF Acknowledge
<1>3. states \in StateTables /\ dbStates \in StateTables
  BY DEF IInv, TypeOK
<1>4. ASSUME \A q \in Points : Kept(states[q]) = Kept(dbStates[q])
      PROVE  \A q \in Points : Kept(states'[q]) = Kept(dbStates'[q])
  BY <1>1, <1>3, <1>4 DEF StateTables
<1> QED BY <1>2, <1>4 DEF DurableInv, MemoryIsDurable

LEMMA DurableImport ==
  ASSUME DurableInv,
         \/ ImportBegin \/ ImportRefused \/ ImportCommit \/ ImportAbandon
         \/ ImportUndo \/ ImportEnd
  PROVE  DurableInv'
<1>1. ~NoCopy.valid
  BY DEF NoCopy
<1>2. CASE ImportBegin \/ ImportRefused \/ ImportEnd
  BY <1>1, <1>2 DEF ImportBegin, ImportRefused, ImportEnd, Command, memory, store, DurableInv,
                    MemoryIsDurable
<1>3. CASE ImportCommit
  <2>1. PICK replaced \in BOOLEAN :
       /\ saved' = [valid |-> TRUE, replaced |-> replaced, topology |-> config,
                    rules |-> dbRules, states |-> dbStates]
       /\ bypassed' = IF replaced THEN "import" ELSE bypassed
       /\ replaced \/ UNCHANGED <<dbRules, dbStates>>
    BY <1>3 DEF ImportCommit
  <2>2. up /\ stage' = "import" /\ UNCHANGED <<up, memory>>
    BY <1>3 DEF ImportCommit
  <2> QED BY <2>1, <2>2 DEF memory, DurableInv, MemoryIsDurable
<1>4. CASE ImportAbandon \/ ImportUndo
  <2>1. /\ up /\ saved' = NoCopy /\ stage' \in {"import", "trial"}
        /\ UNCHANGED <<up, memory, bypassed>>
    BY <1>4 DEF ImportAbandon, ImportUndo
  <2>2. bypassed # "no" \/ UNCHANGED <<dbRules, dbStates>>
    BY <1>4 DEF ImportAbandon, ImportUndo, PutBack, store, DurableInv
  <2> QED BY <1>1, <2>1, <2>2 DEF memory, DurableInv, MemoryIsDurable
<1> QED BY <1>2, <1>3, <1>4

LEMMA DurableElse ==
  ASSUME IInv, DurableInv,
         \/ LoseBatch \/ RestartPolling \/ EditTopology \/ AbandonEdit \/ FactoryReset
         \/ Crash \/ Shutdown \/ Restart \/ AdvanceClock \/ SlipClock \/ UNCHANGED vars
  PROVE  DurableInv'
<1>1. CASE Crash \/ Shutdown
  BY <1>1 DEF Crash, Shutdown, Down, NoCopy, DurableInv, MemoryIsDurable
<1>2. CASE FactoryReset
  <2>1. PICK all \in BOOLEAN :
          /\ rules' = IF all THEN dbRules' ELSE rules
          /\ states' = IF all THEN dbStates' ELSE states
          /\ bypassed' = IF all THEN "no" ELSE "reset"
    <3>1. \A wiped : (wiped = {"rules", "states", "events", "history"}) \in BOOLEAN
      OBVIOUS
    <3> QED BY <1>2, <3>1 DEF FactoryReset
  <2>2. up /\ stage = "wipe" /\ stage' = "no" /\ UNCHANGED <<up, saved>>
    BY <1>2 DEF FactoryReset
  <2>3. ~saved.valid
    BY <2>2 DEF DurableInv
  <2>4. MemoryIsDurable'
    BY <2>1 DEF MemoryIsDurable
  <2> QED BY <2>2, <2>3, <2>4 DEF DurableInv
<1>3. CASE Restart
  <2>1. UNCHANGED <<stage, saved>> /\ ~up
    BY <1>3 DEF Restart
  <2>2. up' => rules' = dbRules' /\ states' = dbStates'
    BY <1>3 DEF Restart
  <2> QED BY <2>1, <2>2 DEF DurableInv, MemoryIsDurable
<1>4. CASE /\ UNCHANGED <<up, rules, dbRules, states, dbStates, saved, bypassed>>
           /\ stage' = stage \/ (up /\ ~saved.valid)
  BY <1>4 DEF DurableInv, MemoryIsDurable
<1> QED
  BY <1>1, <1>2, <1>3, <1>4
  DEF LoseBatch, RestartPolling, EditTopology, AbandonEdit, Command, AdvanceClock, SlipClock,
      vars, memory, store, DurableInv

LEMMA DurableHolds == Spec => [](IInv /\ DurableInv)
<1>1. Init => DurableInv
  BY DEF Init, DurableInv, MemoryIsDurable, NoCopy
<1>2. IInv /\ DurableInv /\ [Next]_vars => DurableInv'
  BY DurableBatch, DurableUpsert, DurableCommands, DurableAcknowledge, DurableImport, DurableElse
  DEF Next
<1> QED BY <1>1, <1>2, InitInv, Inductive, PTL DEF Spec

(* Whatever instant a crash picks, the tables it leaves hold the rules and *)
(* alarms the evaluator was acting on, although evaluate_batch skips the   *)
(* write of every state it judges unchanged (must_persist) and commands    *)
(* may fail half way.                                                      *)
THEOREM MemoryStaysDurable == Spec => []MemoryIsDurable
BY DurableHolds, PTL DEF DurableInv

-----------------------------------------------------------------------------
(* What an outcome tells of the alarm of a point: nothing, and then it goes*)
(* on as it was, or that it began or ended.                                *)
Tells(s, o) ==
  \/ /\ o.event = "none"
     /\ o.state.phase = "active" <=> s.phase = "active"
     /\ s.phase = "active" => o.state.since = s.since
     /\ o.state.acked = s.acked
  \/ o.event = "trigger" /\ s.phase # "active" /\ o.state.phase = "active" /\ ~o.state.acked
  \/ o.event = "recovery" /\ s.phase = "active" /\ o.state = NoAlarm

LEMMA NoAlarmIsQuiet == NoAlarm.phase = "none" /\ NoAlarm.acked = FALSE
BY DEF NoAlarm

LEMMA RaisedTells ==
  ASSUME NEW s \in AlarmStates, s.phase = "pending", s.acked = FALSE, NEW rule, NEW ts
  PROVE  Tells(s, Raised(s, rule, ts))
<1> DEFINE t == [s EXCEPT !.phase = "active", !.since = ts]
<1>1. t.phase = "active" /\ t.acked = s.acked
  BY DEF AlarmStates
<1> HIDE DEF t
<1>2. CASE s.trig >= rule.trigger
  <2>1. Raised(s, rule, ts) = Outcome(t, "trigger", TRUE)
    BY <1>2 DEF Raised, t
  <2> QED BY <1>1, <2>1 DEF Tells, Outcome
<1>3. CASE ~(s.trig >= rule.trigger)
  BY <1>3 DEF Raised, Tells, Outcome
<1> QED BY <1>2, <1>3

LEMMA NormalTells ==
  ASSUME NEW rule, NEW reading, NEW ts \in 1..MaxTime
  PROVE  Tells(NoAlarm, EvaluateNormal(rule, reading, ts))
<1> DEFINE dir == Breach(rule, reading)
           s == [NoAlarm EXCEPT !.phase = "pending", !.dir = dir, !.trig = 1,
                                !.eval = ts, !.upd = ts]
<1>1. CASE dir = "none"
  BY <1>1 DEF EvaluateNormal, Outcome, Tells
<1>2. CASE dir # "none"
  <2>1. s.phase = "pending" /\ s.acked = FALSE
    BY DEF NoAlarm
  <2>2. s \in AlarmStates
    <3>1. dir \in Directions
      BY DEF Breach, Directions
    <3>2. 1 \in 0..MaxCount /\ ts \in 0..MaxTime /\ NoAlarm \in AlarmStates
      BY BoundsAssumption, NoAlarmIsGood DEF GoodState
    <3> HIDE DEF dir
    <3> QED BY <3>1, <3>2 DEF AlarmStates
  <2>3. EvaluateNormal(rule, reading, ts) = Raised(s, rule, ts)
    BY <1>2 DEF EvaluateNormal
  <2> HIDE DEF s
  <2>4. Tells(s, Raised(s, rule, ts))
    BY <2>1, <2>2, RaisedTells
  <2> QED BY <2>1, <2>3, <2>4, NoAlarmIsQuiet DEF Tells
<1> QED BY <1>1, <1>2

LEMMA PendingTells ==
  ASSUME NEW s, GoodState(s), s.phase = "pending", NEW rule, NEW reading, NEW ts \in 1..MaxTime
  PROVE  Tells(s, EvaluatePending(s, rule, reading, ts))
<1> DEFINE dir == Breach(rule, reading)
           n == IF dir = s.dir THEN s.trig + 1 ELSE 1
           t == [s EXCEPT !.dir = dir, !.eval = ts, !.upd = ts, !.trig = n]
<1>1. s \in AlarmStates /\ s.acked = FALSE
  BY DEF GoodState, ValidState, AlarmStates
<1>2. CASE dir = "none"
  BY <1>1, <1>2, NoAlarmIsQuiet DEF EvaluatePending, Outcome, Tells
<1>3. CASE dir # "none"
  <2>1. t.phase = "pending" /\ t.acked = FALSE
    BY <1>1 DEF AlarmStates
  <2>2. t \in AlarmStates
    <3>1. dir \in Directions
      BY DEF Breach, Directions
    <3>2. n \in 0..MaxCount /\ ts \in 0..MaxTime
      BY <1>1, BoundsAssumption DEF GoodState, AlarmStates
    <3> HIDE DEF dir, n
    <3> QED BY <1>1, <3>1, <3>2 DEF AlarmStates
  <2>3. EvaluatePending(s, rule, reading, ts) = Raised(t, rule, ts)
    BY <1>3 DEF EvaluatePending
  <2> HIDE DEF t
  <2>4. Tells(t, Raised(t, rule, ts))
    BY <2>1, <2>2, RaisedTells
  <2> QED BY <1>1, <2>1, <2>3, <2>4 DEF Tells
<1> QED BY <1>2, <1>3

LEMMA ActiveTells ==
  ASSUME NEW s, GoodState(s), s.phase = "active", NEW rule, NEW reading, NEW ts
  PROVE  Tells(s, EvaluateActive(s, rule, reading, ts))
<1> DEFINE late == Later(ts, s.upd)
           seen == [s EXCEPT !.eval = ts, !.upd = late]
           loud == [seen EXCEPT !.rec = 0]
           calm == [seen EXCEPT !.trig = 0, !.rec = s.rec + 1]
<1>1. s \in AlarmStates
  BY DEF GoodState
<1>2. /\ loud.phase = "active" /\ loud.acked = s.acked /\ loud.since = s.since
      /\ calm.phase = "active" /\ calm.acked = s.acked /\ calm.since = s.since
  BY <1>1 DEF AlarmStates
<1>3. \/ EvaluateActive(s, rule, reading, ts) = Outcome(NoAlarm, "recovery", TRUE)
      \/ EvaluateActive(s, rule, reading, ts) = Outcome(calm, "none", TRUE)
      \/ EvaluateActive(s, rule, reading, ts) = Outcome(loud, "none", s.rec # 0)
  BY DEF EvaluateActive
<1> HIDE DEF loud, calm
<1> QED BY <1>2, <1>3 DEF Tells, Outcome

LEMMA PointTells ==
  ASSUME NEW s, GoodState(s), NEW rule, NEW reading, NEW ts \in 1..MaxTime
  PROVE  Tells(s, EvaluatePoint(s, rule, reading, ts))
<1>1. s.phase \in {"none", "pending", "active"}
  BY DEF GoodState, AlarmStates
<1>2. CASE s.phase # "none" /\ ts < s.eval
  BY <1>2 DEF EvaluatePoint, Outcome, Tells
<1>3. CASE s.phase = "none"
  <2>1. s = NoAlarm
    BY <1>3 DEF GoodState, ValidState
  <2> QED BY <1>3, <2>1, NormalTells DEF EvaluatePoint
<1>4. CASE s.phase = "pending" /\ ~(ts < s.eval)
  BY <1>4, PendingTells DEF EvaluatePoint
<1>5. CASE s.phase = "active" /\ ~(ts < s.eval)
  BY <1>5, ActiveTells DEF EvaluatePoint
<1> QED BY <1>1, <1>2, <1>3, <1>4, <1>5

LEMMA InterruptTells ==
  ASSUME NEW s, GoodState(s), NEW ts
  PROVE  Tells(s, Interrupt(s, ts))
<1> DEFINE late == Later(s.upd, ts)
           t == [s EXCEPT !.rec = 0, !.eval = ts, !.upd = late]
<1>1. s \in AlarmStates /\ (s.phase = "pending" => s.acked = FALSE)
  BY DEF GoodState, ValidState, AlarmStates
<1>2. t.phase = s.phase /\ t.acked = s.acked /\ t.since = s.since
  BY <1>1 DEF AlarmStates
<1>3. \/ Interrupt(s, ts) = Outcome(s, "none", FALSE)
      \/ s.phase = "pending" /\ Interrupt(s, ts) = Outcome(NoAlarm, "none", TRUE)
      \/ Interrupt(s, ts) = Outcome(t, "none", TRUE)
  BY DEF Interrupt
<1> HIDE DEF t
<1>4. ASSUME NEW d PROVE Tells(s, Outcome(s, "none", d)) /\ Tells(s, Outcome(t, "none", d))
  BY <1>2 DEF Tells, Outcome
<1>5. ASSUME s.phase = "pending" PROVE Tells(s, Outcome(NoAlarm, "none", TRUE))
  BY <1>1, <1>5, NoAlarmIsQuiet DEF Tells, Outcome
<1> QED BY <1>3, <1>4, <1>5

(* The gap flag tells nothing by itself.                                   *)
LEMMA BeforeTells ==
  ASSUME IInv, NEW p \in Points
  PROVE  Tells(states[p], Before(p)) /\ Before(p).event = "none"
<1> DEFINE s == states[p]
           t == [s EXCEPT !.trig = 0, !.rec = 0]
<1>1. /\ s \in AlarmStates /\ (s.phase = "pending" => s.acked = FALSE) /\ (s.phase = "none" => s = NoAlarm)
      /\ s.phase \in {"none", "pending", "active"}
  BY DEF IInv, GoodTable, GoodState, ValidState, AlarmStates
<1>2. t.phase = s.phase /\ t.acked = s.acked /\ t.since = s.since
  BY <1>1 DEF AlarmStates
<1>3. CASE ~gap
  BY <1>3 DEF Before, Tells, Outcome
<1>4. CASE gap
  <2>1. \/ s.phase = "none" /\ Before(p) = Outcome(NoAlarm, "none", FALSE)
        \/ s.phase = "pending" /\ Before(p) = Outcome(NoAlarm, "none", TRUE)
        \/ s.phase = "active" /\ Before(p) = Outcome(t, "none", TRUE)
    BY <1>1, <1>4 DEF Before, AfterGap
  <2> HIDE DEF t
  <2>2. ASSUME NEW d PROVE Tells(s, Outcome(s, "none", d)) /\ Tells(s, Outcome(t, "none", d))
    BY <1>2 DEF Tells, Outcome
  <2>3. ASSUME s.phase = "pending" PROVE Tells(s, Outcome(NoAlarm, "none", TRUE))
    BY <1>1, <2>3, NoAlarmIsQuiet DEF Tells, Outcome
  <2>4. Before(p).event = "none"
    BY <2>1 DEF Outcome
  <2> QED BY <1>1, <2>1, <2>2, <2>3, <2>4
<1> QED BY <1>3, <1>4

(* evaluate_batch plans an event exactly where an alarm begins or ends.    *)
LEMMA SampledTells ==
  ASSUME IInv, NEW m \in Masters, NEW r \in [m -> Readings], NEW p \in Points
  PROVE  Tells(states[p], Sampled(m, r, p))
<1> DEFINE s == Before(p).state
<1>1. GoodState(s) /\ clock \in 1..MaxTime
  BY SampledIsGood DEF IInv, TypeOK
<1>2. Tells(states[p], Before(p)) /\ Before(p).event = "none"
  BY BeforeTells
<1>3. Tells(s, Sampled(m, r, p))
  <2>1. CASE p \notin m \/ (r[p] # "bad" /\ ~Watched(p))
    BY <2>1 DEF Sampled, Outcome, Tells
  <2>2. CASE p \in m /\ r[p] = "bad"
    BY <1>1, <2>2, InterruptTells DEF Sampled
  <2>3. CASE p \in m /\ r[p] # "bad" /\ Watched(p)
    <3>1. Sampled(m, r, p) = EvaluatePoint(s, rules[p], r[p], clock)
      BY <2>3 DEF Sampled
    <3> HIDE DEF s
    <3> QED BY <1>1, <3>1, PointTells
  <2> QED BY <2>1, <2>2, <2>3
<1> QED BY <1>2, <1>3 DEF Tells

-----------------------------------------------------------------------------
(* JournalTellsState.                                                      *)
Told(s, j) ==
  /\ j = "trigger" <=> s.phase = "active" /\ ~s.acked
  /\ j = "ack" <=> s.acked

LEMMA QuietTold ==
  ASSUME NEW j, j \notin {"trigger", "ack"}
  PROVE  Told(NoAlarm, j)
BY NoAlarmIsQuiet DEF Told

(* TellRecovery accounts for every alarm it ends, and for no other.        *)
LEMMA RecoveryTells ==
  ASSUME NEW ru, NEW st, NEW ctx, NEW C \in SUBSET Points, TellRecovery(ru, st, ctx, C),
         NEW p \in Points
  PROVE  \/ ~(p \in C /\ st[p].phase = "active")
              /\ journal'[p] = journal[p] /\ (p \in silent' <=> p \in silent)
         \/ p \in C /\ st[p].phase = "active" /\ journal'[p] = "recovery" /\ p \notin silent'
         \/ p \in C /\ st[p].phase = "active" /\ journal'[p] = journal[p] /\ p \in silent'
BY DEF TellRecovery

(* So what is cleared along with it is told.                               *)
LEMMA ClearedIsTold ==
  ASSUME NEW st, GoodTable(st), NEW ru, NEW ctx, NEW C \in SUBSET Points, TellRecovery(ru, st, ctx, C),
         NEW p \in Points \ silent', p \notin silent => Told(st[p], journal[p])
  PROVE  Told(Cleared(st, C)[p], journal'[p])
<1>1. Cleared(st, C)[p] = IF p \in C THEN NoAlarm ELSE st[p]
  BY DEF Cleared
<1>2. CASE p \in C /\ st[p].phase = "active"
  BY <1>1, <1>2, QuietTold, RecoveryTells
<1>3. CASE ~(p \in C /\ st[p].phase = "active")
  <2>1. Told(st[p], journal[p]) /\ journal'[p] = journal[p]
    BY <1>3, RecoveryTells
  <2>2. CASE p \in C
    <3>1. ~st[p].acked
      BY <1>3, <2>2 DEF GoodTable, GoodState, ValidState
    <3> QED BY <1>1, <1>3, <2>1, <2>2, <3>1, QuietTold DEF Told
  <2> QED BY <1>1, <2>1, <2>2
<1> QED BY <1>2, <1>3

LEMMA ToldBatch ==
  ASSUME IInv, JournalTellsState, EvaluateBatch
  PROVE  JournalTellsState'
<1>1. PICK m \in Masters : \E r \in [m -> Readings] :
        LET told == {p \in Points : Sampled(m, r, p).event # "none"}
        IN /\ states' = [p \in Points |-> Sampled(m, r, p).state]
           /\ journal' = [p \in Points |-> IF p \in told /\ ~Muted
                                            THEN Sampled(m, r, p).event ELSE journal[p]]
           /\ silent' = IF Muted THEN silent \cup told ELSE silent \ told
  BY DEF EvaluateBatch
<1>2. PICK r \in [m -> Readings] :
        /\ states' = [p \in Points |-> Sampled(m, r, p).state]
        /\ \A p \in Points \ silent' :
             IF Sampled(m, r, p).event = "none"
             THEN journal'[p] = journal[p] /\ p \notin silent
             ELSE journal'[p] = Sampled(m, r, p).event
  BY <1>1
<1>3. up /\ UNCHANGED up
  BY DEF EvaluateBatch
<1>4. SUFFICES ASSUME NEW p \in Points \ silent' PROVE Told(states'[p], journal'[p])
  BY <1>3 DEF JournalTellsState, Standing, Told
<1> DEFINE o == Sampled(m, r, p)
<1>5. Tells(states[p], o) /\ states'[p] = o.state
  BY <1>2, SampledTells
<1>6. states[p].acked \in BOOLEAN /\ (states[p].acked => states[p].phase = "active")
  BY DEF IInv, GoodTable, GoodState, ValidState, AlarmStates
<1>7. CASE o.event = "none"
  <2>1. journal'[p] = journal[p] /\ p \notin silent
    BY <1>2, <1>7
  <2>2. Told(states[p], journal[p])
    BY <1>3, <2>1 DEF JournalTellsState, Standing, Told
  <2> HIDE DEF o
  <2> QED BY <1>5, <1>7, <2>1, <2>2 DEF Told, Tells
<1>8. CASE o.event # "none"
  <2>1. journal'[p] = o.event
    BY <1>2, <1>8
  <2> HIDE DEF o
  <2>2. CASE o.event = "trigger"
    BY <1>5, <2>1, <2>2 DEF Told, Tells
  <2>3. CASE o.event = "recovery"
    BY <1>5, <2>1, <2>3, QuietTold DEF Tells
  <2> QED BY <1>5, <1>8, <2>2, <2>3 DEF Tells
<1> QED BY <1>7, <1>8

LEMMA ToldClearing ==
  ASSUME IInv, JournalTellsState, up, UNCHANGED up, NEW ru, NEW ctx, NEW C \in SUBSET Points,
         TellRecovery(ru, states, ctx, C), states' = Cleared(states, C)
  PROVE  JournalTellsState'
<1>1. SUFFICES ASSUME NEW p \in Points \ silent' PROVE Told(states'[p], journal'[p])
  BY DEF JournalTellsState, Standing, Told
<1>2. p \notin silent => Told(states[p], journal[p])
  BY DEF JournalTellsState, Standing, Told
<1> QED BY <1>2, ClearedIsTold DEF IInv

LEMMA ToldCommands ==
  ASSUME IInv, JournalTellsState,
         UpsertRule \/ DeleteRule \/ FinishEdit \/ ResetBegin \/ ImportReload
  PROVE  JournalTellsState'
<1>1. CASE UpsertRule
  <2>1. PICK p \in Points, touch \in BOOLEAN, C \in SUBSET Points :
        /\ states' = IF touch THEN [states EXCEPT ![p] = Touched(states[p])] ELSE Cleared(states, C)
        /\ touch => C = {}
        /\ TellRecovery(rules', states, contexts', C)
    <3>1. PICK p \in config, rule \in Rules, done \in BOOLEAN :
       LET s == states[p]
           C == IF done /\ s.phase # "none" /\ Disallows(rule, s) THEN {p} ELSE {}
           touch == done /\ s.phase = "active" /\ ~Disallows(rule, s)
           After(st) == IF touch THEN [st EXCEPT ![p] = Touched(s)] ELSE Cleared(st, C)
       IN /\ states' = After(states)
          /\ TellRecovery(rules', states, contexts', C)
      BY <1>1 DEF UpsertRule
    <3>2. p \in Points
      BY DEF IInv, TypeOK
    <3> DEFINE s == states[p]
               C == IF done /\ s.phase # "none" /\ Disallows(rule, s) THEN {p} ELSE {}
               touch == done /\ s.phase = "active" /\ ~Disallows(rule, s)
    <3>3. touch \in BOOLEAN /\ C \in SUBSET Points /\ (touch => C = {})
      BY <3>2
    <3>4. /\ states' = IF touch THEN [states EXCEPT ![p] = Touched(states[p])] ELSE Cleared(states, C)
          /\ TellRecovery(rules', states, contexts', C)
      BY <3>1
    <3> HIDE DEF C, touch
    <3> QED BY <3>2, <3>3, <3>4
  <2>2. up /\ UNCHANGED up
    BY <1>1 DEF UpsertRule, Command
  <2>3. CASE touch
    <3>1. UNCHANGED <<journal, silent>>
      BY <2>1, <2>3 DEF TellRecovery, IInv, TypeOK
    <3>2. Touched(states[p]).phase = states[p].phase /\ Touched(states[p]).acked = states[p].acked
      BY DEF Touched, IInv, TypeOK, StateTables, AlarmStates
    <3>3. \A q \in Points : states'[q].phase = states[q].phase /\ states'[q].acked = states[q].acked
      BY <2>1, <2>3, <3>2 DEF IInv, TypeOK, StateTables
    <3> QED BY <2>2, <3>1, <3>3 DEF JournalTellsState, Standing
  <2>4. CASE ~touch
    BY <2>1, <2>2, <2>4, ToldClearing
  <2> QED BY <2>3, <2>4
<1>2. CASE DeleteRule
  <2>1. PICK C \in SUBSET Points :
          states' = Cleared(states, C) /\ TellRecovery(rules, states, contexts, C)
    BY <1>2 DEF DeleteRule
  <2> QED BY <1>2, <2>1, ToldClearing DEF DeleteRule, Command
<1>3. CASE FinishEdit \/ ResetBegin \/ ImportReload
  <2>1. PICK C \in SUBSET Points :
          states' = Cleared(states, C) /\ TellRecovery(rules, states, contexts, C)
    BY <1>3 DEF FinishEdit, ResetBegin, ImportReload, Reload, Synchronize
  <2> QED BY <1>3, <2>1, ToldClearing DEF FinishEdit, ResetBegin, ImportReload, Reload
<1> QED BY <1>1, <1>2, <1>3

LEMMA ToldElse ==
  ASSUME IInv, JournalTellsState, [Next]_vars,
         ~(EvaluateBatch \/ UpsertRule \/ DeleteRule \/ FinishEdit \/ ResetBegin \/ ImportReload)
  PROVE  JournalTellsState'
<1>1. CASE Acknowledge
  <2>1. PICK p, a :
          /\ p \in Points /\ a.phase = "active" /\ a.acked
          /\ states' = [states EXCEPT ![p] = a]
          /\ journal' = [journal EXCEPT ![p] = "ack"]
          /\ silent' = silent \ {p}
    <3>1. PICK p \in contexts :
       LET acked == [states[p] EXCEPT !.acked = TRUE,
                                      !.upd = Later(states[p].upd, clock)]
       IN /\ states[p].phase = "active"
          /\ states' = [states EXCEPT ![p] = acked]
          /\ journal' = [journal EXCEPT ![p] = "ack"]
          /\ silent' = silent \ {p}
      BY <1>1 DEF Acknowledge
    <3> DEFINE u == Later(states[p].upd, clock)
               acked == [states[p] EXCEPT !.acked = TRUE, !.upd = u]
    <3>2. p \in Points
      BY DEF IInv, TypeOK
    <3>3. acked.phase = "active" /\ acked.acked
      BY <3>1, <3>2 DEF IInv, TypeOK, StateTables, AlarmStates
    <3>4. states' = [states EXCEPT ![p] = acked]
      BY <3>1
    <3> HIDE DEF acked
    <3> QED BY <3>1, <3>2, <3>3, <3>4
  <2>2. up /\ UNCHANGED up
    BY <1>1 DEF Acknowledge, Command
  <2> QED
    BY <2>1, <2>2 DEF JournalTellsState, Standing, IInv, TypeOK, StateTables
<1>2. CASE FactoryReset
  <2>1. PICK all \in BOOLEAN :
          /\ silent' = IF all THEN {} ELSE Points
          /\ all => /\ journal' = [p \in Points |-> "none"]
                    /\ states' = Cleared(dbStates, Points)
    <3>1. \A wiped : (wiped = {"rules", "states", "events", "history"}) \in BOOLEAN
      OBVIOUS
    <3> QED BY <1>2, <3>1 DEF FactoryReset
  <2>2. up /\ UNCHANGED up
    BY <1>2 DEF FactoryReset
  <2>3. all => \A p \in Points : states'[p] = NoAlarm /\ journal'[p] = "none"
    BY <2>1 DEF Cleared
  <2> QED BY <2>1, <2>2, <2>3, NoAlarmIsQuiet DEF JournalTellsState, Standing
<1>3. CASE Crash \/ Shutdown
  <2>1. PICK rows, kept : Down(rows, kept) /\ up
    BY <1>3 DEF Crash, Shutdown, Command
  <2>2. /\ ~up' /\ dbStates' = rows /\ UNCHANGED journal
        /\ silent' = silent \cup {p \in Points : Activity(rows[p]) # Activity(states[p])}
    BY <2>1 DEF Down
  <2> QED BY <2>1, <2>2 DEF JournalTellsState, Standing, Activity
<1>4. CASE Restart
  <2>1. PICK C \in SUBSET Points :
          /\ dbStates' = Cleared(dbStates, C) /\ TellRecovery(dbRules, dbStates, topology, C)
          /\ up' => states' = dbStates'
    BY <1>4 DEF Restart
  <2>2. ~up
    BY <1>4 DEF Restart
  <2>3. SUFFICES ASSUME NEW p \in Points \ silent' PROVE Told(dbStates'[p], journal'[p])
    BY <2>1 DEF JournalTellsState, Standing, Told
  <2>4. p \notin silent => Told(dbStates[p], journal[p])
    BY <2>2 DEF JournalTellsState, Standing, Told
  <2> QED BY <2>1, <2>4, ClearedIsTold DEF IInv
<1>5. CASE UNCHANGED <<up, states, journal, silent>> /\ (up \/ UNCHANGED dbStates)
  BY <1>5 DEF JournalTellsState, Standing
<1> QED
  BY <1>1, <1>2, <1>3, <1>4, <1>5
  DEF Next, LoseBatch, RestartPolling, EditTopology, AbandonEdit, ImportBegin, ImportRefused,
      ImportCommit, ImportAbandon, ImportUndo, ImportEnd, AdvanceClock, SlipClock, Command, vars,
      memory, store

(* The last event of a point in the outbox tells its state, whatever is    *)
(* lost, fails, crashes or is edited: append_event of evaluate_batch, of   *)
(* the commands and of synchronize_topology runs where, and only where, an *)
(* alarm begins, is acknowledged or ends.                                  *)
THEOREM JournalStaysTrue == Spec => []JournalTellsState
<1>1. Init => JournalTellsState
  BY NoAlarmIsQuiet DEF Init, JournalTellsState, Standing
<1>2. IInv /\ JournalTellsState /\ [Next]_vars => JournalTellsState'
  BY ToldBatch, ToldCommands, ToldElse
<1> QED BY <1>1, <1>2, Inductive, PTL DEF Spec

-----------------------------------------------------------------------------
(* CountsAreEarned and ChangesAreEarned.  A running count belongs to an    *)
(* enabled rule, except where a rule was changed under it (carried).       *)
Runs == [dir : Directions, n : 0..MaxCount, calm : 0..MaxCount]

CountsInv ==
  /\ CountsAreEarned
  /\ up => \A p \in Points \ carried : Counting(states[p]) => rules[p].enabled

(* What the evaluation of a point in state s by a rule may do, and what    *)
(* run of rounds it takes.                                                 *)
Gains(s, t, rule, new) ==
  /\ Earned(t, new)
  /\ s.phase # "active" /\ t.phase = "active" => new.dir = t.dir /\ new.n >= rule.trigger
  /\ s.phase = "active" /\ t.phase # "active" => new.calm >= rule.recovery

LEMMA NotCountingIsEarned ==
  ASSUME NEW s, GoodState(s), ~Counting(s), NEW r \in Runs
  PROVE  Earned(s, r)
BY BoundsAssumption DEF Counting, Earned, GoodState, AlarmStates, Runs

LEMMA NoAlarmIsEarned == \A r \in Runs : Earned(NoAlarm, r)
BY NoAlarmIsGood, NotCountingIsEarned DEF Counting, NoAlarm

(* One round more in the same direction.                                   *)
LEMMA RaisedGains ==
  ASSUME NEW s \in AlarmStates, s.phase = "pending", s.rec = 0, NEW rule \in Rules, NEW ts,
         NEW new \in Runs, new.dir = s.dir, s.trig <= new.n, NEW old, old.phase # "active"
  PROVE  Gains(old, Raised(s, rule, ts).state, rule, new)
<1> DEFINE t == [s EXCEPT !.phase = "active", !.since = ts]
<1>1. t.phase = "active" /\ t.rec = 0 /\ t.dir = s.dir
  BY DEF AlarmStates
<1>2. new.n \in Nat /\ new.calm \in Nat /\ s.trig \in Nat /\ rule.trigger \in Nat
  BY RuleFacts, BoundsAssumption DEF Runs, AlarmStates
<1> HIDE DEF t
<1>3. CASE s.trig >= rule.trigger
  <2>1. Raised(s, rule, ts).state = t
    BY <1>3 DEF Raised, Outcome, t
  <2>2. new.n >= rule.trigger
    BY <1>2, <1>3
  <2> QED BY <1>1, <1>2, <2>1, <2>2 DEF Gains, Earned
<1>4. CASE ~(s.trig >= rule.trigger)
  <2>1. Raised(s, rule, ts).state = s
    BY <1>4 DEF Raised, Outcome
  <2> QED BY <2>1 DEF Gains, Earned
<1> QED BY <1>3, <1>4

LEMMA LongerFields ==
  ASSUME NEW old \in Runs, NEW s, NEW rule, NEW reading
  PROVE  LET new == Longer(old, s, rule, reading)
             dir == Breach(rule, reading)
         IN /\ new \in Runs /\ new.dir = dir
            /\ dir # "none" => new.n = (IF dir = old.dir THEN Counted(old.n) ELSE 1)
            /\ s.phase = "active" /\ BeyondRecovery(s.dir, reading)
                 => new.calm = Counted(old.calm)
<1> DEFINE dir == Breach(rule, reading)
           n == IF dir = "none" THEN 0 ELSE IF dir = old.dir THEN Counted(old.n) ELSE 1
           calm == IF s.phase = "active" /\ BeyondRecovery(s.dir, reading)
                   THEN Counted(old.calm) ELSE 0
<1>1. dir \in Directions
  BY DEF Breach, Directions
<1>2. Counted(old.n) \in 0..MaxCount /\ Counted(old.calm) \in 0..MaxCount
  BY BoundsAssumption DEF Counted, Runs
<1>3. n \in 0..MaxCount /\ calm \in 0..MaxCount
  BY <1>2, BoundsAssumption
<1>4. Longer(old, s, rule, reading) = [dir |-> dir, n |-> n, calm |-> calm]
  BY DEF Longer
<1>5. /\ dir # "none" => n = (IF dir = old.dir THEN Counted(old.n) ELSE 1)
      /\ s.phase = "active" /\ BeyondRecovery(s.dir, reading) => calm = Counted(old.calm)
  OBVIOUS
<1> HIDE DEF dir, n, calm
<1>6. [dir |-> dir, n |-> n, calm |-> calm] \in Runs
  BY <1>1, <1>3 DEF Runs
<1> QED BY <1>4, <1>5, <1>6 DEF dir

LEMMA CountedFacts ==
  ASSUME NEW n \in 0..MaxCount
  PROVE  /\ Counted(n) >= 1
         /\ \A k \in 0..(MaxCount - 1) : k <= n => k + 1 <= Counted(n)
BY BoundsAssumption DEF Counted

LEMMA NormalGains ==
  ASSUME NEW old \in Runs, NEW rule \in Rules, NEW reading \in Readings, NEW ts \in 1..MaxTime,
         NEW s, s.phase # "active"
  PROVE  Gains(s, EvaluateNormal(rule, reading, ts).state, rule, Longer(old, s, rule, reading))
<1> DEFINE dir == Breach(rule, reading)
           new == Longer(old, s, rule, reading)
           t == [NoAlarm EXCEPT !.phase = "pending", !.dir = dir, !.trig = 1,
                                !.eval = ts, !.upd = ts]
<1>1. new \in Runs /\ new.dir = dir
      /\ (dir # "none" => new.n = (IF dir = old.dir THEN Counted(old.n) ELSE 1))
  BY LongerFields
<1> HIDE DEF new
<1>2. CASE dir = "none"
  <2>1. EvaluateNormal(rule, reading, ts).state = NoAlarm
    BY <1>2 DEF EvaluateNormal, Outcome
  <2> QED BY <1>1, <2>1, NoAlarmIsEarned, NoAlarmIsQuiet DEF Gains, new
<1>3. CASE dir # "none"
  <2>1. EvaluateNormal(rule, reading, ts) = Raised(t, rule, ts)
    BY <1>3 DEF EvaluateNormal
  <2>2. /\ t.phase = "pending" /\ t.dir = dir /\ t.trig = 1 /\ t.rec = 0
    BY DEF NoAlarm
  <2>3. t \in AlarmStates
    <3>1. dir \in Directions
      BY DEF Breach, Directions
    <3>2. 1 \in 0..MaxCount /\ ts \in 0..MaxTime /\ NoAlarm \in AlarmStates
      BY BoundsAssumption, NoAlarmIsGood DEF GoodState
    <3> HIDE DEF dir
    <3> QED BY <3>1, <3>2 DEF AlarmStates
  <2>4. t.trig <= new.n
    <3>1. 1 <= Counted(old.n) /\ Counted(old.n) \in Nat
      BY CountedFacts, BoundsAssumption DEF Runs, Counted
    <3> QED BY <1>1, <1>3, <2>2, <3>1
  <2> HIDE DEF t, dir
  <2> QED BY <1>1, <2>1, <2>2, <2>3, <2>4, RaisedGains DEF new
<1> QED BY <1>2, <1>3

LEMMA PendingGains ==
  ASSUME NEW s, GoodState(s), s.phase = "pending", NEW old \in Runs, Earned(s, old),
         NEW rule \in Rules, NEW reading \in Readings, NEW ts \in 1..MaxTime
  PROVE  Gains(s, EvaluatePending(s, rule, reading, ts).state, rule, Longer(old, s, rule, reading))
<1> DEFINE dir == Breach(rule, reading)
           new == Longer(old, s, rule, reading)
           n == IF dir = s.dir THEN s.trig + 1 ELSE 1
           t == [s EXCEPT !.dir = dir, !.eval = ts, !.upd = ts, !.trig = n]
<1>1. new \in Runs /\ new.dir = dir
      /\ (dir # "none" => new.n = (IF dir = old.dir THEN Counted(old.n) ELSE 1))
  BY LongerFields
<1> HIDE DEF new
<1>2. /\ s \in AlarmStates /\ s.trig \in 0..(MaxCount - 1) /\ s.rec = 0
      /\ s.dir = old.dir /\ s.trig <= old.n /\ old.n \in 0..MaxCount
  BY BoundsAssumption DEF GoodState, ValidState, AlarmStates, Earned, Runs
<1>3. CASE dir = "none"
  <2>1. EvaluatePending(s, rule, reading, ts).state = NoAlarm
    BY <1>3 DEF EvaluatePending, Outcome
  <2> QED BY <1>1, <2>1, NoAlarmIsEarned, NoAlarmIsQuiet DEF Gains, new
<1>4. CASE dir # "none"
  <2>1. EvaluatePending(s, rule, reading, ts) = Raised(t, rule, ts)
    BY <1>4 DEF EvaluatePending
  <2>2. t.phase = "pending" /\ t.dir = dir /\ t.trig = n /\ t.rec = 0
    BY <1>2 DEF AlarmStates
  <2>3. n \in 0..MaxCount /\ ts \in 0..MaxTime
    BY <1>2, BoundsAssumption
  <2>4. n <= new.n
    BY <1>1, <1>2, <1>4, CountedFacts
  <2>5. t \in AlarmStates
    <3>1. dir \in Directions
      BY DEF Breach, Directions
    <3> HIDE DEF dir, n
    <3> QED BY <1>2, <2>3, <3>1 DEF AlarmStates
  <2> HIDE DEF t, dir, n
  <2> QED BY <1>1, <2>1, <2>2, <2>4, <2>5, RaisedGains DEF new
<1> QED BY <1>3, <1>4

LEMMA ActiveGains ==
  ASSUME NEW s, GoodState(s), s.phase = "active", NEW old \in Runs, Earned(s, old),
         NEW rule \in Rules, NEW reading \in Readings, NEW ts
  PROVE  Gains(s, EvaluateActive(s, rule, reading, ts).state, rule, Longer(old, s, rule, reading))
<1> DEFINE new == Longer(old, s, rule, reading)
           late == Later(ts, s.upd)
           seen == [s EXCEPT !.eval = ts, !.upd = late]
           loud == [seen EXCEPT !.rec = 0]
           calm == [seen EXCEPT !.trig = 0, !.rec = s.rec + 1]
<1>1. new \in Runs /\ (BeyondRecovery(s.dir, reading) => new.calm = Counted(old.calm))
  BY LongerFields
<1> HIDE DEF new
<1>2. s \in AlarmStates /\ s.rec \in 0..(MaxCount - 1) /\ s.rec <= old.calm /\ old.calm \in 0..MaxCount
  BY BoundsAssumption DEF GoodState, AlarmStates, Earned, Runs
<1>3. /\ loud.phase = "active" /\ loud.rec = 0
      /\ calm.phase = "active" /\ calm.rec = s.rec + 1
  BY <1>2 DEF AlarmStates
<1>4. rule.recovery \in Nat /\ new.calm \in Nat
  BY <1>1, RuleFacts, BoundsAssumption DEF Runs
<1>5. CASE ~BeyondRecovery(s.dir, reading)
  <2>1. EvaluateActive(s, rule, reading, ts).state = loud
    BY <1>5 DEF EvaluateActive, Outcome
  <2> HIDE DEF loud
  <2> QED BY <1>3, <1>4, <2>1 DEF Gains, Earned, new
<1>6. CASE BeyondRecovery(s.dir, reading)
  <2>1. s.rec + 1 <= new.calm
    BY <1>1, <1>2, <1>6, CountedFacts
  <2>2. CASE s.rec + 1 >= rule.recovery
    <3>1. EvaluateActive(s, rule, reading, ts).state = NoAlarm
      BY <1>6, <2>2 DEF EvaluateActive, Outcome
    <3>2. new.calm >= rule.recovery
      BY <1>2, <1>4, <2>1, <2>2
    <3> QED BY <1>1, <3>1, <3>2, NoAlarmIsEarned, NoAlarmIsQuiet DEF Gains, new
  <2>3. CASE ~(s.rec + 1 >= rule.recovery)
    <3>1. EvaluateActive(s, rule, reading, ts).state = calm
      BY <1>6, <2>3 DEF EvaluateActive, Outcome
    <3> HIDE DEF calm
    <3> QED BY <1>3, <2>1, <3>1 DEF Gains, Earned, new
  <2> QED BY <2>2, <2>3
<1> QED BY <1>5, <1>6

LEMMA PointGains ==
  ASSUME NEW s, GoodState(s), NEW old \in Runs, Earned(s, old), NEW rule \in Rules,
         NEW reading \in Readings, NEW ts \in 1..MaxTime, ~(s.phase # "none" /\ ts < s.eval)
  PROVE  Gains(s, EvaluatePoint(s, rule, reading, ts).state, rule, Longer(old, s, rule, reading))
<1>1. s.phase \in {"none", "pending", "active"}
  BY DEF GoodState, AlarmStates
<1>2. CASE s.phase = "none"
  BY <1>2, NormalGains DEF EvaluatePoint
<1>3. CASE s.phase = "pending"
  BY <1>3, PendingGains DEF EvaluatePoint
<1>4. CASE s.phase = "active"
  BY <1>4, ActiveGains DEF EvaluatePoint
<1> QED BY <1>1, <1>2, <1>3, <1>4

(* What the gap flag leaves has been earned, whatever the run was.         *)
LEMMA BeforeIsEarned ==
  ASSUME IInv, CountsInv, up, NEW p \in Points \ carried
  PROVE  /\ Earned(Before(p).state, run[p]) /\ run[p] \in Runs
         /\ Before(p).state.phase = "active" <=> states[p].phase = "active"
         /\ Counting(Before(p).state) => rules[p].enabled
<1> DEFINE s == states[p]
           t == [s EXCEPT !.trig = 0, !.rec = 0]
<1>1. GoodState(s) /\ s \in AlarmStates /\ run[p] \in Runs
  BY DEF IInv, GoodTable, GoodState, TypeOK, Runs
<1>2. CASE ~gap
  <2>1. Before(p).state = s
    BY <1>2 DEF Before, Outcome
  <2> QED BY <1>1, <1>2, <2>1 DEF CountsInv, CountsAreEarned, Standing
<1>3. CASE gap
  <2>1. \/ s.phase # "active" /\ Before(p).state = NoAlarm
        \/ s.phase = "active" /\ Before(p).state = t
    BY <1>1, <1>3 DEF Before, AfterGap, Outcome, AlarmStates
  <2>2. t.phase = s.phase /\ t.rec = 0
    BY <1>1 DEF AlarmStates
  <2>3. CASE s.phase # "active"
    BY <1>1, <2>1, <2>3, NoAlarmIsEarned DEF NoAlarm, Counting
  <2>4. CASE s.phase = "active"
    <3> HIDE DEF t
    <3>1. Before(p).state.phase = "active" /\ ~Counting(Before(p).state)
      BY <2>1, <2>2, <2>4 DEF Counting
    <3>2. GoodState(Before(p).state)
      BY <1>1, <1>3, AfterGapIsGood DEF Before
    <3> QED BY <1>1, <2>4, <3>1, <3>2, NotCountingIsEarned
  <2> QED BY <2>3, <2>4
<1> QED BY <1>2, <1>3

LEMMA SampledGains ==
  ASSUME IInv, CountsInv, RulesAreWatched, up,
         NEW m \in Masters, NEW r \in [m -> Readings], NEW p \in Points \ carried
  PROVE  LET t == Sampled(m, r, p).state
         IN /\ Gains(states[p], t, rules[p], RunAfter(m, r, p))
            /\ Counting(t) => rules[p].enabled
<1> DEFINE s == Before(p).state
           t == Sampled(m, r, p).state
           new == RunAfter(m, r, p)
<1>1. /\ Earned(s, run[p]) /\ run[p] \in Runs /\ GoodState(s) /\ clock \in 1..MaxTime
      /\ s.phase = "active" <=> states[p].phase = "active"
      /\ Counting(s) => rules[p].enabled
  BY BeforeIsEarned, SampledIsGood DEF IInv, TypeOK
<1>2. SUFFICES Gains(s, t, rules[p], new) /\ (Counting(t) => rules[p].enabled)
  BY <1>1 DEF Gains
<1>3. GoodState(t) /\ new \in Runs
  BY SampledIsGood, RunIsTyped DEF Runs
<1>4. ASSUME t = s, new = run[p] PROVE Gains(s, t, rules[p], new)
  BY <1>1, <1>4 DEF Gains
<1>5. CASE p \notin m \/ (s.phase # "none" /\ clock < s.eval)
  <2>1. new = run[p]
    BY <1>5 DEF RunAfter
  <2>2. t = s
    BY <1>5 DEF Sampled, Interrupt, EvaluatePoint, Outcome
  <2> HIDE DEF s, t, new
  <2> QED BY <1>1, <1>4, <2>1, <2>2
<1>6. CASE p \in m /\ ~(s.phase # "none" /\ clock < s.eval) /\ r[p] = "bad"
  <2>1. t = Interrupt(s, clock).state
    BY <1>6 DEF Sampled
  <2>2. ~Counting(t) /\ (t.phase = "active" <=> s.phase = "active")
    <3>1. \/ t = s /\ (s.phase = "none" \/ (s.phase = "active" /\ s.rec = 0))
          \/ s.phase = "pending" /\ t = NoAlarm
          \/ s.phase = "active" /\ t.phase = "active" /\ t.rec = 0
      <4>1. s \in AlarmStates
        BY <1>1 DEF GoodState
      <4> DEFINE late == Later(s.upd, clock)
                 q == [s EXCEPT !.rec = 0, !.eval = clock, !.upd = late]
      <4>2. q.phase = s.phase /\ q.rec = 0
        BY <4>1 DEF AlarmStates
      <4>3. s.phase \in {"none", "pending", "active"}
        BY <4>1 DEF AlarmStates
      <4>4. \/ t = s /\ (s.phase = "none" \/ s.rec = 0)
            \/ s.phase = "pending" /\ t = NoAlarm
            \/ t = q
        BY <1>6, <2>1 DEF Interrupt, Outcome
      <4> HIDE DEF q, s, t
      <4>5. s.phase = "pending" => t = NoAlarm
        BY <1>6, <2>1 DEF Interrupt, Outcome
      <4>6. s.phase = "none" => t = s
        BY <2>1 DEF Interrupt, Outcome
      <4> QED BY <4>2, <4>3, <4>4, <4>5, <4>6
    <3>2. s.phase = "none" => s.rec = 0
      BY <1>1 DEF GoodState, ValidState, NoAlarm
    <3> HIDE DEF s, t
    <3> QED BY <3>1, <3>2, NoAlarmIsQuiet DEF Counting, NoAlarm
  <2>3. Earned(t, new)
    BY <1>3, <2>2, NotCountingIsEarned
  <2> HIDE DEF s, t, new
  <2> QED BY <2>2, <2>3 DEF Gains
<1>7. CASE p \in m /\ r[p] # "bad" /\ ~Watched(p)
  <2>1. t = s
    BY <1>7 DEF Sampled, Outcome
  <2>2. ~Counting(s)
    <3>1. states[p].phase # "none" => p \in contexts
      BY DEF RulesAreWatched
    <3>2. states[p].phase = "none" => s.phase # "pending" /\ s.rec = 0
      <4>1. states[p].phase = "none" => states[p] = NoAlarm
        BY DEF IInv, GoodTable, GoodState, ValidState
      <4> QED BY <4>1 DEF Before, AfterGap, Outcome, NoAlarm
    <3>3. p \in contexts => ~rules[p].enabled
      BY <1>7 DEF Watched
    <3> HIDE DEF s
    <3>4. s.rec \in Nat
      BY <1>1, BoundsAssumption DEF GoodState, AlarmStates
    <3> QED BY <1>1, <3>1, <3>2, <3>3, <3>4 DEF Counting
  <2>3. Earned(t, new)
    BY <1>3, <2>1, <2>2, NotCountingIsEarned
  <2> HIDE DEF s, t, new
  <2> QED BY <2>1, <2>2, <2>3 DEF Gains
<1>8. CASE p \in m /\ ~(s.phase # "none" /\ clock < s.eval) /\ r[p] # "bad" /\ Watched(p)
  <2>1. rules[p] \in Rules /\ r[p] \in Readings /\ rules[p].enabled
    BY <1>8, WatchedRule DEF IInv, Watched
  <2>2. t = EvaluatePoint(s, rules[p], r[p], clock).state
    BY <1>8 DEF Sampled
  <2>3. new = Longer(run[p], s, rules[p], r[p])
    BY <1>8 DEF RunAfter
  <2> HIDE DEF s, t, new
  <2> QED BY <1>1, <1>8, <2>1, <2>2, <2>3, PointGains
<1> QED BY <1>5, <1>6, <1>7, <1>8

LEMMA EarnedWhenCounted ==
  ASSUME IInv, CountsInv, RulesAreWatched, up, EvaluateBatch, NEW p \in Points \ carried
  PROVE  /\ Gains(states[p], states'[p], rules[p], run'[p])
         /\ Counting(states'[p]) => rules[p].enabled
<1>1. PICK m \in Masters : \E r \in [m -> Readings] :
        /\ states' = [q \in Points |-> Sampled(m, r, q).state]
        /\ run' = [q \in Points |-> RunAfter(m, r, q)]
  BY DEF EvaluateBatch
<1>2. PICK r \in [m -> Readings] :
        /\ states' = [q \in Points |-> Sampled(m, r, q).state]
        /\ run' = [q \in Points |-> RunAfter(m, r, q)]
  BY <1>1
<1> QED BY <1>2, SampledGains

(* A point that is not carried any more, or that nothing counts, has earned*)
(* what it shows.                                                          *)
LEMMA CarryKeeps ==
  ASSUME NEW more, NEW st, Carry(more, st), NEW p \in Points \ carried', Counting(st[p])
  PROVE  p \notin carried /\ p \notin more
BY DEF Carry

LEMMA CountsBatch ==
  ASSUME IInv, CountsInv, RulesAreWatched, EvaluateBatch
  PROVE  CountsInv'
<1>1. up /\ up' /\ UNCHANGED rules /\ Carry({}, states') /\ IInv'
  BY EvaluateBatchInv DEF EvaluateBatch
<1>2. SUFFICES ASSUME NEW p \in Points \ carried'
               PROVE  Earned(states'[p], run'[p]) /\ (Counting(states'[p]) => rules'[p].enabled)
  BY <1>1 DEF CountsInv, CountsAreEarned, Standing
<1>3. CASE Counting(states'[p])
  <2>1. p \notin carried
    BY <1>1, <1>3, CarryKeeps
  <2> QED BY <1>1, <2>1, EarnedWhenCounted DEF Gains
<1>4. CASE ~Counting(states'[p])
  <2>1. GoodState(states'[p]) /\ run'[p] \in Runs
    BY <1>1 DEF IInv, GoodTable, TypeOK, Runs
  <2> QED BY <1>4, <2>1, NotCountingIsEarned
<1> QED BY <1>3, <1>4

(* Whatever else happens to a state, its counts go on or are gone.         *)
LEMMA CountsElsewhere ==
  ASSUME IInv, IInv', CountsInv, up, UNCHANGED <<up, run>>, NEW more, Carry(more, states'),
         gap' \/ ~gap \/ more = Points,
         \A p \in Points : Counting(states'[p]) =>
           /\ Counts(states'[p]) = Counts(states[p])
           /\ p \in more \/ (rules[p].enabled => rules'[p].enabled)
  PROVE  CountsInv'
<1>1. ASSUME NEW p \in Points \ carried', Counting(states'[p])
      PROVE  /\ Counting(states[p]) /\ p \notin carried /\ rules'[p].enabled
             /\ ~gap' => Earned(states'[p], run'[p])
  <2>1. p \notin carried /\ p \notin more
    BY <1>1, CarryKeeps
  <2>2. Counts(states'[p]) = Counts(states[p])
    BY <1>1
  <2>3. /\ states'[p].phase = states[p].phase /\ states'[p].dir = states[p].dir
        /\ states'[p].trig = states[p].trig /\ states'[p].rec = states[p].rec
    BY <2>2 DEF Counts
  <2>4. Counting(states[p])
    BY <1>1, <2>3 DEF Counting
  <2>5. rules[p].enabled
    BY <2>1, <2>4 DEF CountsInv
  <2>6. ~gap' => Earned(states[p], run[p])
    BY <2>1 DEF CountsInv, CountsAreEarned, Standing
  <2> QED BY <1>1, <2>1, <2>3, <2>4, <2>5, <2>6 DEF Earned
<1>2. ASSUME NEW p \in Points, ~Counting(states'[p]) PROVE Earned(states'[p], run'[p])
  <2>1. GoodState(states'[p]) /\ run'[p] \in Runs
    BY DEF IInv, GoodTable, TypeOK, Runs
  <2> QED BY <1>2, <2>1, NotCountingIsEarned
<1> QED BY <1>1, <1>2 DEF CountsInv, CountsAreEarned, Standing

LEMMA NothingCounts == ~Counting(NoAlarm)
BY DEF Counting, NoAlarm

LEMMA CountsCleared ==
  ASSUME NEW C, NEW p \in Points, states' = Cleared(states, C), Counting(states'[p])
  PROVE  p \notin C /\ states'[p] = states[p]
BY NothingCounts DEF Cleared

LEMMA CountsUpsert ==
  ASSUME IInv, CountsInv, UpsertRule
  PROVE  CountsInv'
<1>1. PICK p \in config, rule \in Rules, done \in BOOLEAN :
       LET s == states[p]
           C == IF done /\ s.phase # "none" /\ Disallows(rule, s) THEN {p} ELSE {}
           touch == done /\ s.phase = "active" /\ ~Disallows(rule, s)
           After(st) == IF touch THEN [st EXCEPT ![p] = Touched(s)] ELSE Cleared(st, C)
       IN /\ rules' = [rules EXCEPT ![p] = rule]
          /\ states' = After(states)
          /\ Carry(IF Disallows(rule, s) THEN {p} ELSE {}, states')
  BY DEF UpsertRule
<1> DEFINE more == IF Disallows(rule, states[p]) THEN {p} ELSE {}
<1>2. IInv' /\ up /\ UNCHANGED <<up, run, gap>> /\ p \in Points
  BY UpsertRuleInv DEF UpsertRule, Command, IInv, TypeOK
<1>3. Counts(Touched(states[p])) = Counts(states[p])
  BY <1>2 DEF Touched, Counts, IInv, TypeOK, StateTables, AlarmStates
<1>4. ASSUME NEW q \in Points, Counting(states'[q]) PROVE Counts(states'[q]) = Counts(states[q])
  <2>1. \/ states' = [states EXCEPT ![p] = Touched(states[p])]
        \/ \E C : states' = Cleared(states, C)
    BY <1>1
  <2> QED BY <1>3, <1>4, <2>1, CountsCleared DEF IInv, TypeOK, StateTables
<1>5. ASSUME NEW q \in Points PROVE q \in more \/ (rules[q].enabled => rules'[q].enabled)
  BY <1>1, <1>2 DEF Disallows, IInv, TypeOK, RuleTables
<1>6. Carry(more, states')
  BY <1>1
<1> HIDE DEF more
<1> QED BY <1>2, <1>4, <1>5, <1>6, CountsElsewhere

LEMMA CountsDelete ==
  ASSUME IInv, CountsInv, DeleteRule
  PROVE  CountsInv'
<1>1. PICK p \in Points, done \in BOOLEAN :
       LET C == {p} \cap {q \in Points : states[q].phase # "none"}
           D == IF done THEN {p} ELSE {}
       IN states' = Cleared(states, C) /\ rules' = Erased(rules, D)
  BY DEF DeleteRule
<1>2. IInv' /\ up /\ UNCHANGED <<up, run, gap>> /\ Carry({}, states')
  BY DeleteRuleInv DEF DeleteRule, Command
<1>3. ASSUME NEW q \in Points, Counting(states'[q])
      PROVE  Counts(states'[q]) = Counts(states[q]) /\ (rules[q].enabled => rules'[q].enabled)
  <2>1. states'[q] = states[q]
    BY <1>1, <1>3, CountsCleared
  <2>2. states[q].phase # "none"
    <3>1. GoodState(states[q])
      BY DEF IInv, GoodTable
    <3> QED BY <1>3, <2>1, <3>1, NothingCounts DEF GoodState, ValidState
  <2>3. q # p
    BY <1>1, <1>3, <2>2, CountsCleared
  <2> QED BY <1>1, <2>1, <2>3 DEF Erased
<1> QED BY <1>2, <1>3, CountsElsewhere

LEMMA CountsReload ==
  ASSUME IInv, CountsInv, FinishEdit \/ ResetBegin \/ ImportReload
  PROVE  CountsInv'
<1>1. PICK D \in SUBSET Points, C \in SUBSET Points :
        /\ {p \in D : states[p].phase # "none"} \subseteq C
        /\ states' = Cleared(states, C) /\ rules' = Erased(rules, D)
  BY DEF FinishEdit, ResetBegin, ImportReload, Reload, Synchronize, Partial
<1>2. up /\ UNCHANGED <<up, run>> /\ gap' = FALSE
      /\ Carry(IF gap THEN Points ELSE {}, states')
  BY DEF FinishEdit, ResetBegin, ImportReload, Reload, NewPollingService
<1>3. IInv'
  BY EditInv, FactoryResetInv, ImportInv
<1>4. ASSUME NEW q \in Points, Counting(states'[q])
      PROVE  Counts(states'[q]) = Counts(states[q]) /\ (rules[q].enabled => rules'[q].enabled)
  <2>1. q \notin C /\ states'[q] = states[q]
    BY <1>1, <1>4, CountsCleared
  <2>2. states[q].phase # "none"
    <3>1. GoodState(states[q])
      BY DEF IInv, GoodTable
    <3> QED BY <1>4, <2>1, <3>1, NothingCounts DEF GoodState, ValidState
  <2> QED BY <1>1, <2>1, <2>2 DEF Erased
<1> DEFINE more == IF gap THEN Points ELSE {}
<1>5. Carry(more, states') /\ (~gap \/ more = Points)
  BY <1>2
<1> HIDE DEF more
<1> QED BY <1>2, <1>3, <1>4, <1>5, CountsElsewhere

(* Nothing is touched, but the polling service may be a new one.           *)
LEMMA CountsIdle ==
  ASSUME IInv, CountsInv, UNCHANGED <<up, states, rules, run>>, up,
         \/ UNCHANGED <<gap, carried>>
         \/ NewPollingService(states)
  PROVE  CountsInv'
<1>1. CASE UNCHANGED <<gap, carried>>
  BY <1>1 DEF CountsInv, CountsAreEarned, Standing
<1>2. CASE NewPollingService(states)
  <2> DEFINE more == IF gap THEN Points ELSE {}
  <2>1. Carry(more, states) /\ gap' = FALSE /\ (~gap \/ more = Points)
    BY <1>2 DEF NewPollingService
  <2> HIDE DEF more
  <2>2. ASSUME NEW p \in Points \ carried'
        PROVE  Earned(states[p], run[p]) /\ (Counting(states[p]) => rules[p].enabled)
    <3>1. CASE Counting(states[p])
      <4>1. p \notin carried /\ p \notin more
        BY <2>1, <2>2, <3>1, CarryKeeps
      <4> QED BY <2>1, <4>1 DEF CountsInv, CountsAreEarned, Standing
    <3>2. CASE ~Counting(states[p])
      <4>1. GoodState(states[p]) /\ run[p] \in Runs
        BY DEF IInv, GoodTable, TypeOK, Runs
      <4> QED BY <3>2, <4>1, NotCountingIsEarned
    <3> QED BY <3>1, <3>2
  <2> QED BY <2>2 DEF CountsInv, CountsAreEarned, Standing
<1> QED BY <1>1, <1>2

LEMMA CountsReset ==
  ASSUME IInv, CountsInv, FactoryReset
  PROVE  CountsInv'
<1>1. PICK all \in BOOLEAN :
        /\ states' = IF all THEN Cleared(dbStates, Points) ELSE states
        /\ rules' = IF all THEN dbRules' ELSE rules
  <2>1. \A wiped : (wiped = {"rules", "states", "events", "history"}) \in BOOLEAN
    OBVIOUS
  <2> QED BY <2>1 DEF FactoryReset
<1>2. IInv' /\ up /\ UNCHANGED <<up, run, gap>> /\ Carry({}, states')
  BY FactoryResetInv DEF FactoryReset
<1>3. ASSUME NEW q \in Points, Counting(states'[q])
      PROVE  Counts(states'[q]) = Counts(states[q]) /\ (rules[q].enabled => rules'[q].enabled)
  <2>1. ~all
    BY <1>1, <1>3, NothingCounts DEF Cleared
  <2> QED BY <1>1, <2>1
<1> QED BY <1>2, <1>3, CountsElsewhere

LEMMA CountsDown ==
  ASSUME IInv, CountsInv, Crash \/ Shutdown
  PROVE  CountsInv'
<1>1. PICK rows, kept :
        /\ Down(rows, kept)
        /\ \A p \in kept : /\ p \in Points \ carried /\ ~gap
                           /\ Counts(rows[p]) = Counts(states[p]) /\ UNCHANGED run
  <2>1. CASE Crash
    BY <2>1 DEF Crash
  <2>2. CASE Shutdown
    BY <2>2 DEF Shutdown
  <2> QED BY <2>1, <2>2
<1>2. up /\ ~up' /\ dbStates' = rows
      /\ carried' = {p \in Points : Counting(rows[p]) /\ p \notin kept}
  BY <1>1 DEF Down, Crash, Shutdown, Command
<1>3. IInv'
  BY StopInv
<1>4. SUFFICES ASSUME NEW p \in Points \ carried' PROVE Earned(dbStates'[p], run'[p])
  BY <1>2 DEF CountsInv, CountsAreEarned, Standing
<1>5. CASE Counting(rows[p])
  <2>1. p \in kept
    BY <1>2, <1>4, <1>5
  <2>2. Earned(states[p], run[p]) /\ UNCHANGED run
    BY <1>1, <1>2, <2>1 DEF CountsInv, CountsAreEarned, Standing
  <2>3. /\ rows[p].phase = states[p].phase /\ rows[p].dir = states[p].dir
        /\ rows[p].trig = states[p].trig /\ rows[p].rec = states[p].rec
    BY <1>1, <2>1 DEF Counts
  <2> QED BY <1>2, <2>2, <2>3 DEF Earned
<1>6. CASE ~Counting(rows[p])
  <2>1. GoodState(dbStates'[p]) /\ run'[p] \in Runs
    BY <1>3 DEF IInv, GoodTable, TypeOK, Runs
  <2> QED BY <1>2, <1>6, <2>1, NotCountingIsEarned
<1> QED BY <1>5, <1>6

LEMMA CountsRestart ==
  ASSUME IInv, CountsInv, Restart
  PROVE  CountsInv'
<1>1. PICK D \in SUBSET Points, C \in SUBSET Points :
        /\ dbStates' = Cleared(dbStates, C)
        /\ dbRules' = Erased(dbRules, D)
        /\ {p \in D : dbStates[p].phase # "none"} \subseteq C
        /\ up' => /\ C = Stale(dbRules, dbStates, topology)
                  /\ rules' = dbRules' /\ states' = dbStates'
  BY DEF Restart, Complete, Partial
<1>2. ~up /\ UNCHANGED <<gap, run>> /\ Carry({}, dbStates') /\ IInv'
  BY RestartInv DEF Restart
<1>3. ASSUME NEW p \in Points \ carried', ~gap PROVE Earned(dbStates'[p], run'[p])
  <2>1. CASE Counting(dbStates'[p])
    <3>1. p \notin carried
      BY <1>2, <1>3, <2>1, CarryKeeps
    <3>2. dbStates'[p] = dbStates[p]
      BY <1>1, <2>1, NothingCounts DEF Cleared
    <3> QED BY <1>2, <1>3, <3>1, <3>2 DEF CountsInv, CountsAreEarned, Standing
  <2>2. CASE ~Counting(dbStates'[p])
    <3>1. GoodState(dbStates'[p]) /\ run'[p] \in Runs
      BY <1>2 DEF IInv, GoodTable, TypeOK, Runs
    <3> QED BY <2>2, <3>1, NotCountingIsEarned
  <2> QED BY <2>1, <2>2
<1>4. ASSUME up', NEW p \in Points, Counting(states'[p]) PROVE rules'[p].enabled
  <2>1. p \notin C /\ states'[p] = dbStates[p]
    BY <1>1, <1>4, NothingCounts DEF Cleared
  <2>2. dbStates[p].phase # "none"
    <3>1. GoodState(dbStates[p])
      BY DEF IInv, GoodTable
    <3> QED BY <1>4, <2>1, <3>1, NothingCounts DEF GoodState, ValidState
  <2>3. dbRules[p].enabled /\ p \notin D
    BY <1>1, <1>4, <2>1, <2>2 DEF Stale
  <2> QED BY <1>1, <1>4, <2>3 DEF Erased
<1> QED BY <1>1, <1>2, <1>3, <1>4 DEF CountsInv, CountsAreEarned, Standing

LEMMA CountsStep ==
  ASSUME IInv, CountsInv, RulesAreWatched, [Next]_vars
  PROVE  CountsInv'
<1>1. CASE LoseBatch
  BY <1>1 DEF LoseBatch, memory, CountsInv, CountsAreEarned
<1>2. CASE Acknowledge
  <2>1. PICK p \in contexts :
       LET acked == [states[p] EXCEPT !.acked = TRUE,
                                      !.upd = Later(states[p].upd, clock)]
       IN states' = [states EXCEPT ![p] = acked]
    BY <1>2 DEF Acknowledge
  <2> DEFINE u == Later(states[p].upd, clock)
             acked == [states[p] EXCEPT !.acked = TRUE, !.upd = u]
  <2>2. p \in Points /\ states[p] \in AlarmStates
    BY DEF IInv, TypeOK, StateTables
  <2>3. Counts(acked) = Counts(states[p]) /\ states' = [states EXCEPT ![p] = acked]
    BY <2>1, <2>2 DEF Counts, AlarmStates
  <2> HIDE DEF acked
  <2>4. \A q \in Points : Counts(states'[q]) = Counts(states[q])
    BY <2>2, <2>3 DEF IInv, TypeOK, StateTables
  <2>5. up /\ UNCHANGED <<up, rules, run, gap, carried>>
    BY <1>2 DEF Acknowledge, Command
  <2> QED BY <2>4, <2>5 DEF Counts, Counting, Earned, CountsInv, CountsAreEarned, Standing
<1>3. CASE RestartPolling \/ AbandonEdit \/ ImportRefused \/ ImportAbandon
  BY <1>3, CountsIdle
  DEF RestartPolling, AbandonEdit, ImportRefused, ImportAbandon, Command, memory
<1>4. CASE EditTopology \/ ImportBegin \/ ImportCommit \/ ImportUndo \/ ImportEnd
  BY <1>4, CountsIdle
  DEF EditTopology, ImportBegin, ImportCommit, ImportUndo, ImportEnd, Command, memory
<1>5. CASE AdvanceClock \/ SlipClock \/ UNCHANGED vars
  BY <1>5
  DEF AdvanceClock, SlipClock, vars, memory, store, CountsInv, CountsAreEarned, Standing
<1> QED
  BY <1>1, <1>2, <1>3, <1>4, <1>5, CountsBatch, CountsUpsert, CountsDelete, CountsReload,
     CountsReset, CountsDown, CountsRestart
  DEF Next

LEMMA CountsHold == Spec => [](IInv /\ RulesAreWatched /\ CountsInv)
<1>1. IInv /\ Init => CountsInv
  BY NothingCounts, NoAlarmIsEarned
  DEF Init, IInv, TypeOK, CountsInv, CountsAreEarned, Standing, Runs
<1>2. IInv /\ RulesAreWatched /\ CountsInv /\ [Next]_vars => CountsInv'
  BY CountsStep
<1> QED BY <1>1, <1>2, InitInv, Inductive, RulesStayWatched, PTL DEF Spec

(* The counts the evaluator acts on never exceed the unbroken run of       *)
(* rounds that earned them, whatever batches are lost and however the rules*)
(* and the configuration change (persistence_alarm_gap_, evaluate_batch).  *)
THEOREM CountsStayEarned == Spec => []CountsAreEarned
BY CountsHold, PTL DEF CountsInv

(* An alarm is raised, and a batch ends one, only by as many unbroken      *)
(* rounds as the rule demands: no command, reload, import, reset or restart*)
(* raises one (evaluate_point, evaluate_batch).                            *)
THEOREM ChangesStayEarned == Spec => ChangesAreEarned
<1> DEFINE A == \A p \in Points : (up /\ up' => RaisedBy(p)) /\ (EvaluateBatch => EndedBy(p))
<1>1. ASSUME IInv, RulesAreWatched, CountsInv, [Next]_vars PROVE A
  <2>1. SUFFICES ASSUME NEW p \in Points
                 PROVE  (up /\ up' => RaisedBy(p)) /\ (EvaluateBatch => EndedBy(p))
    OBVIOUS
  <2>2. CASE EvaluateBatch
    <3>1. up
      BY <2>2 DEF EvaluateBatch
    <3>2. p \notin carried => Gains(states[p], states'[p], rules[p], run'[p])
      BY <1>1, <2>2, <3>1, EarnedWhenCounted
    <3> QED BY <3>2 DEF Gains, RaisedBy, EndedBy
  <2>3. CASE ~EvaluateBatch
    <3>1. SUFFICES ASSUME up, up', states'[p].phase = "active" PROVE states[p].phase = "active"
      BY <2>3 DEF RaisedBy
    <3>2. CASE UNCHANGED states
      BY <3>1, <3>2
    <3>3. ASSUME NEW st, NEW C, states' = Cleared(st, C), st = states \/ C = Points
          PROVE  states[p].phase = "active"
      BY <3>1, <3>3, NoAlarmIsQuiet DEF Cleared
    <3>4. CASE Acknowledge
      <4>1. PICK q, a :
              states[q].phase = "active" /\ states' = [states EXCEPT ![q] = a]
        BY <3>4 DEF Acknowledge
      <4> QED BY <1>1, <3>1, <4>1 DEF IInv, TypeOK, StateTables
    <3>5. CASE UpsertRule
      <4>1. \/ \E C : states' = Cleared(states, C)
            \/ \E q, a : states[q].phase = "active" /\ states' = [states EXCEPT ![q] = a]
        BY <3>5 DEF UpsertRule
      <4> QED BY <1>1, <3>1, <3>3, <4>1 DEF IInv, TypeOK, StateTables
    <3>6. CASE DeleteRule \/ FinishEdit \/ ResetBegin \/ ImportReload
      <4>1. \E C : states' = Cleared(states, C)
        BY <3>6 DEF DeleteRule, FinishEdit, ResetBegin, ImportReload, Reload, Synchronize
      <4> QED BY <3>3, <4>1
    <3>7. CASE FactoryReset
      <4>1. UNCHANGED states \/ states' = Cleared(dbStates, Points)
        BY <3>7 DEF FactoryReset
      <4> QED BY <3>2, <3>3, <4>1
    <3>8. CASE Crash \/ Shutdown \/ Restart
      BY <3>1, <3>8 DEF Crash, Shutdown, Down, Restart
    <3> QED
      BY <1>1, <2>3, <3>2, <3>4, <3>5, <3>6, <3>7, <3>8
      DEF Next, LoseBatch, RestartPolling, EditTopology, AbandonEdit, ImportBegin, ImportRefused,
          ImportCommit, ImportAbandon, ImportUndo, ImportEnd, AdvanceClock, SlipClock, memory, vars
  <2> QED BY <2>2, <2>3
<1> HIDE DEF A
<1>2. IInv /\ RulesAreWatched /\ CountsInv /\ [Next]_vars => [A]_vars
  BY <1>1
<1>3. Spec => [][A]_vars
  BY <1>2, CountsHold, PTL DEF Spec
<1> QED BY <1>3 DEF A, ChangesAreEarned

-----------------------------------------------------------------------------
(* AlarmsKeepTheirIdentity.  While only the evaluator writes the tables, a *)
(* row follows the state in memory.                                        *)
LEMMA KeptFields ==
  ASSUME NEW s, NEW t, Kept(s) = Kept(t)
  PROVE  s.phase = t.phase /\ s.since = t.since /\ s.acked = t.acked
BY DEF Kept

(* What evaluate_batch does to a row is what it does to the state.         *)
LEMMA RowsOfBatch ==
  ASSUME IInv, DurableInv, bypassed = "no", EvaluateBatch
  PROVE  \E m \in Masters : \E r \in [m -> Readings] : \A p \in Points :
           /\ Kept(dbStates'[p]) = Kept(Sampled(m, r, p).state)
           /\ journal'[p] = IF Sampled(m, r, p).event # "none" /\ ~Muted
                            THEN Sampled(m, r, p).event ELSE journal[p]
<1>1. PICK m \in Masters : \E r \in [m -> Readings] : \E due \in SUBSET m :
        LET written == {p \in Points :
              \/ Durable(m, r, p)
              \/ p \in due /\ r[p] # "bad" /\ Watched(p)
                 /\ Sampled(m, r, p).state.phase = "active"}
            told == {p \in Points : Sampled(m, r, p).event # "none"}
        IN /\ states' = [p \in Points |-> Sampled(m, r, p).state]
           /\ dbStates' = [p \in Points |-> IF p \in written THEN states'[p]
                                                             ELSE dbStates[p]]
           /\ journal' = [p \in Points |-> IF p \in told /\ ~Muted
                                            THEN Sampled(m, r, p).event ELSE journal[p]]
  BY DEF EvaluateBatch
<1>2. PICK r \in [m -> Readings], written \in SUBSET Points :
        /\ states' = [p \in Points |-> Sampled(m, r, p).state]
        /\ dbStates' = [p \in Points |-> IF p \in written THEN states'[p] ELSE dbStates[p]]
        /\ journal' = [p \in Points |-> IF Sampled(m, r, p).event # "none" /\ ~Muted
                                        THEN Sampled(m, r, p).event ELSE journal[p]]
        /\ \A p \in Points \ written : ~Durable(m, r, p)
  BY <1>1
<1>3. ASSUME NEW p \in Points PROVE Kept(dbStates'[p]) = Kept(Sampled(m, r, p).state)
  <2>1. CASE p \in written
    BY <1>2, <2>1
  <2>2. CASE p \notin written
    <3>1. Kept(Sampled(m, r, p).state) = Kept(states[p])
      BY <1>2, <2>2, SampledIsDurable
    <3>2. up
      BY DEF EvaluateBatch
    <3> QED BY <1>2, <2>2, <3>1, <3>2 DEF DurableInv, MemoryIsDurable
  <2> QED BY <2>1, <2>2
<1> QED BY <1>2, <1>3

LEMMA RowsInMemory ==
  ASSUME DurableInv, bypassed = "no", up, NEW p \in Points
  PROVE  /\ states[p].phase = dbStates[p].phase /\ states[p].since = dbStates[p].since
         /\ states[p].acked = dbStates[p].acked
BY KeptFields DEF DurableInv, MemoryIsDurable

LEMMA SameBatch ==
  ASSUME IInv, DurableInv, bypassed = "no", EvaluateBatch, NEW p \in Points
  PROVE  SameAlarm(dbStates[p], dbStates'[p])
<1>1. PICK m \in Masters : \E r \in [m -> Readings] :
        Kept(dbStates'[p]) = Kept(Sampled(m, r, p).state)
  BY RowsOfBatch
<1>2. PICK r \in [m -> Readings] : Kept(dbStates'[p]) = Kept(Sampled(m, r, p).state)
  BY <1>1
<1> DEFINE o == Sampled(m, r, p)
<1>3. Tells(states[p], o)
  BY SampledTells
<1> HIDE DEF o
<1>4. /\ dbStates'[p].phase = o.state.phase /\ dbStates'[p].since = o.state.since
      /\ dbStates'[p].acked = o.state.acked
  BY <1>2, KeptFields DEF o
<1>5. /\ states[p].phase = dbStates[p].phase /\ states[p].since = dbStates[p].since
      /\ states[p].acked = dbStates[p].acked
  BY RowsInMemory DEF EvaluateBatch
<1> QED BY <1>3, <1>4, <1>5, NoAlarmIsQuiet DEF Tells, SameAlarm

(* Rewriting the row of an active alarm with its touched or acknowledged   *)
(* state.                                                                  *)
LEMMA SameRewrite ==
  ASSUME IInv, DurableInv, bypassed = "no", up, NEW q \in Points, NEW a,
         a.since = states[q].since, a.acked = states[q].acked \/ a.acked,
         dbStates' = [dbStates EXCEPT ![q] = a], NEW p \in Points
  PROVE  SameAlarm(dbStates[p], dbStates'[p])
<1>1. dbStates'[p] = IF p = q THEN a ELSE dbStates[p]
  BY DEF IInv, TypeOK, StateTables
<1>2. states[q].since = dbStates[q].since /\ states[q].acked = dbStates[q].acked
  BY RowsInMemory
<1> QED BY <1>1, <1>2 DEF SameAlarm

LEMMA SameCommands ==
  ASSUME IInv, DurableInv, bypassed = "no", UpsertRule \/ Acknowledge, NEW p \in Points
  PROVE  SameAlarm(dbStates[p], dbStates'[p])
<1>1. CASE UpsertRule
  <2>1. PICK q \in config :
          \/ \E C : dbStates' = Cleared(dbStates, C)
          \/ dbStates' = [dbStates EXCEPT ![q] = Touched(states[q])]
    BY <1>1 DEF UpsertRule
  <2>2. up /\ q \in Points
    BY <1>1 DEF UpsertRule, Command, IInv, TypeOK
  <2>3. CASE \E C : dbStates' = Cleared(dbStates, C)
    BY <2>3, NoAlarmIsQuiet DEF Cleared, SameAlarm
  <2>4. CASE dbStates' = [dbStates EXCEPT ![q] = Touched(states[q])]
    <3>1. Touched(states[q]).since = states[q].since /\ Touched(states[q]).acked = states[q].acked
      BY <2>2 DEF Touched, IInv, TypeOK, StateTables, AlarmStates
    <3> QED BY <2>2, <2>4, <3>1, SameRewrite
  <2> QED BY <2>1, <2>3, <2>4
<1>2. CASE Acknowledge
  <2>1. PICK q \in contexts :
          dbStates' = [dbStates EXCEPT ![q] = [states[q] EXCEPT !.acked = TRUE,
                                                 !.upd = Later(states[q].upd, clock)]]
    BY <1>2 DEF Acknowledge
  <2> DEFINE u == Later(states[q].upd, clock)
             a == [states[q] EXCEPT !.acked = TRUE, !.upd = u]
  <2>2. up /\ q \in Points
    BY <1>2 DEF Acknowledge, Command, IInv, TypeOK
  <2>3. a.since = states[q].since /\ a.acked
    BY <2>2 DEF IInv, TypeOK, StateTables, AlarmStates
  <2>4. dbStates' = [dbStates EXCEPT ![q] = a]
    BY <2>1
  <2> HIDE DEF a
  <2> QED BY <2>2, <2>3, <2>4, SameRewrite
<1> QED BY <1>1, <1>2

(* The other steps remove rows, save the states in memory, or leave the    *)
(* rows alone; an import that replaced them says so in bypassed.           *)
LEMMA SameElse ==
  ASSUME IInv, DurableInv, bypassed = "no", [Next]_vars,
         ~(EvaluateBatch \/ UpsertRule \/ Acknowledge), NEW p \in Points
  PROVE  SameAlarm(dbStates[p], dbStates'[p])
<1>1. ASSUME NEW C, dbStates' = Cleared(dbStates, C) PROVE SameAlarm(dbStates[p], dbStates'[p])
  BY <1>1, NoAlarmIsQuiet DEF Cleared, SameAlarm
<1>2. CASE UNCHANGED dbStates
  BY <1>2 DEF SameAlarm
<1>3. CASE DeleteRule \/ FinishEdit \/ ResetBegin \/ ImportReload \/ Restart
  <2>1. \E C : dbStates' = Cleared(dbStates, C)
    BY <1>3 DEF DeleteRule, FinishEdit, ResetBegin, ImportReload, Reload, Synchronize, Restart
  <2> QED BY <1>1, <2>1
<1>4. CASE FactoryReset
  <2>1. UNCHANGED dbStates \/ dbStates' = Cleared(dbStates, Points)
    BY <1>4 DEF FactoryReset
  <2> QED BY <1>1, <1>2, <2>1
<1>5. CASE ImportCommit
  <2>1. UNCHANGED dbStates \/ dbStates' = [q \in Points |-> NoAlarm]
    BY <1>5 DEF ImportCommit
  <2> QED BY <1>2, <2>1, NoAlarmIsQuiet DEF SameAlarm
<1>6. CASE ImportAbandon \/ ImportUndo
  <2>1. UNCHANGED dbStates
    BY <1>6 DEF ImportAbandon, ImportUndo, PutBack, store, DurableInv
  <2> QED BY <1>2, <2>1
<1>7. CASE Crash
  BY <1>2, <1>7 DEF Crash, Down
<1>8. CASE Shutdown
  <2>1. dbStates'[p] = states[p] \/ dbStates'[p] = dbStates[p]
    BY <1>8 DEF Shutdown, Down
  <2>2. up
    BY <1>8 DEF Shutdown, Command
  <2> QED BY <2>1, <2>2, RowsInMemory DEF SameAlarm
<1> QED
  BY <1>2, <1>3, <1>4, <1>5, <1>6, <1>7, <1>8
  DEF Next, LoseBatch, RestartPolling, EditTopology, AbandonEdit, ImportBegin, ImportRefused,
      ImportEnd, AdvanceClock, SlipClock, store, vars

(* While an alarm stays active its row keeps the activation time that      *)
(* identifies it and stays acknowledged: no batch, command, reload, restart*)
(* or save_now begins it again behind the operator's back.                 *)
THEOREM AlarmsStayTheSame == Spec => AlarmsKeepTheirIdentity
<1> DEFINE A == bypassed = "no" => \A p \in Points : SameAlarm(dbStates[p], dbStates'[p])
<1>1. IInv /\ DurableInv /\ [Next]_vars => A
  BY SameBatch, SameCommands, SameElse
<1> HIDE DEF A
<1>2. IInv /\ DurableInv /\ [Next]_vars => [A]_vars
  BY <1>1
<1>3. Spec => [][A]_vars
  BY <1>2, DurableHolds, PTL DEF Spec
<1> QED BY <1>3 DEF A, AlarmsKeepTheirIdentity

-----------------------------------------------------------------------------
(* ImplementsLifecycle.  As long as nothing writes the tables past the     *)
(* evaluator no import is ever under way.                                  *)
LifeInv == bypassed = "no" /\ stage \in {"no", "edit", "wipe"}

LEMMA LifeHolds == UndisturbedSpec => []LifeInv
<1>1. Init => LifeInv
  BY DEF Init, LifeInv
<1>2. LifeInv /\ [Next /\ NobodyBypasses]_vars => LifeInv'
  BY DEF LifeInv, NobodyBypasses, Next, EvaluateBatch, LoseBatch, UpsertRule, DeleteRule, Acknowledge,
         RestartPolling, EditTopology, FinishEdit, AbandonEdit, ResetBegin, Reload, FactoryReset,
         ImportBegin, ImportRefused, ImportCommit, ImportReload, ImportAbandon, ImportUndo,
         ImportEnd, Crash, Shutdown, Down, Restart, AdvanceClock, SlipClock, vars
<1> QED BY <1>1, <1>2, PTL DEF UndisturbedSpec

(* What a step does to the alarm of one point, as AlarmLifecycle sees it.  *)
Moves(before, after, old, new) ==
  \/ Phase(before) = "quiet" /\ Phase(after) = "raised" /\ new = "trigger"
  \/ Phase(before) = "raised" /\ Phase(after) = "acknowledged" /\ new = "ack"
  \/ Phase(before) # "quiet" /\ Phase(after) = "quiet" /\ new \in {"recovery", old}
  \/ Phase(before) = Phase(after) /\ new = old

MovesAll == \A p \in Points : Moves(dbStates[p], dbStates'[p], journal[p], journal'[p])

LEMMA MovesAreChanges ==
  ASSUME TypeOK', MovesAll
  PROVE  Lifecycle!Change
<1> DEFINE alarm == [p \in Points |-> Phase(dbStates[p])]
<1>1. \A s : Phase(s) \in {"quiet", "raised", "acknowledged"}
  BY DEF Phase
<1>2. alarm' = [p \in Points |-> Phase(dbStates'[p])]
  OBVIOUS
<1>3. alarm' \in [Points -> {"quiet", "raised", "acknowledged"}]
  BY <1>1, <1>2
<1>4. journal' \in [Points -> {"none", "trigger", "ack", "recovery"}]
  BY DEF TypeOK
<1>5. ASSUME NEW p \in Points
      PROVE  \/ Lifecycle!Raise(p) \/ Lifecycle!Acknowledge(p) \/ Lifecycle!End(p)
             \/ Lifecycle!Vanish(p) \/ Lifecycle!Stay(p)
  <2>1. alarm[p] = Phase(dbStates[p]) /\ alarm'[p] = Phase(dbStates'[p])
    BY <1>2
  <2>2. Moves(dbStates[p], dbStates'[p], journal[p], journal'[p])
    BY DEF MovesAll
  <2> HIDE DEF alarm
  <2>3. \/ alarm[p] = "quiet" /\ alarm'[p] = "raised" /\ journal'[p] = "trigger"
        \/ alarm[p] = "raised" /\ alarm'[p] = "acknowledged" /\ journal'[p] = "ack"
        \/ alarm[p] \in {"raised", "acknowledged"} /\ alarm'[p] = "quiet"
             /\ journal'[p] \in {"recovery", journal[p]}
        \/ alarm[p] = alarm'[p] /\ journal'[p] = journal[p]
    BY <1>1, <2>1, <2>2 DEF Moves
  <2> QED
    BY <2>3 DEF alarm, Lifecycle!Raise, Lifecycle!Acknowledge, Lifecycle!End, Lifecycle!Vanish,
                Lifecycle!Stay, Lifecycle!Reported
<1> QED BY <1>3, <1>4, <1>5 DEF Lifecycle!Change

LEMMA MovesOfBatch ==
  ASSUME IInv, DurableInv, LifeInv, EvaluateBatch
  PROVE  MovesAll
<1>1. SUFFICES ASSUME NEW p \in Points
               PROVE  Moves(dbStates[p], dbStates'[p], journal[p], journal'[p])
  BY DEF MovesAll
<1>2. PICK m \in Masters : \E r \in [m -> Readings] :
        /\ Kept(dbStates'[p]) = Kept(Sampled(m, r, p).state)
        /\ journal'[p] = IF Sampled(m, r, p).event # "none" /\ ~Muted
                         THEN Sampled(m, r, p).event ELSE journal[p]
  BY RowsOfBatch DEF LifeInv
<1>3. PICK r \in [m -> Readings] :
        /\ Kept(dbStates'[p]) = Kept(Sampled(m, r, p).state)
        /\ journal'[p] = IF Sampled(m, r, p).event # "none" /\ ~Muted
                         THEN Sampled(m, r, p).event ELSE journal[p]
  BY <1>2
<1> DEFINE o == Sampled(m, r, p)
<1>4. Tells(states[p], o)
  BY SampledTells
<1>5. journal'[p] = IF o.event # "none" THEN o.event ELSE journal[p]
  BY <1>3 DEF Muted, LifeInv
<1> HIDE DEF o
<1>6. dbStates'[p].phase = o.state.phase /\ dbStates'[p].acked = o.state.acked
  BY <1>3, KeptFields DEF o
<1>7. states[p].phase = dbStates[p].phase /\ states[p].acked = dbStates[p].acked
  BY RowsInMemory DEF EvaluateBatch, LifeInv
<1>8. /\ Phase(dbStates'[p]) = Phase(o.state) /\ Phase(dbStates[p]) = Phase(states[p])
  BY <1>6, <1>7 DEF Phase
<1>9. CASE o.event = "none"
  BY <1>4, <1>5, <1>8, <1>9 DEF Tells, Phase, Moves
<1>10. CASE o.event = "trigger"
  BY <1>4, <1>5, <1>8, <1>10 DEF Tells, Phase, Moves
<1>11. CASE o.event = "recovery"
  BY <1>4, <1>5, <1>8, <1>11, NoAlarmIsQuiet DEF Tells, Phase, Moves
<1> QED BY <1>4, <1>9, <1>10, <1>11 DEF Tells

(* Rows that are cleared along with the states st they stand for.          *)
LEMMA MovesOfClearing ==
  ASSUME NEW ru, NEW st, NEW ctx, NEW C \in SUBSET Points, TellRecovery(ru, st, ctx, C),
         dbStates' = Cleared(dbStates, C),
         \A p \in Points : st[p].phase = dbStates[p].phase
  PROVE  MovesAll
<1>1. SUFFICES ASSUME NEW p \in Points
               PROVE  Moves(dbStates[p], dbStates'[p], journal[p], journal'[p])
  BY DEF MovesAll
<1>2. dbStates'[p] = IF p \in C THEN NoAlarm ELSE dbStates[p]
  BY DEF Cleared
<1>3. CASE p \in C /\ st[p].phase = "active"
  <2>1. journal'[p] \in {"recovery", journal[p]}
    BY <1>3, RecoveryTells
  <2> QED BY <1>2, <1>3, <2>1, NoAlarmIsQuiet DEF Moves, Phase
<1>4. CASE ~(p \in C /\ st[p].phase = "active")
  <2>1. journal'[p] = journal[p]
    BY <1>4, RecoveryTells
  <2> QED BY <1>2, <1>4, <2>1, NoAlarmIsQuiet DEF Moves, Phase
<1> QED BY <1>3, <1>4

LEMMA MovesOfCommands ==
  ASSUME IInv, DurableInv, LifeInv, UpsertRule \/ DeleteRule \/ Acknowledge
  PROVE  MovesAll
<1>1. /\ up /\ states \in StateTables /\ dbStates \in StateTables
      /\ journal \in [Points -> {"none", "trigger", "ack", "recovery"}]
      /\ config \subseteq Points /\ contexts \subseteq Points
  BY DEF UpsertRule, DeleteRule, Acknowledge, Command, IInv, TypeOK
<1>2. \A p \in Points : states[p].phase = dbStates[p].phase /\ states[p].acked = dbStates[p].acked
  BY <1>1, RowsInMemory DEF LifeInv
<1>3. CASE UpsertRule
  <2>1. PICK p \in config, rule \in Rules, done \in BOOLEAN :
       LET s == states[p]
           C == IF done /\ s.phase # "none" /\ Disallows(rule, s) THEN {p} ELSE {}
           touch == done /\ s.phase = "active" /\ ~Disallows(rule, s)
           After(st) == IF touch THEN [st EXCEPT ![p] = Touched(s)] ELSE Cleared(st, C)
       IN /\ dbStates' = After(dbStates)
          /\ TellRecovery(rules', states, contexts', C)
    BY <1>3 DEF UpsertRule
  <2> DEFINE s == states[p]
             C == IF done /\ s.phase # "none" /\ Disallows(rule, s) THEN {p} ELSE {}
             touch == done /\ s.phase = "active" /\ ~Disallows(rule, s)
  <2>2. C \in SUBSET Points /\ (touch => C = {})
    BY <1>1
  <2>3. /\ dbStates' = IF touch THEN [dbStates EXCEPT ![p] = Touched(states[p])]
                       ELSE Cleared(dbStates, C)
        /\ TellRecovery(rules', states, contexts', C)
    BY <2>1
  <2> HIDE DEF C, touch
  <2>4. CASE touch
    <3>1. UNCHANGED journal
      BY <1>1, <2>2, <2>3, <2>4 DEF TellRecovery
    <3>2. Touched(states[p]).phase = states[p].phase /\ Touched(states[p]).acked = states[p].acked
      BY <1>1 DEF Touched, StateTables, AlarmStates
    <3>3. \A q \in Points :
            dbStates'[q].phase = dbStates[q].phase /\ dbStates'[q].acked = dbStates[q].acked
      BY <1>1, <1>2, <2>3, <2>4, <3>2 DEF StateTables
    <3> QED BY <3>1, <3>3 DEF MovesAll, Moves, Phase
  <2>5. CASE ~touch
    BY <1>2, <2>2, <2>3, <2>5, MovesOfClearing
  <2> QED BY <2>4, <2>5
<1>4. CASE DeleteRule
  <2>1. PICK C \in SUBSET Points :
          dbStates' = Cleared(dbStates, C) /\ TellRecovery(rules, states, contexts, C)
    BY <1>4 DEF DeleteRule
  <2> QED BY <1>2, <2>1, MovesOfClearing
<1>5. CASE Acknowledge
  <2>1. PICK p \in contexts :
       LET acked == [states[p] EXCEPT !.acked = TRUE,
                                      !.upd = Later(states[p].upd, clock)]
       IN /\ states[p].phase = "active" /\ ~states[p].acked
          /\ dbStates' = [dbStates EXCEPT ![p] = acked]
          /\ journal' = [journal EXCEPT ![p] = "ack"]
    BY <1>5 DEF Acknowledge
  <2> DEFINE u == Later(states[p].upd, clock)
             a == [states[p] EXCEPT !.acked = TRUE, !.upd = u]
  <2>2. a.phase = "active" /\ a.acked
    BY <1>1, <2>1 DEF StateTables, AlarmStates
  <2>3. dbStates' = [dbStates EXCEPT ![p] = a]
    BY <2>1
  <2> HIDE DEF a
  <2>4. SUFFICES ASSUME NEW q \in Points
                 PROVE  Moves(dbStates[q], dbStates'[q], journal[q], journal'[q])
    BY DEF MovesAll
  <2>5. CASE q = p
    <3>1. dbStates'[q] = a /\ journal'[q] = "ack"
      BY <1>1, <2>1, <2>3, <2>5 DEF StateTables
    <3> QED BY <1>2, <2>1, <2>2, <2>5, <3>1 DEF Moves, Phase
  <2>6. CASE q # p
    BY <1>1, <2>1, <2>3, <2>6 DEF Moves, StateTables
  <2> QED BY <2>5, <2>6
<1> QED BY <1>3, <1>4, <1>5

(* A factory reset that is not half done resets the alarms as well.        *)
LEMMA ResetIsReset ==
  ASSUME bypassed' = "no", IInv', FactoryReset
  PROVE  Lifecycle!Reset
<1>1. PICK wiped \in SUBSET {"rules", "states", "events", "history"} :
        /\ dbStates' = IF "states" \in wiped THEN Cleared(dbStates, Points) ELSE dbStates
        /\ journal' = IF "events" \in wiped THEN [p \in Points |-> "none"] ELSE journal
        /\ wiped = {"rules", "states", "events", "history"}
  BY DEF FactoryReset
<1>2. \A p \in Points : Phase(dbStates'[p]) = "quiet"
  BY <1>1, NoAlarmIsQuiet DEF Cleared, Phase
<1> QED BY <1>1, <1>2 DEF Lifecycle!Reset

LEMMA MovesElse ==
  ASSUME IInv, DurableInv, LifeInv, [Next]_vars,
         ~(EvaluateBatch \/ UpsertRule \/ DeleteRule \/ Acknowledge \/ FactoryReset)
  PROVE  MovesAll
<1>1. CASE UNCHANGED <<dbStates, journal>>
  BY <1>1 DEF MovesAll, Moves
<1>2. CASE FinishEdit \/ ResetBegin
  <2>1. PICK C \in SUBSET Points :
          dbStates' = Cleared(dbStates, C) /\ TellRecovery(rules, states, contexts, C)
    BY <1>2 DEF FinishEdit, ResetBegin, Reload, Synchronize
  <2>2. up
    BY <1>2 DEF FinishEdit, ResetBegin
  <2> QED BY <2>1, <2>2, RowsInMemory, MovesOfClearing DEF LifeInv
<1>3. CASE Restart
  <2>1. PICK C \in SUBSET Points :
          dbStates' = Cleared(dbStates, C) /\ TellRecovery(dbRules, dbStates, topology, C)
    BY <1>3 DEF Restart
  <2> QED BY <2>1, MovesOfClearing
<1>4. CASE Shutdown
  <2>1. UNCHANGED journal /\ \A p \in Points : dbStates'[p] \in {states[p], dbStates[p]}
    BY <1>4 DEF Shutdown, Down
  <2>2. \A p \in Points : Phase(states[p]) = Phase(dbStates[p])
    BY <1>4, RowsInMemory DEF Shutdown, Command, LifeInv, Phase
  <2>3. \A p \in Points : Phase(dbStates'[p]) = Phase(dbStates[p])
    BY <2>1, <2>2
  <2> QED BY <2>1, <2>3 DEF MovesAll, Moves
<1> QED
  BY <1>1, <1>2, <1>3, <1>4
  DEF Next, LoseBatch, RestartPolling, EditTopology, AbandonEdit, ImportBegin, ImportRefused,
      ImportCommit, ImportReload, ImportAbandon, ImportUndo, ImportEnd, Crash, Down, AdvanceClock,
      SlipClock, Command, store, vars, LifeInv

(* The alarm tables implement AlarmLifecycle: an alarm is raised, perhaps  *)
(* acknowledged, and ends, and each change is in the database together     *)
(* with the event that reports it, across crashes, lost batches, half-done *)
(* commands and edits of the configuration; as long as no import and no    *)
(* half-failed reset writes the tables past the evaluator.                 *)
THEOREM TablesImplementLifecycle == UndisturbedSpec => ImplementsLifecycle
<1> DEFINE A == Lifecycle!Change \/ Lifecycle!Reset
           v == <<[p \in Points |-> Phase(dbStates[p])], journal>>
<1>1. Init => Lifecycle!Init
  <2>1. Phase(NoAlarm) = "quiet"
    BY NoAlarmIsQuiet DEF Phase
  <2>2. ASSUME Init PROVE [p \in Points |-> Phase(dbStates[p])] = [p \in Points |-> "quiet"]
    BY <2>1, <2>2 DEF Init
  <2> QED BY <2>2 DEF Init, Lifecycle!Init
<1>2. IInv /\ IInv' /\ DurableInv /\ LifeInv /\ [Next /\ NobodyBypasses]_vars => [A]_v
  <2>1. SUFFICES ASSUME IInv, IInv', DurableInv, LifeInv, [Next /\ NobodyBypasses]_vars PROVE A
    OBVIOUS
  <2>2. CASE FactoryReset
    <3>1. bypassed' = "no"
      BY <2>1 DEF NobodyBypasses, LifeInv, vars
    <3> QED BY <2>1, <2>2, <3>1, ResetIsReset
  <2>3. CASE ~FactoryReset
    <3>1. MovesAll
      BY <2>1, <2>3, MovesOfBatch, MovesOfCommands, MovesElse
    <3> QED BY <2>1, <3>1, MovesAreChanges DEF IInv
  <2> QED BY <2>2, <2>3
<1> HIDE DEF A, v
<1>3. UndisturbedSpec => Spec /\ []LifeInv
  <2>1. [Next /\ NobodyBypasses]_vars => [Next]_vars
    OBVIOUS
  <2> QED BY <2>1, LifeHolds, PTL DEF UndisturbedSpec, Spec
<1>4. UndisturbedSpec => Lifecycle!Init /\ [][A]_v
  BY <1>1, <1>2, <1>3, DurableHolds, PTL DEF UndisturbedSpec
<1>5. UndisturbedSpec => Lifecycle!Spec
  BY <1>4, PTL DEF A, v, Lifecycle!Spec
<1> QED BY <1>5 DEF ImplementsLifecycle
=============================================================================
