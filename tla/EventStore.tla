----------------------------- MODULE EventStore -----------------------------
(***************************************************************************)
(* The table of service events and what the process remembers of it: for   *)
(* every kind of event (its fingerprint) the row on which repetitions are  *)
(* counted, at most one per window, and how many rows there are.  Events   *)
(* of alarms come with an identity of their own and are kept once.         *)
(*                                                                         *)
(* event_store.cpp; AlarmDelivery has the way of an alarm event to it.     *)
(***************************************************************************)
EXTENDS Integers, FiniteSets, Functions

CONSTANTS
  Kinds,            (* fingerprints                                         *)
  AlarmIds,         (* identities of alarm events                           *)
  EventLimit,       (* kMaxEventRecords                                     *)
  EventsKept,       (* kRetentionMs                                         *)
  EventWindow,      (* kDuplicateEventCountIntervalMs                       *)
  MaxClock,         (* bound: the clock                                     *)
  MaxEventFaults    (* bound: failures, crashes, clocks set back            *)

ASSUME EventAssumption ==
  /\ EventLimit \in Nat \ {0} /\ EventsKept \in Nat /\ EventWindow \in Nat \ {0}
  /\ MaxClock \in Nat /\ MaxEventFaults \in Nat

VARIABLES
  clock,        (* may be set back                                          *)
  events,       (* [rows, known, dirtyCount, recordCount]                   *)
  eventsOpen,
  eventFaults

eventVars == <<clock, events, eventsOpen, eventFaults>>

EventFault == eventFaults < MaxEventFaults /\ eventFaults' = eventFaults + 1
NoEventFault == UNCHANGED eventFaults

Row(k, t) == [kind |-> k, at |-> t, count |-> 1]

Without(s) == [s EXCEPT !.known = [k \in {} |-> 0], !.dirtyCount = 0]

(***************************************************************************)
(* update_event_locked for the kinds of ks, each counted down.             *)
(***************************************************************************)
Written(s, ks) ==
  LET row(k) == [kind |-> k, at |-> s.known[k].at, count |-> s.known[k].count]
      target(i) == {k \in ks : s.known[k].id = i}
  IN [s EXCEPT
        !.rows = [i \in DOMAIN s.rows |->
                    IF target(i) = {} THEN s.rows[i] ELSE row(CHOOSE k \in target(i) : TRUE)],
        !.known = [k \in DOMAIN s.known |->
                    IF k \in ks THEN [s.known[k] EXCEPT !.dirty = FALSE] ELSE s.known[k]],
        !.dirtyCount = IF @ < Cardinality(ks) THEN 0 ELSE @ - Cardinality(ks)]

Dirty(s) == {k \in DOMAIN s.known : s.known[k].dirty}

(* flush_dirty_locked, and the states a failing statement may leave.       *)
Flushed(s) == IF s.dirtyCount = 0 THEN s ELSE Written(s, Dirty(s))

HalfFlushed(s) ==
  IF s.dirtyCount = 0 THEN {}
  ELSE {Written(s, ks) : ks \in (SUBSET Dirty(s)) \ {Dirty(s)}}

(***************************************************************************)
(* cleanup_locked: the expired rows, and the oldest beyond the limit; then *)
(* the kinds whose rows are gone are forgotten, all of them when the table *)
(* cannot be read.                                                         *)
(***************************************************************************)
Overflowing(rows, gone) ==
  LET left == DOMAIN rows \ gone IN
  {over \in SUBSET left :
     /\ Cardinality(left \ over) = IF Cardinality(left) > EventLimit THEN EventLimit
                                   ELSE Cardinality(left)
     /\ \A i \in over, j \in left \ over : rows[i].at <= rows[j].at}

Expired(rows) == {i \in DOMAIN rows : rows[i].at + EventsKept < clock}

(* Mutation: the windows survive their rows.                               *)
RememberedAll(s) == {s.known}

Remembered(s) ==
  {Restrict(s.known, {k \in DOMAIN s.known : s.known[k].id \in DOMAIN s.rows})}

CleanedOf(s, gone) ==
  LET left == [s EXCEPT !.rows = Restrict(@, DOMAIN @ \ gone),
                        !.recordCount = IF @ <= Cardinality(gone) THEN 0
                                        ELSE @ - Cardinality(gone)]
  IN IF gone = {} \/ DOMAIN s.known = {} THEN {left}
     ELSE {[left EXCEPT !.known = known, !.dirtyCount = 0] : known \in Remembered(left)}

Cleaned(s) ==
  LET expired == Expired(s.rows) IN
  UNION {CleanedOf(s, expired \cup over) : over \in Overflowing(s.rows, expired)}

(* A transaction that fails changes nothing; when only the list of rows    *)
(* left cannot be read, the clean-up has succeeded.                        *)
HalfCleaned(s) == {s} \cup {Without(t) : t \in Cleaned(s)}

(***************************************************************************)
(* append: an event without an identity.                                   *)
(***************************************************************************)
Fresh(s) ==
  CHOOSE i \in 1..(EventLimit + MaxEventFaults + 2) :
    i \notin DOMAIN s.rows \cup {s.known[k].id : k \in DOMAIN s.known}

Inserted(s, i, k, t) ==
  [s EXCEPT !.rows = [j \in DOMAIN @ \cup {i} |-> IF j = i THEN Row(k, t) ELSE @[j]],
            !.recordCount = @ + 1]

Learned(s, k) ==
  LET i == Fresh(s)
      window == [id |-> i, at |-> clock, count |-> 1, counted |-> clock, dirty |-> FALSE]
  IN [Inserted(s, i, k, clock) EXCEPT
        !.known = [j \in DOMAIN @ \cup {k} |-> IF j = k THEN window ELSE @[j]]]

(* The first of its kind: a new row, and beyond the limit a clean-up that  *)
(* follows a flush.                                                        *)
AppendNew(k) ==
  /\ eventsOpen /\ k \notin DOMAIN events.known
  /\ LET s == Learned(events, k) IN
       IF s.recordCount <= EventLimit THEN events' = s /\ NoEventFault
       ELSE \/ events' \in Cleaned(Flushed(s)) /\ NoEventFault
            \/ events' \in HalfFlushed(s) \cup HalfCleaned(Flushed(s)) /\ EventFault
  /\ UNCHANGED <<clock, eventsOpen>>

(* A repetition that meets an unwritten count only writes that count.      *)
AppendRetries(k) ==
  /\ eventsOpen /\ k \in Dirty(events)
  /\ events' = Written(events, {k})
  /\ UNCHANGED <<clock, eventsOpen>> /\ NoEventFault

WindowElapsed(k) == clock >= events.known[k].counted + EventWindow

Repeated(s, k) ==
  [s EXCEPT !.known[k] = [s.known[k] EXCEPT !.at = clock, !.count = @ + 1, !.counted = clock,
                                            !.dirty = TRUE],
            !.dirtyCount = @ + 1]

(* Within the window only the detail in memory is replaced, which is left  *)
(* out; after it the repetition is counted and written.                    *)
AppendCounts(k) ==
  /\ eventsOpen /\ k \in DOMAIN events.known \ Dirty(events) /\ WindowElapsed(k)
  /\ \/ events' = Written(Repeated(events, k), {k}) /\ NoEventFault
     \/ events' = Repeated(events, k) /\ EventFault
  /\ UNCHANGED <<clock, eventsOpen>>

(* An alarm event, raised at t and perhaps stored before.  The clean-up    *)
(* follows without a flush.                                                *)
AppendAlarm(i, t) ==
  /\ eventsOpen /\ i \notin DOMAIN events.rows /\ t <= clock
  /\ LET s == Inserted(events, i, i, t) IN
       \/ events' \in Cleaned(s) /\ NoEventFault
       \/ events' \in HalfCleaned(s) /\ EventFault
  /\ UNCHANGED <<clock, eventsOpen>>

(***************************************************************************)
(* The other operations.                                                   *)
(***************************************************************************)
(* save_now, and the flush every query begins with.                        *)
SaveEvents ==
  /\ eventsOpen
  /\ \/ events' = Flushed(events) /\ NoEventFault
     \/ events' \in HalfFlushed(events) /\ EventFault
  /\ UNCHANGED <<clock, eventsOpen>>

CleanUpEvents ==
  /\ eventsOpen
  /\ \/ events' \in Cleaned(Flushed(events)) /\ NoEventFault
     \/ events' \in HalfFlushed(events) \cup HalfCleaned(Flushed(events)) /\ EventFault
  /\ UNCHANGED <<clock, eventsOpen>>

(* clear_all forgets first, so that rows it cannot delete stay uncounted.  *)
ClearEvents ==
  /\ eventsOpen
  /\ \/ events' = [Without(events) EXCEPT !.rows = [i \in {} |-> 0], !.recordCount = 0]
        /\ NoEventFault
     \/ events' = Without(events) /\ EventFault
  /\ UNCHANGED <<clock, eventsOpen>>

(* handle_time_change: the clock moves first, then the windows are reset.  *)
ClockMoves(t) ==
  /\ t # clock
  /\ clock' = t
  /\ IF t < clock THEN EventFault ELSE NoEventFault
  /\ UNCHANGED <<events, eventsOpen>>

ResetWindows ==
  /\ eventsOpen
  /\ \/ events' = Without(Flushed(events)) /\ NoEventFault
     \/ events' \in HalfFlushed(events) /\ EventFault
  /\ UNCHANGED <<clock, eventsOpen>>

(* initialize: the rows are counted.                                       *)
OpenEvents ==
  /\ ~eventsOpen
  /\ eventsOpen' = TRUE
  /\ events' = [events EXCEPT !.recordCount = Cardinality(DOMAIN events.rows)]
  /\ UNCHANGED clock /\ NoEventFault

(* The process ends, orderly after save_now or not.                        *)
CrashEvents ==
  /\ eventsOpen /\ EventFault
  /\ eventsOpen' = FALSE
  /\ events' = [Without(events) EXCEPT !.recordCount = 0]
  /\ UNCHANGED clock

EventsInit ==
  /\ clock = 0 /\ eventsOpen = FALSE /\ eventFaults = 0
  /\ events = [rows |-> [i \in {} |-> 0], known |-> [k \in {} |-> 0],
               dirtyCount |-> 0, recordCount |-> 0]

EventsNext ==
  \/ \E k \in Kinds : AppendNew(k) \/ AppendRetries(k) \/ AppendCounts(k)
  \/ \E i \in AlarmIds, t \in 0..MaxClock : AppendAlarm(i, t)
  \/ SaveEvents \/ CleanUpEvents \/ ClearEvents \/ ResetWindows
  \/ OpenEvents \/ CrashEvents
  \/ \E t \in 0..MaxClock : ClockMoves(t)

EventsSpec == EventsInit /\ [][EventsNext]_eventVars

(***************************************************************************)
(* Properties.                                                             *)
(***************************************************************************)
(* A repetition is always counted on a row that is there, of its own kind, *)
(* which lacks at most the last count, and the limit is applied to the     *)
(* number of rows there are: whichever statement failed, whatever expired, *)
(* overflowed or was cleared and wherever the clock was set.               *)
CountsFitRows ==
  eventsOpen =>
    /\ events.recordCount = Cardinality(DOMAIN events.rows)
    /\ \A k \in DOMAIN events.known :
         LET w == events.known[k] IN
         /\ w.id \in DOMAIN events.rows /\ events.rows[w.id].kind = k
         /\ events.rows[w.id].count = IF w.dirty THEN w.count - 1 ELSE w.count
=============================================================================
