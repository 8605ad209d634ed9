---------------------------- MODULE HistoryStore ----------------------------
(***************************************************************************)
(* The table of samples of one point and its aggregates per hour and per   *)
(* day (HistoryStore).  A write refreshes the aggregates of its buckets in *)
(* the same transaction; when only that fails the samples are kept and the *)
(* table is marked, to be rebuilt when it is opened the next time.  Time   *)
(* runs in buckets of samples, two to an hour and two hours to a day, and  *)
(* an aggregate is the set of samples it counts: an hour counts the stored *)
(* samples, a day those of the stored hours.  A rebuild passes over a      *)
(* point whose type wants no history at that moment, and clears the mark   *)
(* all the same.                                                           *)
(*                                                                         *)
(* history_store.cpp; SamplePipeline is the caller.                        *)
(***************************************************************************)
EXTENDS Naturals, Functions

CONSTANTS
  MaxTime,                     (* bound: buckets of samples                 *)
  RawKept, HourKept, DayKept,  (* retention of samples, hours and days      *)
  MaxStoreFaults               (* bound: failures and restarts              *)

ASSUME HistoryAssumption ==
  /\ MaxTime \in Nat /\ MaxStoreFaults \in Nat
  /\ RawKept \in Nat /\ HourKept \in Nat /\ DayKept \in Nat
  /\ RawKept + 4 <= DayKept /\ DayKept <= HourKept

VARIABLES
  now,            (* the bucket of the clock                                *)
  raw,            (* period raw_10min: bucket -> sample                     *)
  hours, days,    (* periods hour and day: bucket -> samples counted        *)
  dirty,          (* history_aggregate_state                                *)
  historyDb,      (* the connection: closed, or a stage of opening, or open *)
  storeFaults,
  recorded,       (* the published type of the point wants a history        *)
  passedOver      (* history: samples a rebuild has left uncounted          *)

historyVars == <<now, raw, hours, days, dirty, historyDb, storeFaults, recorded, passedOver>>

tables == <<raw, hours, days, dirty>>

Samples == {0, 1}

(* bucket_start_for_period.                                                *)
HourOf(b) == b \div 2
DayOf(b) == b \div 4

(* cutoff_ms.                                                              *)
Kept(start, range) == start + range >= now

EmptyTable == [b \in {} |-> {}]

StoreFault ==
  /\ storeFaults < MaxStoreFaults
  /\ storeFaults' = storeFaults + 1

NoStoreFault == UNCHANGED storeFaults

(***************************************************************************)
(* Aggregation.                                                            *)
(***************************************************************************)
(* refresh_aggregate_buckets_locked: the buckets of anew are computed from *)
(* all rows of the input period that fall into them; the others stay.      *)
Refreshed(table, anew) ==
  [k \in DOMAIN table \cup DOMAIN anew |-> IF k \in DOMAIN anew THEN anew[k] ELSE table[k]]

(* An hour from the samples of rows that fall into it ...                  *)
Within(rows, k) == {<<b, rows[b]>> : b \in {c \in DOMAIN rows : HourOf(c) = k}}

HoursFrom(rows, table, bs) ==
  Refreshed(table, [k \in {HourOf(b) : b \in bs} |-> Within(rows, k)])

(* ... and a day from its stored hours.                                    *)
Together(byHour, k) == UNION {byHour[h] : h \in {g \in DOMAIN byHour : g \div 2 = k}}

DaysFrom(byHour, table, hs) ==
  Refreshed(table, [k \in {h \div 2 : h \in hs} |-> Together(byHour, k)])

(* rebuild_recent_aggregates_locked: hours and days from the recent        *)
(* samples, then once more the days of the hours, which are kept longer.   *)
Rebuilt ==
  LET recent == {b \in DOMAIN raw : Kept(b, RawKept)}
      hoursNow == HoursFrom(raw, hours, recent)
      recentHours == {h \in DOMAIN hoursNow : Kept(2 * h, DayKept)}
  IN /\ hours' = hoursNow
     /\ days' = DaysFrom(hoursNow, days, {HourOf(b) : b \in recent} \cup recentHours)

(* The aggregates of b's hour and day count b with the value it has.       *)
Counted(table, k, b) == k \in DOMAIN table /\ {s \in table[k] : s[1] = b} = {<<b, raw[b]>>}

CountedTwice(b) == Counted(hours, HourOf(b), b) /\ Counted(days, DayOf(b), b)

(* A write to b's hour counts all samples of the hour.                     *)
MadeUpFor(b) == passedOver' = {c \in passedOver : HourOf(c) # HourOf(b)}

(***************************************************************************)
(* upsert_records.                                                         *)
(***************************************************************************)
Put(b, v) == [c \in DOMAIN raw \cup {b} |-> IF c = b THEN v ELSE raw[c]]

(* SamplePipeline hands over the present bucket or one it still held.      *)
Upserted(b) == historyDb = "open" /\ b \in {now - 1, now} \cap Nat

Upsert(b, v) ==
  /\ Upserted(b)
  /\ raw' = Put(b, v)
  /\ hours' = HoursFrom(raw', hours, {b})
  /\ days' = DaysFrom(hours', days, {HourOf(b)})
  /\ MadeUpFor(b)
  /\ UNCHANGED <<now, dirty, historyDb, recorded>> /\ NoStoreFault

(* Mutation: the samples are kept without a mark.                          *)
UpsertWithoutMark(b, v) ==
  /\ Upserted(b) /\ StoreFault
  /\ raw' = Put(b, v)
  /\ hours' \in {hours, HoursFrom(raw', hours, {b})}
  /\ UNCHANGED <<now, days, dirty, historyDb, recorded, passedOver>>

(* The hour, or only the day, is not refreshed.                            *)
UpsertMarks(b, v) ==
  /\ Upserted(b) /\ StoreFault
  /\ raw' = Put(b, v)
  /\ hours' \in {hours, HoursFrom(raw', hours, {b})}
  /\ dirty' = TRUE
  /\ UNCHANGED <<now, days, historyDb, recorded, passedOver>>

(* The commit fails.  The connection has rolled back, or committed all the *)
(* same, or has to be made anew (recover_failed_transaction_locked).       *)
CommitFails(b, v) ==
  /\ Upserted(b) /\ StoreFault
  /\ \/ UNCHANGED <<tables, passedOver>> /\ historyDb' \in {"open", "closed"}
     \/ /\ raw' = Put(b, v)
        /\ hours' = HoursFrom(raw', hours, {b})
        /\ days' = DaysFrom(hours', days, {HourOf(b)})
        /\ MadeUpFor(b)
        /\ UNCHANGED <<dirty, historyDb>>
  /\ UNCHANGED <<now, recorded>>

(***************************************************************************)
(* open_database_locked, at the start, for the next write after a failure  *)
(* and at once when a connection has to be made anew.                      *)
(***************************************************************************)
Open ==
  /\ historyDb = "closed"
  /\ historyDb' = IF dirty THEN "marking" ELSE "open"
  /\ UNCHANGED <<now, tables, recorded, passedOver>> /\ NoStoreFault

(* rebuild_aggregates_if_needed_locked: a transaction for the mark and one *)
(* for the rebuild.  When either fails the table is opened all the same.   *)
MarkDirty ==
  /\ historyDb = "marking"
  /\ dirty' = TRUE
  /\ historyDb' = "rebuilding"
  /\ UNCHANGED <<now, raw, hours, days, recorded, passedOver>> /\ NoStoreFault

(* history_record_enabled_by_current_template leaves every row of a point  *)
(* out whose type wants no history; the mark is cleared for the whole      *)
(* table.                                                                  *)
Rebuild ==
  /\ historyDb = "rebuilding"
  /\ \/ recorded /\ Rebuilt /\ passedOver' = {}
     \/ /\ ~recorded
        /\ passedOver' = {b \in DOMAIN raw : ~CountedTwice(b)}
        /\ UNCHANGED <<hours, days>>
  /\ dirty' = FALSE /\ historyDb' = "open"
  /\ UNCHANGED <<now, raw, recorded>> /\ NoStoreFault

RebuildFails ==
  /\ historyDb \in {"marking", "rebuilding"} /\ StoreFault
  /\ historyDb' = "open"
  /\ UNCHANGED <<now, tables, recorded, passedOver>>

(***************************************************************************)
(* cleanup_expired and clear_all: one statement or one transaction.        *)
(***************************************************************************)
Cleanup ==
  /\ historyDb = "open"
  /\ raw' = Restrict(raw, {b \in DOMAIN raw : Kept(b, RawKept)})
  /\ hours' = Restrict(hours, {h \in DOMAIN hours : Kept(2 * h, HourKept)})
  /\ days' = Restrict(days, {d \in DOMAIN days : Kept(4 * d, DayKept)})
  /\ UNCHANGED <<now, dirty, historyDb, recorded, passedOver>> /\ NoStoreFault

ClearAll ==
  /\ historyDb = "open"
  /\ raw' = EmptyTable /\ hours' = EmptyTable /\ days' = EmptyTable
  /\ UNCHANGED <<now, dirty, historyDb, recorded, passedOver>> /\ NoStoreFault

(* The process ends between two transactions; a transaction under way is   *)
(* rolled back.                                                            *)
CrashStore ==
  /\ historyDb # "closed" /\ StoreFault
  /\ historyDb' = "closed"
  /\ UNCHANGED <<now, tables, recorded, passedOver>>

TimePasses ==
  /\ now < MaxTime
  /\ now' = now + 1
  /\ UNCHANGED <<tables, historyDb, recorded, passedOver>> /\ NoStoreFault

(* The type is edited and published: the field of the point loses its      *)
(* history, or gets it back.                                               *)
EditType ==
  /\ recorded' = ~recorded
  /\ UNCHANGED <<now, tables, historyDb, passedOver>> /\ NoStoreFault

(* A new table has no row in history_aggregate_state, which counts as      *)
(* marked.                                                                 *)
HistoryInit ==
  /\ now = 0
  /\ raw = EmptyTable /\ hours = EmptyTable /\ days = EmptyTable
  /\ dirty = TRUE /\ historyDb = "closed" /\ storeFaults = 0
  /\ recorded = TRUE /\ passedOver = {}

HistoryNext ==
  \/ \E b \in 0..MaxTime, v \in Samples : Upsert(b, v) \/ UpsertMarks(b, v) \/ CommitFails(b, v)
  \/ Open \/ MarkDirty \/ Rebuild \/ RebuildFails
  \/ Cleanup \/ ClearAll \/ CrashStore \/ TimePasses \/ EditType

HistorySpec == HistoryInit /\ [][HistoryNext]_historyVars

(***************************************************************************)
(* Properties.                                                             *)
(***************************************************************************)
(* While the table is not marked, the aggregates of the hour and the day   *)
(* count every sample that is still to be kept, with the value it has now, *)
(* whatever failed, whenever the process ended and whatever was removed;   *)
(* but for those a rebuild passed over because their point had no history  *)
(* at that time, until their hour is written again.                        *)
AggregatesAreCurrent ==
  ~dirty /\ historyDb = "open" =>
    \A b \in DOMAIN raw \ passedOver : Kept(b, RawKept) => CountedTwice(b)
=============================================================================
