------------------------------ MODULE DailyLedger ------------------------------
(***************************************************************************)
(* The per-binding daily USD ledger of src/budget.rs, for one binding.     *)
(*                                                                         *)
(* LEDGER is a process-wide Mutex<HashMap<String, DailyEntry>>.  Rows of   *)
(* different bindings never meet, so one row is modelled.  Both entry      *)
(* points read the clock first (Utc::now(), in current_daily_usd and       *)
(* record_cost) and take the mutex afterwards: the day they work with is   *)
(* an argument here, captured by the caller in an earlier step.            *)
(***************************************************************************)
EXTENDS Integers

CONSTANT LastDay    \* bound: the calendar stops at this day

VARIABLES
    today,          \* the UTC date
    row,            \* the binding's DailyEntry
    billed          \* history: what was ever recorded for each day

ledgerVars == <<today, row, billed>>

Days == 1..LastDay

(* A binding absent from the map reads as 0 and is inserted with the day   *)
(* of the first write: the same as a row of a day that never comes.        *)
AbsentRow == [day |-> 0, usd |-> 0]

(* current_daily_usd_at: a row of another day counts for nothing.          *)
CurrentDailyUsd(r, day) == IF r.day = day THEN r.usd ELSE 0

(* Mutants: the old day's total is carried over; the last cost replaces    *)
(* the total; the cost is taken off.                                       *)
RecordedWithoutReset(r, cost, day) ==
    IF cost <= 0 THEN r ELSE [day |-> day, usd |-> r.usd + cost]
RecordedOver(r, cost, day) ==
    IF cost <= 0 THEN r ELSE [day |-> day, usd |-> cost]
RecordedNegative(r, cost, day) ==
    IF cost <= 0 THEN r
    ELSE [day |-> day, usd |-> CurrentDailyUsd(r, day) - cost]

(* record_cost_at: a cost that is not positive is ignored; the running     *)
(* total restarts when the row is of another day, earlier or later.        *)
Recorded(r, cost, day) ==
    IF cost <= 0 THEN r
    ELSE [day |-> day, usd |-> CurrentDailyUsd(r, day) + cost]

LedgerTypeOK ==
    /\ today \in Days
    /\ row \in [day : 0..LastDay, usd : Nat]
    /\ billed \in [Days -> Nat]

LedgerInit ==
    /\ today = 1
    /\ row = AbsentRow
    /\ billed = [d \in Days |-> 0]

(* The critical section of record_cost_at, for a day read from the clock   *)
(* beforehand.                                                             *)
RecordCost(cost, day) ==
    /\ row' = Recorded(row, cost, day)
    /\ billed' = [billed EXCEPT ![day] = @ + cost]
    /\ UNCHANGED today

(* UTC midnight, at any moment.                                            *)
Midnight ==
    /\ today < LastDay
    /\ today' = today + 1
    /\ UNCHANGED <<row, billed>>

-----------------------------------------------------------------------------
(* The row never claims more for its day than was recorded for that day:   *)
(* no cost is counted twice or carried over midnight (record_cost_at).     *)
NeverOvercounts == row.day \in Days => row.usd <= billed[row.day]

=============================================================================
