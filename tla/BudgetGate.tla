------------------------------ MODULE BudgetGate ------------------------------
(***************************************************************************)
(* What usd_daily_cap promises: callers of one binding pass the gate at    *)
(* the start of ChatEngine::execute_with_usage (src/engine.rs:151) and     *)
(* record their cost when they have succeeded (src/engine.rs:420).         *)
(* Everything between the two is abstracted to "calling"; ChatEngine is    *)
(* shown to implement this specification.                                  *)
(*                                                                         *)
(* Callers run on different threads: the clock is read in one step and the *)
(* ledger's mutex taken in a later one.                                    *)
(***************************************************************************)
EXTENDS DailyLedger, FiniteSets

CONSTANTS
    Callers,        \* the calls that may be in flight at once
    UsdDailyCap,    \* BudgetSpec::usd_daily_cap; 0 is uncapped
    MaxCost         \* the most one call can cost

ASSUME BudgetAssumption ==
    /\ LastDay \in Nat \ {0}
    /\ IsFiniteSet(Callers)
    /\ UsdDailyCap \in Nat
    /\ MaxCost \in Nat

VARIABLES
    phase,          \* where each caller is
    stamp,          \* the date each caller last read from the clock
    cost            \* the cost each caller is about to record

gateVars == <<phase, stamp, cost>>
vars == <<ledgerVars, gateVars>>

Phases == {"idle", "checking", "calling", "recording"}

TypeOK ==
    /\ LedgerTypeOK
    /\ phase \in [Callers -> Phases]
    /\ stamp \in [Callers -> 0..LastDay]
    /\ cost \in [Callers -> 0..MaxCost]

Init ==
    /\ LedgerInit
    /\ phase = [c \in Callers |-> "idle"]
    /\ stamp = [c \in Callers |-> 0]
    /\ cost = [c \in Callers |-> 0]

-----------------------------------------------------------------------------

(* The call arrives; with a cap it reads the clock for current_daily_usd.  *)
Arrive(c) ==
    /\ phase[c] = "idle"
    /\ phase' = [phase EXCEPT ![c] = IF UsdDailyCap > 0 THEN "checking" ELSE "calling"]
    /\ stamp' = [stamp EXCEPT ![c] = today]
    /\ UNCHANGED <<ledgerVars, cost>>

Refuse(c) ==
    /\ phase[c] = "checking"
    /\ CurrentDailyUsd(row, stamp[c]) >= UsdDailyCap
    /\ phase' = [phase EXCEPT ![c] = "idle"]
    /\ UNCHANGED <<ledgerVars, stamp, cost>>

(* Mutants: the gate lets everybody through; it lets a caller through that *)
(* finds the cap reached exactly.                                          *)
AdmitAlways(c) ==
    /\ phase[c] = "checking"
    /\ phase' = [phase EXCEPT ![c] = "calling"]
    /\ UNCHANGED <<ledgerVars, stamp, cost>>
AdmitAtTheCap(c) ==
    /\ phase[c] = "checking"
    /\ CurrentDailyUsd(row, stamp[c]) <= UsdDailyCap
    /\ phase' = [phase EXCEPT ![c] = "calling"]
    /\ UNCHANGED <<ledgerVars, stamp, cost>>

Admit(c) ==
    /\ phase[c] = "checking"
    /\ CurrentDailyUsd(row, stamp[c]) < UsdDailyCap
    /\ phase' = [phase EXCEPT ![c] = "calling"]
    /\ UNCHANGED <<ledgerVars, stamp, cost>>

(* Any error, and a response-cache hit: nothing is recorded.               *)
Leave(c) ==
    /\ phase[c] = "calling"
    /\ phase' = [phase EXCEPT ![c] = "idle"]
    /\ UNCHANGED <<ledgerVars, stamp, cost>>

(* The call has succeeded; record_cost reads the clock.                    *)
Succeed(c) ==
    /\ phase[c] = "calling"
    /\ phase' = [phase EXCEPT ![c] = "recording"]
    /\ stamp' = [stamp EXCEPT ![c] = today]
    /\ \E usd \in 0..MaxCost : cost' = [cost EXCEPT ![c] = usd]
    /\ UNCHANGED ledgerVars

(* record_cost holds the mutex.                                            *)
Record(c) ==
    /\ phase[c] = "recording"
    /\ phase' = [phase EXCEPT ![c] = "idle"]
    /\ cost' = [cost EXCEPT ![c] = 0]
    /\ RecordCost(cost[c], stamp[c])
    /\ UNCHANGED stamp

Step(c) ==
    \/ Arrive(c)
    \/ Refuse(c)
    \/ Admit(c)
    \/ Leave(c)
    \/ Succeed(c)
    \/ Record(c)

Next ==
    \/ \E c \in Callers : Step(c)
    \/ Midnight /\ UNCHANGED gateVars

Spec == Init /\ [][Next]_vars

-----------------------------------------------------------------------------
(* The check and the record are not atomic, so the cap can be overshot.    *)
(* However callers, mutex acquisitions and midnights interleave, the       *)
(* overshoot is bounded: less than one call's cost for each caller that    *)
(* may be in flight (engine.rs:151-169 against engine.rs:420).             *)
OvershootBounded ==
    UsdDailyCap > 0 => row.usd < UsdDailyCap + MaxCost * Cardinality(Callers)

(* Callers that can still add to the row without the gate having shown     *)
(* them its total: those past the gate, and those that hold an old date    *)
(* and so will read 0.                                                     *)
Exposed ==
    {c \in Callers :
        \/ phase[c] \in {"calling", "recording"} /\ stamp[c] <= row.day
        \/ phase[c] = "checking" /\ stamp[c] < row.day}

(* The inductive form of OvershootBounded: every exposed caller still      *)
(* holds back one call's cost of the allowance.                            *)
OvershootReserve ==
    UsdDailyCap > 0 =>
        row.usd + MaxCost * Cardinality(Exposed)
            < UsdDailyCap + MaxCost * Cardinality(Callers)

(* No date a caller holds is in the future, and neither is the row's.      *)
StampsArePast ==
    /\ row.day <= today
    /\ \A c \in Callers : stamp[c] <= today
    /\ \A c \in Callers : phase[c] # "idle" => stamp[c] \in Days

(* Within a day the total only falls when a caller that read the clock     *)
(* before midnight records after another has opened the new day: it        *)
(* restarts the row for its own, earlier, date (budget.rs:86-94).          *)
TotalFallsOnlyByLateStamp ==
    [][ /\ today' = today
        /\ CurrentDailyUsd(row', today) < CurrentDailyUsd(row, today)
        => \E c \in Callers : phase[c] = "recording" /\ stamp[c] < today ]_vars

=============================================================================
