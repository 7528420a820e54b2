--------------------------- MODULE BudgetGateProofs ---------------------------
(***************************************************************************)
(* The daily budget for any number of callers, any cap and any cost: the   *)
(* ledger never counts a cost twice, and the cap is overshot by less than  *)
(* one call per caller.                                                    *)
(***************************************************************************)
EXTENDS BudgetGate, FiniteSetTheorems, TLAPS

(* Everything OvershootReserve needs to be preserved by a step.            *)
IInv == TypeOK /\ StampsArePast /\ OvershootReserve

-----------------------------------------------------------------------------
(* Types *)

LEMMA InitType == Init => TypeOK
BY BudgetAssumption
   DEF Init, TypeOK, LedgerInit, LedgerTypeOK, AbsentRow, Days, Phases

(* The row that record_cost_at leaves is of the day it was called with, or *)
(* it is the row it found.                                                 *)
LEMMA RecordedType ==
    ASSUME LedgerTypeOK, NEW usd \in Nat, NEW day \in 0..LastDay
    PROVE  /\ Recorded(row, usd, day) \in [day : 0..LastDay, usd : Nat]
           /\ Recorded(row, usd, day).day \in {row.day, day}
BY BudgetAssumption DEF LedgerTypeOK, Recorded, CurrentDailyUsd

(* Each step keeps the types: StampsArePast is what makes the day a caller *)
(* records under a day of the calendar.                                    *)
LEMMA NextType == TypeOK /\ StampsArePast /\ [Next]_vars => TypeOK'
<1> SUFFICES ASSUME TypeOK, StampsArePast, [Next]_vars PROVE TypeOK'
  OBVIOUS
<1> USE BudgetAssumption DEF TypeOK, LedgerTypeOK, Phases, Days
<1>1. ASSUME NEW c \in Callers, Arrive(c) PROVE TypeOK'
  <2>1. today \in 0..LastDay
    OBVIOUS
  <2> QED
    BY <1>1, <2>1 DEF Arrive, ledgerVars
<1>2. ASSUME NEW c \in Callers, Refuse(c) PROVE TypeOK'
  BY <1>2 DEF Refuse, ledgerVars
<1>3. ASSUME NEW c \in Callers, Admit(c) PROVE TypeOK'
  BY <1>3 DEF Admit, ledgerVars
<1>4. ASSUME NEW c \in Callers, Leave(c) PROVE TypeOK'
  BY <1>4 DEF Leave, ledgerVars
<1>5. ASSUME NEW c \in Callers, Succeed(c) PROVE TypeOK'
  <2>1. today \in 0..LastDay
    OBVIOUS
  <2> QED
    BY <1>5, <2>1 DEF Succeed, ledgerVars
<1>6. ASSUME NEW c \in Callers, Record(c) PROVE TypeOK'
  <2>1. cost[c] \in Nat /\ stamp[c] \in Days
    BY <1>6 DEF Record, StampsArePast
  <2>2. row' \in [day : 0..LastDay, usd : Nat]
    BY <1>6, <2>1, RecordedType DEF Record, RecordCost
  <2>3. billed' \in [Days -> Nat]
    BY <1>6, <2>1 DEF Record, RecordCost
  <2>4. cost' \in [Callers -> 0..MaxCost]
    BY <1>6 DEF Record
  <2> QED
    BY <1>6, <2>2, <2>3, <2>4 DEF Record, RecordCost
<1>7. ASSUME Midnight, UNCHANGED gateVars PROVE TypeOK'
  BY <1>7 DEF Midnight, gateVars
<1>8. CASE UNCHANGED vars
  BY <1>8 DEF vars, ledgerVars, gateVars
<1> QED
  BY <1>1, <1>2, <1>3, <1>4, <1>5, <1>6, <1>7, <1>8 DEF Next, Step

-----------------------------------------------------------------------------
(* Dates *)

LEMMA InitStamps == Init => StampsArePast
BY BudgetAssumption DEF Init, LedgerInit, AbsentRow, StampsArePast

LEMMA NextStamps == TypeOK /\ StampsArePast /\ [Next]_vars => StampsArePast'
<1> SUFFICES ASSUME TypeOK, StampsArePast, [Next]_vars PROVE StampsArePast'
  OBVIOUS
<1> USE BudgetAssumption DEF TypeOK, LedgerTypeOK, StampsArePast, Days
<1>1. ASSUME NEW c \in Callers, Arrive(c) PROVE StampsArePast'
  BY <1>1 DEF Arrive, ledgerVars
<1>2. ASSUME NEW c \in Callers, Refuse(c) PROVE StampsArePast'
  BY <1>2 DEF Refuse, ledgerVars
<1>3. ASSUME NEW c \in Callers, Admit(c) PROVE StampsArePast'
  BY <1>3 DEF Admit, ledgerVars
<1>4. ASSUME NEW c \in Callers, Leave(c) PROVE StampsArePast'
  BY <1>4 DEF Leave, ledgerVars
<1>5. ASSUME NEW c \in Callers, Succeed(c) PROVE StampsArePast'
  BY <1>5 DEF Succeed, ledgerVars
<1>6. ASSUME NEW c \in Callers, Record(c) PROVE StampsArePast'
  <2>1. cost[c] \in Nat /\ stamp[c] \in 0..LastDay
    OBVIOUS
  <2>2. row'.day \in {row.day, stamp[c]}
    BY <1>6, <2>1, RecordedType DEF Record, RecordCost
  <2>3. row'.day <= today'
    BY <1>6, <2>2 DEF Record, RecordCost
  <2>4. \A d \in Callers : phase'[d] # "idle" => phase[d] # "idle"
    BY <1>6 DEF Record
  <2> QED
    BY <1>6, <2>3, <2>4 DEF Record, RecordCost
<1>7. ASSUME Midnight, UNCHANGED gateVars PROVE StampsArePast'
  BY <1>7 DEF Midnight, gateVars
<1>8. CASE UNCHANGED vars
  BY <1>8 DEF vars, ledgerVars, gateVars
<1> QED
  BY <1>1, <1>2, <1>3, <1>4, <1>5, <1>6, <1>7, <1>8 DEF Next, Step

(* The two facts the rest builds on, for every reachable state.            *)
THEOREM TypesAndDates == Spec => [](TypeOK /\ StampsArePast)
<1>1. Init => TypeOK /\ StampsArePast
  BY InitType, InitStamps
<1>2. TypeOK /\ StampsArePast /\ [Next]_vars => (TypeOK /\ StampsArePast)'
  BY NextType, NextStamps
<1> QED
  BY <1>1, <1>2, PTL DEF Spec

(* Type correctness of the ledger and the gate (budget.rs).                *)
THEOREM TypeCorrect == Spec => []TypeOK
BY TypesAndDates, PTL

(* No caller holds a date of the future (budget.rs: Utc::now() before the  *)
(* lock), for any number of callers and any calendar.                      *)
THEOREM StampsCorrect == Spec => []StampsArePast
BY TypesAndDates, PTL

-----------------------------------------------------------------------------
(* No cost is counted twice *)

LEMMA RecordCostNeverOvercounts ==
    ASSUME LedgerTypeOK, NeverOvercounts,
           NEW usd \in Nat, NEW day \in Days, RecordCost(usd, day)
    PROVE  NeverOvercounts'
<1> USE BudgetAssumption DEF LedgerTypeOK, NeverOvercounts, Days
<1>1. \A d \in Days : billed'[d] = IF d = day THEN billed[d] + usd ELSE billed[d]
  BY DEF RecordCost
<1>2. CASE usd = 0
  BY <1>1, <1>2 DEF RecordCost, Recorded
<1>3. CASE usd > 0
  <2>1. row' = [day |-> day, usd |-> CurrentDailyUsd(row, day) + usd]
    BY <1>3 DEF RecordCost, Recorded
  <2>2. CurrentDailyUsd(row, day) <= billed[day]
    BY DEF CurrentDailyUsd
  <2> QED
    BY <1>1, <2>1, <2>2 DEF CurrentDailyUsd
<1> QED
  BY <1>2, <1>3

(* However calls and midnights interleave, the running total of a day is   *)
(* at most what was recorded for that day (record_cost_at).                *)
THEOREM LedgerNeverOvercounts == Spec => []NeverOvercounts
<1>1. Init => NeverOvercounts
  BY DEF Init, LedgerInit, AbsentRow, NeverOvercounts, Days
<1>2. TypeOK /\ StampsArePast /\ NeverOvercounts /\ [Next]_vars => NeverOvercounts'
  <2> SUFFICES ASSUME TypeOK, StampsArePast, NeverOvercounts, [Next]_vars
               PROVE  NeverOvercounts'
    OBVIOUS
  <2>1. ASSUME NEW c \in Callers, Record(c) PROVE NeverOvercounts'
    <3>1. cost[c] \in Nat /\ stamp[c] \in Days /\ LedgerTypeOK
      BY <2>1, BudgetAssumption DEF Record, StampsArePast, TypeOK
    <3> QED
      BY <2>1, <3>1, RecordCostNeverOvercounts DEF Record
  <2>2. ASSUME UNCHANGED <<row, billed>> PROVE NeverOvercounts'
    BY <2>2 DEF NeverOvercounts
  <2> QED
    BY <2>1, <2>2
       DEF Next, Step, Arrive, Refuse, Admit, Leave, Succeed, Midnight,
           vars, ledgerVars
<1> QED
  BY <1>1, <1>2, TypesAndDates, PTL DEF Spec

-----------------------------------------------------------------------------
(* The overshoot is bounded *)

(* What the callers of S can still add: fewer callers, no more of it.      *)
LEMMA AllowanceMonotone ==
    ASSUME NEW m \in Nat, NEW k \in Nat, NEW l \in Nat, k <= l
    PROVE  m * k <= m * l
<1>1. l = k + (l - k) /\ l - k \in Nat
  OBVIOUS
<1>2. m * l = m * k + m * (l - k)
  BY <1>1
<1>3. m * (l - k) \in Nat
  BY <1>1
<1> QED
  BY <1>2, <1>3

(* Facts on the sizes of the sets of callers used below.                   *)
LEMMA ExposedSize ==
    /\ Cardinality(Callers) \in Nat
    /\ IsFiniteSet(Exposed)
    /\ Cardinality(Exposed) \in Nat
    /\ Cardinality(Exposed) <= Cardinality(Callers)
<1>1. Exposed \in SUBSET Callers
  BY DEF Exposed
<1> QED
  BY <1>1, BudgetAssumption, FS_Subset, FS_CardinalityType

(* A step that exposes nobody and adds nothing to the row keeps the        *)
(* reserve.                                                                *)
LEMMA ReserveKept ==
    ASSUME TypeOK, OvershootReserve, row'.usd \in Nat,
           row'.usd <= row.usd, Exposed' \subseteq Exposed
    PROVE  OvershootReserve'
<1>1. /\ Cardinality(Exposed') \in Nat
      /\ Cardinality(Exposed') <= Cardinality(Exposed)
  BY ExposedSize, FS_Subset, FS_CardinalityType
<1>2. MaxCost * Cardinality(Exposed') <= MaxCost * Cardinality(Exposed)
  BY <1>1, ExposedSize, AllowanceMonotone, BudgetAssumption
<1>3. /\ MaxCost * Cardinality(Exposed') \in Nat
      /\ MaxCost * Cardinality(Exposed) \in Nat
      /\ MaxCost * Cardinality(Callers) \in Nat
  BY <1>1, ExposedSize, BudgetAssumption
<1>4. row.usd \in Nat
  BY DEF TypeOK, LedgerTypeOK
<1> QED
  BY <1>2, <1>3, <1>4, BudgetAssumption DEF OvershootReserve

LEMMA InitReserve == Init => OvershootReserve
<1> SUFFICES ASSUME Init PROVE OvershootReserve
  OBVIOUS
<1>1. Exposed = {}
  BY DEF Init, Exposed
<1>2. row.usd = 0 /\ Cardinality(Exposed) = 0
  BY <1>1, FS_EmptySet DEF Init, LedgerInit, AbsentRow
<1>3. MaxCost * Cardinality(Callers) \in Nat
  BY ExposedSize, BudgetAssumption
<1> QED
  BY <1>2, <1>3, BudgetAssumption DEF OvershootReserve

(* The gate sees the row's total: when it admits a caller the row is below *)
(* the cap, whoever else is exposed.                                       *)
LEMMA AdmitReserve ==
    ASSUME TypeOK, StampsArePast, OvershootReserve,
           NEW c \in Callers, Admit(c)
    PROVE  OvershootReserve'
<1> USE BudgetAssumption DEF TypeOK, LedgerTypeOK
<1>1. CASE stamp[c] = row.day
  <2>1. row' = row /\ row.usd < UsdDailyCap
    BY <1>1 DEF Admit, ledgerVars, CurrentDailyUsd
  <2>2. /\ Cardinality(Exposed') \in Nat
        /\ Cardinality(Exposed') <= Cardinality(Callers)
    <3>1. Exposed' \in SUBSET Callers
      BY DEF Exposed
    <3> QED
      BY <3>1, FS_Subset, FS_CardinalityType
  <2>3. MaxCost * Cardinality(Exposed') <= MaxCost * Cardinality(Callers)
    BY <2>2, ExposedSize, AllowanceMonotone
  <2>4. /\ MaxCost * Cardinality(Exposed') \in Nat
        /\ MaxCost * Cardinality(Callers) \in Nat
    BY <2>2, ExposedSize
  <2> QED
    BY <2>1, <2>3, <2>4 DEF OvershootReserve
<1>2. CASE stamp[c] # row.day
  <2>1. Exposed' \subseteq Exposed
    BY <1>2 DEF Admit, ledgerVars, Exposed
  <2> QED
    BY <2>1, ReserveKept DEF Admit, ledgerVars
<1> QED
  BY <1>1, <1>2

(* Recording spends what the caller held back, or opens another day with   *)
(* one call's cost and one caller gone.                                    *)
LEMMA RecordReserve ==
    ASSUME TypeOK, StampsArePast, OvershootReserve,
           NEW c \in Callers, Record(c)
    PROVE  OvershootReserve'
<1> USE BudgetAssumption
<1>1. /\ row.usd \in Nat /\ row.day \in 0..LastDay
      /\ cost[c] \in 0..MaxCost /\ stamp[c] \in 0..LastDay
      /\ phase[c] = "recording"
  BY DEF TypeOK, LedgerTypeOK, Record
<1>2. row' = Recorded(row, cost[c], stamp[c])
  BY DEF Record, RecordCost
<1>3. \A d \in Callers :
        /\ d # c => phase'[d] = phase[d]
        /\ phase'[c] = "idle"
        /\ stamp'[d] = stamp[d]
  BY DEF Record, TypeOK
<1>4. CASE cost[c] = 0
  <2>1. row' = row
    BY <1>1, <1>2, <1>4 DEF Recorded
  <2>2. Exposed' \subseteq Exposed
    BY <1>3, <2>1 DEF Exposed
  <2> QED
    BY <1>1, <2>1, <2>2, ReserveKept
<1>5. CASE cost[c] > 0 /\ stamp[c] = row.day
  <2>1. row'.day = row.day /\ row'.usd = row.usd + cost[c]
    BY <1>1, <1>2, <1>5 DEF Recorded, CurrentDailyUsd
  <2>2. c \in Exposed /\ Exposed' \in SUBSET (Exposed \ {c})
    BY <1>1, <1>3, <1>5, <2>1 DEF Exposed
  <2>3. /\ IsFiniteSet(Exposed \ {c})
        /\ Cardinality(Exposed \ {c}) = Cardinality(Exposed) - 1
    BY <2>2, ExposedSize, FS_RemoveElement
  <2>4. /\ Cardinality(Exposed') \in Nat
        /\ Cardinality(Exposed') <= Cardinality(Exposed) - 1
    BY <2>2, <2>3, FS_Subset, FS_CardinalityType
  <2>5. MaxCost * (Cardinality(Exposed') + 1) <= MaxCost * Cardinality(Exposed)
    <3>1. Cardinality(Exposed') + 1 \in Nat
          /\ Cardinality(Exposed') + 1 <= Cardinality(Exposed)
      BY <2>4, ExposedSize
    <3> QED
      BY <3>1, ExposedSize, AllowanceMonotone
  <2>6. MaxCost * (Cardinality(Exposed') + 1)
          = MaxCost * Cardinality(Exposed') + MaxCost
    BY <2>4
  <2>7. /\ MaxCost * Cardinality(Exposed') \in Nat
        /\ MaxCost * Cardinality(Exposed) \in Nat
        /\ MaxCost * Cardinality(Callers) \in Nat
    BY <2>4, ExposedSize
  <2> QED
    BY <1>1, <2>1, <2>5, <2>6, <2>7 DEF OvershootReserve
<1>6. CASE cost[c] > 0 /\ stamp[c] # row.day
  <2>1. row'.usd = cost[c]
    BY <1>1, <1>2, <1>6 DEF Recorded, CurrentDailyUsd
  <2>2. Exposed' \in SUBSET (Callers \ {c})
    BY <1>3 DEF Exposed
  <2>3. /\ IsFiniteSet(Callers \ {c})
        /\ Cardinality(Callers \ {c}) = Cardinality(Callers) - 1
    BY FS_RemoveElement
  <2>4. /\ Cardinality(Exposed') \in Nat
        /\ Cardinality(Exposed') <= Cardinality(Callers) - 1
    BY <2>2, <2>3, FS_Subset, FS_CardinalityType
  <2>5. MaxCost * (Cardinality(Exposed') + 1) <= MaxCost * Cardinality(Callers)
    <3>1. Cardinality(Exposed') + 1 \in Nat
          /\ Cardinality(Exposed') + 1 <= Cardinality(Callers)
      BY <2>4, ExposedSize
    <3> QED
      BY <3>1, ExposedSize, AllowanceMonotone
  <2>6. MaxCost * (Cardinality(Exposed') + 1)
          = MaxCost * Cardinality(Exposed') + MaxCost
    BY <2>4
  <2>7. /\ MaxCost * Cardinality(Exposed') \in Nat
        /\ MaxCost * Cardinality(Callers) \in Nat
    BY <2>4, ExposedSize
  <2> QED
    BY <1>1, <2>1, <2>5, <2>6, <2>7 DEF OvershootReserve
<1> QED
  BY <1>1, <1>4, <1>5, <1>6

LEMMA NextReserve ==
    TypeOK /\ StampsArePast /\ OvershootReserve /\ [Next]_vars
        => OvershootReserve'
<1> SUFFICES ASSUME TypeOK, StampsArePast, OvershootReserve, [Next]_vars
             PROVE  OvershootReserve'
  OBVIOUS
<1> USE DEF TypeOK, LedgerTypeOK
<1>1. row.usd \in Nat /\ row.usd <= row.usd
  OBVIOUS
<1>2. ASSUME NEW c \in Callers, Arrive(c) PROVE OvershootReserve'
  <2>1. CASE UsdDailyCap > 0
    <3>1. Exposed' \subseteq Exposed
      BY <1>2, <2>1, BudgetAssumption DEF Arrive, ledgerVars, Exposed, StampsArePast, Days
    <3> QED
      BY <1>1, <1>2, <3>1, ReserveKept DEF Arrive, ledgerVars
  <2>2. CASE ~(UsdDailyCap > 0)
    BY <2>2 DEF OvershootReserve
  <2> QED
    BY <2>1, <2>2
<1>3. ASSUME NEW c \in Callers, Refuse(c) \/ Leave(c) PROVE OvershootReserve'
  <2>1. row' = row /\ Exposed' \subseteq Exposed
    BY <1>3 DEF Refuse, Leave, ledgerVars, Exposed
  <2> QED
    BY <1>1, <2>1, ReserveKept
<1>4. ASSUME NEW c \in Callers, Admit(c) PROVE OvershootReserve'
  BY <1>4, AdmitReserve
<1>5. ASSUME NEW c \in Callers, Succeed(c) PROVE OvershootReserve'
  <2>1. row' = row /\ Exposed' \subseteq Exposed
    BY <1>5, BudgetAssumption DEF Succeed, ledgerVars, Exposed, StampsArePast, Days
  <2> QED
    BY <1>1, <2>1, ReserveKept
<1>6. ASSUME NEW c \in Callers, Record(c) PROVE OvershootReserve'
  BY <1>6, RecordReserve
<1>7. ASSUME UNCHANGED <<row, phase, stamp>> PROVE OvershootReserve'
  <2>1. Exposed' = Exposed
    BY <1>7 DEF Exposed
  <2> QED
    BY <1>1, <1>7, <2>1, ReserveKept
<1> QED
  BY <1>2, <1>3, <1>4, <1>5, <1>6, <1>7
     DEF Next, Step, Midnight, vars, ledgerVars, gateVars

(* The reserve is an invariant: the inductive form of the bound.           *)
THEOREM ReserveHolds == Spec => []OvershootReserve
<1>1. Init => IInv
  BY InitType, InitStamps, InitReserve DEF IInv
<1>2. IInv /\ [Next]_vars => IInv'
  BY NextType, NextStamps, NextReserve DEF IInv
<1>3. IInv => OvershootReserve
  BY DEF IInv
<1> QED
  BY <1>1, <1>2, <1>3, PTL DEF Spec

(* For any number of callers, any cap and any cost: a day's total stays    *)
(* below the cap plus one call per caller (engine.rs:151 against 420).     *)
THEOREM Overshoot == Spec => []OvershootBounded
<1>1. TypeOK /\ OvershootReserve => OvershootBounded
  <2> SUFFICES ASSUME TypeOK, OvershootReserve PROVE OvershootBounded
    OBVIOUS
  <2>1. MaxCost * Cardinality(Exposed) \in Nat /\ MaxCost * Cardinality(Callers) \in Nat
    BY ExposedSize, BudgetAssumption
  <2>2. row.usd \in Nat
    BY DEF TypeOK, LedgerTypeOK
  <2> QED
    BY <2>1, <2>2, BudgetAssumption DEF OvershootReserve, OvershootBounded
<1> QED
  BY <1>1, TypeCorrect, ReserveHolds, PTL

-----------------------------------------------------------------------------
(* Within a day only a late stamp takes anything off the total             *)
(* (record_cost_at restarts the row whenever the dates differ).            *)
THEOREM OnlyLateStampsReset == Spec => TotalFallsOnlyByLateStamp
<1> DEFINE Late == \E c \in Callers : phase[c] = "recording" /\ stamp[c] < today
           Falls == /\ today' = today
                    /\ CurrentDailyUsd(row', today) < CurrentDailyUsd(row, today)
<1>1. TypeOK /\ StampsArePast /\ [Next]_vars => [Falls => Late]_vars
  <2> SUFFICES ASSUME TypeOK, StampsArePast, Next, Falls PROVE Late
    OBVIOUS
  <2>1. CurrentDailyUsd(row, today) \in Nat
    BY DEF TypeOK, LedgerTypeOK, CurrentDailyUsd
  <2>2. row' # row
    BY <2>1
  <2>3. PICK c \in Callers : Record(c)
    BY <2>2 DEF Next, Step, Arrive, Refuse, Admit, Leave, Succeed, Midnight, ledgerVars
  <2>4. /\ cost[c] \in Nat /\ stamp[c] \in Int /\ today \in Int
        /\ stamp[c] <= today /\ phase[c] = "recording"
    BY <2>3, BudgetAssumption DEF TypeOK, LedgerTypeOK, StampsArePast, Record, Days
  <2>5. stamp[c] # today
    <3> SUFFICES ASSUME stamp[c] = today PROVE FALSE
      OBVIOUS
    <3>1. CurrentDailyUsd(row', today) >= CurrentDailyUsd(row, today)
      BY <2>1, <2>3, <2>4 DEF Record, RecordCost, Recorded, CurrentDailyUsd
    <3>2. CurrentDailyUsd(row', today) \in Int
      BY <2>1, <2>3, <2>4 DEF Record, RecordCost, Recorded, CurrentDailyUsd
    <3> QED
      BY <2>1, <3>1, <3>2
  <2> QED
    BY <2>4, <2>5
<1> QED
  BY <1>1, TypesAndDates, PTL DEF Spec, TotalFallsOnlyByLateStamp

=============================================================================
