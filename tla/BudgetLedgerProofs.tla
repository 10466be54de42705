------------------------- MODULE BudgetLedgerProofs -------------------------
(* Proofs about BudgetLedger, for every value of its constants.            *)
EXTENDS BudgetLedger, FiniteSetTheorems, TLAPS

-----------------------------------------------------------------------------
(* Facts about the operators that read the files. *)

LEMMA InViewFinite ==
  ASSUME NEW S, IsFiniteSet(S), NEW v
  PROVE  /\ InView(S, v) \subseteq S
         /\ IsFiniteSet(InView(S, v))
         /\ Cardinality(InView(S, v)) \in Nat
<1>1. InView(S, v) \subseteq S
  BY DEF InView
<1>2. IsFiniteSet(InView(S, v))
  BY <1>1, FS_Subset
<1>3. QED
  BY <1>1, <1>2, FS_CardinalityType

(* The units of one reservation number its worst-case cost. *)
LEMMA UnitsOfOne ==
  ASSUME NEW r \in Reservation
  PROVE  /\ IsFiniteSet({r} \X (1 .. r.worst))
         /\ Cardinality({r} \X (1 .. r.worst)) = r.worst
<1>1. r.worst \in Nat
  BY LedgerAssumption DEF Reservation
<1>2. IsFiniteSet(1 .. r.worst) /\ Cardinality(1 .. r.worst) = r.worst
  BY <1>1, FS_Interval
<1>3. IsFiniteSet({r}) /\ Cardinality({r}) = 1
  BY FS_Singleton
<1>4. /\ IsFiniteSet({r} \X (1 .. r.worst))
      /\ Cardinality({r} \X (1 .. r.worst)) = 1 * Cardinality(1 .. r.worst)
  BY <1>2, <1>3, FS_Product, ZenonT(40)
<1>5. QED
  BY <1>1, <1>2, <1>4

LEMMA UnitsFinite ==
  ASSUME NEW S \in SUBSET Reservation, IsFiniteSet(S)
  PROVE  IsFiniteSet(Units(S)) /\ Held(S) \in Nat
<1> DEFINE U == {{r} \X (1 .. r.worst) : r \in S}
           f == [r \in S |-> {r} \X (1 .. r.worst)]
<1>1. f \in Surjection(S, U)
  BY DEF Surjection
<1>2. IsFiniteSet(U)
  BY <1>1, FS_Surjection
<1>3. \A u \in U : IsFiniteSet(u)
  BY UnitsOfOne
<1>4. IsFiniteSet(UNION U)
  <2> HIDE DEF U
  <2> QED BY <1>2, <1>3, FS_UNION
<1>5. QED
  BY <1>4, FS_CardinalityType DEF Units, Held

LEMMA HeldMonotone ==
  ASSUME NEW T \in SUBSET Reservation, IsFiniteSet(T), NEW S \in SUBSET T
  PROVE  Held(S) <= Held(T)
<1>1. Units(S) \subseteq Units(T)
  BY DEF Units
<1>2. IsFiniteSet(Units(T))
  BY UnitsFinite
<1>3. QED
  BY <1>1, <1>2, FS_Subset DEF Held

LEMMA HeldAdd ==
  ASSUME NEW S \in SUBSET Reservation, IsFiniteSet(S),
         NEW r \in Reservation, r \notin S
  PROVE  Held(S \cup {r}) = Held(S) + r.worst
<1> DEFINE R == {r} \X (1 .. r.worst)
<1>1. Units(S \cup {r}) = Units(S) \cup R
  BY DEF Units
<1>2. Units(S) \cap R = {}
  BY DEF Units
<1>3. IsFiniteSet(Units(S)) /\ Cardinality(Units(S)) \in Nat
  BY UnitsFinite DEF Held
<1>4. IsFiniteSet(R) /\ Cardinality(R) = r.worst
  BY UnitsOfOne
<1>5. Cardinality({}) = 0
  BY FS_EmptySet
<1>6. r.worst \in Nat
  BY LedgerAssumption DEF Reservation
<1> HIDE DEF R
<1>7. Cardinality(Units(S) \cup R)
        = Cardinality(Units(S)) + Cardinality(R) - Cardinality(Units(S) \cap R)
  BY <1>3, <1>4, FS_Union
<1>8. Cardinality(Units(S) \cap R) = 0
  BY <1>2, <1>5
<1>9. Cardinality(Units(S) \cup R) = Cardinality(Units(S)) + r.worst
  BY <1>3, <1>4, <1>6, <1>7, <1>8
<1>10. QED
  BY <1>1, <1>9 DEF Held

LEMMA InViewAdd ==
  ASSUME NEW S, NEW r, NEW v
  PROVE  InView(S \cup {r}, v) = IF v \in ViewsOf(r.phase)
                                 THEN InView(S, v) \cup {r}
                                 ELSE InView(S, v)
BY DEF InView

-----------------------------------------------------------------------------
(* The inductive invariant. *)

(* Both locks are what keeps a granted check true.  The file lock alone is *)
(* enough for it.                                                          *)
LockHeld == \A t \in Thread : pc[t] \in Locked => flock = t

(* What a thread carries at each place of authorize and append. *)
Carries ==
  \A t \in Thread :
    /\ pc[t] \in Authorizing => job[t] \in Job
    /\ pc[t] \in Calling \cup Appending => held[t] \in reserved
    /\ pc[t] \in Appending => bill[t] <= held[t].worst
    /\ pc[t] = "writeSettled" => held[t] \in recorded

(* The usage log has a row for every recorded call, at its cost at least.  *)
Counted ==
  \A v \in View : /\ Cardinality(InView(recorded, v)) <= usage[v].calls
                  /\ paid[v] <= usage[v].cost

Control == TypeOK /\ LockHeld /\ Carries

Accounts ==
  /\ IsFiniteSet(reserved)
  /\ RowBeforeSettled
  /\ Counted
  /\ CallCap
  /\ CostCap

IInv == Control /\ Accounts /\ GrantStillAdmissible

(* Every action of the specification, with its thread or process named. *)
Quiet(t) ==
  \/ \E j \in Job : Request(t, j)
  \/ TakeMutex(t) \/ TakeFileLock(t) \/ Check(t) \/ Refuse(t) \/ GrantFails(t)
  \/ Send(t) \/ Answer(t) \/ AppendFails(t)

LEMMA QuietLeavesTheLogs ==
  ASSUME NEW t \in Thread, Quiet(t)
  PROVE  UNCHANGED <<logs, history>>
BY DEF Quiet, Request, TakeMutex, TakeFileLock, Check, Refuse, GrantFails, Send,
       Answer, AppendFails, logs, history

LEMMA CrashLeavesTheLogs ==
  ASSUME NEW p \in Process, Crash(p)
  PROVE  UNCHANGED <<logs, history>>
BY DEF Crash, logs, history

LEMMA NextCases ==
  ASSUME [Next]_vars
  PROVE  \/ \E t \in Thread : Quiet(t) \/ Grant(t) \/ WriteRow(t) \/ WriteSettled(t)
         \/ \E p \in Process : Crash(p)
         \/ UNCHANGED vars
BY DEF Next, Step, Quiet, AllStopped

(* Constants the proofs below use again and again. *)
LEMMA ViewFacts ==
  /\ All \in View
  /\ \A p \in Phase : p \in View /\ ViewsOf(p) \subseteq View
  /\ \A v \in View : CostLimit[v] \in Nat
  /\ \A v \in DOMAIN CallLimit : v \in View /\ CallLimit[v] \in Nat
  /\ \A r \in Reservation : r.worst \in Nat /\ r.phase \in Phase
  /\ \A j \in Job : j.worst \in Nat /\ j.phase \in Phase
BY LedgerAssumption DEF View, ViewsOf, Reservation, Job

-----------------------------------------------------------------------------
(* The control part: what the threads hold and carry. *)

LEMMA ControlInit == Init => Control
<1> SUFFICES ASSUME Init PROVE Control
  OBVIOUS
<1>1. TypeOK
  BY LedgerAssumption DEF Init, TypeOK, Where
<1>2. LockHeld /\ Carries
  BY DEF Init, LockHeld, Carries, Locked, Authorizing, Calling, Appending
<1>3. QED
  BY <1>1, <1>2 DEF Control

LEMMA ControlNext == Control /\ [Next]_vars => Control'
<1> SUFFICES ASSUME Control, [Next]_vars PROVE Control'
  OBVIOUS
<1> USE DEF Control
<1>1. ASSUME NEW t \in Thread, NEW j \in Job, Request(t, j)
     PROVE  Control'
  <2>1. TypeOK'
    BY <1>1 DEF Request, Goto, TypeOK, Where, Authorizing, logs, locks, history, bounds
  <2>2. LockHeld'
    BY <1>1 DEF Request, Goto, LockHeld, Locked, locks
  <2>3. Carries'
    BY <1>1 DEF Request, Goto, TypeOK, Carries, Calling, Appending, logs, history
  <2>4. QED
    BY <2>1, <2>2, <2>3
<1>2. ASSUME NEW t \in Thread, TakeMutex(t)
     PROVE  Control'
  <2>1. TypeOK'
    BY <1>2
    DEF TakeMutex, Goto, TypeOK, Where, Authorizing, Appending, logs, history, bounds
  <2>2. LockHeld'
    BY <1>2 DEF TakeMutex, Goto, LockHeld, Locked
  <2>3. Carries'
    BY <1>2 DEF TakeMutex, Goto, Carries, Authorizing, Calling, Appending, logs, history
  <2>4. QED
    BY <2>1, <2>2, <2>3
<1>3. ASSUME NEW t \in Thread, TakeFileLock(t)
     PROVE  Control'
  <2>1. TypeOK'
    BY <1>3
    DEF TakeFileLock, Goto, TypeOK, Where, Authorizing, Appending, logs, history, bounds
  <2>2. LockHeld'
    BY <1>3, LedgerAssumption DEF TakeFileLock, Goto, LockHeld
  <2>3. Carries'
    BY <1>3
    DEF TakeFileLock, Goto, Carries, Authorizing, Calling, Appending, WaitsForFile, logs,
        history
  <2>4. QED
    BY <2>1, <2>2, <2>3
<1>4. ASSUME NEW t \in Thread, Check(t)
     PROVE  Control'
  <2>1. TypeOK'
    BY <1>4 DEF Check, Goto, TypeOK, Where, Authorizing, logs, locks, history, bounds
  <2>2. LockHeld'
    BY <1>4 DEF Check, Goto, LockHeld, Locked, locks
  <2>3. Carries'
    BY <1>4 DEF Check, Goto, Carries, Authorizing, Calling, Appending, logs, history
  <2>4. QED
    BY <2>1, <2>2, <2>3
<1>5. ASSUME NEW t \in Thread, Refuse(t)
     PROVE  Control'
  <2>1. TypeOK'
    BY <1>5 DEF Refuse, Goto, ReleaseLocks, TypeOK, Where, logs, history, bounds
  <2>2. LockHeld'
    BY <1>5 DEF Refuse, Goto, TypeOK, LockHeld, Locked
  <2>3. Carries'
    BY <1>5
    DEF Refuse, Goto, TypeOK, Carries, Authorizing, Calling, Appending, logs, history
  <2>4. QED
    BY <2>1, <2>2, <2>3
<1>6. ASSUME NEW t \in Thread, GrantFails(t)
     PROVE  Control'
  <2>1. TypeOK'
    <3>1. faults' \in 0 .. MaxFaults
      BY <1>6, LedgerAssumption DEF GrantFails, TypeOK
    <3>2. /\ pc' \in [Thread -> Where]
          /\ job' \in [Thread -> Job \cup {None}]
          /\ mutex' \in [Process -> Thread \cup {None}]
          /\ flock' \in Thread \cup {None}
      BY <1>6 DEF GrantFails, Goto, ReleaseLocks, TypeOK, Where
    <3>3. UNCHANGED <<logs, held, bill, history, crashes>>
      BY <1>6 DEF GrantFails
    <3>4. QED
      BY <3>1, <3>2, <3>3 DEF TypeOK, logs, history
  <2>2. LockHeld'
    BY <1>6 DEF GrantFails, Goto, TypeOK, LockHeld, Locked
  <2>3. Carries'
    BY <1>6
    DEF GrantFails, Goto, TypeOK, Carries, Authorizing, Calling, Appending, logs, history
  <2>4. QED
    BY <2>1, <2>2, <2>3
<1>7. ASSUME NEW t \in Thread, Send(t)
     PROVE  Control'
  <2>1. TypeOK'
    BY <1>7 DEF Send, Goto, TypeOK, Where, Calling, logs, locks, history, bounds
  <2>2. LockHeld'
    BY <1>7 DEF Send, Goto, LockHeld, Locked, locks
  <2>3. Carries'
    BY <1>7 DEF Send, Goto, Carries, Authorizing, Calling, Appending, logs, history
  <2>4. QED
    BY <2>1, <2>2, <2>3
<1>8. ASSUME NEW t \in Thread, Answer(t)
     PROVE  Control'
  <2>1. TypeOK'
    BY <1>8 DEF Answer, Goto, TypeOK, Where, Appending, logs, locks, history, bounds
  <2>2. LockHeld'
    BY <1>8 DEF Answer, Goto, LockHeld, Locked, locks
  <2>3. Carries'
    BY <1>8 DEF Answer, Goto, TypeOK, Carries, Authorizing, Calling, logs, history
  <2>4. QED
    BY <2>1, <2>2, <2>3
<1>9. ASSUME NEW t \in Thread, AppendFails(t)
     PROVE  Control'
  <2>1. TypeOK'
    <3>1. faults' \in 0 .. MaxFaults
      BY <1>9, LedgerAssumption DEF AppendFails, TypeOK
    <3>2. /\ pc' \in [Thread -> Where]
          /\ held' \in [Thread -> reserved \cup {None}]
          /\ bill' \in [Thread -> Nat]
      BY <1>9 DEF AppendFails, Goto, TypeOK, Where, Appending
    <3>3. /\ mutex' \in [Process -> Thread \cup {None}]
          /\ flock' \in Thread \cup {None}
      BY <1>9 DEF AppendFails, ReleaseLocks, TypeOK
    <3>4. UNCHANGED <<logs, job, history, crashes>>
      BY <1>9 DEF AppendFails
    <3>5. QED
      BY <3>1, <3>2, <3>3, <3>4 DEF TypeOK, logs, history
  <2>2. LockHeld'
    BY <1>9 DEF AppendFails, Goto, TypeOK, LockHeld, Locked
  <2>3. Carries'
    BY <1>9
    DEF AppendFails, Goto, TypeOK, Carries, Authorizing, Calling, Appending, logs, history
  <2>4. QED
    BY <2>1, <2>2, <2>3
<1>10. ASSUME NEW t \in Thread, Grant(t)
     PROVE  Control'
  <2>1. PICK r \in Reservation :
          /\ reserved' = reserved \cup {r}
          /\ held' = [held EXCEPT ![t] = r]
    BY <1>10 DEF Grant, Carries, Authorizing, Job, Reservation
  <2>2. TypeOK'
    <3>1. /\ reserved' \subseteq Reservation
          /\ held' \in [Thread -> reserved' \cup {None}]
      BY <2>1 DEF TypeOK
    <3>2. /\ pc' \in [Thread -> Where]
          /\ job' \in [Thread -> Job \cup {None}]
          /\ mutex' \in [Process -> Thread \cup {None}]
          /\ flock' \in Thread \cup {None}
      BY <1>10 DEF Grant, Goto, ReleaseLocks, TypeOK, Where, Calling
    <3>3. settled' \subseteq reserved' /\ recorded' \subseteq reserved'
      BY <1>10, <2>1 DEF Grant, TypeOK, history
    <3>4. UNCHANGED <<usage, bill, history, bounds>>
      BY <1>10 DEF Grant
    <3>5. QED
      BY <3>1, <3>2, <3>3, <3>4 DEF TypeOK, history, bounds
  <2>3. LockHeld'
    BY <1>10 DEF Grant, Goto, TypeOK, LockHeld, Locked
  <2>4. Carries'
    BY <1>10, <2>1 DEF Grant, Goto, TypeOK, Carries, Authorizing, Appending, history
  <2>5. QED
    BY <2>2, <2>3, <2>4
<1>11. ASSUME NEW t \in Thread, WriteRow(t)
     PROVE  Control'
  <2>1. TypeOK'
    BY <1>11 DEF WriteRow, Goto, AddTo, TypeOK, Where, Appending, Carries, locks, bounds
  <2>2. LockHeld'
    BY <1>11 DEF WriteRow, Goto, LockHeld, Locked, locks
  <2>3. Carries'
    BY <1>11 DEF WriteRow, Goto, Carries, Authorizing, Appending
  <2>4. QED
    BY <2>1, <2>2, <2>3
<1>12. ASSUME NEW t \in Thread, WriteSettled(t)
     PROVE  Control'
  <2>1. TypeOK'
    BY <1>12 DEF WriteSettled, Goto, ReleaseLocks, TypeOK, Where, Carries, history, bounds
  <2>2. LockHeld'
    BY <1>12 DEF WriteSettled, Goto, TypeOK, LockHeld, Locked
  <2>3. Carries'
    BY <1>12
    DEF WriteSettled, Goto, TypeOK, Carries, Authorizing, Calling, Appending, history
  <2>4. QED
    BY <2>1, <2>2, <2>3
<1>13. ASSUME NEW p \in Process, Crash(p)
     PROVE  Control'
  <2>1. TypeOK'
    <3>1. crashes' \in 0 .. MaxCrashes
      BY <1>13, LedgerAssumption DEF Crash, TypeOK
    <3>2. /\ pc' \in [Thread -> Where]
          /\ job' \in [Thread -> Job \cup {None}]
          /\ held' \in [Thread -> reserved \cup {None}]
          /\ bill' \in [Thread -> Nat]
      BY <1>13 DEF Crash, TypeOK, Where
    <3>3. /\ mutex' \in [Process -> Thread \cup {None}]
          /\ flock' \in Thread \cup {None}
      BY <1>13 DEF Crash, TypeOK
    <3>4. UNCHANGED <<logs, history, faults>>
      BY <1>13 DEF Crash
    <3>5. QED
      BY <3>1, <3>2, <3>3, <3>4 DEF TypeOK, logs, history
  <2>2. LockHeld'
    BY <1>13 DEF Crash, LockHeld, Locked
  <2>3. Carries'
    BY <1>13 DEF Crash, Carries, Authorizing, Calling, Appending, logs, history
  <2>4. QED
    BY <2>1, <2>2, <2>3
<1>14. CASE UNCHANGED vars
  BY <1>14 DEF vars, logs, locks, history, bounds, TypeOK, LockHeld, Carries
<1>15. QED
  BY <1>1, <1>2, <1>3, <1>4, <1>5, <1>6, <1>7, <1>8, <1>9, <1>10, <1>11, <1>12, <1>13, <1>14, NextCases
  DEF Quiet

-----------------------------------------------------------------------------
(* The accounts: what the logs and the history say of the ceilings. *)

LEMMA AccountsInit == Init => Accounts
<1> SUFFICES ASSUME Init PROVE Accounts
  OBVIOUS
<1>1. /\ reserved = {} /\ recorded = {} /\ settled = {}
      /\ \A v \in View : paid[v] = 0 /\ usage[v].calls = 0 /\ usage[v].cost = 0
  BY DEF Init
<1>2. IsFiniteSet({}) /\ Cardinality({}) = 0
  BY FS_EmptySet
<1>3. \A v : InView({}, v) = {} /\ Units({}) = {}
  BY DEF InView, Units
<1>4. reserved \ recorded = {}
  BY <1>1
<1>5. RowBeforeSettled /\ Counted
  BY <1>1, <1>2, <1>3 DEF RowBeforeSettled, Counted
<1>6. CallCap
  <2>1. ASSUME NEW v \in DOMAIN CallLimit
        PROVE  Granted(v) <= CallLimit[v]
    <3>1. Granted(v) = 0
      BY <1>1, <1>2, <1>3 DEF Granted
    <3>2. QED
      BY <3>1, ViewFacts
  <2>2. QED
    BY <2>1 DEF CallCap
<1>7. \A v \in View : Exposure(v) = 0
  BY <1>1, <1>2, <1>3, <1>4 DEF Exposure, Held
<1>8. CostCap
  BY <1>7, ViewFacts DEF CostCap
<1>9. QED
  BY <1>1, <1>2, <1>5, <1>6, <1>8 DEF Accounts

(* What authorize reads covers what was ever granted: every reservation is *)
(* active or has its row.                                                  *)
LEMMA ReadsCoverGrants ==
  ASSUME Control, Accounts, NEW v \in View
  PROVE  /\ Granted(v) <= usage[v].calls + Cardinality(InView(Active, v))
         /\ Exposure(v) <= usage[v].cost + Held(InView(Active, v))
         /\ Granted(v) \in Nat
         /\ Exposure(v) \in Nat
<1> DEFINE A == InView(Active, v)
           R == InView(recorded, v)
           O == InView(reserved \ recorded, v)
<1>1. IsFiniteSet(Active) /\ IsFiniteSet(recorded) /\ IsFiniteSet(reserved \ recorded)
  BY FS_Subset DEF Control, TypeOK, Accounts, Active
<1>2. /\ IsFiniteSet(A) /\ Cardinality(A) \in Nat
      /\ IsFiniteSet(R) /\ Cardinality(R) \in Nat
      /\ IsFiniteSet(O)
  BY <1>1, InViewFinite
<1>3. A \subseteq Reservation /\ O \subseteq A
  BY DEF InView, Active, Control, TypeOK, Accounts, RowBeforeSettled
<1>4. InView(reserved, v) \subseteq A \cup R
  BY DEF InView, Active, Control, TypeOK, Accounts, RowBeforeSettled
<1>5. IsFiniteSet(A \cap R) /\ Cardinality(A \cap R) \in Nat
  BY <1>2, FS_Intersection, FS_CardinalityType
<1>6. /\ IsFiniteSet(A \cup R)
      /\ Cardinality(A \cup R) = Cardinality(A) + Cardinality(R) - Cardinality(A \cap R)
  BY <1>2, FS_Union
<1>7. /\ Cardinality(InView(reserved, v)) <= Cardinality(A \cup R)
      /\ Cardinality(InView(reserved, v)) \in Nat
  BY <1>4, <1>6, FS_Subset, FS_CardinalityType
<1>8. Held(O) <= Held(A) /\ Held(O) \in Nat /\ Held(A) \in Nat
  BY <1>2, <1>3, HeldMonotone, UnitsFinite
<1>9. /\ Cardinality(R) <= usage[v].calls /\ paid[v] <= usage[v].cost
      /\ paid[v] \in Nat /\ usage[v].calls \in Nat /\ usage[v].cost \in Nat
  BY DEF Control, TypeOK, Accounts, Counted
<1> HIDE DEF A, R, O
<1>10. /\ Cardinality(InView(reserved, v)) <= usage[v].calls + Cardinality(A)
       /\ Cardinality(InView(reserved, v)) \in Nat
  BY <1>2, <1>5, <1>6, <1>7, <1>9
<1>11. Exposure(v) = paid[v] + Held(O)
  BY DEF Exposure, O
<1>12. Exposure(v) <= usage[v].cost + Held(A) /\ Exposure(v) \in Nat
  BY <1>8, <1>9, <1>11
<1>13. QED
  BY <1>10, <1>12 DEF A, Granted

(* Granting commits one call at its worst case, within every ceiling.      *)
LEMMA GrantEffect ==
  ASSUME Control, Accounts, GrantStillAdmissible, NEW t \in Thread, Grant(t)
  PROVE  /\ IsFiniteSet(reserved)'
         /\ \E j \in Job : \A v \in View :
              IF v \in ViewsOf(j.phase)
              THEN /\ v \in DOMAIN CallLimit => Granted(v) < CallLimit[v]
                   /\ Exposure(v) + j.worst <= CostLimit[v]
                   /\ Granted(v)' = Granted(v) + 1
                   /\ Exposure(v)' = Exposure(v) + j.worst
              ELSE Granted(v)' = Granted(v) /\ Exposure(v)' = Exposure(v)
<1>1. PICK r \in Reservation :
        /\ r \notin reserved
        /\ r.phase = job[t].phase
        /\ r.worst = job[t].worst
        /\ reserved' = reserved \cup {r}
  BY DEF Grant, Control, Carries, Authorizing, Job, Reservation
<1>2. UNCHANGED <<usage, settled, recorded, paid>>
  BY DEF Grant, history
<1>3. IsFiniteSet(reserved)'
  BY <1>1, FS_AddElement DEF Accounts
<1>4. job[t] \in Job /\ Admissible(job[t])
  BY DEF Grant, GrantStillAdmissible, Control, Carries, Authorizing
<1>5. (reserved \ recorded)' = (reserved \ recorded) \cup {r}
  BY <1>1, <1>2 DEF Control, TypeOK
<1>6. ASSUME NEW v \in View, v \in ViewsOf(r.phase)
      PROVE  /\ v \in DOMAIN CallLimit => Granted(v) < CallLimit[v]
             /\ Exposure(v) + r.worst <= CostLimit[v]
             /\ Granted(v)' = Granted(v) + 1
             /\ Exposure(v)' = Exposure(v) + r.worst
  <2> DEFINE O == InView(reserved \ recorded, v)
  <2>1. CallsLeft(v) /\ CostFits(v, r.worst)
    BY <1>1, <1>4, <1>6 DEF Admissible
  <2>2. /\ usage[v].calls \in Nat /\ usage[v].cost \in Nat
        /\ paid[v] \in Nat /\ r.worst \in Nat
    BY ViewFacts DEF Control, TypeOK
  <2>3. /\ Cardinality(InView(Active, v)) \in Nat
        /\ Held(InView(Active, v)) \in Nat
    <3>1. InView(Active, v) \in SUBSET Reservation
      BY DEF InView, Active, Control, TypeOK
    <3>2. /\ IsFiniteSet(InView(Active, v))
          /\ Cardinality(InView(Active, v)) \in Nat
      BY FS_Difference, InViewFinite DEF Accounts, Active
    <3>3. QED
      BY <3>1, <3>2, UnitsFinite
  <2>4. v \in DOMAIN CallLimit => Granted(v) < CallLimit[v]
    BY <2>1, <2>2, <2>3, ReadsCoverGrants, ViewFacts DEF CallsLeft
  <2>5. Exposure(v) + r.worst <= CostLimit[v]
    BY <2>1, <2>2, <2>3, ReadsCoverGrants, ViewFacts DEF CostFits
  <2>6. Granted(v)' = Granted(v) + 1
    <3>1. InView(reserved', v) = InView(reserved, v) \cup {r}
      BY <1>1, <1>6, InViewAdd
    <3>2. r \notin InView(reserved, v)
      BY <1>1 DEF InView
    <3>3. IsFiniteSet(InView(reserved, v))
      BY InViewFinite DEF Accounts
    <3>4. Cardinality(InView(reserved, v) \cup {r}) = Cardinality(InView(reserved, v)) + 1
      BY <3>2, <3>3, FS_AddElement
    <3>5. QED
      BY <3>1, <3>4 DEF Granted, InView
  <2>7. Exposure(v)' = Exposure(v) + r.worst
    <3>1. O \in SUBSET Reservation /\ IsFiniteSet(O) /\ r \notin O
      BY <1>1, FS_Difference, InViewFinite DEF Control, TypeOK, Accounts, InView
    <3>2. Held(O \cup {r}) = Held(O) + r.worst /\ Held(O) \in Nat
      BY <3>1, HeldAdd, UnitsFinite
    <3>3. InView((reserved \ recorded) \cup {r}, v) = O \cup {r}
      BY <1>6, InViewAdd
    <3>4. Exposure(v)' = paid[v] + Held(O \cup {r})
      BY <1>2, <1>5, <3>3 DEF Exposure, InView
    <3> HIDE DEF O
    <3>5. Exposure(v)' = (paid[v] + Held(O)) + r.worst
      BY <2>2, <3>2, <3>4
    <3>6. QED
      BY <3>5 DEF Exposure, O
  <2>8. QED
    BY <2>4, <2>5, <2>6, <2>7
<1>7. ASSUME NEW v \in View, v \notin ViewsOf(r.phase)
      PROVE  Granted(v)' = Granted(v) /\ Exposure(v)' = Exposure(v)
  <2>1. InView(reserved', v) = InView(reserved, v)
    BY <1>1, <1>7, InViewAdd
  <2>2. InView((reserved \ recorded) \cup {r}, v) = InView(reserved \ recorded, v)
    BY <1>7, InViewAdd
  <2>3. QED
    BY <1>2, <1>5, <2>1, <2>2 DEF Granted, Exposure, InView
<1>8. \A v \in View :
        IF v \in ViewsOf(job[t].phase)
        THEN /\ v \in DOMAIN CallLimit => Granted(v) < CallLimit[v]
             /\ Exposure(v) + job[t].worst <= CostLimit[v]
             /\ Granted(v)' = Granted(v) + 1
             /\ Exposure(v)' = Exposure(v) + job[t].worst
        ELSE Granted(v)' = Granted(v) /\ Exposure(v)' = Exposure(v)
  BY <1>1, <1>6, <1>7
<1>9. QED
  BY <1>3, <1>4, <1>8

(* The first usage row of a call turns its worst case into its cost; a     *)
(* second row of the same call changes nothing that counts.                *)
LEMMA WriteRowEffect ==
  ASSUME Control, Accounts, NEW t \in Thread, WriteRow(t)
  PROVE  /\ \A v \in View : Granted(v)' = Granted(v)
         /\ \/ \A v \in View : Exposure(v)' = Exposure(v)
            \/ \E j \in Job : \E c \in 0 .. j.worst : \A v \in View :
                 IF v \in ViewsOf(j.phase)
                 THEN /\ Exposure(v) >= j.worst
                      /\ Exposure(v)' = Exposure(v) - j.worst + c
                 ELSE Exposure(v)' = Exposure(v)
<1> DEFINE r == held[t]
<1>1. /\ r \in reserved /\ r \in Reservation
      /\ bill[t] \in Nat /\ bill[t] <= r.worst
      /\ r.worst \in Nat /\ r.phase \in Phase
  BY ViewFacts DEF WriteRow, Control, TypeOK, Carries, Appending
<1>2. /\ UNCHANGED <<reserved, settled>>
      /\ recorded' = recorded \cup {r}
      /\ paid' = IF r \in recorded THEN paid ELSE AddTo(paid, r.phase, bill[t])
  BY DEF WriteRow
<1> HIDE DEF r
<1>3. \A v \in View : Granted(v)' = Granted(v)
  BY <1>2 DEF Granted, InView
<1>4. CASE r \in recorded
  <2>1. recorded' = recorded /\ paid' = paid
    BY <1>2, <1>4
  <2>2. \A v \in View : Exposure(v)' = Exposure(v)
    BY <1>2, <2>1 DEF Exposure, InView
  <2>3. QED
    BY <1>3, <2>2
<1>5. CASE r \notin recorded
  <2>1. ASSUME NEW v \in View
        PROVE  IF v \in ViewsOf(r.phase)
               THEN /\ Exposure(v) >= r.worst
                    /\ Exposure(v)' = Exposure(v) - r.worst + bill[t]
               ELSE Exposure(v)' = Exposure(v)
    <3> DEFINE O == InView(reserved \ recorded, v)
               N == InView(reserved \ recorded', v)
    <3>1. Exposure(v)' = paid'[v] + Held(N)
      BY <1>2 DEF Exposure, InView
    <3>2. Exposure(v) = paid[v] + Held(O) /\ paid[v] \in Nat
      BY DEF Control, TypeOK, Exposure
    <3>3. IsFiniteSet(O) /\ IsFiniteSet(N)
      BY FS_Difference, InViewFinite DEF Accounts
    <3>4. O \in SUBSET Reservation /\ N \in SUBSET Reservation
      BY DEF Control, TypeOK, InView
    <3>5. Held(O) \in Nat /\ Held(N) \in Nat
      BY <3>3, <3>4, UnitsFinite
    <3>6. CASE v \in ViewsOf(r.phase)
      <4>1. O = N \cup {r} /\ r \notin N
        BY <1>1, <1>2, <1>5, <3>6 DEF InView
      <4>2. Held(O) = Held(N) + r.worst
        BY <1>1, <3>3, <3>4, <4>1, HeldAdd
      <4>3. paid'[v] = paid[v] + bill[t]
        BY <1>2, <1>5, <3>6 DEF AddTo
      <4> HIDE DEF O, N
      <4>4. QED
        BY <1>1, <3>1, <3>2, <3>5, <3>6, <4>2, <4>3
    <3>7. CASE v \notin ViewsOf(r.phase)
      <4>1. N = O
        BY <1>2, <3>7 DEF InView
      <4>2. paid'[v] = paid[v]
        BY <1>2, <1>5, <3>7 DEF AddTo
      <4>3. QED
        BY <3>1, <3>2, <3>7, <4>1, <4>2
    <3>8. QED
      BY <3>6, <3>7
  <2>2. PICK j \in Job : j.phase = r.phase /\ j.worst = r.worst
    <3>1. [phase |-> r.phase, worst |-> r.worst] \in Job
      BY <1>1 DEF Reservation, Job
    <3>2. QED
      BY <3>1
  <2>3. bill[t] \in 0 .. j.worst
    BY <1>1, <2>2
  <2>4. \A v \in View : IF v \in ViewsOf(j.phase)
                        THEN /\ Exposure(v) >= j.worst
                             /\ Exposure(v)' = Exposure(v) - j.worst + bill[t]
                        ELSE Exposure(v)' = Exposure(v)
    BY <2>1, <2>2
  <2>5. QED
    BY <1>3, <2>3, <2>4
<1>6. QED
  BY <1>4, <1>5

LEMMA AccountsGrant ==
  ASSUME Control, Accounts, GrantStillAdmissible, NEW t \in Thread, Grant(t)
  PROVE  Accounts'
<1>1. RowBeforeSettled' /\ Counted'
  BY DEF Grant, history, Accounts, RowBeforeSettled, Counted, InView
<1>2. CallCap'
  <2>1. ASSUME NEW v \in DOMAIN CallLimit
        PROVE  Granted(v)' <= CallLimit[v]
    <3>1. v \in View /\ CallLimit[v] \in Nat /\ Granted(v) \in Nat
      BY ViewFacts, ReadsCoverGrants DEF Granted
    <3>2. \/ Granted(v) < CallLimit[v] /\ Granted(v)' = Granted(v) + 1
          \/ Granted(v)' = Granted(v)
      BY <3>1, GrantEffect
    <3>3. Granted(v) <= CallLimit[v]
      BY DEF Accounts, CallCap
    <3>4. QED
      BY <3>1, <3>2, <3>3
  <2>2. QED
    BY <2>1 DEF CallCap
<1>3. CostCap'
  BY GrantEffect DEF CostCap, Accounts
<1>4. QED
  BY <1>1, <1>2, <1>3, GrantEffect DEF Accounts

LEMMA AccountsWriteRow ==
  ASSUME Control, Accounts, NEW t \in Thread, WriteRow(t)
  PROVE  Accounts'
<1> DEFINE r == held[t]
<1>1. r \in reserved /\ bill[t] \in Nat
  BY DEF WriteRow, Control, TypeOK, Carries, Appending
<1>2. /\ UNCHANGED <<reserved, settled>>
      /\ recorded' = recorded \cup {r}
      /\ paid' = IF r \in recorded THEN paid ELSE AddTo(paid, r.phase, bill[t])
  BY DEF WriteRow
<1>3. ASSUME NEW v \in View
      PROVE  IF v \in ViewsOf(r.phase)
             THEN /\ usage'[v].calls = usage[v].calls + 1
                  /\ usage'[v].cost = usage[v].cost + bill[t]
             ELSE usage'[v] = usage[v]
  BY DEF WriteRow
<1> HIDE DEF r
<1>4. RowBeforeSettled' /\ IsFiniteSet(reserved)'
  BY <1>2 DEF Accounts, RowBeforeSettled
<1>5. ASSUME NEW v \in View
      PROVE  /\ Cardinality(InView(recorded', v)) <= usage'[v].calls
             /\ paid'[v] <= usage'[v].cost
  <2>1. /\ Cardinality(InView(recorded, v)) <= usage[v].calls
        /\ paid[v] <= usage[v].cost
        /\ paid[v] \in Nat /\ usage[v].calls \in Nat /\ usage[v].cost \in Nat
    BY DEF Accounts, Counted, Control, TypeOK
  <2>2. paid'[v] <= usage'[v].cost
    <3>1. /\ usage'[v].cost \in {usage[v].cost, usage[v].cost + bill[t]}
          /\ v \in ViewsOf(r.phase) => usage'[v].cost = usage[v].cost + bill[t]
      BY <1>3
    <3>2. /\ paid'[v] \in {paid[v], paid[v] + bill[t]}
          /\ v \notin ViewsOf(r.phase) => paid'[v] = paid[v]
      BY <1>2 DEF AddTo
    <3>3. QED
      BY <1>1, <2>1, <3>1, <3>2
  <2>3. IsFiniteSet(InView(recorded, v)) /\ Cardinality(InView(recorded, v)) \in Nat
    BY FS_Subset, InViewFinite DEF Control, TypeOK, Accounts
  <2>4. CASE v \in ViewsOf(r.phase)
    <3>1. InView(recorded', v) = InView(recorded, v) \cup {r}
      BY <1>2, <2>4, InViewAdd
    <3>2. \/ Cardinality(InView(recorded', v)) = Cardinality(InView(recorded, v))
          \/ Cardinality(InView(recorded', v)) = Cardinality(InView(recorded, v)) + 1
      BY <2>3, <3>1, FS_AddElement
    <3>3. usage'[v].calls = usage[v].calls + 1
      BY <1>3, <2>4
    <3>4. QED
      BY <2>1, <2>2, <2>3, <3>2, <3>3
  <2>5. CASE v \notin ViewsOf(r.phase)
    BY <1>2, <1>3, <2>1, <2>2, <2>5, InViewAdd
  <2>6. QED
    BY <2>4, <2>5
<1>6. ASSUME NEW v \in View
      PROVE  Exposure(v)' <= CostLimit[v]
  <2>1. Exposure(v) \in Nat /\ Exposure(v) <= CostLimit[v] /\ CostLimit[v] \in Nat
    BY ReadsCoverGrants, ViewFacts DEF Accounts, CostCap
  <2>2. CASE Exposure(v)' = Exposure(v)
    BY <2>1, <2>2
  <2>3. CASE \E j \in Job : \E c \in 0 .. j.worst :
               Exposure(v)' = Exposure(v) - j.worst + c
    BY <2>1, <2>3, ViewFacts
  <2>4. QED
    BY <2>2, <2>3, WriteRowEffect
<1>7. Counted' /\ CostCap' /\ CallCap'
  BY <1>5, <1>6, WriteRowEffect, ViewFacts
  DEF Counted, CostCap, InView, Accounts, CallCap
<1>8. QED
  BY <1>4, <1>7 DEF Accounts

LEMMA AccountsNext ==
  Control /\ Accounts /\ GrantStillAdmissible /\ [Next]_vars => Accounts'
<1> SUFFICES ASSUME Control, Accounts, GrantStillAdmissible, [Next]_vars
             PROVE  Accounts'
  OBVIOUS
<1>1. ASSUME UNCHANGED <<logs, history>>
      PROVE  Accounts'
  BY <1>1 DEF logs, history, Accounts, RowBeforeSettled, Counted, CallCap, CostCap,
              Granted, Exposure, InView
<1>2. ASSUME NEW t \in Thread, WriteSettled(t)
      PROVE  Accounts'
  <2>1. UNCHANGED <<usage, reserved, history>> /\ settled' = settled \cup {held[t]}
    BY <1>2 DEF WriteSettled
  <2>2. held[t] \in recorded
    BY <1>2 DEF WriteSettled, Control, Carries
  <2>3. RowBeforeSettled'
    BY <2>1, <2>2 DEF Accounts, RowBeforeSettled, history
  <2>4. QED
    BY <2>1, <2>3 DEF history, Accounts, Counted, CallCap, CostCap, Granted,
                          Exposure, InView
<1>3. QED
  BY <1>1, <1>2, NextCases, QuietLeavesTheLogs, CrashLeavesTheLogs, AccountsGrant,
     AccountsWriteRow DEF vars

-----------------------------------------------------------------------------
(* A granted check stays true: only the holder of the file lock writes.    *)

LEMMA GrantNext ==
  Control /\ GrantStillAdmissible /\ [Next]_vars => GrantStillAdmissible'
<1> SUFFICES ASSUME Control, GrantStillAdmissible, [Next]_vars,
                    NEW s \in Thread, pc'[s] = "grant"
             PROVE  Admissible(job[s])'
  BY DEF GrantStillAdmissible
<1>1. ASSUME UNCHANGED logs
      PROVE  \A j \in Job : Admissible(j)' <=> Admissible(j)
  BY <1>1 DEF logs, Admissible, CallsLeft, CostFits, Active, InView
<1>2. ASSUME UNCHANGED logs, pc[s] = "grant", job'[s] = job[s]
      PROVE  Admissible(job[s])'
  BY <1>1, <1>2 DEF GrantStillAdmissible, Control, Carries, Authorizing
<1>3. ASSUME NEW t \in Thread, Quiet(t)
      PROVE  Admissible(job[s])'
  <2>1. UNCHANGED logs
    BY <1>3, QuietLeavesTheLogs
  <2>2. CASE pc[s] = "grant"
    <3>1. job'[s] = job[s]
      BY <1>3, <2>2 DEF Quiet, Request, TakeMutex, TakeFileLock, Check, Refuse,
            GrantFails, Send, Answer, AppendFails, Goto, Control, TypeOK
    <3>2. QED
      BY <1>2, <2>1, <2>2, <3>1
  <2>3. CASE pc[s] # "grant"
    <3>1. t = s /\ Check(t)
      BY <1>3, <2>3 DEF Quiet, Request, TakeMutex, TakeFileLock, Check, Refuse,
            GrantFails, Send, Answer, AppendFails, Goto, Control, TypeOK
    <3>2. Admissible(job[s]) /\ job'[s] = job[s] /\ job[s] \in Job
      BY <3>1 DEF Check, Goto, Control, TypeOK, Carries, Authorizing
    <3>3. QED
      BY <1>1, <2>1, <3>2
  <2>4. QED
    BY <2>2, <2>3
<1>4. ASSUME NEW t \in Thread, Grant(t) \/ WriteRow(t) \/ WriteSettled(t)
      PROVE  FALSE
  <2>1. pc[t] \in Locked /\ t # s /\ pc[s] = "grant"
    BY <1>4 DEF Grant, WriteRow, WriteSettled, Goto, Locked, Control, TypeOK
  <2>2. QED
    BY <2>1 DEF Control, LockHeld, Locked
<1>5. ASSUME NEW p \in Process, Crash(p)
      PROVE  Admissible(job[s])'
  <2>1. UNCHANGED logs
    BY <1>5, CrashLeavesTheLogs
  <2>2. pc[s] = "grant" /\ job'[s] = job[s]
    BY <1>5 DEF Crash
  <2>3. QED
    BY <1>2, <2>1, <2>2
<1>6. CASE UNCHANGED vars
  BY <1>2, <1>6 DEF vars
<1>7. QED
  BY <1>3, <1>4, <1>5, <1>6, NextCases

LEMMA InvariantNext == IInv /\ [Next]_vars => IInv'
  BY ControlNext, AccountsNext, GrantNext DEF IInv

LEMMA InvariantInit == Init => IInv
<1>1. Init => GrantStillAdmissible
  BY DEF Init, GrantStillAdmissible
<1>2. QED
  BY <1>1, ControlInit, AccountsInit DEF IInv

LEMMA Invariant == Spec => []IInv
  BY InvariantInit, InvariantNext, PTL DEF Spec

-----------------------------------------------------------------------------
(* Every variable of the ledger keeps its type. *)
THEOREM TypeCorrect == Spec => []TypeOK
<1>1. IInv => TypeOK
  BY DEF IInv, Control
<1>2. QED
  BY <1>1, Invariant, PTL

(* For any number of processes and threads, any ceilings and any kills and *)
(* failing writes, no more calls are granted than a ceiling allows.        *)
THEOREM CallsWithinCeilings == Spec => []CallCap
<1>1. IInv => CallCap
  BY DEF IInv, Accounts
<1>2. QED
  BY <1>1, Invariant, PTL

(* Nor can the recorded cost and the worst case of the calls still open    *)
(* exceed a cost ceiling together.                                         *)
THEOREM CostWithinCeilings == Spec => []CostCap
<1>1. IInv => CostCap
  BY DEF IInv, Accounts
<1>2. QED
  BY <1>1, Invariant, PTL

(* What authorize checked under the lock still holds when it writes the    *)
(* reservation, whatever other threads and processes did meanwhile.        *)
THEOREM GrantsStayAdmissible == Spec => []GrantStillAdmissible
<1>1. IInv => GrantStillAdmissible
  BY DEF IInv
<1>2. QED
  BY <1>1, Invariant, PTL

(* A settled reservation has its usage row: no kill or failing write       *)
(* between the two can lose a call from the accounts.                      *)
THEOREM SettledHaveRows == Spec => []RowBeforeSettled
<1>1. IInv => RowBeforeSettled
  BY DEF IInv, Accounts
<1>2. QED
  BY <1>1, Invariant, PTL

-----------------------------------------------------------------------------
(* Refinement: granting is SpendCap's Commit, the first usage row of a     *)
(* call its Pay, and everything else a stuttering step.                    *)

LEMMA CapInitialised == Init => Cap!CapInit
<1> SUFFICES ASSUME Init PROVE Cap!CapInit
  OBVIOUS
<1>1. /\ reserved = {} /\ recorded = {}
      /\ \A v \in View : paid[v] = 0
  BY DEF Init
<1>2. \A v : InView({}, v) = {} /\ Units({}) = {}
  BY DEF InView, Units
<1>3. reserved \ recorded = {} /\ Cardinality({}) = 0
  BY <1>1, FS_EmptySet
<1>4. \A v \in View : Granted(v) = 0 /\ Exposure(v) = 0
  BY <1>1, <1>2, <1>3 DEF Granted, Exposure, Held
<1>5. QED
  BY <1>4 DEF Cap!CapInit, Cap!View, View

LEMMA CapStep == IInv /\ [Next]_vars => [Cap!CapNext]_(Cap!capVars)
<1> SUFFICES ASSUME IInv, [Next]_vars
             PROVE  [Cap!CapNext]_(Cap!capVars)
  OBVIOUS
<1>1. Control /\ Accounts /\ GrantStillAdmissible
  BY DEF IInv
<1>2. ASSUME \A v \in View : Granted(v)' = Granted(v) /\ Exposure(v)' = Exposure(v)
      PROVE  UNCHANGED Cap!capVars
  BY <1>2 DEF Cap!capVars
<1>3. ASSUME UNCHANGED <<reserved, history>>
      PROVE  UNCHANGED Cap!capVars
  <2>1. \A v \in View : Granted(v)' = Granted(v) /\ Exposure(v)' = Exposure(v)
    BY <1>3 DEF history, Granted, Exposure, InView
  <2>2. QED
    BY <1>2, <2>1
<1>4. ASSUME NEW t \in Thread, Grant(t)
      PROVE  Cap!CapNext
  <2>1. PICK j \in Job : \A v \in View :
              IF v \in ViewsOf(j.phase)
              THEN /\ v \in DOMAIN CallLimit => Granted(v) < CallLimit[v]
                   /\ Exposure(v) + j.worst <= CostLimit[v]
                   /\ Granted(v)' = Granted(v) + 1
                   /\ Exposure(v)' = Exposure(v) + j.worst
              ELSE Granted(v)' = Granted(v) /\ Exposure(v)' = Exposure(v)
    BY <1>1, <1>4, GrantEffect
  <2>2. j.phase \in Phase /\ j.worst \in WorstCost /\ ViewsOf(j.phase) \subseteq View
    BY ViewFacts DEF Job
  <2>3. Cap!Commit(j.phase, j.worst)
    BY <2>1, <2>2 DEF Cap!Commit, Cap!View, Cap!ViewsOf, View, ViewsOf
  <2>4. QED
    BY <2>2, <2>3 DEF Cap!CapNext
<1>5. ASSUME NEW t \in Thread, WriteRow(t)
      PROVE  [Cap!CapNext]_(Cap!capVars)
  <2>1. \A v \in View : Granted(v)' = Granted(v)
    BY <1>1, <1>5, WriteRowEffect
  <2>2. CASE \A v \in View : Exposure(v)' = Exposure(v)
    BY <1>2, <2>1, <2>2
  <2>3. ASSUME NEW j \in Job, NEW c \in 0 .. j.worst,
               \A v \in View : IF v \in ViewsOf(j.phase)
                               THEN /\ Exposure(v) >= j.worst
                                    /\ Exposure(v)' = Exposure(v) - j.worst + c
                               ELSE Exposure(v)' = Exposure(v)
        PROVE  Cap!CapNext
    <3>1. /\ j.phase \in Phase /\ j.worst \in WorstCost /\ j.worst \in Nat
          /\ ViewsOf(j.phase) \subseteq View
      BY ViewFacts DEF Job
    <3>2. Cap!Pay(j.phase, j.worst, c)
      BY <2>1, <2>3, <3>1 DEF Cap!Pay, Cap!View, Cap!ViewsOf, View, ViewsOf
    <3>3. QED
      BY <3>1, <3>2 DEF Cap!CapNext
  <2>4. QED
    BY <1>1, <1>5, <2>2, <2>3, WriteRowEffect
<1>6. ASSUME NEW t \in Thread, WriteSettled(t)
      PROVE  UNCHANGED <<reserved, history>>
  BY <1>6 DEF WriteSettled
<1>7. ASSUME UNCHANGED <<logs, history>>
      PROVE  UNCHANGED <<reserved, history>>
  BY <1>7 DEF logs
<1>8. CASE UNCHANGED vars
  BY <1>3, <1>7, <1>8 DEF vars
<1>9. QED
  BY <1>3, <1>4, <1>5, <1>6, <1>7, <1>8, NextCases, QuietLeavesTheLogs,
     CrashLeavesTheLogs

(* The shared ledger files, with all their locks, crashes and failing      *)
(* writes, implement the abstract promise never to exceed a ceiling.       *)
THEOREM LedgerImplementsSpendCap == Spec => ImplementsSpendCap
<1>1. QED
  BY CapInitialised, CapStep, Invariant, PTL DEF Spec, ImplementsSpendCap, Cap!CapSpec
=============================================================================
