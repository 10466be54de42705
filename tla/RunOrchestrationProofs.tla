----------------------- MODULE RunOrchestrationProofs -----------------------
(* Proofs about RunOrchestration, for every list of runs, any number of    *)
(* workers, kills and failures.                                            *)
EXTENDS RunOrchestration, SequenceTheorems, TLAPS

-----------------------------------------------------------------------------
(* Dealing a list to n workers: worker w owns the indices that leave w.    *)

LEMMA OwnerInRange ==
  ASSUME NEW i \in Nat, NEW n \in Nat \ {0}
  PROVE  i % n \in 0 .. n - 1
BY SMT

LEMMA OwnerFirst ==
  ASSUME NEW n \in Nat \ {0}, NEW w \in 0 .. n - 1
  PROVE  w % n = w
BY SMT

LEMMA OwnerNext ==
  ASSUME NEW p \in Nat, NEW n \in Nat \ {0}
  PROVE  (p + n) % n = p % n
<1> DEFINE q == p \div n
           k == (p + n) \div n
           r == p % n
           s == (p + n) % n
<1>1. /\ p = n * q + r /\ p + n = n * k + s
      /\ q \in Nat /\ k \in Nat /\ r \in 0 .. n - 1 /\ s \in 0 .. n - 1
  BY SMT
<1> HIDE DEF q, k, r, s
<1>2. n * k + s = n * (q + 1) + r
  BY <1>1, SMT
<1>3. ~(k < q + 1) /\ ~(q + 1 < k)
  BY <1>1, <1>2, SMT
<1>4. k = q + 1
  BY <1>1, <1>3, SMT
<1>5. r = s
  BY <1>1, <1>2, <1>4, SMT
<1>6. QED
  BY <1>5 DEF r, s

(* Two indices of one worker are at least n apart. *)
LEMMA OwnerApart ==
  ASSUME NEW i \in Nat, NEW p \in Nat, NEW n \in Nat \ {0},
         i % n = p % n, p <= i, i < p + n
  PROVE  i = p
<1>1. /\ i = n * (i \div n) + (i % n) /\ p = n * (p \div n) + (p % n)
      /\ i \div n \in Nat /\ p \div n \in Nat
  BY SMT
<1>2. i \div n = p \div n
  BY <1>1, SMT
<1>3. QED
  BY <1>1, <1>2, SMT

-----------------------------------------------------------------------------
(* The inductive invariant. *)

Index == 0 .. Len(Order) - 1
RunAt(i) == Order[i + 1]

(* The directory of a run holds an attempt of that run, and every attempt  *)
(* is in the directory of its run or was set aside.                        *)
Directories ==
  /\ \A r \in Run : dir[r] # 0 => attempt[dir[r]].run = r
  /\ AttemptsKept

(* Worker w is at one of the indices that leave w, until it is done.       *)
Dealt ==
  sweep \in {"on", "returned"} =>
    \A w \in Worker :
      /\ w < workers => pos[w] % workers = w
      /\ w >= workers => pc[w] = "ended"
      /\ pc[w] = "ended" /\ w < workers => ~Left(w)
      /\ sweep = "returned" => pc[w] = "ended"
      /\ pc[w] \notin {"look", "ended", "raised"} => Left(w)

(* What the directory of the run a worker is at holds.                     *)
Place(w) ==
  /\ pc[w] \in {"logAside", "begin"} => dir[RunOf(w)] = 0
  /\ pc[w] \in Writing => dir[RunOf(w)] # 0
  /\ pc[w] = "simulate" => FilesOf(RunOf(w)) = "begun"
  /\ pc[w] = "summary" => FilesOf(RunOf(w)) = "torn"
  /\ pc[w] = "extras" => FilesOf(RunOf(w)) = "summary"
  /\ pc[w] = "row" => FilesOf(RunOf(w)) = "full"
Places == sweep = "on" => \A w \in Worker : Place(w)

(* The runs a worker has passed are listed, once, and have a summary.      *)
Listed ==
  sweep \in {"on", "returned"} =>
    \A i \in Index :
      LET passed == i < pos[i % workers]
      IN /\ listed[RunAt(i)] = IF passed THEN 1 ELSE 0
         /\ passed => Summarized(RunAt(i))

IInv == TypeOK /\ Directories /\ Dealt /\ Places /\ Listed

(* What a step does to the completed runs. *)
KeepsSummaries ==
  \A r \in Run : Summarized(r) => Summarized(r)' /\ dir'[r] = dir[r]

-----------------------------------------------------------------------------
(* The list and the workers. *)

LEMMA OrderFacts ==
  /\ Len(Order) \in Nat
  /\ \A i \in Index : RunAt(i) \in Run
  /\ \A i, j \in Index : RunAt(i) = RunAt(j) => i = j
  /\ \A r \in Run : \E i \in Index : r = RunAt(i)
<1>1. Len(Order) \in Nat /\ DOMAIN Order = 1 .. Len(Order)
  BY OrderAssumption, LenProperties
<1>2. \A i \in Index : i + 1 \in DOMAIN Order
  BY <1>1 DEF Index
<1>3. \A i \in DOMAIN Order : i - 1 \in Index /\ Order[i] = RunAt(i - 1)
  BY <1>1 DEF Index, RunAt
<1>4. \A i, j \in Index : RunAt(i) = RunAt(j) => i = j
  BY <1>2, OrderAssumption DEF RunAt, Index
<1>5. QED
  BY <1>1, <1>2, <1>3, <1>4 DEF Run, RunAt

LEMMA WorkerFacts ==
  ASSUME TypeOK
  PROVE  /\ workers \in Nat \ {0}
         /\ \A i \in Nat : i % workers \in Worker /\ i % workers < workers
         /\ \A w \in Worker : w \in Nat /\ pos[w] \in Nat /\ pc[w] \in Where
<1>1. workers \in Nat \ {0} /\ workers <= MaxWorkers /\ MaxWorkers \in Nat
  BY BoundAssumption DEF TypeOK
<1>2. \A i \in Nat : i % workers \in 0 .. workers - 1
  BY <1>1, OwnerInRange
<1>3. ASSUME NEW k \in 0 .. workers - 1
      PROVE  k \in Worker /\ k < workers
  BY <1>1 DEF Worker
<1>4. \A w \in Worker : w \in Nat /\ pos[w] \in Nat /\ pc[w] \in Where
  BY <1>1 DEF Worker, TypeOK
<1>5. QED
  BY <1>1, <1>2, <1>3, <1>4, Zenon

LEMMA RunOfFacts ==
  ASSUME TypeOK, NEW w \in Worker, Left(w)
  PROVE  pos[w] \in Index /\ RunOf(w) = RunAt(pos[w]) /\ RunOf(w) \in Run
<1>1. pos[w] \in Nat /\ Len(Order) \in Nat /\ pos[w] < Len(Order)
  BY WorkerFacts, OrderFacts DEF Left
<1>2. pos[w] \in Index
  BY <1>1 DEF Index
<1>3. RunOf(w) = RunAt(pos[w])
  BY DEF RunOf, RunAt
<1>4. QED
  BY <1>2, <1>3, OrderFacts

(* Workers that are not done are at different runs. *)
LEMMA RunsApart ==
  ASSUME TypeOK, Dealt, sweep = "on",
         NEW v \in Worker, Left(v), pc[v] # "ended",
         NEW w \in Worker, Left(w), pc[w] # "ended", RunOf(v) = RunOf(w)
  PROVE  v = w
<1>1. pos[v] = pos[w]
  BY RunOfFacts, OrderFacts
<1>2. v < workers /\ w < workers
  BY WorkerFacts DEF Dealt
<1>3. QED
  BY <1>1, <1>2 DEF Dealt

-----------------------------------------------------------------------------
(* What the steps of a worker leave as it was. *)

(* The other workers, when only the run of w is touched.                   *)
LEMMA OthersStay ==
  ASSUME IInv, sweep = "on", NEW w \in Worker, Left(w), pc[w] # "ended",
         \A v \in Worker \ {w} : pc'[v] = pc[v] /\ pos'[v] = pos[v],
         \A r \in Run \ {RunOf(w)} : dir'[r] = dir[r] /\ FilesOf(r)' = FilesOf(r)
  PROVE  \A v \in Worker \ {w} : Place(v)'
<1> SUFFICES ASSUME NEW v \in Worker \ {w}, pc[v] \notin {"look", "ended", "raised"}
             PROVE  Place(v)'
  BY DEF Place, Writing
<1>1. Left(v) /\ Place(v)
  BY DEF IInv, Dealt, Places
<1>2. RunOf(v) # RunOf(w)
  BY <1>1, RunsApart DEF IInv
<1>3. RunOf(v) \in Run /\ RunOf(v)' = RunOf(v)
  BY <1>1, RunOfFacts DEF IInv, RunOf
<1>4. dir'[RunOf(v)] = dir[RunOf(v)] /\ FilesOf(RunOf(v))' = FilesOf(RunOf(v))
  BY <1>2, <1>3
<1>5. QED
  BY <1>1, <1>3, <1>4 DEF Place

LEMMA DealtStays ==
  ASSUME IInv, NEW w \in Worker, NEW to \in Where, sweep = "on",
         pc[w] # "ended", pc' = [pc EXCEPT ![w] = to], UNCHANGED <<sweep, workers, pos>>,
         to = "ended" => ~Left(w),
         to \notin {"look", "ended", "raised"} => Left(w)
  PROVE  Dealt'
BY DEF IInv, TypeOK, Dealt, Left

LEMMA ListedStays ==
  ASSUME IInv, KeepsSummaries, UNCHANGED <<sweep, workers, pos, listed>>
  PROVE  Listed'
BY OrderFacts DEF IInv, Listed, KeepsSummaries

-----------------------------------------------------------------------------
(* The steps that touch no directory. *)

LEMMA DiskStays ==
  ASSUME UNCHANGED <<attempt, dir>>
  PROVE  /\ KeepsSummaries
         /\ \A r \in Run : dir'[r] = dir[r] /\ FilesOf(r)' = FilesOf(r)
BY DEF KeepsSummaries, Summarized, FilesOf

(* A worker that only moves on.                                            *)
LEMMA InvariantGoto ==
  ASSUME IInv, NEW w \in Worker, sweep = "on", pc[w] # "ended",
         NEW to \in {"ended", "raised", "failing"}, Goto(w, to),
         UNCHANGED <<sweep, workers, pos, disk, listed, kills>>,
         failures' \in 0 .. MaxFailures,
         to = "ended" => ~Left(w),
         to = "failing" => Left(w) /\ pc[w] \in Writing
  PROVE  IInv' /\ KeepsSummaries
<1>1. TypeOK'
  BY DEF IInv, TypeOK, Where, Writing, Goto, disk
<1>2. Directories'
  BY DEF IInv, Directories, AttemptsKept, disk
<1>3. Dealt'
  BY DealtStays DEF Goto, Where, Writing
<1>4. KeepsSummaries /\ Listed'
  BY DiskStays, ListedStays DEF disk
<1>5. \A v \in Worker : Place(v) => Place(v)'
  <2> SUFFICES ASSUME NEW v \in Worker, Place(v) PROVE Place(v)'
    OBVIOUS
  <2>1. RunOf(v)' = RunOf(v) /\ FilesOf(RunOf(v))' = FilesOf(RunOf(v)) /\ dir' = dir
    BY DEF RunOf, FilesOf, disk
  <2>2. pc'[v] = pc[v] \/ pc'[v] \in {"ended", "raised"}
          \/ (pc'[v] = "failing" /\ pc[v] \in Writing)
    BY DEF Goto, IInv, TypeOK
  <2>3. QED
    BY <2>1, <2>2 DEF Place, Writing
<1>6. Places'
  BY <1>5 DEF IInv, Places
<1>7. QED
  BY <1>1, <1>2, <1>3, <1>4, <1>6 DEF IInv

(* A worker that writes a row of the transcript about an attempt.          *)
LEMMA InvariantRow ==
  ASSUME IInv, NEW w \in Worker, sweep = "on",
         NEW n \in DOMAIN attempt, NEW status \in {"failed", "preserved"},
         transcript' = transcript \cup {[attempt |-> n, status |-> status]},
         \/ pc[w] = "logAside" /\ Goto(w, "begin")
         \/ pc[w] = "failing" /\ Goto(w, "raised"),
         UNCHANGED <<sweep, workers, pos, attempt, dir, aside, listed, bounds>>
  PROVE  IInv' /\ KeepsSummaries
<1>1. TypeOK'
  <2>1. pc' \in [Worker -> Where]
    BY DEF IInv, TypeOK, Where, Goto
  <2>2. [attempt |-> n, status |-> status] \in
          [attempt : DOMAIN attempt, status : {"completed", "failed", "preserved"}]
    OBVIOUS
  <2>3. QED
    BY <2>1, <2>2 DEF IInv, TypeOK, bounds
<1>2. Directories'
  BY DEF IInv, Directories, AttemptsKept
<1>3. Dealt'
  <2>1. pc[w] \notin {"look", "ended", "raised"} /\ Left(w)
    BY DEF IInv, Dealt
  <2>2. QED
    BY <2>1, DealtStays DEF Goto, Where
<1>4. KeepsSummaries /\ Listed'
  BY DiskStays, ListedStays
<1>5. \A v \in Worker : Place(v) => Place(v)'
  <2> SUFFICES ASSUME NEW v \in Worker, Place(v) PROVE Place(v)'
    OBVIOUS
  <2>1. RunOf(v)' = RunOf(v) /\ FilesOf(RunOf(v))' = FilesOf(RunOf(v)) /\ dir' = dir
    BY DEF RunOf, FilesOf
  <2>2. pc'[v] = pc[v] \/ pc'[v] = "raised" \/ (pc'[v] = "begin" /\ pc[v] = "logAside")
    BY DEF Goto, IInv, TypeOK
  <2>3. QED
    BY <2>1, <2>2 DEF Place, Writing
<1>6. Places'
  BY <1>5 DEF IInv, Places
<1>7. QED
  BY <1>1, <1>2, <1>3, <1>4, <1>6 DEF IInv

LEMMA InvariantLogAside ==
  ASSUME IInv, NEW w \in Worker, LogAside(w)
  PROVE  IInv' /\ KeepsSummaries
<1>1. PICK n \in aside :
        transcript' = transcript \cup {[attempt |-> n, status |-> "preserved"]}
  BY DEF LogAside
<1>2. n \in DOMAIN attempt
  BY DEF IInv, TypeOK
<1>3. /\ sweep = "on" /\ pc[w] = "logAside" /\ Goto(w, "begin")
      /\ UNCHANGED <<sweep, workers, pos, attempt, dir, aside, listed, bounds>>
  BY DEF LogAside, At
<1>4. QED
  BY <1>1, <1>2, <1>3, InvariantRow

(* The directory of the run a worker writes.                               *)
LEMMA OwnDirectory ==
  ASSUME IInv, NEW w \in Worker, sweep = "on", pc[w] \in Writing
  PROVE  /\ Left(w) /\ RunOf(w) \in Run
         /\ dir[RunOf(w)] \in DOMAIN attempt
         /\ attempt[dir[RunOf(w)]].run = RunOf(w)
         /\ FilesOf(RunOf(w)) = attempt[dir[RunOf(w)]].files
<1>1. Left(w) /\ Place(w)
  BY DEF IInv, Dealt, Places, Writing
<1>2. RunOf(w) \in Run
  BY <1>1, RunOfFacts DEF IInv
<1>3. dir[RunOf(w)] # 0
  BY <1>1 DEF Place
<1>4. dir[RunOf(w)] \in DOMAIN attempt
  BY <1>2, <1>3, LenProperties DEF IInv, TypeOK
<1>5. QED
  BY <1>1, <1>2, <1>3, <1>4 DEF IInv, Directories, FilesOf

LEMMA InvariantLogFailed ==
  ASSUME IInv, NEW w \in Worker, LogFailed(w)
  PROVE  IInv' /\ KeepsSummaries
<1>1. /\ sweep = "on" /\ pc[w] = "failing" /\ Goto(w, "raised")
      /\ transcript' = transcript
                         \cup {[attempt |-> dir[RunOf(w)], status |-> "failed"]}
      /\ UNCHANGED <<sweep, workers, pos, attempt, dir, aside, listed, bounds>>
  BY DEF LogFailed, At, Log
<1>2. dir[RunOf(w)] \in DOMAIN attempt
  BY <1>1, OwnDirectory DEF Writing
<1>3. QED
  BY <1>1, <1>2, InvariantRow

-----------------------------------------------------------------------------
(* The steps that change a directory. *)

LEMMA InvariantSetAside ==
  ASSUME IInv, NEW w \in Worker, SetAside(w)
  PROVE  IInv' /\ KeepsSummaries
<1> DEFINE r == RunOf(w)
<1>1. /\ sweep = "on" /\ pc[w] = "look" /\ Left(w) /\ ~Summarized(r)
      /\ dir[r] # 0
      /\ aside' = aside \cup {dir[r]} /\ dir' = [dir EXCEPT ![r] = 0]
      /\ pc' = [pc EXCEPT ![w] = "logAside"]
      /\ UNCHANGED <<sweep, workers, pos, attempt, transcript, listed, bounds>>
  BY DEF SetAside, At, Completed, FilesOf, Keep, Goto
<1>2. r \in Run
  BY <1>1, RunOfFacts DEF IInv
<1>3. dir[r] \in DOMAIN attempt /\ Len(attempt) \in Nat
  BY <1>1, <1>2, LenProperties DEF IInv, TypeOK
<1>4. TypeOK'
  <2>1. pc' \in [Worker -> Where]
    BY <1>1 DEF IInv, TypeOK, Where
  <2>2. dir' \in [Run -> 0 .. Len(attempt)]
    <3>1. dir \in [Run -> 0 .. Len(attempt)] /\ 0 \in 0 .. Len(attempt)
      BY <1>3 DEF IInv, TypeOK
    <3>2. dir' = [dir EXCEPT ![r] = 0]
      BY <1>1
    <3>3. QED
      BY <3>1, <3>2
  <2>3. aside' \subseteq DOMAIN attempt
    BY <1>1, <1>3 DEF IInv, TypeOK
  <2>4. TypeOK /\ UNCHANGED <<sweep, workers, pos, attempt, transcript, listed, kills, failures>>
    BY <1>1 DEF IInv, bounds
  <2>5. QED
    BY <2>1, <2>2, <2>3, <2>4 DEF TypeOK
<1>5. Directories'
  BY <1>1, <1>2, <1>3 DEF IInv, TypeOK, Directories, AttemptsKept
<1>6. Dealt'
  BY <1>1, DealtStays DEF Where
<1>7. \A s \in Run \ {r} : dir'[s] = dir[s] /\ FilesOf(s)' = FilesOf(s)
  BY <1>1 DEF IInv, TypeOK, FilesOf
<1>8. KeepsSummaries
  BY <1>1, <1>7 DEF KeepsSummaries, Summarized
<1>9. Listed'
  BY <1>1, <1>8, ListedStays
<1>10. Places'
  <2>1. \A v \in Worker \ {w} : Place(v)'
    BY <1>1, <1>7, OthersStay DEF IInv, TypeOK
  <2>2. Place(w)'
    BY <1>1, <1>2 DEF Place, RunOf, IInv, TypeOK, Writing
  <2>3. QED
    BY <2>1, <2>2 DEF Places
<1>11. QED
  BY <1>4, <1>5, <1>6, <1>8, <1>9, <1>10 DEF IInv

(* The run that a worker begins has no directory then. *)
LEMMA BeginsAfresh ==
  ASSUME IInv, NEW w \in Worker, Begin(w)
  PROVE  /\ sweep = "on" /\ pc[w] # "ended" /\ Left(w)
         /\ RunOf(w) \in Run /\ dir[RunOf(w)] = 0
<1>1. sweep = "on" /\ pc[w] # "ended" /\ Left(w)
  BY DEF Begin, At, IInv, Dealt
<1>2. RunOf(w) \in Run
  BY <1>1, RunOfFacts DEF IInv
<1>3. CASE pc[w] = "begin"
  BY <1>1, <1>2, <1>3 DEF IInv, Places, Place
<1>4. CASE FilesOf(RunOf(w)) = "none"
  <2>1. SUFFICES ASSUME dir[RunOf(w)] # 0 PROVE FALSE
    BY <1>1, <1>2
  <2>2. dir[RunOf(w)] \in 1 .. Len(attempt)
    BY <1>2, <2>1, LenProperties DEF IInv, TypeOK
  <2>3. attempt \in Seq([run : Run, files : Files])
    BY DEF IInv, TypeOK
  <2>4. attempt[dir[RunOf(w)]] \in [run : Run, files : Files]
    BY <2>2, <2>3, ElementOfSeq
  <2>5. QED
    BY <1>4, <2>1, <2>4 DEF FilesOf, Files
<1>5. QED
  BY <1>3, <1>4 DEF Begin, At

LEMMA InvariantBegin ==
  ASSUME IInv, NEW w \in Worker, Begin(w)
  PROVE  IInv' /\ KeepsSummaries
<1> DEFINE r == RunOf(w)
           new == [run |-> r, files |-> "begun"]
           S == [run : Run, files : Files]
<1>1. /\ sweep = "on" /\ pc[w] # "ended" /\ Left(w) /\ r \in Run /\ dir[r] = 0
  BY BeginsAfresh
<1>2. /\ attempt' = Append(attempt, new) /\ dir' = [dir EXCEPT ![r] = Len(attempt) + 1]
      /\ pc' = [pc EXCEPT ![w] = "simulate"]
      /\ UNCHANGED <<sweep, workers, pos, aside, transcript, listed, bounds>>
  BY DEF Begin, Goto
<1>3. /\ attempt \in Seq(S) /\ Len(attempt) \in Nat /\ DOMAIN attempt = 1 .. Len(attempt)
      /\ new \in S
  BY <1>1, LenProperties DEF IInv, TypeOK, Files
<1>4. /\ attempt' \in Seq(S) /\ Len(attempt') = Len(attempt) + 1
      /\ \A i \in 1 .. Len(attempt) : attempt'[i] = attempt[i]
      /\ attempt'[Len(attempt) + 1] = new
  BY <1>2, <1>3, AppendProperties
<1>5. DOMAIN attempt' = 1 .. Len(attempt) + 1
  BY <1>4, LenProperties
<1> HIDE DEF r, new, S
<1>6. dir \in [Run -> 0 .. Len(attempt)]
  BY DEF IInv, TypeOK
<1>7. TypeOK'
  <2>1. pc' \in [Worker -> Where]
    BY <1>2 DEF IInv, TypeOK, Where, Writing
  <2>2. dir' \in [Run -> 0 .. Len(attempt')]
    BY <1>1, <1>2, <1>3, <1>4, <1>6
  <2>3. DOMAIN attempt \subseteq DOMAIN attempt'
    BY <1>3, <1>5
  <2>4. aside \subseteq DOMAIN attempt'
    BY <2>3 DEF IInv, TypeOK
  <2>5. transcript \subseteq [attempt : DOMAIN attempt',
                              status : {"completed", "failed", "preserved"}]
    BY <2>3 DEF IInv, TypeOK
  <2>6. TypeOK /\ UNCHANGED <<sweep, workers, pos, aside, transcript, listed, kills, failures>>
    BY <1>2 DEF IInv, bounds
  <2>7. QED
    BY <1>4, <2>1, <2>2, <2>4, <2>5, <2>6 DEF TypeOK, S
<1>8. Directories'
  <2>1. \A s \in Run : dir'[s] # 0 => attempt'[dir'[s]].run = s
    BY <1>1, <1>2, <1>3, <1>4, <1>6 DEF IInv, Directories, new
  <2>2. ASSUME NEW n \in 1 .. Len(attempt)
        PROVE  n \in aside \/ dir'[attempt'[n].run] = n
    BY <1>1, <1>2, <1>3, <1>4, <1>6 DEF IInv, Directories, AttemptsKept
  <2>3. dir'[new.run] = Len(attempt) + 1
    BY <1>1, <1>2, <1>6 DEF new
  <2>4. ASSUME NEW n \in DOMAIN attempt'
        PROVE  n \in aside' \/ dir'[attempt'[n].run] = n
    <3>1. n \in 1 .. Len(attempt) \/ n = Len(attempt) + 1
      BY <1>3, <1>5
    <3>2. QED
      BY <1>2, <1>4, <2>2, <2>3, <3>1
  <2>5. QED
    BY <2>1, <2>4 DEF Directories, AttemptsKept
<1>9. Dealt'
  BY <1>1, <1>2, DealtStays DEF Where, Writing
<1>10. \A s \in Run \ {r} : dir'[s] = dir[s] /\ FilesOf(s)' = FilesOf(s)
  BY <1>2, <1>3, <1>4, <1>6 DEF FilesOf
<1>11. KeepsSummaries
  BY <1>1, <1>10 DEF KeepsSummaries, Summarized, FilesOf
<1>12. Listed'
  BY <1>2, <1>11, ListedStays
<1>13. Places'
  <2>1. \A v \in Worker \ {w} : Place(v)'
    BY <1>1, <1>2, <1>10, OthersStay DEF IInv, TypeOK, r
  <2>2. /\ pc'[w] = "simulate" /\ RunOf(w)' = r
        /\ dir'[r] = Len(attempt) + 1 /\ attempt'[dir'[r]].files = "begun"
    BY <1>1, <1>2, <1>4, <1>6 DEF IInv, TypeOK, RunOf, r, new
  <2>3. Place(w)'
    BY <1>3, <2>2 DEF Place, FilesOf
  <2>4. QED
    BY <2>1, <2>3 DEF Places
<1>14. QED
  BY <1>7, <1>8, <1>9, <1>11, <1>12, <1>13 DEF IInv

(* A worker writes a file of its own attempt, which has no summary yet or  *)
(* keeps it.                                                               *)
LEMMA InvariantWrite ==
  ASSUME IInv, NEW w \in Worker,
         NEW from \in Writing, NEW files \in Files, NEW to \in Writing,
         Write(w, from, files, to),
         \/ from = "simulate" /\ files = "torn" /\ to = "summary"
         \/ from = "summary" /\ files = "summary" /\ to = "extras"
         \/ from = "extras" /\ files = "full" /\ to = "row"
  PROVE  IInv' /\ KeepsSummaries
<1> DEFINE r == RunOf(w)
           k == dir[r]
           S == [run : Run, files : Files]
<1>1. /\ sweep = "on" /\ pc[w] = from
      /\ attempt' = [attempt EXCEPT ![k] = [attempt[k] EXCEPT !.files = files]]
      /\ pc' = [pc EXCEPT ![w] = to]
      /\ UNCHANGED <<sweep, workers, pos, dir, aside, transcript, listed, bounds>>
  BY DEF Write, At, Goto
<1>2. /\ Left(w) /\ r \in Run /\ k \in DOMAIN attempt
      /\ attempt[k].run = r /\ FilesOf(r) = attempt[k].files
  BY <1>1, OwnDirectory
<1>3. /\ attempt \in Seq(S) /\ DOMAIN attempt = 1 .. Len(attempt)
  BY LenProperties DEF IInv, TypeOK
<1>4. attempt[k] \in S
  BY <1>2, <1>3, ElementOfSeq
<1>5. [attempt[k] EXCEPT !.files = files] \in S
  BY <1>4
<1>6. /\ attempt' \in Seq(S) /\ Len(attempt') = Len(attempt)
      /\ \A i \in DOMAIN attempt :
           attempt'[i] = IF i = k THEN [attempt[k] EXCEPT !.files = files] ELSE attempt[i]
  BY <1>1, <1>2, <1>3, <1>5, ExceptSeq
<1>7. /\ DOMAIN attempt' = DOMAIN attempt
      /\ \A i \in DOMAIN attempt : /\ attempt'[i].run = attempt[i].run
                                   /\ i # k => attempt'[i] = attempt[i]
      /\ attempt'[k].files = files
  BY <1>2, <1>3, <1>4, <1>6, LenProperties
<1> HIDE DEF r, k, S
<1>8. dir \in [Run -> 0 .. Len(attempt)] /\ Len(attempt) \in Nat
  BY <1>3, LenProperties DEF IInv, TypeOK
<1>9. TypeOK'
  <2>1. pc' \in [Worker -> Where]
    BY <1>1 DEF IInv, TypeOK, Where
  <2>2. TypeOK /\ UNCHANGED <<sweep, workers, pos, dir, aside, transcript, listed, kills, failures>>
    BY <1>1 DEF IInv, bounds
  <2>3. QED
    BY <1>6, <1>7, <2>1, <2>2 DEF TypeOK, S
<1>10. Directories'
  BY <1>1, <1>3, <1>7, <1>8 DEF IInv, Directories, AttemptsKept
<1>11. Dealt'
  BY <1>1, <1>2, DealtStays DEF Where, Writing
<1>12. \A s \in Run \ {r} : dir'[s] = dir[s] /\ FilesOf(s)' = FilesOf(s)
  <2> SUFFICES ASSUME NEW s \in Run \ {r}
               PROVE  dir'[s] = dir[s] /\ FilesOf(s)' = FilesOf(s)
    OBVIOUS
  <2>1. CASE dir[s] = 0
    BY <1>1, <2>1 DEF FilesOf
  <2>2. CASE dir[s] # 0
    <3>1. dir[s] \in DOMAIN attempt /\ attempt[dir[s]].run = s
      BY <1>3, <1>8, <2>2 DEF IInv, Directories
    <3>2. dir[s] # k
      BY <1>2, <3>1
    <3>3. QED
      BY <1>1, <1>7, <3>1, <3>2 DEF FilesOf
  <2>3. QED
    BY <2>1, <2>2
<1>13. \A s \in Run : s = r => FilesOf(s)' = files /\ dir'[s] = dir[s] /\ dir[s] # 0
  BY <1>1, <1>2, <1>3, <1>7 DEF FilesOf, k
<1>14. Place(w)
  BY <1>1 DEF IInv, Places
<1>15. KeepsSummaries
  <2>1. \A s \in Run : s = r /\ Summarized(s) => Summarized(s)'
    BY <1>1, <1>13, <1>14 DEF Place, Summarized, r
  <2>2. QED
    BY <1>12, <1>13, <2>1 DEF KeepsSummaries, Summarized
<1>16. Listed'
  BY <1>1, <1>15, ListedStays
<1>17. Places'
  <2>1. \A v \in Worker \ {w} : Place(v)'
    BY <1>1, <1>2, <1>12, OthersStay DEF IInv, TypeOK, r, Writing
  <2>2. pc'[w] = to /\ RunOf(w)' = r
    BY <1>1 DEF IInv, TypeOK, RunOf, r
  <2>3. Place(w)'
    BY <1>2, <1>13, <2>2 DEF Place, Writing, FilesOf
  <2>4. QED
    BY <2>1, <2>3 DEF Places
<1>18. QED
  BY <1>9, <1>10, <1>11, <1>15, <1>16, <1>17 DEF IInv

-----------------------------------------------------------------------------
(* A worker that lists its run and takes the next one. *)

LEMMA InvariantPass ==
  ASSUME IInv, NEW w \in Worker, sweep = "on", Left(w), pc[w] \in {"look", "row"},
         Summarized(RunOf(w)), List(w), Advance(w), pc' = [pc EXCEPT ![w] = "look"],
         transcript' \subseteq [attempt : DOMAIN attempt,
                                status : {"completed", "failed", "preserved"}],
         UNCHANGED <<sweep, workers, attempt, dir, aside, bounds>>
  PROVE  IInv' /\ KeepsSummaries
<1> DEFINE r == RunOf(w)
           n == workers
<1>1. /\ pos[w] \in Index /\ r = RunAt(pos[w]) /\ r \in Run
      /\ n \in Nat \ {0} /\ pos[w] \in Nat /\ w < n /\ w \in Nat
      /\ pos[w] % n = w
  BY RunOfFacts, WorkerFacts DEF IInv, Dealt
<1>2. /\ pos \in [Worker -> Nat] /\ pos' = [pos EXCEPT ![w] = pos[w] + n]
      /\ listed \in [Run -> Nat] /\ listed' = [listed EXCEPT ![r] = listed[r] + 1]
      /\ n' = n
  BY DEF IInv, TypeOK, Advance, Share, List
<1> HIDE DEF r, n
<1>3. TypeOK'
  <2>1. pc' \in [Worker -> Where]
    BY DEF IInv, TypeOK, Where
  <2>2. pos' \in [Worker -> Nat]
    BY <1>1, <1>2
  <2>3. listed' \in [Run -> Nat]
    BY <1>1, <1>2
  <2>4. QED
    BY <2>1, <2>2, <2>3 DEF IInv, TypeOK, bounds
<1>4. Directories'
  BY DEF IInv, Directories, AttemptsKept
<1>5. KeepsSummaries
  BY DiskStays
<1>6. pos'[w] % n = w
  BY <1>1, <1>2, OwnerNext
<1>7. \A v \in Worker \ {w} : pos'[v] = pos[v] /\ pc'[v] = pc[v]
  BY <1>2 DEF IInv, TypeOK
<1>8. pc'[w] = "look"
  BY DEF IInv, TypeOK
<1>9. Dealt'
  <2>1. \A v \in Worker : v < n => pos'[v] % n = v
    BY <1>6, <1>7 DEF IInv, Dealt, n
  <2>2. \A v \in Worker : v >= n => pc'[v] = "ended"
    BY <1>1, <1>7, WorkerFacts DEF IInv, Dealt, n
  <2>3. QED
    BY <1>2, <1>7, <1>8, <2>1, <2>2 DEF IInv, Dealt, Left, n
<1>10. Places'
  <2>1. \A v \in Worker \ {w} : Place(v)'
    BY <1>7, OthersStay, DiskStays
  <2>2. Place(w)'
    BY <1>8 DEF Place, Writing
  <2>3. QED
    BY <2>1, <2>2 DEF Places
<1>11. Listed'
  <2> SUFFICES ASSUME NEW i \in Index
               PROVE  /\ listed'[RunAt(i)] = IF i < pos'[i % n] THEN 1 ELSE 0
                      /\ i < pos'[i % n] => Summarized(RunAt(i))
    BY <1>2, <1>5, OrderFacts DEF Listed, KeepsSummaries, n
  <2>1. /\ listed[RunAt(i)] = IF i < pos[i % n] THEN 1 ELSE 0
        /\ i < pos[i % n] => Summarized(RunAt(i))
    BY DEF IInv, Listed, n
  <2>2. i \in Nat /\ RunAt(i) \in Run /\ (RunAt(i) = r => i = pos[w])
    BY <1>1, OrderFacts DEF Index
  <2>3. i % n \in Worker
    BY <2>2, WorkerFacts DEF IInv, n
  <2>4. CASE i = pos[w]
    <3>1. listed[r] = 0 /\ RunAt(i) = r
      BY <1>1, <2>1, <2>4
    <3>2. listed'[r] = 1 /\ i < pos'[w]
      BY <1>1, <1>2, <2>4, <3>1
    <3>3. QED
      BY <1>1, <2>4, <3>1, <3>2 DEF r
  <2>5. CASE i # pos[w] /\ i % n = w
    <3>1. listed'[RunAt(i)] = listed[RunAt(i)]
      BY <1>2, <2>2, <2>5
    <3>2. i < pos[w] + n => i < pos[w]
      BY <1>1, <2>2, <2>5, OwnerApart
    <3>3. i < pos'[w] <=> i < pos[w]
      BY <1>1, <1>2, <2>2, <3>2
    <3>4. QED
      BY <2>1, <2>5, <3>1, <3>3
  <2>6. CASE i # pos[w] /\ i % n # w
    <3>1. listed'[RunAt(i)] = listed[RunAt(i)]
      BY <1>2, <2>2, <2>6
    <3>2. pos'[i % n] = pos[i % n]
      BY <1>7, <2>3, <2>6
    <3>3. QED
      BY <2>1, <3>1, <3>2
  <2>7. QED
    BY <2>4, <2>5, <2>6
<1>12. QED
  BY <1>3, <1>4, <1>5, <1>9, <1>10, <1>11 DEF IInv

LEMMA InvariantSkip ==
  ASSUME IInv, NEW w \in Worker, Skip(w)
  PROVE  IInv' /\ KeepsSummaries
<1>1. /\ sweep = "on" /\ Left(w) /\ pc[w] = "look" /\ Summarized(RunOf(w))
      /\ List(w) /\ Advance(w)
      /\ UNCHANGED <<sweep, workers, pc, disk, bounds>>
  BY DEF Skip, At, Completed
<1>2. pc' = [pc EXCEPT ![w] = "look"]
  BY <1>1 DEF IInv, TypeOK
<1>3. transcript' \subseteq [attempt : DOMAIN attempt,
                             status : {"completed", "failed", "preserved"}]
  BY <1>1 DEF IInv, TypeOK, disk
<1>4. QED
  BY <1>1, <1>2, <1>3, InvariantPass DEF disk

LEMMA InvariantLogCompleted ==
  ASSUME IInv, NEW w \in Worker, LogCompleted(w)
  PROVE  IInv' /\ KeepsSummaries
<1>1. /\ sweep = "on" /\ pc[w] = "row" /\ Log(w, "completed") /\ List(w) /\ Advance(w)
      /\ pc' = [pc EXCEPT ![w] = "look"]
      /\ UNCHANGED <<sweep, workers, attempt, dir, aside, bounds>>
  BY DEF LogCompleted, At, Goto
<1>2. Left(w) /\ dir[RunOf(w)] \in DOMAIN attempt
  BY <1>1, OwnDirectory DEF Writing
<1>3. Summarized(RunOf(w))
  BY <1>1 DEF IInv, Places, Place, Summarized
<1>4. transcript' \subseteq [attempt : DOMAIN attempt,
                             status : {"completed", "failed", "preserved"}]
  BY <1>1, <1>2 DEF Log, IInv, TypeOK
<1>5. QED
  BY <1>1, <1>2, <1>3, <1>4, InvariantPass

-----------------------------------------------------------------------------
(* The parent, and all steps together. *)

LEMMA InvariantLaunch ==
  ASSUME IInv, NEW n \in 1 .. MaxWorkers, Launch(n)
  PROVE  IInv' /\ KeepsSummaries
<1>1. /\ workers' = n /\ n \in Nat \ {0} /\ pos' = [w \in Worker |-> w]
      /\ pc' = [w \in Worker |-> IF w < n THEN "look" ELSE "ended"]
      /\ listed' = [r \in Run |-> 0] /\ sweep' = "on"
      /\ UNCHANGED <<attempt, dir, aside, transcript, kills, failures>>
  BY BoundAssumption DEF Launch, disk, bounds
<1>2. \A w \in Worker : w \in Nat
  BY BoundAssumption DEF Worker
<1>3. TypeOK'
  BY <1>1, <1>2 DEF IInv, TypeOK, Where
<1>4. Directories' /\ KeepsSummaries
  BY <1>1, DiskStays DEF IInv, Directories, AttemptsKept
<1>5. Places'
  BY <1>1 DEF Places, Place, Writing
<1>6. Dealt'
  <2>1. \A w \in Worker : w < n => w % n = w
    BY <1>1, <1>2, OwnerFirst
  <2>2. QED
    BY <1>1, <1>2, <2>1 DEF Dealt
<1>7. Listed'
  <2> SUFFICES ASSUME NEW i \in Index
               PROVE  listed'[RunAt(i)] = 0 /\ ~(i < pos'[i % n])
    BY <1>1 DEF Listed
  <2>1. i \in Nat /\ RunAt(i) \in Run
    BY OrderFacts DEF Index
  <2>2. i % n \in Worker /\ i % n <= i
    <3>1. i % n \in 0 .. n - 1
      BY <1>1, <2>1, OwnerInRange
    <3>2. i = n * (i \div n) + (i % n) /\ i \div n \in Nat
      BY <1>1, <2>1, SMT
    <3>3. i % n <= i
      BY <1>1, <2>1, <3>1, <3>2, SMT
    <3>4. QED
      BY <3>1, <3>3, BoundAssumption DEF Worker
  <2>3. pos'[i % n] = i % n
    BY <1>1, <2>2
  <2>4. QED
    BY <1>1, <1>2, <2>1, <2>2, <2>3
<1>8. QED
  BY <1>3, <1>4, <1>5, <1>6, <1>7 DEF IInv

LEMMA InvariantReturn ==
  ASSUME IInv, Return
  PROVE  IInv' /\ KeepsSummaries
<1>1. /\ \A w \in Worker : pc[w] \in {"ended", "raised"}
      /\ sweep = "on" /\ sweep' \in {"raised", "returned"}
      /\ sweep' = "returned" => \A w \in Worker : pc[w] # "raised"
      /\ UNCHANGED <<workers, pos, pc, disk, listed, bounds>>
  BY DEF Return, Finished
<1>2. TypeOK' /\ Directories'
  BY <1>1 DEF IInv, TypeOK, Directories, AttemptsKept, disk, bounds
<1>3. KeepsSummaries
  BY <1>1, DiskStays DEF disk
<1>4. Dealt'
  BY <1>1 DEF IInv, Dealt, Left
<1>5. Places'
  BY <1>1 DEF Places
<1>6. Listed'
  BY <1>1 DEF IInv, Listed, Summarized, FilesOf, disk
<1>7. QED
  BY <1>2, <1>3, <1>4, <1>5, <1>6 DEF IInv

LEMMA InvariantKill ==
  ASSUME IInv, Kill
  PROVE  IInv' /\ KeepsSummaries
<1>1. /\ sweep' = "off" /\ kills < MaxKills /\ kills' = kills + 1
      /\ UNCHANGED <<workers, pos, pc, disk, listed, failures>>
  BY DEF Kill
<1>2. TypeOK' /\ Directories'
  BY <1>1, BoundAssumption DEF IInv, TypeOK, Directories, AttemptsKept, disk
<1>3. KeepsSummaries
  BY <1>1, DiskStays DEF disk
<1>4. Dealt' /\ Places' /\ Listed'
  BY <1>1 DEF Dealt, Places, Listed
<1>5. QED
  BY <1>2, <1>3, <1>4 DEF IInv

LEMMA InvariantStep ==
  ASSUME IInv, NEW w \in Worker, Step(w)
  PROVE  IInv' /\ KeepsSummaries
<1>1. CASE NoneLeft(w)
  BY <1>1, InvariantGoto DEF NoneLeft, At, IInv, TypeOK, bounds
<1>2. CASE ReadTorn(w)
  BY <1>2, InvariantGoto DEF ReadTorn, At, IInv, TypeOK, bounds
<1>3. CASE Fail(w)
  <2>1. sweep = "on" /\ pc[w] \in Writing /\ pc[w] # "ended"
    BY <1>3 DEF Fail, At, Writing
  <2>2. Left(w)
    BY <2>1, OwnDirectory
  <2>3. failures' \in 0 .. MaxFailures
    BY <1>3, BoundAssumption DEF Fail, IInv, TypeOK
  <2>4. QED
    BY <1>3, <2>1, <2>2, <2>3, InvariantGoto DEF Fail
<1>4. CASE OpenSummary(w) \/ WriteSummary(w) \/ WriteExtras(w)
  BY <1>4, InvariantWrite DEF OpenSummary, WriteSummary, WriteExtras, Writing, Files
<1>5. QED
  BY <1>1, <1>2, <1>3, <1>4, InvariantSkip, InvariantSetAside, InvariantLogAside,
     InvariantBegin, InvariantLogFailed, InvariantLogCompleted DEF Step

LEMMA InvariantNext ==
  ASSUME IInv, [Next]_vars
  PROVE  IInv' /\ KeepsSummaries
<1>1. CASE UNCHANGED vars
  <2>1. UNCHANGED <<sweep, workers, pos, pc, attempt, dir, aside, transcript,
                    listed, kills, failures>>
    BY <1>1 DEF vars, disk, bounds
  <2>2. TypeOK' /\ Directories' /\ Dealt' /\ Listed'
    BY <2>1 DEF IInv, TypeOK, Directories, AttemptsKept, Dealt, Left, Listed,
                Summarized, FilesOf
  <2>3. Places'
    BY <2>1 DEF IInv, Places, Place, FilesOf, RunOf
  <2>4. QED
    BY <2>1, <2>2, <2>3, DiskStays DEF IInv
<1>2. QED
  BY <1>1, InvariantLaunch, InvariantReturn, InvariantKill, InvariantStep DEF Next

LEMMA InvariantInit == Init => IInv
<1> SUFFICES ASSUME Init PROVE IInv
  OBVIOUS
<1>1. TypeOK
  <2>1. <<>> \in Seq([run : Run, files : Files]) /\ Len(<<>>) = 0
    BY EmptySeq
  <2>2. QED
    BY <2>1, BoundAssumption DEF Init, TypeOK, Where
<1>2. Directories
  BY DEF Init, Directories, AttemptsKept
<1>3. Dealt /\ Places /\ Listed
  BY DEF Init, Dealt, Places, Listed
<1>4. QED
  BY <1>1, <1>2, <1>3 DEF IInv

LEMMA Invariance == Spec => []IInv
<1>1. IInv /\ [Next]_vars => IInv'
  BY InvariantNext
<1>2. QED
  BY InvariantInit, <1>1, PTL DEF Spec

-----------------------------------------------------------------------------
(* The theorems. *)

(* Type correctness, for any list of runs and any sequence of sweeps, kills*)
(* and failures (orchestration.py run_matrix, _run_ordered).               *)
THEOREM OrchestrationTypeCorrect == Spec => []TypeOK
<1>1. IInv => TypeOK
  BY DEF IInv
<1>2. QED
  BY <1>1, Invariance, PTL

(* The shares ordered[w::workers] of a sweep are disjoint whatever their   *)
(* number and length, so no two workers are ever at one run.               *)
THEOREM SharesAreDisjoint == Spec => []OneWorkerPerRun
<1>1. IInv => OneWorkerPerRun
  BY RunsApart DEF IInv, OneWorkerPerRun, Busy
<1>2. QED
  BY <1>1, Invariance, PTL

(* Every attempt ever begun is in the directory of its run or was renamed: *)
(* no later one writes over it.                                            *)
THEOREM AttemptsAreKept == Spec => []AttemptsKept
<1>1. IInv => AttemptsKept
  BY DEF IInv, Directories
<1>2. QED
  BY <1>1, Invariance, PTL

(* A sweep that returns lists every run exactly once, with its summary.    *)
THEOREM SweepsAreComplete == Spec => []ReturnsEveryRun
<1>1. IInv => ReturnsEveryRun
  <2> SUFFICES ASSUME IInv, sweep = "returned", NEW r \in Run
               PROVE  listed[r] = 1 /\ Summarized(r)
    BY DEF ReturnsEveryRun
  <2>1. PICK i \in Index : r = RunAt(i)
    BY OrderFacts
  <2>2. i \in Nat /\ i < Len(Order) /\ Len(Order) \in Nat
    BY OrderFacts DEF Index
  <2>3. i % workers \in Worker /\ i % workers < workers /\ pos[i % workers] \in Nat
    BY <2>2, WorkerFacts DEF IInv
  <2>4. ~Left(i % workers)
    BY <2>3 DEF IInv, Dealt
  <2>5. i < pos[i % workers]
    BY <2>2, <2>3, <2>4 DEF Left
  <2>6. QED
    BY <2>1, <2>5 DEF IInv, Listed
<1>2. QED
  BY <1>1, Invariance, PTL

(* No step of any sweep takes the summary from a completed run or moves    *)
(* its directory.                                                          *)
THEOREM CompletedRunsStay == Spec => CompletedStays
<1>1. IInv /\ [Next]_vars =>
        [\A r \in Run : Summarized(r) => Summarized(r)' /\ dir'[r] = dir[r]]_vars
  BY InvariantNext DEF KeepsSummaries
<1>2. QED
  BY <1>1, Invariance, PTL DEF Spec, CompletedStays
=============================================================================
