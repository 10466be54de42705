------------------------------ MODULE SpendCap ------------------------------
(***************************************************************************)
(* What the budget ledger promises to whoever pays for the language model, *)
(* with no process, thread, lock or file in sight.  A call is committed at *)
(* its worst-case price before it is made, later it is paid at the price   *)
(* the provider charged, and at no time may the calls or the dollars       *)
(* committed and paid exceed a ceiling.                                    *)
(*                                                                         *)
(* Ceilings are kept per view: one view for each phase of the experiment,  *)
(* and the view All of the whole ledger.                                   *)
(***************************************************************************)
EXTENDS Naturals

CONSTANTS
  Phase,      \* phases of the experiment that may make live calls
  All,        \* the view that takes every call together
  CallLimit,  \* view -> ceiling on calls, for the views that have one
  CostLimit,  \* view -> ceiling on cost, in units of cost
  WorstCost   \* the worst-case costs a call may be committed at

View == Phase \cup {All}

(* The views a call of phase p belongs to. *)
ViewsOf(p) == {p, All}

VARIABLES
  calls,      \* view -> number of calls committed so far
  exposure    \* view -> cost paid so far plus the worst case of the calls open

capVars == <<calls, exposure>>

CapInit ==
  /\ calls = [v \in View |-> 0]
  /\ exposure = [v \in View |-> 0]

(* A call of phase p is committed at its worst-case cost w. *)
Commit(p, w) ==
  /\ \A v \in ViewsOf(p) :
       /\ v \in DOMAIN CallLimit => calls[v] < CallLimit[v]
       /\ exposure[v] + w <= CostLimit[v]
  /\ calls' = [v \in View |-> IF v \in ViewsOf(p) THEN calls[v] + 1
                                                  ELSE calls[v]]
  /\ exposure' = [v \in View |-> IF v \in ViewsOf(p) THEN exposure[v] + w
                                                     ELSE exposure[v]]

(* A call of phase p committed at w turns out to cost c: the rest of the   *)
(* commitment becomes available again.                                     *)
Pay(p, w, c) ==
  /\ c <= w
  /\ \A v \in ViewsOf(p) : exposure[v] >= w
  /\ exposure' = [v \in View |-> IF v \in ViewsOf(p) THEN exposure[v] - w + c
                                                     ELSE exposure[v]]
  /\ UNCHANGED calls

CapNext ==
  \E p \in Phase, w \in WorstCost :
    \/ Commit(p, w)
    \/ \E c \in 0 .. w : Pay(p, w, c)

CapSpec == CapInit /\ [][CapNext]_capVars

(* No ceiling is ever exceeded. *)
WithinCaps ==
  \A v \in View :
    /\ v \in DOMAIN CallLimit => calls[v] <= CallLimit[v]
    /\ exposure[v] <= CostLimit[v]
=============================================================================
