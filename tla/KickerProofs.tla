---------------------------- MODULE KickerProofs ----------------------------
(* Proofs about Kicker, for any number of callers and kicking goroutines.  *)
EXTENDS Kicker, TLAPS

(* NoLostWakeup is not inductive by itself: that a caller parks only while *)
(* the flag is down needs the mutex and what the caller saw under it.      *)
IInv == TypeOK /\ MutualExclusion /\ FlagSeen /\ NoLostWakeup

LEMMA InitInv == Init => IInv
BY KickerAssumption
   DEF Init, IInv, TypeOK, MutualExclusion, FlagSeen, NoLostWakeup, InSection,
       Proc, Kickers, WaiterPc, KickerPc

LEMMA NextInv ==
    ASSUME IInv, [Next]_vars
    PROVE  IInv'
<1> USE DEF IInv, TypeOK, MutualExclusion, FlagSeen, NoLostWakeup, InSection, Goto,
            Proc, Kickers, WaiterPc, KickerPc
<1>1. CASE UNCHANGED vars
  BY <1>1 DEF vars
<1>2. ASSUME NEW w \in Waiter, Call(w) PROVE IInv'
  BY <1>2, KickerAssumption DEF Call
<1>3. ASSUME NEW w \in Waiter, Acquire(w, "check") PROVE IInv'
  BY <1>3, KickerAssumption DEF Acquire
<1>4. ASSUME NEW w \in Waiter, Check(w) PROVE IInv'
  BY <1>4, KickerAssumption DEF Check
<1>5. ASSUME NEW w \in Waiter, Park(w) PROVE IInv'
  BY <1>5, KickerAssumption DEF Park
<1>6. ASSUME NEW w \in Waiter, Release(w, "release", "parked") PROVE IInv'
  BY <1>6, KickerAssumption DEF Release
<1>7. ASSUME NEW w \in Waiter, Wake(w) PROVE IInv'
  BY <1>7, KickerAssumption DEF Wake
<1>8. ASSUME NEW w \in Waiter, Release(w, "unlock", "select") PROVE IInv'
  BY <1>8, KickerAssumption DEF Release
<1>9. ASSUME NEW w \in Waiter, Select(w) PROVE IInv'
  BY <1>9, KickerAssumption DEF Select
<1>10. ASSUME NEW k \in Kickers, Acquire(k, "set") PROVE IInv'
  BY <1>10, KickerAssumption DEF Acquire
<1>11. ASSUME NEW k \in Kickers, SetKicked(k) PROVE IInv'
  BY <1>11, KickerAssumption DEF SetKicked
<1>12. ASSUME NEW k \in Kickers, Broadcast(k) PROVE IInv'
  BY <1>12, KickerAssumption DEF Broadcast
<1>13. ASSUME NEW k \in Kickers, NEW l \in {"end", "idle"}, Release(k, "unlock", l) PROVE IInv'
  BY <1>13, KickerAssumption DEF Release
<1>14. ASSUME NEW h \in Handler, BeginKick(h) PROVE IInv'
  BY <1>14, KickerAssumption DEF BeginKick
<1>15. CASE Watch
  BY <1>15, KickerAssumption DEF Watch
<1>16. CASE Cancel
  BY <1>16 DEF Cancel
<1> QED BY <1>1, <1>2, <1>3, <1>4, <1>5, <1>6, <1>7, <1>8, <1>9, <1>10, <1>11, <1>12,
           <1>13, <1>14, <1>15, <1>16
        DEF Next, WaiterStep, KickStep

(* The inductive invariant holds in every state. *)
THEOREM Invariance == Spec => []IInv
BY InitInv, NextInv, PTL DEF Spec

(* The types, and that whoever is on the notify list is on its way into or *)
(* in c.Wait(), for any number of goroutines.                              *)
THEOREM KickerTypes == Spec => []TypeOK
BY Invariance, PTL DEF IInv

(* No kick is lost, for any number of goroutines. *)
THEOREM WakeupKept == Spec => []NoLostWakeup
BY Invariance, PTL DEF IInv

-----------------------------------------------------------------------------
(* The kicker refines the latch, step by step. *)

LEMMA InitRefines == Init => Abstract!LInit
BY KickerAssumption DEF Init, Abstract!LInit, Proc

LEMMA StepRefines ==
    ASSUME IInv, [Next]_vars
    PROVE  [Abstract!LNext]_(Abstract!latchVars)
<1> DEFINE call == [w \in Waiter |-> IF pc[w] = "out" THEN ret[w] ELSE "in"]
<1> USE DEF IInv, TypeOK, FlagSeen, Goto, Proc, Kickers, Abstract!latchVars
<1>0. ASSUME UNCHANGED <<kicked, ctxDone, ret>>, NEW q \in Proc, NEW l,
             pc' = [pc EXCEPT ![q] = l], q \in Waiter => pc[q] # "out" /\ l # "out"
      PROVE  UNCHANGED Abstract!latchVars
  <2>1. call' = call
    BY <1>0
  <2> QED BY <1>0, <2>1
<1>1. CASE UNCHANGED vars
  <2>1. call' = call
    BY <1>1 DEF vars
  <2> QED BY <1>1, <2>1 DEF vars
<1>2. ASSUME NEW w \in Waiter, Call(w) PROVE Abstract!LCall(w)
  <2>1. call[w] # "in"
    BY <1>2 DEF Call
  <2>2. call' = [call EXCEPT ![w] = "in"]
    BY <1>2 DEF Call
  <2> QED BY <1>2, <2>1, <2>2 DEF Call, Abstract!LCall
<1>3. ASSUME NEW w \in Waiter, Select(w) PROVE Abstract!LReturn(w)
  <2>1. call[w] = "in" /\ kicked
    BY <1>3 DEF Select
  <2>2. call' = [call EXCEPT ![w] = IF ctxDone THEN "false" ELSE "true"]
    BY <1>3 DEF Select
  <2> QED BY <1>3, <2>1, <2>2 DEF Select, Abstract!LReturn
<1>4. ASSUME NEW w \in Waiter,
             \/ Acquire(w, "check") \/ Check(w) \/ Park(w) \/ Wake(w)
             \/ Release(w, "release", "parked") \/ Release(w, "unlock", "select")
      PROVE  UNCHANGED Abstract!latchVars
  BY <1>0, <1>4 DEF Acquire, Check, Park, Wake, Release
<1>5. ASSUME NEW k \in Kickers, SetKicked(k) PROVE Abstract!LKick
  <2>1. call' = call
    BY <1>5, KickerAssumption DEF SetKicked
  <2> QED BY <1>5, <2>1 DEF SetKicked, Abstract!LKick
<1>6. ASSUME NEW k \in Kickers, NEW l, 
             Acquire(k, "set") \/ Broadcast(k) \/ Release(k, "unlock", l)
      PROVE  UNCHANGED Abstract!latchVars
  BY <1>0, <1>6, KickerAssumption DEF Acquire, Broadcast, Release
<1>7. ASSUME NEW h \in Handler, BeginKick(h) PROVE UNCHANGED Abstract!latchVars
  BY <1>0, <1>7, KickerAssumption DEF BeginKick
<1>8. CASE Watch
  BY <1>0, <1>8, KickerAssumption DEF Watch
<1>9. CASE Cancel
  <2>1. call' = call
    BY <1>9 DEF Cancel
  <2> QED BY <1>9, <2>1 DEF Cancel, Abstract!LNext, Abstract!LCancel
<1> QED BY <1>1, <1>2, <1>3, <1>4, <1>5, <1>6, <1>7, <1>8, <1>9, Zenon
        DEF Next, WaiterStep, KickStep, Abstract!LNext

(* Every step of the kicker is a step of the latch or invisible to its     *)
(* callers: Kicked() answers as the latch does, whatever the interleaving. *)
THEOREM RefinesLatch == Spec => LatchSafety
BY InitRefines, StepRefines, Invariance, PTL DEF Spec, LatchSafety
=============================================================================
