----------------------------- MODULE PushProofs -----------------------------
(***************************************************************************)
(* For any number of concurrent pushes of an image: pushJobs never offers  *)
(* the tracker of a push that is over.                                     *)
(*                                                                         *)
(* Unregister does not look whose entry it deletes.  NoStaleJob holds all  *)
(* the same because an entry is only ever lost too early, never kept too   *)
(* long: whatever it names is in its PushImage, and that it has a tracker  *)
(* is what makes the channel that a handler takes from it a real one.      *)
(***************************************************************************)
EXTENDS Push, TLAPS

(* NewTracker has started the goroutine of a push that is being made. *)
HasTracker == \A q \in Push : rpc[q] = "push" => tracker[q] # "off"

IInv ==
    /\ TypeOK
    /\ HasTracker
    /\ NoStaleJob

(* Nothing is pushed and pushJobs is empty. *)
LEMMA InitIInv == Init => IInv
  BY PushAssumption DEF Init, IInv, TypeOK, HasTracker, NoStaleJob

(* Every step of the commands, handlers and tracker goroutines keeps IInv. *)
LEMMA StepIInv ==
    ASSUME IInv, [Next]_vars
    PROVE  IInv'
<1> USE PushAssumption DEF IInv, TypeOK, HasTracker, NoStaleJob
<1>1. CASE UNCHANGED vars
  BY <1>1 DEF vars
<1>2. ASSUME NEW q \in Push, Start(q)
      PROVE  IInv'
  BY <1>2 DEF Start
<1>3. ASSUME NEW q \in Push, Register(q)
      PROVE  IInv'
  BY <1>3 DEF Register
<1>4. ASSUME NEW q \in Push, Unregister(q)
      PROVE  IInv'
  BY <1>4 DEF Unregister
<1>5. ASSUME NEW q \in Push, Leave(q)
      PROVE  IInv'
  BY <1>5 DEF Leave
<1>6. ASSUME NEW q \in Push, Tick(q)
      PROVE  IInv'
  BY <1>6 DEF Tick
<1>7. ASSUME NEW q \in Push, Send(q)
      PROVE  IInv'
  BY <1>7 DEF Send
<1>8. ASSUME NEW q \in Push, TrackerCancelled(q)
      PROVE  IInv'
  BY <1>8 DEF TrackerCancelled
<1>9. ASSUME NEW h \in Push, Poll(h)
      PROVE  IInv'
  BY <1>9 DEF Poll
<1>10. ASSUME NEW h \in Push, Sleep(h)
       PROVE  IInv'
  BY <1>10 DEF Sleep
<1>11. ASSUME NEW h \in Push, ProgressEnds(h)
       PROVE  IInv'
  BY <1>11 DEF ProgressEnds
<1>12. ASSUME NEW h \in Push, Minute(h)
       PROVE  IInv'
  BY <1>12 DEF Minute
<1> QED
  BY <1>1, <1>2, <1>3, <1>4, <1>5, <1>6, <1>7, <1>8, <1>9, <1>10, <1>11, <1>12
     DEF Next, Handler, Tracker, Progress

(* pushJobs never offers the tracker of a push that is over, however many  *)
(* pushes overwrite and delete each other's entry (Daemon.PushImage).      *)
THEOREM JobIsLive == Spec => []NoStaleJob
<1>1. IInv => NoStaleJob
  BY DEF IInv
<1> QED
  BY <1>1, InitIInv, StepIInv, PTL DEF Spec

(* The types, and that a PushProgress handler ranges over the channel of a *)
(* goroutine that was started, its own push's or another's (pushTracker).  *)
THEOREM PushTypes == Spec => []TypeOK
<1>1. IInv => TypeOK
  BY DEF IInv
<1> QED
  BY <1>1, InitIInv, StepIInv, PTL DEF Spec
=============================================================================
