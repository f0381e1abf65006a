------------------------------- MODULE Latch -------------------------------
(* What a kicker promises its callers: Kicked() returns once Kick() was    *)
(* called or the context is cancelled, and never before; it answers FALSE  *)
(* only after the cancellation.  Kicks are not counted: one is remembered  *)
(* for good, for every caller.                                             *)
CONSTANTS
    Waiter,     \* callers of Kicked()
    Initial     \* the initialValue of New

VARIABLES
    on,         \* kicked, once and for all
    done,       \* the context is cancelled
    call        \* [Waiter -> CallState]

latchVars == <<on, done, call>>

(* Out of the call, in it, or the answer of the last call. *)
CallState == {"none", "in", "true", "false"}

LInit ==
    /\ on = Initial
    /\ done = FALSE
    /\ call = [w \in Waiter |-> "none"]

LCall(w) ==
    /\ call[w] # "in"
    /\ call' = [call EXCEPT ![w] = "in"]
    /\ UNCHANGED <<on, done>>

LKick ==
    /\ on' = TRUE
    /\ UNCHANGED <<done, call>>

LCancel ==
    /\ done' = TRUE
    /\ UNCHANGED <<on, call>>

LReturn(w) ==
    /\ on
    /\ call[w] = "in"
    /\ call' = [call EXCEPT ![w] = IF done THEN "false" ELSE "true"]
    /\ UNCHANGED <<on, done>>

LNext ==
    \/ LKick
    \/ LCancel
    \/ \E w \in Waiter : LCall(w) \/ LReturn(w)

(* A cancelled context kicks, and a caller of a kicked latch gets away. *)
LSpec ==
    /\ LInit
    /\ [][LNext]_latchVars
    /\ WF_latchVars(done /\ ~on /\ LKick)
    /\ \A w \in Waiter : WF_latchVars(LReturn(w))
=============================================================================
