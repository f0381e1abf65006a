------------------------------- MODULE Kicker -------------------------------
(* pkg/kicker: a flag under a mutex with a condition variable, kicked by   *)
(* RPC handlers and by the goroutine New starts for the context, and waited*)
(* for by the pod collector.  One step per statement that other goroutines *)
(* can observe.                                                            *)
CONSTANTS
    Waiter,     \* goroutines that call Kicked()
    Handler,    \* goroutines that call Kick()
    Watcher,    \* the goroutine New starts, which kicks on cancellation
    NoOne,      \* the mutex is free
    Initial     \* the initialValue of New

ASSUME KickerAssumption ==
    /\ Initial \in BOOLEAN
    /\ Waiter \cap Handler = {}
    /\ Watcher \notin Waiter \cup Handler
    /\ NoOne \notin Waiter \cup Handler \cup {Watcher}

Kickers == Handler \cup {Watcher}
Proc    == Waiter \cup Kickers

VARIABLES
    kicked,     \* kicker.kicked
    ctxDone,    \* ctx.Done() is closed
    lock,       \* the holder of c.L
    parked,     \* the notify list of c
    pc,
    ret         \* what Kicked() last returned, "none" before the first call

vars == <<kicked, ctxDone, lock, parked, pc, ret>>

WaiterPc == {"out", "lock", "check", "add", "release", "parked", "unlock", "select"}
KickerPc == {"idle", "lock", "set", "broadcast", "unlock", "end"}

Init ==
    /\ kicked = Initial
    /\ ctxDone = FALSE
    /\ lock = NoOne
    /\ parked = {}
    /\ pc = [q \in Proc |-> IF q \in Waiter THEN "out" ELSE "idle"]
    /\ ret = [w \in Waiter |-> "none"]

Goto(q, l) == pc' = [pc EXCEPT ![q] = l]

(* c.L.Lock() and c.L.Unlock(). *)
Acquire(q, l) ==
    /\ pc[q] = "lock"
    /\ lock = NoOne
    /\ lock' = q
    /\ Goto(q, l)
    /\ UNCHANGED <<kicked, ctxDone, parked, ret>>

Release(q, from, l) ==
    /\ pc[q] = from
    /\ lock' = NoOne
    /\ Goto(q, l)
    /\ UNCHANGED <<kicked, ctxDone, parked, ret>>

-----------------------------------------------------------------------------
(* Kicked() *)

Call(w) ==
    /\ pc[w] = "out"
    /\ Goto(w, "lock")
    /\ ret' = [ret EXCEPT ![w] = "none"]
    /\ UNCHANGED <<kicked, ctxDone, lock, parked>>

(* for !k.kicked *)
Check(w) ==
    /\ pc[w] = "check"
    /\ Goto(w, IF kicked THEN "unlock" ELSE "add")
    /\ UNCHANGED <<kicked, ctxDone, lock, parked, ret>>

(* c.Wait() puts the goroutine on the notify list, and only then gives up  *)
(* the mutex.                                                              *)
Park(w) ==
    /\ pc[w] = "add"
    /\ parked' = parked \cup {w}
    /\ Goto(w, "release")
    /\ UNCHANGED <<kicked, ctxDone, lock, ret>>

(* Mutant of Wake: c.Wait() returns without a notification. *)
WakeAnyway(w) ==
    /\ pc[w] = "parked"
    /\ Goto(w, "lock")
    /\ UNCHANGED <<kicked, ctxDone, lock, parked, ret>>

(* c.Wait() ends with c.L.Lock(), after the goroutine left the list.       *)
Wake(w) ==
    /\ pc[w] = "parked"
    /\ w \notin parked
    /\ Goto(w, "lock")
    /\ UNCHANGED <<kicked, ctxDone, lock, parked, ret>>

(* select on ctx.Done(), outside the mutex. *)
Select(w) ==
    /\ pc[w] = "select"
    /\ Goto(w, "out")
    /\ ret' = [ret EXCEPT ![w] = IF ctxDone THEN "false" ELSE "true"]
    /\ UNCHANGED <<kicked, ctxDone, lock, parked>>

WaiterStep(w) ==
    \/ Acquire(w, "check")
    \/ Check(w)
    \/ Park(w)
    \/ Release(w, "release", "parked")
    \/ Wake(w)
    \/ Release(w, "unlock", "select")
    \/ Select(w)

-----------------------------------------------------------------------------
(* Kick() *)

SetKicked(k) ==
    /\ pc[k] = "set"
    /\ kicked' = TRUE
    /\ Goto(k, "broadcast")
    /\ UNCHANGED <<ctxDone, lock, parked, ret>>

(* Mutant of Broadcast: c.Signal(), which wakes one goroutine. *)
Signal(k) ==
    /\ pc[k] = "broadcast"
    /\ parked' = IF parked = {} THEN {} ELSE parked \ {CHOOSE w \in parked : TRUE}
    /\ Goto(k, "unlock")
    /\ UNCHANGED <<kicked, ctxDone, lock, ret>>

Broadcast(k) ==
    /\ pc[k] = "broadcast"
    /\ parked' = {}
    /\ Goto(k, "unlock")
    /\ UNCHANGED <<kicked, ctxDone, lock, ret>>

KickStep(k) ==
    \/ Acquire(k, "set")
    \/ SetKicked(k)
    \/ Broadcast(k)
    \/ Release(k, "unlock", IF k = Watcher THEN "end" ELSE "idle")

(* A handler kicks whenever an RPC says so. *)
BeginKick(h) ==
    /\ pc[h] = "idle"
    /\ Goto(h, "lock")
    /\ UNCHANGED <<kicked, ctxDone, lock, parked, ret>>

(* Mutant of Watch: New starts no goroutine. *)
NoWatch == FALSE /\ UNCHANGED vars

(* go func() { <-ctx.Done(); k.Kick() }() *)
Watch ==
    /\ pc[Watcher] = "idle"
    /\ ctxDone
    /\ Goto(Watcher, "lock")
    /\ UNCHANGED <<kicked, ctxDone, lock, parked, ret>>

Cancel ==
    /\ ~ctxDone
    /\ ctxDone' = TRUE
    /\ UNCHANGED <<kicked, lock, parked, pc, ret>>

Next ==
    \/ \E w \in Waiter : Call(w) \/ WaiterStep(w)
    \/ \E h \in Handler : BeginKick(h)
    \/ \E k \in Kickers : KickStep(k)
    \/ Watch
    \/ Cancel

Spec == Init /\ [][Next]_vars

(* Goroutines that can run do run, and sync.Mutex serves every goroutine   *)
(* that waits for it (its starvation mode hands the mutex over in order).  *)
(* Nothing makes a handler kick or the context end.                        *)
Fairness ==
    /\ \A w \in Waiter : WF_vars(WaiterStep(w)) /\ SF_vars(Acquire(w, "check"))
    /\ \A k \in Kickers : WF_vars(KickStep(k)) /\ SF_vars(Acquire(k, "set"))
    /\ WF_vars(Watch)

FairSpec == Spec /\ Fairness

-----------------------------------------------------------------------------
(* Properties *)

(* Every variable has its type; only goroutines inside c.Wait() are on the *)
(* notify list.                                                            *)
TypeOK ==
    /\ kicked \in BOOLEAN
    /\ ctxDone \in BOOLEAN
    /\ lock \in Proc \cup {NoOne}
    /\ parked \in SUBSET Waiter
    /\ pc \in [Proc -> WaiterPc \cup KickerPc]
    /\ \A w \in Waiter : pc[w] \in WaiterPc
    /\ \A k \in Kickers : pc[k] \in KickerPc
    /\ ret \in [Waiter -> {"none", "true", "false"}]
    /\ \A w \in parked : pc[w] \in {"release", "parked"}

(* No wakeup is lost: when the flag is set and a caller of Kicked() is on  *)
(* the notify list, the goroutine that set it has still to broadcast.  The *)
(* collector cannot sleep through a kick, wherever the kick falls between  *)
(* its test of the flag and its c.Wait().                                  *)
NoLostWakeup ==
    kicked /\ parked # {} => \E k \in Kickers : pc[k] = "broadcast"

(* Why: the goroutines exclude each other between Lock and Unlock, so that *)
(* the flag a caller tested does not change before it is on the list; and  *)
(* a caller past the loop has seen the flag set, which is never reset.     *)
InSection(q) == pc[q] \in {"check", "add", "release", "unlock", "set", "broadcast"}

MutualExclusion == \A q \in Proc : InSection(q) => lock = q

FlagSeen ==
    \A w \in Waiter : /\ pc[w] = "add" => ~kicked
                      /\ pc[w] \in {"unlock", "select"} => kicked

(* The kicker is a Latch, safety and liveness: a call that is in progress  *)
(* when a kick or the cancellation comes returns.                          *)
Abstract == INSTANCE Latch WITH
    on   <- kicked,
    done <- ctxDone,
    call <- [w \in Waiter |-> IF pc[w] = "out" THEN ret[w] ELSE "in"]

ImplementsLatch == Abstract!LSpec

(* The safety part of it. *)
LatchSafety == Abstract!LInit /\ [][Abstract!LNext]_(Abstract!latchVars)
=============================================================================
