-------------------------------- MODULE Push --------------------------------
(* Concurrent k3c push commands of one image: each runs a PushImage RPC,   *)
(* whose tracker is published in Daemon.pushJobs under the image's name,   *)
(* and (unless quiet) a PushProgress RPC, which polls pushJobs for up to a *)
(* minute and then ranges over the channel of the tracker it found, its own*)
(* or not.  Pushes of other images use other keys and are independent.     *)
CONSTANTS
    Push,      \* push commands
    NoPush

ASSUME PushAssumption == NoPush \notin Push

VARIABLES
    job,       \* pushJobs[image]: the push whose tracker it is, or NoPush
    rpc,       \* the PushImage handler of a push
    tracker,   \* the goroutine of its tracker
    prog,      \* the PushProgress handler of its command
    from,      \* the push whose channel that handler ranges over
    left,      \* the command has gone, or has cancelled its progress
    late       \* the progress handlers whose minute is over

vars == <<job, rpc, tracker, prog, from, left, late>>

Init ==
    /\ job = NoPush
    /\ rpc = [q \in Push |-> "off"]
    /\ tracker = [q \in Push |-> "off"]
    /\ prog = [q \in Push |-> "off"]
    /\ from = [q \in Push |-> NoPush]
    /\ left = {}
    /\ late = {}

-----------------------------------------------------------------------------
(* PushImage *)

(* The command starts both RPCs, or with --quiet the first. *)
Start(q) ==
    /\ rpc[q] = "off"
    /\ rpc' = [rpc EXCEPT ![q] = "called"]
    /\ \E first \in {"poll", "end"} : prog' = [prog EXCEPT ![q] = first]
    /\ UNCHANGED <<job, tracker, from, left, late>>

(* NewTracker starts its goroutine; the tracker replaces any other push's. *)
Register(q) ==
    /\ rpc[q] = "called"
    /\ rpc' = [rpc EXCEPT ![q] = "push"]
    /\ tracker' = [tracker EXCEPT ![q] = "select"]
    /\ job' = q
    /\ UNCHANGED <<prog, from, left, late>>

(* Mutant of Unregister: an early return leaves the entry. *)
UnregisterUnlessError(q) ==
    /\ rpc[q] = "push"
    /\ rpc' = [rpc EXCEPT ![q] = "end"]
    /\ job' \in {job, NoPush}
    /\ UNCHANGED <<tracker, prog, from, left, late>>

(* The deferred delete, after resolveImage or Push failed or all is pushed;*)
(* it does not look whose tracker it deletes.                              *)
Unregister(q) ==
    /\ rpc[q] = "push"
    /\ rpc' = [rpc EXCEPT ![q] = "end"]
    /\ job' = NoPush
    /\ UNCHANGED <<tracker, prog, from, left, late>>

(* The command returns when PushImage does, and cancels its progress first.*)
(* It may be interrupted before.                                           *)
Leave(q) ==
    /\ rpc[q] # "off"
    /\ q \notin left
    /\ left' = left \cup {q}
    /\ UNCHANGED <<job, rpc, tracker, prog, from, late>>

-----------------------------------------------------------------------------
(* The tracker goroutine *)

(* The context of the PushImage RPC. *)
Cancelled(q) == rpc[q] = "end" \/ q \in left

Tick(q) ==
    /\ tracker[q] = "select"
    /\ tracker' = [tracker EXCEPT ![q] = "send"]
    /\ UNCHANGED <<job, rpc, prog, from, left, late>>

(* Mutant of TrackerCancelled: the goroutine ignores its context. *)
TrackerIgnoresContext(q) == FALSE /\ UNCHANGED vars

TrackerCancelled(q) ==
    /\ tracker[q] = "select"
    /\ Cancelled(q)
    /\ tracker' = [tracker EXCEPT ![q] = "end"]
    /\ UNCHANGED <<job, rpc, prog, from, left, late>>

(* The send meets a handler that ranges over this channel, if there is one.*)
(* A Send to a client that left fails, and the range goes on.              *)
Reads(h, q) == prog[h] = "range" /\ from[h] = q

Send(q) ==
    /\ tracker[q] = "send"
    /\ \E h \in Push : Reads(h, q)
    /\ tracker' = [tracker EXCEPT ![q] = "select"]
    /\ UNCHANGED <<job, rpc, prog, from, left, late>>

-----------------------------------------------------------------------------
(* PushProgress *)

(* Mutant of Poll: the first look counts, found or not. *)
PollOnce(h) ==
    /\ prog[h] = "poll"
    /\ prog' = [prog EXCEPT ![h] = "range"]
    /\ from' = [from EXCEPT ![h] = job]
    /\ UNCHANGED <<job, rpc, tracker, left, late>>

(* Look into pushJobs, under the lock. *)
Poll(h) ==
    /\ prog[h] = "poll"
    /\ \/ /\ job # NoPush
          /\ prog' = [prog EXCEPT ![h] = "range"]
          /\ from' = [from EXCEPT ![h] = job]
       \/ /\ job = NoPush
          /\ prog' = [prog EXCEPT ![h] = "sleep"]
          /\ UNCHANGED from
    /\ UNCHANGED <<job, rpc, tracker, left, late>>

(* time.After(time.Minute), made once before the loop, fires. *)
Minute(h) ==
    /\ prog[h] \in {"poll", "sleep"}
    /\ h \notin late
    /\ late' = late \cup {h}
    /\ UNCHANGED <<job, rpc, tracker, prog, from, left>>

(* Mutant of Sleep: the minute is counted anew in every iteration. *)
SleepNewMinute(h) ==
    /\ prog[h] = "sleep"
    /\ prog' = [prog EXCEPT ![h] = IF h \in left THEN "end" ELSE "poll"]
    /\ UNCHANGED <<job, rpc, tracker, from, left, late>>

(* The select: once the minute is over or the context done, the handler    *)
(* gets the channel that is closed from the start; else, half a second     *)
(* later, it looks again.                                                  *)
Sleep(h) ==
    /\ prog[h] = "sleep"
    /\ prog' = [prog EXCEPT ![h] = IF h \in late \cup left THEN "end" ELSE "poll"]
    /\ UNCHANGED <<job, rpc, tracker, from, left, late>>

(* Mutant of ProgressEnds: a failed Send to a client that left ends the    *)
(* range.                                                                  *)
ProgressEndsOnError(h) ==
    /\ prog[h] = "range"
    /\ tracker[from[h]] = "end" \/ h \in left
    /\ prog' = [prog EXCEPT ![h] = "end"]
    /\ from' = [from EXCEPT ![h] = NoPush]
    /\ UNCHANGED <<job, rpc, tracker, left, late>>

(* The channel is closed: the range ends. *)
ProgressEnds(h) ==
    /\ prog[h] = "range"
    /\ tracker[from[h]] = "end"
    /\ prog' = [prog EXCEPT ![h] = "end"]
    /\ from' = [from EXCEPT ![h] = NoPush]
    /\ UNCHANGED <<job, rpc, tracker, left, late>>

-----------------------------------------------------------------------------
Handler(q)  == Register(q) \/ Unregister(q)
Tracker(q)  == Tick(q) \/ Send(q)
Progress(h) == Poll(h) \/ Sleep(h) \/ ProgressEnds(h)

Next ==
    \E q \in Push : \/ Start(q) \/ Handler(q) \/ Leave(q)
                    \/ Tracker(q) \/ TrackerCancelled(q) \/ Progress(q) \/ Minute(q)

(* A push ends, goroutines run, a timer fires, and select does not pass    *)
(* over a context that is done forever.                                    *)
Spec ==
    /\ Init
    /\ [][Next]_vars
    /\ \A q \in Push : /\ WF_vars(Handler(q)) /\ WF_vars(Tracker(q))
                       /\ WF_vars(Progress(q)) /\ WF_vars(Minute(q))
                       /\ SF_vars(TrackerCancelled(q))

-----------------------------------------------------------------------------
(* Properties *)

(* Every variable has its type; a handler that ranges has a channel. *)
TypeOK ==
    /\ job \in Push \cup {NoPush}
    /\ rpc \in [Push -> {"off", "called", "push", "end"}]
    /\ tracker \in [Push -> {"off", "select", "send", "end"}]
    /\ prog \in [Push -> {"off", "poll", "sleep", "range", "end"}]
    /\ from \in [Push -> Push \cup {NoPush}]
    /\ left \in SUBSET Push /\ late \in SUBSET Push
    /\ \A h \in Push : prog[h] = "range" => from[h] \in Push /\ tracker[from[h]] # "off"

(* pushJobs never offers the tracker of a push that is over, although      *)
(* pushes overwrite and delete each other's entry: a progress request is   *)
(* never sent to a channel whose goroutine may be stuck for good.          *)
NoStaleJob == job # NoPush => rpc[job] = "push"

(* Every PushProgress handler ends: one that finds no tracker, or only ones*)
(* that are gone before it looks again, with its minute at the latest; one *)
(* that ranges over a tracker, of another command's push too, with that    *)
(* push, its own client gone or not.                                       *)
ProgressTerminates == \A h \in Push : prog[h] = "poll" ~> prog[h] = "end"

(* The tracker goroutine of a push that is over ends, if a handler reads   *)
(* its channel.  (Without one it blocks in its send for good.)             *)
TrackerEnds ==
    \A q \in Push :
        rpc[q] = "end" /\ (\E h \in Push : Reads(h, q)) ~> tracker[q] = "end"
=============================================================================
