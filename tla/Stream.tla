------------------------------- MODULE Stream -------------------------------
(* The streaming RPCs behind k3c events and k3c logs.  Both have the same  *)
(* shape: a goroutine of the daemon reads a source and sends on a channel, *)
(* the handler ranges over it and sends on the gRPC stream, a goroutine of *)
(* the client receives and sends on a second channel, the command receives.*)
(* They differ in their source (the event bus, which has no end; a log     *)
(* file, which has one when its container has exited) and in what ends them.*)
EXTENDS Naturals, Sequences, Functions

CONSTANTS
    MaxItems,   \* bound: events published or lines logged
    Window      \* messages the stream takes before Send blocks

ASSUME StreamAssumption == MaxItems \in Nat /\ Window \in Nat \ {0}

VARIABLES
    kind,       \* "events" or "logs"
    follow,     \* logs -f
    src,        \* what was published or logged so far
    ctr,        \* the container whose log it is
    start, pos, \* items skipped at the start, items read
    had,        \* ghost: how many items there were when the source was opened
    subscribed, \* the event subscription delivers
    reader,     \* the daemon's goroutine
    found,      \* ReadLogs: the container's state at the last look
    failed,     \* ReadLogs returned an error
    handler,    \* the RPC handler
    hheld,      \* the item the handler is about to Send (0: none)
    wire,       \* sent and not received
    recv,       \* the client's goroutine
    cheld,      \* the item it is about to pass on (0: none)
    got,        \* items the command received
    cmd,        \* the command: "run", "done", "killed"
    broken      \* the daemon stopped, or the connection broke

daemonVars == <<start, pos, had, subscribed, reader, found, failed, handler, hheld>>
clientVars == <<recv, cheld, got, cmd>>
vars == <<kind, follow, src, ctr, daemonVars, wire, clientVars, broken>>

(* An event of a type that is shown, of another type, or of one that cannot*)
(* be decoded; a line of a log that can or cannot be parsed.               *)
Item == IF kind = "events" THEN {"shown", "other", "bad"} ELSE {"shown", "bad"}

Init ==
    /\ kind \in {"events", "logs"}
    /\ follow \in IF kind = "logs" THEN BOOLEAN ELSE {FALSE}
    /\ src = <<>>
    /\ ctr \in IF kind = "logs" THEN {"starting", "running", "exited"} ELSE {"running"}
    /\ start = 0 /\ pos = 0 /\ had = 0
    /\ subscribed = FALSE
    /\ reader = "off"
    /\ found = "running"
    /\ failed = FALSE
    /\ handler = "open"
    /\ hheld = 0
    /\ wire = <<>>
    /\ recv = "recv"
    /\ cheld = 0
    /\ got = <<>>
    /\ cmd = "run"
    /\ broken = FALSE

(* resp.Context() is done when the client is gone. *)
Cancelled == cmd # "run"

-----------------------------------------------------------------------------
(* The source *)

(* A task that was started writes, before the runtime calls its container  *)
(* running too (StartContainer sets the state last).                       *)
Write(i) ==
    /\ Len(src) < MaxItems
    /\ ctr \in {"starting", "running"}
    /\ i \in Item
    /\ src' = Append(src, i)
    /\ UNCHANGED <<kind, follow, ctr, daemonVars, wire, clientVars, broken>>

(* The container comes to run, exits, is removed. *)
ContainerMoves ==
    /\ kind = "logs"
    /\ \/ ctr = "starting" /\ ctr' \in {"running", "exited"}
       \/ ctr = "running" /\ ctr' = "exited"
       \/ ctr = "exited" /\ ctr' = "removed"
    /\ UNCHANGED <<kind, follow, src, daemonVars, wire, clientVars, broken>>

(* Subscribe ends when its context is done: it stops delivering, but does  *)
(* not close the channel it delivers on.                                   *)
SubscriptionEnds ==
    /\ subscribed
    /\ Cancelled
    /\ subscribed' = FALSE
    /\ UNCHANGED <<kind, follow, src, ctr, start, pos, had, reader, found, failed, handler,
                   hheld, wire, clientVars, broken>>

-----------------------------------------------------------------------------
(* The daemon *)

(* Mutant of OpenStream: the channel is returned, the goroutine forgotten. *)
OpenStreamNoReader ==
    /\ handler = "open"
    /\ handler' = "range"
    /\ subscribed' = (kind = "events")
    /\ start' = 0 /\ pos' = 0 /\ had' = 0
    /\ UNCHANGED <<kind, follow, src, ctr, reader, found, failed, hheld, wire, clientVars,
                   broken>>

(* Events subscribes from now on, LogContainer finds the container and its *)
(* log and starts with the --tail.  A lookup that fails (with an error or  *)
(* with a channel that is closed already) ends the handler.                *)
OpenStream ==
    /\ handler = "open"
    /\ \/ /\ handler' = "end"
          /\ UNCHANGED <<start, pos, had, subscribed, reader>>
       \/ /\ handler' = "range"
          /\ reader' = "read"
          /\ subscribed' = (kind = "events")
          /\ start' \in IF kind = "events" THEN {Len(src)} ELSE 0..Len(src)
          /\ pos' = start'
          /\ had' = Len(src)
    /\ UNCHANGED <<kind, follow, src, ctr, found, failed, hheld, wire, clientVars, broken>>

(* The goroutine takes the next item.  An event that cannot be decoded ends*)
(* it.  So does the first line of a log if no parser takes it, with an     *)
(* error; a later one that the parser refuses is skipped.                  *)
Read ==
    /\ reader = "read"
    /\ pos < Len(src)
    /\ kind = "events" => subscribed
    /\ pos' = pos + 1
    /\ LET item == src[pos + 1]
           unsupported == kind = "logs" /\ item = "bad" /\ pos = start
       IN  /\ reader' = CASE item = "shown"                                -> "send"
                          [] unsupported \/ (item = "bad" /\ kind = "events") -> "end"
                          [] OTHER                                          -> "read"
           /\ failed' = (failed \/ unsupported)
    /\ UNCHANGED <<kind, follow, src, ctr, start, had, subscribed, found, handler, hheld,
                   wire, clientVars, broken>>

(* The end of the log: the last, unless the container is followed and was  *)
(* running when it was last looked at.                                     *)
Eof ==
    /\ kind = "logs"
    /\ reader = "read"
    /\ pos = Len(src)
    /\ reader' = IF follow /\ found = "running" THEN "wait" ELSE "end"
    /\ UNCHANGED <<kind, follow, src, ctr, start, pos, had, subscribed, found, failed,
                   handler, hheld, wire, clientVars, broken>>

(* ReadLogs gives up: the file cannot be opened, read or watched, or the   *)
(* runtime does not say what state the container is in.                    *)
ReadLogsFails ==
    /\ kind = "logs"
    /\ reader \in {"read", "wait"}
    /\ reader' = "end"
    /\ failed' = TRUE
    /\ UNCHANGED <<kind, follow, src, ctr, start, pos, had, subscribed, found, handler,
                   hheld, wire, clientVars, broken>>

(* Mutant of WaitLogs: a container that has exited ends the log at once. *)
WaitLogsNoRest ==
    /\ reader = "wait"
    /\ \/ ctr \in {"starting", "exited"} /\ found' = ctr /\ reader' = "end" /\ UNCHANGED failed
       \/ Cancelled /\ reader' = "end" /\ failed' = TRUE /\ UNCHANGED found
       \/ pos < Len(src) /\ reader' = "read" /\ UNCHANGED <<found, failed>>
    /\ UNCHANGED <<kind, follow, src, ctr, start, pos, had, subscribed, handler, hheld,
                   wire, clientVars, broken>>

(* Mutant of WaitLogs: only the file is watched. *)
WaitLogsFileOnly ==
    /\ reader = "wait"
    /\ \/ Cancelled /\ reader' = "end" /\ failed' = TRUE
       \/ pos < Len(src) /\ reader' = "read" /\ UNCHANGED failed
    /\ UNCHANGED <<kind, follow, src, ctr, start, pos, had, subscribed, found, handler,
                   hheld, wire, clientVars, broken>>

(* waitLogs: a container that does not run (what it logged last is still to*)
(* be read); one that the runtime does not know any more, an error that    *)
(* ends the log unread; a context that is done, an error too; a line that  *)
(* was written, or a file that went away, while it waited.                 *)
WaitLogs ==
    /\ reader = "wait"
    /\ \/ ctr \in {"starting", "exited"} /\ found' = ctr /\ reader' = "read" /\ UNCHANGED failed
       \/ ctr = "removed" /\ reader' = "end" /\ failed' = TRUE /\ UNCHANGED found
       \/ Cancelled /\ reader' = "end" /\ failed' = TRUE /\ UNCHANGED found
       \/ pos < Len(src) /\ reader' = "read" /\ UNCHANGED <<found, failed>>
    /\ UNCHANGED <<kind, follow, src, ctr, start, pos, had, subscribed, handler, hheld,
                   wire, clientVars, broken>>

(* The unbuffered send of the goroutine meets the handler's range. *)
Forward ==
    /\ reader = "send"
    /\ handler = "range"
    /\ hheld = 0
    /\ hheld' = pos
    /\ reader' = "read"
    /\ UNCHANGED <<kind, follow, src, ctr, start, pos, had, subscribed, found, failed,
                   handler, wire, clientVars, broken>>

(* Mutant of Send: the handler returns at the first failed Send. *)
SendReturns ==
    /\ hheld # 0
    /\ hheld' = 0
    /\ \/ ~Cancelled /\ Len(wire) < Window /\ wire' = Append(wire, hheld) /\ UNCHANGED handler
       \/ Cancelled /\ handler' = "end" /\ UNCHANGED wire
    /\ UNCHANGED <<kind, follow, src, ctr, start, pos, had, subscribed, reader, found,
                   failed, clientVars, broken>>

(* Mutant of Send: a message there is no room for is dropped. *)
SendDrops ==
    /\ hheld # 0
    /\ hheld' = 0
    /\ wire' = IF ~Cancelled /\ Len(wire) < Window THEN Append(wire, hheld) ELSE wire
    /\ UNCHANGED <<kind, follow, src, ctr, start, pos, had, subscribed, reader, found,
                   failed, handler, clientVars, broken>>

(* resp.Send waits for room.  When it fails, the client is gone; the       *)
(* handler cancels and keeps ranging, so that the goroutine is not stuck.  *)
Send ==
    /\ hheld # 0
    /\ hheld' = 0
    /\ \/ ~Cancelled /\ Len(wire) < Window /\ wire' = Append(wire, hheld)
       \/ Cancelled /\ UNCHANGED wire
    /\ UNCHANGED <<kind, follow, src, ctr, start, pos, had, subscribed, reader, found,
                   failed, handler, clientVars, broken>>

(* The goroutine has closed its channel. *)
HandlerReturns ==
    /\ handler = "range"
    /\ hheld = 0
    /\ reader = "end"
    /\ handler' = "end"
    /\ UNCHANGED <<kind, follow, src, ctr, start, pos, had, subscribed, reader, found,
                   failed, hheld, wire, clientVars, broken>>

(* The daemon stops, or the connection breaks: what was not received yet   *)
(* may be lost.                                                            *)
Break ==
    /\ ~broken
    /\ broken' = TRUE
    /\ handler' = "end" /\ reader' = "end" /\ subscribed' = FALSE /\ hheld' = 0
    /\ \E n \in 0..Len(wire) : wire' = SubSeq(wire, 1, n)
    /\ UNCHANGED <<kind, follow, src, ctr, start, pos, had, found, failed, clientVars>>

-----------------------------------------------------------------------------
(* The client *)

(* The goroutine receives the next message; it is stuck with it when the   *)
(* command has returned, but then the process is gone too.                 *)
Recv ==
    /\ recv = "recv" /\ ~Cancelled
    /\ cheld = 0
    /\ wire # <<>>
    /\ cheld' = Head(wire)
    /\ wire' = Tail(wire)
    /\ UNCHANGED <<kind, follow, src, ctr, daemonVars, recv, got, cmd, broken>>

(* The end of the stream, and any error, closes the channel. *)
RecvEnds ==
    /\ recv = "recv" /\ ~Cancelled
    /\ cheld = 0
    /\ wire = <<>> /\ handler = "end"
    /\ recv' = "closed"
    /\ UNCHANGED <<kind, follow, src, ctr, daemonVars, wire, cheld, got, cmd, broken>>

(* logs prints the line.  events takes the second result of the receive for*)
(* "done" when it means "not done", and returns with the first event.      *)
Deliver ==
    /\ cmd = "run"
    /\ cheld # 0
    /\ got' = Append(got, cheld)
    /\ cheld' = 0
    /\ cmd' = IF kind = "events" THEN "done" ELSE "run"
    /\ UNCHANGED <<kind, follow, src, ctr, daemonVars, wire, recv, broken>>

(* The channel is closed: logs is done.  events prints empty events and    *)
(* does not end.                                                           *)
LogsDone ==
    /\ cmd = "run"
    /\ recv = "closed"
    /\ kind = "logs"
    /\ cmd' = "done"
    /\ UNCHANGED <<kind, follow, src, ctr, daemonVars, wire, recv, cheld, got, broken>>

Interrupt ==
    /\ cmd = "run"
    /\ cmd' = "killed"
    /\ UNCHANGED <<kind, follow, src, ctr, daemonVars, wire, recv, cheld, got, broken>>

Daemon  == OpenStream \/ Read \/ Eof \/ WaitLogs \/ Forward \/ Send \/ HandlerReturns
Client  == Recv \/ RecvEnds \/ Deliver \/ LogsDone

Next ==
    \/ \E i \in {"shown", "other", "bad"} : Write(i)
    \/ ContainerMoves
    \/ SubscriptionEnds
    \/ ReadLogsFails
    \/ Daemon
    \/ Client
    \/ Interrupt
    \/ Break

(* The goroutines of both processes run, and a subscription whose context  *)
(* is done stops.  Nothing says that a container exits, that events come,  *)
(* that a client leaves or that anything fails.                            *)
Spec ==
    /\ Init
    /\ [][Next]_vars
    /\ WF_vars(Daemon) /\ WF_vars(Client) /\ WF_vars(SubscriptionEnds)

-----------------------------------------------------------------------------
(* Properties *)

(* Every variable has its type; an item is held where its step expects it. *)
TypeOK ==
    /\ kind \in {"events", "logs"} /\ follow \in BOOLEAN
    /\ src \in Seq({"shown", "other", "bad"}) /\ Len(src) <= MaxItems
    /\ ctr \in {"starting", "running", "exited", "removed"}
    /\ start \in 0..Len(src) /\ pos \in start..Len(src) /\ had \in 0..Len(src)
    /\ subscribed \in BOOLEAN /\ failed \in BOOLEAN /\ broken \in BOOLEAN
    /\ found \in {"starting", "running", "exited"}
    /\ reader \in {"off", "read", "send", "wait", "end"}
    /\ handler \in {"open", "range", "end"}
    /\ hheld \in 0..Len(src) /\ cheld \in 0..Len(src)
    /\ wire \in Seq(1..Len(src)) /\ Len(wire) <= Window
    /\ got \in Seq(1..Len(src))
    /\ recv \in {"recv", "closed"}
    /\ cmd \in {"run", "done", "killed"}
    /\ handler = "range" => reader # "off"

(* The items in a range of the source that are to be shown. *)
Shown(from, to) == {n \in (from + 1)..to : src[n] = "shown"}

(* s is these items in the order of the source, each of them once. *)
Lists(s, items) ==
    /\ Range(s) = items
    /\ \A i, j \in DOMAIN s : i < j => s[i] < s[j]

Held(i) == IF i = 0 THEN <<>> ELSE <<i>>

(* From the command back to the goroutine that reads the source. *)
Path ==
    got \o Held(cheld) \o wire \o Held(hheld) \o Held(IF reader = "send" THEN pos ELSE 0)

(* What the command received, followed by what is on its way, is what the  *)
(* daemon read, in order, nothing lost and nothing twice, across three     *)
(* goroutines, two channels and the stream.                                *)
InOrder ==
    ~broken /\ cmd = "run" => Lists(Path, Shown(start, pos))

(* logs that comes to its end has printed every line that ReadLogs read.   *)
(* Unless ReadLogs failed, which the client is not told (a container that  *)
(* is removed while it is followed is such a failure), these are at least  *)
(* the lines there were when the log was opened; of a container that is    *)
(* followed it ends only because the container did not run when it was     *)
(* looked at, and after the last line if it had exited.  (One that is just *)
(* being started does not run either, and may write on.)                   *)
LogsComplete ==
    /\ kind = "logs" /\ cmd = "done" /\ ~broken /\ reader # "off"
    => /\ Lists(got, Shown(start, pos))
       /\ ~failed => /\ pos >= had
                     /\ follow => found # "running"
                     /\ follow /\ found = "exited" => pos = Len(src)

(* When the client of logs leaves, the handler and the goroutine behind it *)
(* both end, in the middle of a Send or of a wait for a line too.          *)
LogHandlerReturns ==
    kind = "logs" /\ Cancelled ~> kind = "logs" /\ handler = "end" /\ reader \in {"off", "end"}

(* logs -f ends when its container has exited, removed or not. *)
FollowEnds ==
    kind = "logs" /\ ctr \in {"exited", "removed"} ~> cmd # "run"
=============================================================================
