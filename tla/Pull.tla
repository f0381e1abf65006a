-------------------------------- MODULE Pull --------------------------------
(* k3c pull (force) and the pull of k3c create: the command's PullImage    *)
(* runs the PullImage RPC and, in a second goroutine, the PullProgress RPC *)
(* that displays how far it is, and waits for both.  On the daemon's side  *)
(* PullProgress is a handler that ranges over a channel and a ticker       *)
(* goroutine that fills it until the image is there.                       *)
EXTENDS Naturals

CONSTANTS
    Forced,      \* PullImage(..., force): pull even an image that is there
    Progress,    \* a writer for the progress was given
    MaxChanges   \* bound: times another client pulls or removes the image

ASSUME PullAssumption ==
    /\ Forced \in BOOLEAN /\ Progress \in BOOLEAN
    /\ MaxChanges \in Nat

VARIABLES
    present,   \* the image is in the image store
    changes,
    main,      \* the command: "get", "pull", "wait", "gone"
    result,
    pull,      \* the PullImage RPC: "off", "run", "ok", "error"
    prog,      \* the progress goroutine: "off", "call", "recv", "end"
    handler,   \* the PullProgress handler: "off", "range", "nilrange", "end"
    ticker     \* its goroutine: "off", "select", "send", "last", "end"

vars == <<present, changes, main, result, pull, prog, handler, ticker>>

Init ==
    /\ present \in BOOLEAN
    /\ changes = 0
    /\ main = "get"
    /\ result = "none"
    /\ pull = "off"
    /\ prog = "off"
    /\ handler = "off"
    /\ ticker = "off"

(* The process ended: every RPC it made is cancelled. *)
Cancelled == main = "gone"

-----------------------------------------------------------------------------
(* The command *)

Exit(res) ==
    /\ main' = "gone"
    /\ result' = res

(* GetImage decides whether to pull; the goroutine is started before.  An   *)
(* image that is there without a digest is pulled without a progress.       *)
GetImage ==
    /\ main = "get"
    /\ \/ /\ Exit("error")
          /\ UNCHANGED <<pull, prog>>
       \/ /\ present /\ ~Forced
          /\ Exit("ok")
          /\ UNCHANGED <<pull, prog>>
       \/ /\ present /\ ~Forced
          /\ main' = "pull"
          /\ pull' = "run"
          /\ UNCHANGED <<prog, result>>
       \/ /\ ~present \/ Forced
          /\ main' = "pull"
          /\ pull' = "run"
          /\ prog' = IF Progress THEN "call" ELSE "off"
          /\ UNCHANGED result
    /\ UNCHANGED <<present, changes, handler, ticker>>

(* PullImage returned: on an error the command does not wait for the       *)
(* progress.                                                               *)
PullReturned ==
    /\ main = "pull"
    /\ \/ /\ pull = "ok"
          /\ main' = "wait"
          /\ UNCHANGED result
       \/ /\ pull = "error"
          /\ Exit("error")
    /\ UNCHANGED <<present, changes, pull, prog, handler, ticker>>

(* Mutant of Wait: the command does not wait for the progress. *)
NoWait ==
    /\ main = "wait"
    /\ Exit("ok")
    /\ UNCHANGED <<present, changes, pull, prog, handler, ticker>>

(* eg.Wait() *)
Wait ==
    /\ main = "wait"
    /\ prog \in {"off", "end"}
    /\ Exit("ok")
    /\ UNCHANGED <<present, changes, pull, prog, handler, ticker>>

Interrupt ==
    /\ main # "gone"
    /\ Exit("interrupted")
    /\ UNCHANGED <<present, changes, pull, prog, handler, ticker>>

(* The progress goroutine ends with the stream. *)
ProgressEnds ==
    /\ prog = "recv"
    /\ handler = "end"
    /\ prog' = "end"
    /\ UNCHANGED <<present, changes, main, result, pull, handler, ticker>>

-----------------------------------------------------------------------------
(* The daemon *)

PullImage ==
    /\ pull = "run"
    /\ \/ pull' = "ok" /\ present' = TRUE
       \/ pull' = "error" /\ UNCHANGED present
    /\ UNCHANGED <<changes, main, result, prog, handler, ticker>>

(* Mutant of PullProgress: the channel is returned, the goroutine forgotten.*)
PullProgressNoTicker ==
    /\ prog = "call"
    /\ ~Cancelled
    /\ prog' = "recv"
    /\ handler' = IF present THEN "nilrange" ELSE "range"
    /\ UNCHANGED <<present, changes, main, result, pull, ticker>>

(* The PullProgress handler asks for the image once.  When it is there, the*)
(* channel it returns is nil, and so is the error.                         *)
PullProgress ==
    /\ prog = "call"
    /\ ~Cancelled
    /\ prog' = "recv"
    /\ \/ handler' = "end" /\ UNCHANGED ticker
       \/ present /\ handler' = "nilrange" /\ UNCHANGED ticker
       \/ ~present /\ handler' = "range" /\ ticker' = "select"
    /\ UNCHANGED <<present, changes, main, result, pull>>

(* A tick: imageProgress looks for the image and its downloads; the status *)
(* of an error, or of an image that is there, is the last one.             *)
Tick ==
    /\ ticker = "select"
    /\ \/ ticker' = "last"
       \/ ~present /\ ticker' = "send"
    /\ UNCHANGED <<present, changes, main, result, pull, prog, handler>>

(* Mutant of Send: the goroutine goes on after the last status. *)
SendOn ==
    /\ ticker \in {"send", "last"}
    /\ handler = "range"
    /\ ticker' = "select"
    /\ UNCHANGED <<present, changes, main, result, pull, prog, handler>>

(* The unbuffered send meets the handler's range.  The handler forwards the*)
(* status; a failed Send cancels the context and the range goes on.        *)
Send ==
    /\ ticker \in {"send", "last"}
    /\ handler = "range"
    /\ ticker' = IF ticker = "last" THEN "end" ELSE "select"
    /\ UNCHANGED <<present, changes, main, result, pull, prog, handler>>

(* Mutant of TickerCancelled: the goroutine ignores its context. *)
TickerIgnoresContext == FALSE /\ UNCHANGED vars

(* case <-ctx.Done() *)
TickerCancelled ==
    /\ ticker = "select"
    /\ Cancelled
    /\ ticker' = "end"
    /\ UNCHANGED <<present, changes, main, result, pull, prog, handler>>

(* The range ends when the goroutine has closed the channel.               *)
HandlerReturns ==
    /\ handler = "range"
    /\ ticker = "end"
    /\ handler' = "end"
    /\ UNCHANGED <<present, changes, main, result, pull, prog, ticker>>

(* Another client pulls or removes the image. *)
Change ==
    /\ changes < MaxChanges
    /\ changes' = changes + 1
    /\ present' = ~present
    /\ UNCHANGED <<main, result, pull, prog, handler, ticker>>

Command == GetImage \/ PullReturned \/ Wait
Daemon  == PullProgress \/ Tick \/ Send \/ TickerCancelled \/ HandlerReturns

Next ==
    \/ Command
    \/ ProgressEnds
    \/ PullImage
    \/ Daemon
    \/ Interrupt
    \/ Change

(* Goroutines run, a pull ends, and select does not pass over a context    *)
(* that is done forever.                                                   *)
Spec ==
    /\ Init
    /\ [][Next]_vars
    /\ WF_vars(Command) /\ WF_vars(ProgressEnds) /\ WF_vars(PullImage)
    /\ WF_vars(PullProgress \/ Tick \/ Send \/ HandlerReturns)
    /\ SF_vars(TickerCancelled)

-----------------------------------------------------------------------------
(* Properties *)

(* Every variable has its type; a channel that is ranged over has a sender.*)
TypeOK ==
    /\ present \in BOOLEAN
    /\ changes \in 0..MaxChanges
    /\ main \in {"get", "pull", "wait", "gone"}
    /\ result \in {"none", "ok", "error", "interrupted"}
    /\ pull \in {"off", "run", "ok", "error"}
    /\ prog \in {"off", "call", "recv", "end"}
    /\ handler \in {"off", "range", "nilrange", "end"}
    /\ ticker \in {"off", "select", "send", "last", "end"}
    /\ handler = "range" => ticker # "off"

(* When the client leaves, in the middle of a send too, the handler and its*)
(* goroutine both end: no status waits for a channel nobody reads.         *)
StreamEnds ==
    handler = "range" /\ Cancelled ~> handler = "end" /\ ticker = "end"

(* A progress stream that was opened in time keeps the command waiting for *)
(* one reason only: the image it pulled was removed before a tick saw it.  *)
StreamedPullEnds ==
    handler = "range" ~> main = "gone" \/ (pull = "ok" /\ ~present)

(* A command that ended well without being interrupted leaves the stream   *)
(* drained: the last status was delivered.                                 *)
DoneIsDrained ==
    result = "ok" => prog # "recv" /\ ticker \in {"off", "end"}

(* cmd/pull: the command pulls an image and prints its id: it ends.        *)
PullEnds == <>(main = "gone")
=============================================================================
