----------------------------- MODULE PullProofs -----------------------------
(***************************************************************************)
(* For either value of force and of the progress writer, and any number of *)
(* changes by other clients: a pull that ended well has drained its        *)
(* progress stream.                                                        *)
(*                                                                         *)
(* The command sees its own goroutine only, the goroutine the stream, the  *)
(* handler its channel.  DoneIsDrained follows because each ends after the *)
(* one behind it: the ticker's goroutine, the handler, the goroutine of    *)
(* the client, the command.                                                *)
(***************************************************************************)
EXTENDS Pull, TLAPS

(* The stages of the command before it is gone, and its result after. *)
CommandInOrder ==
    /\ result = "none" <=> main # "gone"
    /\ main = "get" => prog = "off"

(* Nothing runs in the daemon before PullProgress is called, and a handler *)
(* that ranges over the nil channel has no goroutine.                      *)
NotYetCalled ==
    /\ prog \in {"off", "call"} => handler = "off"
    /\ handler \in {"off", "nilrange"} => ticker = "off"

(* Who ended has seen the one behind it end. *)
EndsInOrder ==
    /\ prog = "end" => handler = "end"
    /\ handler = "end" => ticker \in {"off", "end"}

IInv ==
    /\ TypeOK
    /\ CommandInOrder
    /\ NotYetCalled
    /\ EndsInOrder
    /\ DoneIsDrained

(* The command is about to ask for the image. *)
LEMMA InitIInv == Init => IInv
  BY PullAssumption
     DEF Init, IInv, TypeOK, CommandInOrder, NotYetCalled, EndsInOrder, DoneIsDrained

(* Every step of the command, of its goroutine and of the daemon's keeps   *)
(* IInv.                                                                   *)
LEMMA StepIInv ==
    ASSUME IInv, [Next]_vars
    PROVE  IInv'
<1> USE PullAssumption
    DEF IInv, TypeOK, CommandInOrder, NotYetCalled, EndsInOrder, DoneIsDrained
<1>1. CASE UNCHANGED vars
  BY <1>1 DEF vars
<1>2. CASE GetImage
  BY <1>2 DEF GetImage, Exit
<1>3. CASE PullReturned
  BY <1>3 DEF PullReturned, Exit
<1>4. CASE Wait
  BY <1>4 DEF Wait, Exit
<1>5. CASE ProgressEnds
  BY <1>5 DEF ProgressEnds
<1>6. CASE PullImage
  BY <1>6 DEF PullImage
<1>7. CASE PullProgress
  BY <1>7 DEF PullProgress, Cancelled
<1>8. CASE Tick
  BY <1>8 DEF Tick
<1>9. CASE Send
  BY <1>9 DEF Send
<1>10. CASE TickerCancelled
  BY <1>10 DEF TickerCancelled
<1>11. CASE HandlerReturns
  BY <1>11 DEF HandlerReturns
<1>12. CASE Interrupt
  BY <1>12 DEF Interrupt, Exit
<1>13. CASE Change
  BY <1>13 DEF Change
<1> QED
  BY <1>1, <1>2, <1>3, <1>4, <1>5, <1>6, <1>7, <1>8, <1>9, <1>10, <1>11, <1>12, <1>13
     DEF Next, Command, Daemon

(* A command that ended well without being interrupted leaves the stream   *)
(* drained (pull.PullImage, Daemon.PullProgress).                          *)
THEOREM DrainedWhenDone == Spec => []DoneIsDrained
<1>1. IInv => DoneIsDrained
  BY DEF IInv
<1> QED
  BY <1>1, InitIInv, StepIInv, PTL DEF Spec

(* The types, and that a channel the handler ranges over has a sender; the *)
(* nil channel of PullProgress is the one that has none.                   *)
THEOREM PullTypes == Spec => []TypeOK
<1>1. IInv => TypeOK
  BY DEF IInv
<1> QED
  BY <1>1, InitIInv, StepIInv, PTL DEF Spec

(* What PullProgress returns for an image that is there, a nil channel and *)
(* a nil error, is never left: such a command does not end well.           *)
NilStreamHangs == handler = "nilrange" => handler' = "nilrange" /\ result' # "ok"

(* A stream over the nil channel stays, and its command ends by an error or*)
(* an interrupt only, whatever the other clients do (Daemon.PullProgress). *)
THEOREM NilStreamStays == Spec => [][NilStreamHangs]_vars
<1>1. IInv /\ IInv' /\ [Next]_vars => [NilStreamHangs]_vars
  BY DEF IInv, TypeOK, CommandInOrder, NotYetCalled, EndsInOrder, DoneIsDrained,
         NilStreamHangs, Next, Command, Daemon, GetImage, Exit, PullReturned, Wait,
         ProgressEnds, PullImage, PullProgress, Tick, Send, TickerCancelled,
         HandlerReturns, Interrupt, Change, vars
<1> QED
  BY <1>1, InitIInv, StepIInv, PTL DEF Spec
=============================================================================
