---------------------------- MODULE StreamProofs ----------------------------
(***************************************************************************)
(* For sources of any length and any window of the stream: what k3c events *)
(* and k3c logs receive is what the daemon read, in order, and a log that  *)
(* comes to its end without a failure is complete.                         *)
(*                                                                         *)
(* InOrder speaks of the whole path.  A step that passes an item on leaves *)
(* the path as it is, only Read adds to it, at its end (MovedOn, ReadOn).  *)
(* LogsComplete needs, besides, that the end of the stream is seen from    *)
(* the back to the front (EndsInOrder) and that a log that is followed is  *)
(* read to the end once more after its container exited (ReadAfterExit).   *)
(***************************************************************************)
EXTENDS Stream, SequenceTheorems, TLAPS

(* Before the stream is opened there is nothing on the path. *)
NothingYet ==
    handler = "open" =>
        reader = "off" /\ hheld = 0 /\ wire = <<>> /\ cheld = 0 /\ got = <<>>

(* The handler ends after the goroutine it ranges over, the client's       *)
(* goroutine after the handler and with nothing left, logs after that.     *)
EndsInOrder ==
    /\ handler = "end" => reader \in {"off", "end"} /\ hheld = 0
    /\ recv = "closed" => handler = "end" /\ wire = <<>> /\ cheld = 0
    /\ kind = "logs" /\ cmd = "done" => recv = "closed"

(* Unless it fails, the goroutine of a log ends at the end of the log; if  *)
(* it follows, only once it has seen the container not running before it   *)
(* read up to there.                                                       *)
ReadAfterExit ==
    /\ found = "exited" => ctr \in {"exited", "removed"}
    /\ kind = "logs" /\ reader = "end" /\ ~broken /\ ~failed =>
           /\ pos >= had
           /\ follow => found # "running"
           /\ follow /\ found = "exited" => pos = Len(src)

IInv ==
    /\ TypeOK
    /\ NothingYet
    /\ EndsInOrder
    /\ ReadAfterExit
    /\ InOrder
    /\ LogsComplete

-----------------------------------------------------------------------------
(* Passing an item on *)

(* A step holds one item or none (the variables of the three goroutines).  *)
LEMMA HeldIsSeq ==
    /\ Held(0) = <<>>
    /\ \A i \in Nat : Held(i) \in Seq(Nat)
    /\ \A i \in Nat \ {0} : Held(i) = <<i>>
  BY DEF Held

(* Deliver: from the client's goroutine to the command. *)
LEMMA DeliverMoves ==
    ASSUME NEW g \in Seq(Nat), NEW i \in Nat \ {0}
    PROVE  Append(g, i) \o Held(0) = g \o Held(i)
<1>1. Append(g, i) \in Seq(Nat)
  BY AppendProperties
<1>2. Append(g, i) \o <<>> = Append(g, i)
  BY <1>1, ConcatEmptySeq
<1>3. Append(g, i) = g \o <<i>>
  BY AppendIsConcat
<1> QED
  BY <1>2, <1>3, HeldIsSeq

(* Items are grouped as one likes. *)
LEMMA Regroup ==
    \A x, y, z \in Seq(Nat) : (x \o y) \o z = x \o (y \o z)
<1>1. TAKE x \in Seq(Nat), y \in Seq(Nat), z \in Seq(Nat)
<1> QED
  OBVIOUS

(* Recv: from the stream to the client's goroutine. *)
LEMMA RecvMoves ==
    ASSUME NEW g \in Seq(Nat), NEW w \in Seq(Nat \ {0}), w # <<>>
    PROVE  (g \o Held(Head(w))) \o Tail(w) = (g \o Held(0)) \o w
<1>1. w \in Seq(Nat)
  BY SeqMonotonic
<1>2. Head(w) \in Nat \ {0} /\ Tail(w) \in Seq(Nat)
  BY <1>1, HeadTailProperties
<1>3. <<Head(w)>> \in Seq(Nat)
  BY <1>2, HeldIsSeq
<1>4. w = <<Head(w)>> \o Tail(w)
  <2>1. Len(w) \in Nat \ {0}
    BY EmptySeq
  <2>2. w = SubSeq(w, 1, Len(w))
    BY <1>1, SubSeqFull
  <2>3. SubSeq(w, 1, Len(w)) = <<w[1]>> \o SubSeq(w, 2, Len(w))
    <3>1. 1 \in 1..Len(w) /\ Len(w) \in 1..Len(w) /\ 1 + 1 = 2
      BY <2>1
    <3> QED
      BY <3>1, <1>1, SubSeqRecursiveFirst
  <2>4. Tail(w) = SubSeq(w, 2, Len(w))
    BY <1>1, TailIsSubSeq
  <2>5. Head(w) = w[1]
    BY <1>1
  <2> QED
    BY <2>2, <2>3, <2>4, <2>5
<1>5. (g \o <<Head(w)>>) \o Tail(w) = g \o (<<Head(w)>> \o Tail(w))
  <2> DEFINE h == <<Head(w)>>
             v == Tail(w)
  <2>1. h \in Seq(Nat) /\ v \in Seq(Nat)
    BY <1>2, <1>3
  <2> HIDE DEF h, v
  <2>2. (g \o h) \o v = g \o (h \o v)
    BY <2>1, Regroup, Zenon
  <2>3. h = <<Head(w)>> /\ v = Tail(w)
    BY Zenon DEF h, v
  <2> QED
    BY <2>2, <2>3, Zenon
<1>6. g \o <<>> = g
  BY ConcatEmptySeq
<1> QED
  BY <1>2, <1>4, <1>5, <1>6, HeldIsSeq

(* Send: from the handler to the stream. *)
LEMMA SendMoves ==
    ASSUME NEW g \in Seq(Nat), NEW w \in Seq(Nat), NEW i \in Nat \ {0}
    PROVE  (g \o Append(w, i)) \o Held(0) = (g \o w) \o Held(i)
<1>1. Append(w, i) = w \o <<i>> /\ <<i>> \in Seq(Nat) /\ w \o <<i>> \in Seq(Nat)
  BY AppendIsConcat, HeldIsSeq, ConcatProperties
<1>2. (g \o w) \o <<i>> = g \o (w \o <<i>>)
  BY <1>1, ConcatAssociative
<1>3. g \o (w \o <<i>>) \in Seq(Nat)
  BY <1>1, ConcatProperties
<1>4. (g \o (w \o <<i>>)) \o <<>> = g \o (w \o <<i>>)
  BY <1>3, ConcatEmptySeq
<1> QED
  BY <1>1, <1>2, <1>4, HeldIsSeq

(* Forward: from the goroutine that reads to the handler. *)
LEMMA ForwardMoves ==
    ASSUME NEW g \in Seq(Nat), NEW i \in Nat
    PROVE  (g \o Held(i)) \o Held(0) = (g \o Held(0)) \o Held(i)
<1>1. g \o Held(i) \in Seq(Nat)
  BY HeldIsSeq, ConcatProperties
<1> QED
  BY <1>1, HeldIsSeq, ConcatEmptySeq

(* The next item of the source extends a list of those before it: Read. *)
LEMMA ReadOn ==
    ASSUME NEW s \in Seq(Nat), NEW S, NEW n \in Nat,
           Lists(s, S), \A m \in S : m < n
    PROVE  Lists(s \o <<n>>, S \cup {n})
<1> DEFINE t == s \o <<n>>
<1>1. <<n>> \in Seq(Nat) /\ Len(<<n>>) = 1 /\ <<n>>[1] = n
  OBVIOUS
<1>2. /\ t \in Seq(Nat)
      /\ Len(t) = Len(s) + 1
      /\ \A i \in 1..(Len(s) + 1) : t[i] = IF i <= Len(s) THEN s[i] ELSE <<n>>[i - Len(s)]
  BY <1>1, ConcatProperties
<1>3. Len(s) \in Nat /\ DOMAIN s = 1..Len(s) /\ DOMAIN t = 1..(Len(s) + 1)
  BY <1>2, LenProperties
<1>4. t[Len(s) + 1] = n /\ \A i \in 1..Len(s) : t[i] = s[i] /\ s[i] \in S /\ s[i] \in Nat
  <2>1. t[Len(s) + 1] = n
    BY <1>1, <1>2, <1>3
  <2>2. \A i \in 1..Len(s) : t[i] = s[i]
    BY <1>2, <1>3
  <2>3. \A i \in 1..Len(s) : s[i] \in S
    BY <1>3 DEF Lists, Range
  <2>4. \A i \in 1..Len(s) : s[i] \in Nat
    BY ElementOfSeq
  <2> QED
    BY <2>1, <2>2, <2>3, <2>4
<1>5. Range(t) = Range(s) \cup {n}
  <2>1. ASSUME NEW x \in Range(t)
        PROVE  x \in Range(s) \cup {n}
    <3>1. PICK i \in 1..(Len(s) + 1) : x = t[i]
      BY <1>3 DEF Range
    <3> QED
      BY <3>1, <1>3, <1>4 DEF Range
  <2>2. ASSUME NEW x \in Range(s) \cup {n}
        PROVE  x \in Range(t)
    <3>1. CASE x = n
      BY <3>1, <1>3, <1>4 DEF Range
    <3>2. CASE x \in Range(s)
      <4>1. PICK i \in 1..Len(s) : x = s[i]
        BY <3>2, <1>3 DEF Range
      <4> QED
        BY <4>1, <1>3, <1>4 DEF Range
    <3> QED
      BY <3>1, <3>2
  <2> QED
    BY <2>1, <2>2
<1>6. ASSUME NEW i \in DOMAIN t, NEW j \in DOMAIN t, i < j
      PROVE  t[i] < t[j]
  <2>1. i \in 1..Len(s)
    BY <1>3, <1>6
  <2>2. CASE j = Len(s) + 1
    BY <2>1, <2>2, <1>4
  <2>3. CASE j \in 1..Len(s)
    BY <2>1, <2>3, <1>3, <1>4, <1>6 DEF Lists
  <2> QED
    BY <2>2, <2>3, <1>3
<1> QED
  BY <1>5, <1>6 DEF Lists

-----------------------------------------------------------------------------
(* The inductive invariant *)

(* Nothing is published, logged or read yet. *)
LEMMA InitIInv == Init => IInv
<1> SUFFICES ASSUME Init
             PROVE  IInv
  OBVIOUS
<1>1. TypeOK
  <2>1. follow \in BOOLEAN /\ subscribed \in BOOLEAN /\ failed \in BOOLEAN /\ broken \in BOOLEAN
    BY DEF Init
  <2>2. ctr \in {"starting", "running", "exited"} /\ found = "running" /\ kind \in {"events", "logs"}
    BY DEF Init
  <2>3. src = <<>> /\ wire = <<>> /\ got = <<>> /\ Len(src) = 0 /\ Len(wire) = 0
    BY EmptySeq DEF Init
  <2>4. src \in Seq({"shown", "other", "bad"}) /\ wire \in Seq(1..Len(src)) /\ got \in Seq(1..Len(src))
    BY <2>3, EmptySeq
  <2>5. start = 0 /\ pos = 0 /\ had = 0 /\ hheld = 0 /\ cheld = 0 /\ reader = "off" /\ handler = "open"
        /\ recv = "recv" /\ cmd = "run"
    BY DEF Init
  <2> QED
    BY <2>1, <2>2, <2>3, <2>4, <2>5, StreamAssumption DEF TypeOK, StreamAssumption
<1>2. Path = <<>>
  <2>1. <<>> \o <<>> = <<>>
    BY EmptySeq, ConcatEmptySeq
  <2> QED
    BY <2>1, HeldIsSeq DEF Init, Path
<1>3. Lists(<<>>, Shown(0, 0))
  BY DEF Lists, Shown, Range
<1>4. InOrder
  BY <1>2, <1>3 DEF Init, InOrder
<1> QED
  BY <1>1, <1>4 DEF Init, IInv, NothingYet, EndsInOrder, ReadAfterExit, LogsComplete

(* Every step keeps the types. *)
LEMMA StepTypes ==
    ASSUME IInv, [Next]_vars
    PROVE  TypeOK'
<1> USE StreamAssumption DEF IInv, TypeOK, StreamAssumption
<1>0. CASE UNCHANGED vars
  BY <1>0 DEF vars, daemonVars, clientVars
<1>1. ASSUME NEW i \in {"shown", "other", "bad"}, Write(i)
      PROVE  TypeOK'
  <2>1. /\ src' \in Seq({"shown", "other", "bad"})
        /\ Len(src') = Len(src) + 1
    BY <1>1, AppendProperties DEF Write
  <2>2. 1..Len(src) \subseteq 1..Len(src')
    BY <2>1
  <2>3. wire \in Seq(1..Len(src')) /\ got \in Seq(1..Len(src'))
    BY <2>2, SeqMonotonic
  <2> QED
    BY <1>1, <2>1, <2>3 DEF Write, daemonVars, clientVars
<1>2. CASE ContainerMoves
  BY <1>2 DEF ContainerMoves, daemonVars, clientVars
<1>3. CASE SubscriptionEnds
  <2>1. subscribed' \in BOOLEAN
    BY <1>3 DEF SubscriptionEnds
  <2>2. UNCHANGED <<kind, follow, src, ctr, start, pos, had, reader, found, failed, handler,
                    hheld, wire, clientVars, broken>>
    BY <1>3 DEF SubscriptionEnds
  <2> QED
    BY <2>1, <2>2 DEF clientVars
<1>4. CASE OpenStream
  <2>1. subscribed' \in BOOLEAN
    BY <1>4 DEF OpenStream
  <2>2. UNCHANGED <<kind, follow, src, ctr, found, failed, hheld, wire, clientVars, broken>>
    BY <1>4 DEF OpenStream
  <2>3. /\ start' \in 0..Len(src) /\ pos' \in start'..Len(src) /\ had' \in 0..Len(src)
        /\ reader' \in {"off", "read", "send", "wait", "end"}
        /\ handler' \in {"range", "end"}
        /\ handler' = "range" => reader' # "off"
    <3>1. CASE handler' = "end" /\ UNCHANGED <<start, pos, had, subscribed, reader>>
      BY <3>1
    <3>2. CASE /\ handler' = "range" /\ reader' = "read"
               /\ start' \in IF kind = "events" THEN {Len(src)} ELSE 0..Len(src)
               /\ pos' = start' /\ had' = Len(src)
      <4>1. Len(src) \in Nat /\ start' \in 0..Len(src)
        BY <3>2
      <4> QED
        BY <3>2, <4>1
    <3> QED
      BY <1>4, <3>1, <3>2 DEF OpenStream
  <2> QED
    BY <2>1, <2>2, <2>3 DEF clientVars
<1>5. CASE Read
  BY <1>5 DEF Read, clientVars
<1>6. CASE Eof
  BY <1>6 DEF Eof, clientVars
<1>7. CASE WaitLogs
  <2>1. reader' \in {"read", "end"} /\ found' \in {"starting", "running", "exited"}
        /\ failed' \in BOOLEAN
    BY <1>7 DEF WaitLogs
  <2>2. UNCHANGED <<kind, follow, src, ctr, start, pos, had, subscribed, handler, hheld,
                    wire, clientVars, broken>>
    BY <1>7 DEF WaitLogs
  <2> QED
    BY <2>1, <2>2 DEF clientVars
<1>8. CASE Forward
  BY <1>8 DEF Forward, clientVars
<1>9. CASE Send
  <2>1. CASE UNCHANGED wire
    BY <1>9, <2>1 DEF Send, clientVars
  <2>2. CASE Len(wire) < Window /\ wire' = Append(wire, hheld)
    <3>1. hheld \in 1..Len(src)
      BY <1>9 DEF Send
    <3>2. wire' \in Seq(1..Len(src)) /\ Len(wire') = Len(wire) + 1
      BY <2>2, <3>1, AppendProperties
    <3> QED
      BY <1>9, <2>2, <3>2 DEF Send, clientVars
  <2> QED
    BY <1>9, <2>1, <2>2 DEF Send
<1>10. CASE HandlerReturns
  BY <1>10 DEF HandlerReturns, clientVars
<1>11. CASE Recv
  <2>1. Head(wire) \in 1..Len(src) /\ Tail(wire) \in Seq(1..Len(src)) /\ Len(Tail(wire)) = Len(wire) - 1
    BY <1>11, HeadTailProperties DEF Recv
  <2> QED
    BY <1>11, <2>1 DEF Recv, daemonVars
<1>12. CASE RecvEnds
  BY <1>12 DEF RecvEnds, daemonVars
<1>13. CASE Deliver
  <2>1. got' \in Seq(1..Len(src))
    BY <1>13, AppendProperties DEF Deliver
  <2> QED
    BY <1>13, <2>1 DEF Deliver, daemonVars
<1>14. CASE LogsDone
  BY <1>14 DEF LogsDone, daemonVars
<1>15. CASE Interrupt
  BY <1>15 DEF Interrupt, daemonVars
<1>16. CASE Break
  <2>1. wire' \in Seq(1..Len(src)) /\ Len(wire') <= Len(wire)
    <3>1. PICK n \in 0..Len(wire) : wire' = SubSeq(wire, 1, n)
      BY <1>16 DEF Break
    <3>2. wire \in Seq(1..Len(src)) /\ Len(wire) \in Nat
      OBVIOUS
    <3>3. \A i \in 1..n : wire[i] \in 1..Len(src)
      <4>1. TAKE i \in 1..n
      <4>2. i \in 1..Len(wire)
        BY <3>2
      <4> QED
        BY <3>2, <4>2, ElementOfSeq
    <3>4. SubSeq(wire, 1, n) \in Seq(1..Len(src)) /\ Len(SubSeq(wire, 1, n)) = n
      BY <3>2, <3>3, SubSeqProperties
    <3> QED
      BY <3>1, <3>2, <3>4
  <2>2. subscribed' \in BOOLEAN /\ broken' \in BOOLEAN
    BY <1>16 DEF Break
  <2>3. /\ handler' = "end" /\ reader' = "end" /\ hheld' = 0
        /\ UNCHANGED <<kind, follow, src, ctr, start, pos, had, found, failed, clientVars>>
    BY <1>16 DEF Break
  <2> QED
    BY <2>1, <2>2, <2>3 DEF clientVars
<1>17. CASE ReadLogsFails
  BY <1>17 DEF ReadLogsFails, clientVars
<1> QED
  BY <1>0, <1>1, <1>2, <1>3, <1>4, <1>5, <1>6, <1>7, <1>8, <1>9, <1>10, <1>11, <1>12,
     <1>13, <1>14, <1>15, <1>16, <1>17 DEF Next, Daemon, Client

(* Every step keeps the order in which the parts begin and end. *)
LEMMA StepEnds ==
    ASSUME IInv, [Next]_vars
    PROVE  NothingYet' /\ EndsInOrder' /\ ReadAfterExit'
<1> USE DEF IInv, TypeOK, NothingYet, EndsInOrder, ReadAfterExit
<1>0. CASE UNCHANGED vars
  BY <1>0 DEF vars, daemonVars, clientVars
<1>1. ASSUME NEW i \in {"shown", "other", "bad"}, Write(i)
      PROVE  NothingYet' /\ EndsInOrder' /\ ReadAfterExit'
  BY <1>1 DEF Write, daemonVars, clientVars
<1>2. CASE ContainerMoves
  BY <1>2 DEF ContainerMoves, daemonVars, clientVars
<1>3. CASE SubscriptionEnds
  BY <1>3 DEF SubscriptionEnds, clientVars
<1>4. CASE OpenStream
  BY <1>4 DEF OpenStream, clientVars
<1>5. CASE Read
  BY <1>5 DEF Read, clientVars
<1>6. CASE Eof
  BY <1>6 DEF Eof, clientVars
<1>7. CASE WaitLogs
  BY <1>7 DEF WaitLogs, clientVars, Cancelled
<1>8. CASE Forward
  BY <1>8 DEF Forward, clientVars
<1>9. CASE Send
  BY <1>9 DEF Send, clientVars
<1>10. CASE HandlerReturns
  BY <1>10 DEF HandlerReturns, clientVars
<1>11. CASE Recv
  BY <1>11 DEF Recv, daemonVars
<1>12. CASE RecvEnds
  BY <1>12 DEF RecvEnds, daemonVars
<1>13. CASE Deliver
  BY <1>13 DEF Deliver, daemonVars
<1>14. CASE LogsDone
  BY <1>14 DEF LogsDone, daemonVars
<1>15. CASE Interrupt
  BY <1>15 DEF Interrupt, daemonVars
<1>16. CASE Break
  <2>1. wire = <<>> => wire' = <<>>
    <3> SUFFICES ASSUME wire = <<>>
                 PROVE  wire' = <<>>
      OBVIOUS
    <3>1. PICK n \in 0..Len(wire) : wire' = SubSeq(wire, 1, n)
      BY <1>16 DEF Break
    <3>2. n = 0
      BY EmptySeq
    <3> QED
      BY <3>1, <3>2, SubSeqEmpty
  <2>2. /\ handler' = "end" /\ reader' = "end" /\ hheld' = 0 /\ broken'
        /\ UNCHANGED <<kind, follow, src, ctr, start, pos, had, found, failed, clientVars>>
    BY <1>16 DEF Break
  <2> QED
    BY <2>1, <2>2 DEF clientVars
<1>17. CASE ReadLogsFails
  BY <1>17 DEF ReadLogsFails, clientVars
<1> QED
  BY <1>0, <1>1, <1>2, <1>3, <1>4, <1>5, <1>6, <1>7, <1>8, <1>9, <1>10, <1>11, <1>12,
     <1>13, <1>14, <1>15, <1>16, <1>17 DEF Next, Daemon, Client

(* What is to be shown of the items that were read stays the same, whatever*)
(* is published or logged.                                                 *)
LEMMA ShownIsStable ==
    ASSUME TypeOK, src' = src \/ (\E i \in {"shown", "other", "bad"} : src' = Append(src, i)),
           UNCHANGED <<start, pos>>
    PROVE  Shown(start, pos)' = Shown(start, pos)
<1>1. \A n \in (start + 1)..pos : src'[n] = src[n]
  <2>1. (start + 1)..pos \subseteq 1..Len(src)
    BY DEF TypeOK
  <2>2. ASSUME NEW i \in {"shown", "other", "bad"}, src' = Append(src, i)
        PROVE  \A n \in 1..Len(src) : src'[n] = src[n]
    BY <2>2, AppendProperties DEF TypeOK
  <2> QED
    BY <2>1, <2>2
<1> QED
  BY <1>1 DEF Shown

(* Every part of the path is a sequence of numbers of items. *)
LEMMA PathIsSeq ==
    ASSUME TypeOK
    PROVE  /\ got \in Seq(Nat) /\ wire \in Seq(Nat \ {0}) /\ wire \in Seq(Nat)
           /\ cheld \in Nat /\ hheld \in Nat /\ pos \in Nat
           /\ got \o Held(cheld) \in Seq(Nat)
           /\ got \o Held(cheld) \o wire \in Seq(Nat)
           /\ got \o Held(cheld) \o wire \o Held(hheld) \in Seq(Nat)
           /\ Path \in Seq(Nat)
<1>1. cheld \in Nat /\ hheld \in Nat /\ pos \in Nat
  BY DEF TypeOK
<1>2. got \in Seq(Nat) /\ wire \in Seq(Nat \ {0}) /\ wire \in Seq(Nat)
  <2>1. 1..Len(src) \subseteq Nat \ {0} /\ 1..Len(src) \subseteq Nat
    BY DEF TypeOK
  <2> QED
    BY <2>1, SeqMonotonic DEF TypeOK
<1>3. got \o Held(cheld) \in Seq(Nat)
  BY <1>1, <1>2, HeldIsSeq, ConcatProperties
<1>4. got \o Held(cheld) \o wire \in Seq(Nat)
  BY <1>2, <1>3, ConcatProperties
<1>5. got \o Held(cheld) \o wire \o Held(hheld) \in Seq(Nat)
  BY <1>1, <1>4, HeldIsSeq, ConcatProperties
<1>6. Path \in Seq(Nat)
  BY <1>1, <1>5, HeldIsSeq, ConcatProperties DEF Path
<1> QED
  BY <1>1, <1>2, <1>3, <1>4, <1>5, <1>6

(* A path that holds nothing but what the command received. *)
LEMMA DrainedPath ==
    ASSUME TypeOK, cheld = 0, wire = <<>>, hheld = 0, reader # "send"
    PROVE  Path = got
<1>1. got \o <<>> = got
  BY PathIsSeq, ConcatEmptySeq
<1> QED
  BY <1>1, HeldIsSeq DEF Path

(* The steps that pass an item on leave the path as it is. *)
LEMMA MovedOn ==
    ASSUME TypeOK, Deliver \/ Recv \/ Send \/ Forward, cmd = "run"
    PROVE  Path' = Path
<1>1. CASE Deliver
  <2>1. cheld \in Nat \ {0} /\ cheld' = 0 /\ got' = Append(got, cheld)
        /\ UNCHANGED <<wire, hheld, reader, pos>>
    BY <1>1, PathIsSeq DEF Deliver, daemonVars
  <2>2. got' \o Held(cheld') = got \o Held(cheld)
    BY <2>1, PathIsSeq, DeliverMoves
  <2> QED
    BY <2>1, <2>2 DEF Path, Held
<1>2. CASE Recv
  <2>1. wire # <<>> /\ cheld = 0 /\ cheld' = Head(wire) /\ wire' = Tail(wire)
        /\ UNCHANGED <<got, hheld, reader, pos>>
    BY <1>2 DEF Recv, daemonVars
  <2>2. got' \o Held(cheld') \o wire' = got \o Held(cheld) \o wire
    BY <2>1, PathIsSeq, RecvMoves
  <2> QED
    BY <2>1, <2>2 DEF Path
<1>3. CASE Send
  <2>1. hheld \in Nat \ {0} /\ hheld' = 0 /\ wire' = Append(wire, hheld)
        /\ UNCHANGED <<got, cheld, reader, pos>>
    BY <1>3, PathIsSeq DEF Send, clientVars, Cancelled
  <2>2. got' \o Held(cheld') \o wire' \o Held(hheld') = got \o Held(cheld) \o wire \o Held(hheld)
    BY <2>1, PathIsSeq, SendMoves
  <2> QED
    BY <2>1, <2>2 DEF Path
<1>4. CASE Forward
  <2>1. hheld = 0 /\ hheld' = pos /\ reader = "send" /\ reader' = "read"
        /\ UNCHANGED <<got, cheld, wire, pos>>
    BY <1>4 DEF Forward, clientVars
  <2> DEFINE w == got \o Held(cheld) \o wire
  <2>2. Path = (w \o Held(0)) \o Held(pos) /\ Path' = (w \o Held(pos)) \o Held(0)
    BY <2>1 DEF Path
  <2>3. w \in Seq(Nat) /\ pos \in Nat
    BY PathIsSeq
  <2> HIDE DEF w
  <2> QED
    BY <2>2, <2>3, ForwardMoves
<1> QED
  BY <1>1, <1>2, <1>3, <1>4

(* Read takes one item: it ends the path if it is to be shown, and counts  *)
(* for nothing otherwise.                                                  *)
LEMMA TakenIn ==
    ASSUME TypeOK, Read, Lists(Path, Shown(start, pos))
    PROVE  Lists(Path, Shown(start, pos))'
<1> DEFINE w == got \o Held(cheld) \o wire \o Held(hheld)
<1>1. /\ reader = "read" /\ pos' = pos + 1 /\ pos < Len(src)
      /\ UNCHANGED <<src, start, got, cheld, wire, hheld>>
  BY DEF Read, clientVars
<1>2. w \in Seq(Nat) /\ pos \in Nat /\ start \in Nat /\ start <= pos
  BY PathIsSeq DEF TypeOK
<1>3. Path = w
  BY <1>1, <1>2, HeldIsSeq, ConcatEmptySeq DEF Path
<1>4. CASE src[pos + 1] = "shown"
  <2>1. reader' = "send"
    BY <1>4 DEF Read
  <2>2. Path' = w \o <<pos + 1>>
    <3>1. Path' = w \o Held(pos + 1)
      BY <1>1, <2>1 DEF Path
    <3>2. pos + 1 \in Nat \ {0}
      BY <1>2
    <3> QED
      BY <3>1, <3>2, HeldIsSeq
  <2>3. Shown(start, pos)' = Shown(start, pos) \cup {pos + 1}
    BY <1>1, <1>2, <1>4 DEF Shown
  <2>4. \A m \in Shown(start, pos) : m < pos + 1
    BY <1>2 DEF Shown
  <2>5. Lists(w \o <<pos + 1>>, Shown(start, pos) \cup {pos + 1})
    <3>1. pos + 1 \in Nat /\ Lists(w, Shown(start, pos))
      BY <1>2, <1>3
    <3> HIDE DEF w
    <3> QED
      BY <1>2, <2>4, <3>1, ReadOn
  <2> QED
    BY <2>2, <2>3, <2>5 DEF Lists
<1>5. CASE src[pos + 1] # "shown"
  <2>1. reader' # "send"
    BY <1>5 DEF Read
  <2>2. Path' = Path
    BY <1>1, <2>1 DEF Path
  <2>3. Shown(start, pos)' = Shown(start, pos)
    BY <1>1, <1>2, <1>5 DEF Shown
  <2> QED
    BY <2>2, <2>3 DEF Lists
<1> QED
  BY <1>4, <1>5

(* Every step of the daemon and of the client keeps the order of the items.*)
LEMMA StepInOrder ==
    ASSUME IInv, [Next]_vars
    PROVE  InOrder'
<1> SUFFICES ASSUME ~broken', cmd' = "run"
             PROVE  Lists(Path, Shown(start, pos))'
  BY DEF InOrder
<1>1. ~broken /\ cmd = "run"
  BY DEF vars, daemonVars, clientVars, Next, Daemon, Client, Write, ContainerMoves,
         SubscriptionEnds, ReadLogsFails, OpenStream, Read, Eof, WaitLogs, Forward, Send, HandlerReturns,
         Recv, RecvEnds, Deliver, LogsDone, Interrupt, Break
<1>2. TypeOK /\ Lists(Path, Shown(start, pos))
  BY <1>1 DEF IInv, InOrder
<1>3. ASSUME Path' = Path, Shown(start, pos)' = Shown(start, pos)
      PROVE  Lists(Path, Shown(start, pos))'
  BY <1>2, <1>3 DEF Lists
<1>4. ASSUME UNCHANGED <<src, start, pos, got, cheld, wire, hheld>>,
             reader' = "send" <=> reader = "send"
      PROVE  Lists(Path, Shown(start, pos))'
  BY <1>3, <1>4 DEF Path, Shown
<1>5. ASSUME NEW i \in {"shown", "other", "bad"}, Write(i)
      PROVE  Lists(Path, Shown(start, pos))'
  <2>1. Shown(start, pos)' = Shown(start, pos)
    BY <1>2, <1>5, ShownIsStable DEF Write, daemonVars
  <2>2. Path' = Path
    BY <1>5 DEF Write, daemonVars, clientVars, Path
  <2> QED
    BY <1>3, <2>1, <2>2
<1>6. CASE OpenStream
  <2>1. CASE handler' = "end"
    BY <1>4, <1>6, <2>1 DEF OpenStream, clientVars
  <2>2. CASE handler' # "end"
    <3>1. /\ cheld = 0 /\ wire = <<>> /\ hheld = 0 /\ got = <<>>
          /\ UNCHANGED <<src, cheld, wire, hheld, got>>
          /\ reader' = "read" /\ pos' = start' /\ start' \in Nat
      BY <1>2, <1>6, <2>2 DEF OpenStream, clientVars, IInv, NothingYet, TypeOK
    <3>2. Path' = <<>>
      <4>1. <<>> \o <<>> = <<>>
        BY EmptySeq, ConcatEmptySeq
      <4> QED
        BY <3>1, <4>1, HeldIsSeq DEF Path
    <3>3. Shown(start, pos)' = {}
      BY <3>1 DEF Shown
    <3> QED
      BY <3>2, <3>3 DEF Lists, Range
  <2> QED
    BY <2>1, <2>2
<1>7. CASE Read
  BY <1>2, <1>7, TakenIn
<1>8. CASE Deliver \/ Recv \/ Send \/ Forward
  <2>1. Path' = Path
    BY <1>1, <1>2, <1>8, MovedOn
  <2>2. UNCHANGED <<src, start, pos>>
    BY <1>8 DEF Deliver, Recv, Send, Forward, daemonVars
  <2> QED
    BY <1>3, <2>1, <2>2 DEF Shown
<1>9. CASE UNCHANGED vars
  BY <1>4, <1>9 DEF vars, daemonVars, clientVars
<1>10. CASE ContainerMoves \/ SubscriptionEnds
  BY <1>4, <1>10 DEF ContainerMoves, SubscriptionEnds, daemonVars, clientVars
<1>11. CASE Eof \/ WaitLogs \/ HandlerReturns \/ ReadLogsFails
  BY <1>4, <1>11 DEF Eof, WaitLogs, HandlerReturns, ReadLogsFails, clientVars
<1>12. CASE RecvEnds \/ LogsDone
  BY <1>4, <1>12 DEF RecvEnds, LogsDone, daemonVars
<1>13. ~Interrupt /\ ~Break
  BY DEF Interrupt, Break
<1> QED
  BY <1>5, <1>6, <1>7, <1>8, <1>9, <1>10, <1>11, <1>12, <1>13 DEF Next, Daemon, Client

(* A log that came to its end stays complete, and LogsDone ends none that  *)
(* is not.                                                                 *)
LEMMA StepComplete ==
    ASSUME IInv, [Next]_vars
    PROVE  LogsComplete'
<1> SUFFICES ASSUME kind' = "logs", cmd' = "done", ~broken', reader' # "off"
             PROVE  /\ Lists(got, Shown(start, pos))'
                    /\ ~failed' => /\ pos' >= had'
                                   /\ follow' => found' # "running"
                                   /\ follow' /\ found' = "exited" => pos' = Len(src')
  BY DEF LogsComplete
<1>1. ~broken /\ kind = "logs" /\ follow' = follow
  BY DEF vars, daemonVars, clientVars, Next, Daemon, Client, Write, ContainerMoves,
         SubscriptionEnds, ReadLogsFails, OpenStream, Read, Eof, WaitLogs, Forward, Send, HandlerReturns,
         Recv, RecvEnds, Deliver, LogsDone, Interrupt, Break
<1>2. TypeOK
  BY DEF IInv
<1>3. CASE LogsDone
  <2>1. /\ cheld = 0 /\ wire = <<>> /\ hheld = 0 /\ reader = "end" /\ cmd = "run"
        /\ UNCHANGED <<src, start, pos, had, found, failed, got, reader>>
    BY <1>3 DEF IInv, EndsInOrder, LogsDone, daemonVars
  <2>2. Path = got
    BY <1>2, <2>1, DrainedPath
  <2>3. Lists(got, Shown(start, pos))
    BY <1>1, <2>1, <2>2 DEF IInv, InOrder
  <2>4. /\ ~failed => /\ pos >= had
                      /\ follow => found # "running"
                      /\ follow /\ found = "exited" => pos = Len(src)
    BY <1>1, <2>1 DEF IInv, ReadAfterExit
  <2> QED
    BY <1>1, <2>1, <2>3, <2>4 DEF Lists, Shown
<1>4. CASE ~LogsDone
  <2>1. cmd = "done"
    BY <1>1, <1>4
       DEF vars, daemonVars, clientVars, Next, Daemon, Client, Write, ContainerMoves,
           SubscriptionEnds, ReadLogsFails, OpenStream, Read, Eof, WaitLogs, Forward, Send, HandlerReturns,
           Recv, RecvEnds, Deliver, Interrupt, Break
  <2>2. handler = "end" /\ reader \in {"off", "end"} /\ hheld = 0
    BY <1>1, <2>1 DEF IInv, EndsInOrder
  <2>3. UNCHANGED <<start, pos, had, found, failed, got, reader>>
    BY <2>1, <2>2
       DEF vars, daemonVars, clientVars, Next, Daemon, Client, Write, ContainerMoves,
           SubscriptionEnds, ReadLogsFails, OpenStream, Read, Eof, WaitLogs, Forward, Send, HandlerReturns,
           Recv, RecvEnds, Deliver, LogsDone, Interrupt, Break
  <2>4. /\ Lists(got, Shown(start, pos))
        /\ ~failed => /\ pos >= had
                      /\ follow => found # "running"
                      /\ follow /\ found = "exited" => pos = Len(src)
    BY <1>1, <2>1, <2>3 DEF IInv, LogsComplete
  <2>5. \/ src' = src
        \/ /\ ctr \in {"starting", "running"}
           /\ \E i \in {"shown", "other", "bad"} : src' = Append(src, i)
    BY DEF vars, daemonVars, clientVars, Next, Daemon, Client, Write, ContainerMoves,
           SubscriptionEnds, ReadLogsFails, OpenStream, Read, Eof, WaitLogs, Forward, Send, HandlerReturns,
           Recv, RecvEnds, Deliver, LogsDone, Interrupt, Break
  <2>6. Shown(start, pos)' = Shown(start, pos)
    BY <1>2, <2>3, <2>5, ShownIsStable
  <2> QED
    BY <1>1, <2>3, <2>4, <2>5, <2>6 DEF Lists, IInv, ReadAfterExit
<1> QED
  BY <1>3, <1>4

(* Every step keeps the inductive invariant. *)
LEMMA StepIInv == IInv /\ [Next]_vars => IInv'
  BY StepTypes, StepEnds, StepInOrder, StepComplete DEF IInv

(* What the command received, followed by what is on its way, is what the  *)
(* daemon read, in order, for any window (Daemon.Events, LogContainer).    *)
THEOREM ReceivedInOrder == Spec => []InOrder
<1>1. IInv => InOrder
  BY DEF IInv
<1> QED
  BY <1>1, InitIInv, StepIInv, PTL DEF Spec

(* logs that comes to its end has printed what ReadLogs read, which is,    *)
(* unless ReadLogs failed, all there was when the log was opened and, of a *)
(* container that was followed until it exited, all it wrote.              *)
THEOREM LogsAreComplete == Spec => []LogsComplete
<1>1. IInv => LogsComplete
  BY DEF IInv
<1> QED
  BY <1>1, InitIInv, StepIInv, PTL DEF Spec

(* The types, and that a handler ranges over the channel of a goroutine    *)
(* that was started (Daemon.Events, Daemon.LogContainer).                  *)
THEOREM StreamTypes == Spec => []TypeOK
<1>1. IInv => TypeOK
  BY DEF IInv
<1> QED
  BY <1>1, InitIInv, StepIInv, PTL DEF Spec
=============================================================================
