--------------------------- MODULE StartupProofs ---------------------------
(***************************************************************************)
(* For any set of RPCs in flight: no handler and no pass of the collector  *)
(* meets a nil client before the server is told to stop.                   *)
(*                                                                         *)
(* NoNilClient is a fact about the last step before a panic.  What makes   *)
(* it inductive is the order of Start: the flag comes after every client,  *)
(* handlers run after the flag, and only Close takes a client away.        *)
(***************************************************************************)
EXTENDS Startup, TLAPS

Stopping == signal \in {"stop", "close", "done"}

(* cClient is there from Connect on, unless it has been closed. *)
Connected ==
    start \in {"runtime", "image", "volume", "gc", "flag", "done"} =>
        "cClient" \in clients \/ Stopping

(* The other clients are set one by one and stay. *)
SetInOrder ==
    /\ start \in {"image", "volume", "gc", "flag", "done"} =>
           "runtime" \in clients
    /\ start \in {"volume", "gc", "flag", "done"} => "image" \in clients
    /\ start \in {"gc", "flag", "done"} => "Manager" \in clients

(* Start begins once, when the plugin is loaded. *)
LaunchedOnce == main \in {"plugin", "bootstrap"} => start = "none"

FlagIsLast == initialized => start = "done"

RunningIsChecked == \A r \in Calls : rpc[r] = "running" => initialized

CollectorIsLate == collector # "none" => start \in {"flag", "done"}

IInv ==
    /\ TypeOK
    /\ Connected
    /\ SetInOrder
    /\ LaunchedOnce
    /\ FlagIsLast
    /\ RunningIsChecked
    /\ CollectorIsLate
    /\ NoNilClient

(* A handler uses clients of the Daemon only (Daemon's fields). *)
LEMMA UsesClients == \A r : Uses(r) \subseteq Client
  BY DEF Uses, Client

(* With the flag set, everything is there or the server is stopping. *)
LEMMA ReadyMeansSet ==
    ASSUME IInv, initialized, ~Stopping
    PROVE  clients = Client
  BY DEF IInv, TypeOK, Connected, SetInOrder, FlagIsLast, Stopping, Client

(* The first state, with no client and nothing in flight, satisfies IInv.  *)
LEMMA InitIInv == Init => IInv
  BY DEF Init, IInv, TypeOK, Connected, SetInOrder, LaunchedOnce,
         FlagIsLast, RunningIsChecked, CollectorIsLate, NoNilClient, Stopping, Client

USE DEF TypeOK, Client

(* Every step of main, of the goroutine of PluginInitFunc, of the signal   *)
(* handler, the collector and the RPC handlers keeps IInv.                 *)
LEMMA StepIInv == IInv /\ [Next]_vars => IInv'
<1> SUFFICES ASSUME IInv, [Next]_vars
             PROVE  IInv'
  OBVIOUS
<1> USE DEF IInv, Connected, SetInOrder, LaunchedOnce, FlagIsLast,
            RunningIsChecked, CollectorIsLate, NoNilClient, Stopping
<1>1. CASE UNCHANGED vars
  BY <1>1 DEF vars
<1>2. CASE exit = "no" /\ Main
  <2>1. CASE PluginInit
    BY <1>2, <2>1 DEF PluginInit
  <2>2. CASE Bootstrap
    BY <1>2, <2>2 DEF Bootstrap, Launch
  <2>3. CASE LoadRest
    BY <1>2, <2>3 DEF LoadRest
  <2>4. CASE Serve
    BY <1>2, <2>4 DEF Serve
  <2>5. CASE Exit
    BY <1>2, <2>5 DEF Exit
  <2> QED
    BY <1>2, <2>1, <2>2, <2>3, <2>4, <2>5 DEF Main
<1>3. CASE exit = "no" /\ Start
  <2>1. CASE Dial
    BY <1>3, <2>1 DEF Dial
  <2>2. CASE Connect
    BY <1>3, <2>2 DEF Connect
  <2>3. CASE SetRuntime
    BY <1>3, <2>3 DEF SetRuntime
  <2>4. CASE SetImage
    BY <1>3, <2>4 DEF SetImage
  <2>5. CASE NewVolumes
    BY <1>3, <2>5 DEF NewVolumes, CloseClient
  <2>6. CASE StartFails
    BY <1>3, <2>6 DEF StartFails
  <2>7. CASE StartGc
    BY <1>3, <2>7 DEF StartGc
  <2>8. CASE SetInitialized
    BY <1>3, <2>8 DEF SetInitialized
  <2> QED
    BY <1>3, <2>1, <2>2, <2>3, <2>4, <2>5, <2>6, <2>7, <2>8 DEF Start
<1>4. CASE ReceiveServer
  BY <1>4 DEF ReceiveServer
<1>5. CASE Handler
  <2>1. CASE HandleSignal
    BY <2>1 DEF HandleSignal
  <2>2. CASE StopServer
    BY <2>2 DEF StopServer
  <2>3. CASE Close
    <3>1. /\ clients' \subseteq clients
          /\ clients \ {"cClient"} \subseteq clients'
          /\ signal' = "done"
          /\ UNCHANGED <<main, start, collector, initialized, grpc, known, rpc,
                         exit>>
      BY <2>3 DEF Close, CloseClient
    <3>2. TypeOK' /\ SetInOrder'
      BY <3>1
    <3> QED
      BY <3>1, <3>2
  <2> QED
    BY <1>5, <2>1, <2>2, <2>3 DEF Handler
<1>6. CASE Signal
  BY <1>6 DEF Signal
<1>7. CASE exit = "no" /\ FirstPass
  BY <1>7 DEF FirstPass
<1>8. ASSUME NEW r \in Calls, exit = "no",
             Arrive(r) \/ CheckInitialized(r) \/ UseNil(r) \/ Return(r)
      PROVE  IInv'
  <2>1. CASE Arrive(r)
    BY <1>8, <2>1 DEF Arrive
  <2>2. CASE CheckInitialized(r)
    BY <1>8, <2>2 DEF CheckInitialized, Ready
  <2>3. CASE UseNil(r)
    <3>1. initialized
      BY <2>3 DEF UseNil
    <3>2. Stopping
      BY <2>3, <3>1, ReadyMeansSet, UsesClients DEF UseNil
    <3> QED
      BY <2>3, <3>2 DEF UseNil
  <2>4. CASE Return(r)
    BY <1>8, <2>4 DEF Return
  <2> QED
    BY <1>8, <2>1, <2>2, <2>3, <2>4
<1> QED
  BY <1>1, <1>2, <1>3, <1>4, <1>5, <1>6, <1>7, <1>8 DEF Next

(* No handler and no pass of the collector meets a nil client before the   *)
(* server is told to stop (checkInitialized, Daemon.Start, Daemon.Close).  *)
THEOREM ServedIsReady == Spec => []NoNilClient
<1>1. IInv => NoNilClient
  BY DEF IInv
<1> QED
  BY <1>1, InitIInv, StepIInv, PTL DEF Spec

(* The same argument gives the types, and with them that an initialized    *)
(* service has all it needs but what Close takes away (Daemon.Start).      *)
THEOREM StartupTypes == Spec => []TypeOK
<1>1. IInv => TypeOK
  BY DEF IInv
<1> QED
  BY <1>1, InitIInv, StepIInv, PTL DEF Spec

=============================================================================
