------------------------------ MODULE Startup ------------------------------
(***************************************************************************)
(* How the k3c daemon comes up and goes down inside containerd's process.  *)
(*                                                                         *)
(*   - main loads the plugins one after the other (k3c's PluginInitFunc    *)
(*     among them), then opens the socket and waits for the end;           *)
(*   - the goroutine PluginInitFunc starts connects to that socket, sets   *)
(*     the clients of the Daemon one by one, starts the collector and then *)
(*     the initialized flag;                                               *)
(*   - RPCs of k3c's service arrive as soon as the socket is open;         *)
(*   - the signal handler stops the server and closes the plugins while    *)
(*     handlers and the goroutine above may still be running.              *)
(*                                                                         *)
(* The clients are fields of the Daemon without a lock.  Using one that is *)
(* nil is a panic, which ends the process: nothing recovers it.            *)
(***************************************************************************)
EXTENDS Naturals, FiniteSets

CONSTANT Calls    \* the RPCs that clients may have in flight

VARIABLES
    main,         \* next step of containerd's main
    start,        \* next step of the goroutine of PluginInitFunc
    clients,      \* the fields of the Daemon that are not nil
    collector,    \* "none", "started", or "passing" after its first call
    initialized,  \* the flag of the service
    grpc,         \* the gRPC server: "new", "serving" or "stopped"
    known,        \* the signal handler has received the server
    signal,       \* "none", "pending", "stop", "close", "done"
    rpc,          \* rpc[r]: "idle", "arrived" or "running"
    exit          \* "no", or how the process ended

vars == <<main, start, clients, collector, initialized, grpc, known, signal,
          rpc, exit>>

Client == {"cClient", "runtime", "image", "Manager"}

(* The RPCs of the service by the clients their handlers use.              *)
PodRpc    == {"ListPods", "CreatePod", "GetContainer", "StartContainer",
              "StopContainer", "RemoveContainer", "LogContainer", "Attach",
              "Exec"}
ImageRpc  == {"ListImages", "RemoveImage", "GetImage", "PullImage"}
StoreRpc  == {"TagImage", "PushImage", "PullProgress"}
VolumeRpc == {"ListVolumes", "CreateVolume", "RemoveVolume"}

Rpc == PodRpc \cup ImageRpc \cup StoreRpc \cup VolumeRpc
           \cup {"CreateContainer", "PushProgress", "Events"}

ASSUME CallsAssumption == Calls \subseteq Rpc

(* PushProgress looks at pushJobs only; CreateContainer sets mounts up.    *)
Uses(r) ==
    CASE r \in PodRpc            -> {"runtime"}
      [] r = "CreateContainer"   -> {"runtime", "Manager"}
      [] r \in ImageRpc          -> {"image"}
      [] r \in StoreRpc          -> {"image", "cClient"}
      [] r \in VolumeRpc         -> {"Manager"}
      [] r = "Events"            -> {"cClient"}
      [] OTHER                   -> {}

(***************************************************************************)
(* TypeOK.  Beyond types: the server serves only after every plugin is     *)
(* loaded, and an initialized service has everything but what Close takes  *)
(* away (Daemon.Start).                                                    *)
(***************************************************************************)
TypeOK ==
    /\ main \in {"plugin", "bootstrap", "rest", "serve", "wait"}
    /\ start \in {"none", "dial", "connect", "runtime", "image", "volume",
                  "fail", "gc", "flag", "done"}
    /\ clients \subseteq Client
    /\ initialized \in BOOLEAN /\ known \in BOOLEAN
    /\ collector \in {"none", "started", "passing"}
    /\ grpc \in {"new", "serving", "stopped"}
    /\ signal \in {"none", "pending", "stop", "close", "done"}
    /\ rpc \in [Calls -> {"idle", "arrived", "running"}]
    /\ exit \in {"no", "stopped", "fatal", "panic"}
    /\ grpc = "serving" => main = "wait"
    /\ initialized => Client \ clients \subseteq {"cClient"}

Init ==
    /\ main = "plugin"
    /\ start = "none"
    /\ clients = {}
    /\ initialized = FALSE /\ known = FALSE
    /\ collector = "none"
    /\ grpc = "new"
    /\ signal = "none"
    /\ rpc = [r \in Calls |-> "idle"]
    /\ exit = "no"

(***************************************************************************)
(* main                                                                    *)
(***************************************************************************)

(* PluginInitFunc makes the Daemon and calls Bootstrap in the foreground.  *)
PluginInit ==
    /\ main = "plugin"
    /\ main' = "bootstrap"
    /\ UNCHANGED <<start, clients, collector, initialized, grpc, known,
                   signal, rpc, exit>>

(* Mutant of Launch: the connection is made before the plugin returns. *)
LaunchForeground ==
    /\ start' = IF start = "none" THEN "dial" ELSE start
    /\ main' = IF start = "done" THEN "rest" ELSE "bootstrap"
    /\ start # start' \/ main' = "rest"

(* The end of PluginInitFunc: the goroutine starts, the plugin returns.    *)
Launch ==
    /\ start' = "dial"
    /\ main' = "rest"

(* Bootstrap has nothing to do, installs the image or fails; its error is  *)
(* logged and the plugin goes on in each case.                             *)
Bootstrap ==
    /\ main = "bootstrap"
    /\ Launch
    /\ UNCHANGED <<clients, collector, initialized, grpc, known, signal, rpc,
                   exit>>

(* The plugins after k3c (buildkit) are loaded or fail, which is a         *)
(* warning; then the services are registered and the signal handler gets   *)
(* the server.  A plugin that is required and fails ends the process.      *)
LoadRest ==
    /\ main = "rest"
    /\ \/ main' = "serve" /\ UNCHANGED exit
       \/ exit' = "fatal" /\ UNCHANGED main
    /\ UNCHANGED <<start, clients, collector, initialized, grpc, known,
                   signal, rpc>>

(* The handler's select takes the server from serverC. *)
ReceiveServer ==
    /\ main \in {"serve", "wait"}
    /\ ~known
    /\ signal \in {"none", "pending"}
    /\ known' = TRUE
    /\ UNCHANGED <<main, start, clients, collector, initialized, grpc,
                   signal, rpc, exit>>

(* The sockets are opened and served.  Serve of a server that has been     *)
(* stopped in between is an error, and fatal.                              *)
Serve ==
    /\ main = "serve"
    /\ main' = "wait"
    /\ IF grpc = "stopped"
         THEN exit' = "fatal" /\ UNCHANGED grpc
         ELSE grpc' = "serving" /\ UNCHANGED exit
    /\ UNCHANGED <<start, clients, collector, initialized, known, signal, rpc>>

(* main returns once the signal handler is done. *)
Exit ==
    /\ main = "wait"
    /\ signal = "done"
    /\ exit' = "stopped"
    /\ UNCHANGED <<main, start, clients, collector, initialized, grpc, known,
                   signal, rpc>>

(***************************************************************************)
(* The goroutine of PluginInitFunc                                         *)
(***************************************************************************)

(* endpointconn.Get with grpc.WithBlock: waits until the socket is served. *)
Dial ==
    /\ start = "dial"
    /\ grpc = "serving"
    /\ start' = "connect"
    /\ UNCHANGED <<main, clients, collector, initialized, grpc, known,
                   signal, rpc, exit>>

(* NewWithConn asks for the namespace's labels, and may fail. *)
Connect ==
    /\ start = "connect"
    /\ \/ clients' = clients \cup {"cClient"} /\ start' = "runtime"
       \/ UNCHANGED clients /\ start' = "fail"
    /\ UNCHANGED <<main, collector, initialized, grpc, known, signal, rpc,
                   exit>>

(* The two CRI clients are made on the same connection. *)
SetRuntime ==
    /\ start = "runtime"
    /\ clients' = clients \cup {"runtime"}
    /\ start' = "image"
    /\ UNCHANGED <<main, collector, initialized, grpc, known, signal, rpc,
                   exit>>

SetImage ==
    /\ start = "image"
    /\ clients' = clients \cup {"image"}
    /\ start' = "volume"
    /\ UNCHANGED <<main, collector, initialized, grpc, known, signal, rpc,
                   exit>>

(* Daemon.Close: cClient becomes nil, unless closing the connection fails. *)
CloseClient ==
    \/ clients' = clients \ {"cClient"}
    \/ "cClient" \in clients /\ UNCHANGED clients

(* Mutant of NewVolumes: the error is not returned. *)
NewVolumesIgnored ==
    /\ start = "volume"
    /\ clients' \in {clients, clients \cup {"Manager"}}
    /\ start' = "gc"
    /\ UNCHANGED <<main, collector, initialized, grpc, known, signal, rpc, exit>>

(* volume.New makes the directory of the volumes; when that fails the      *)
(* deferred Close runs, and Start returns the error.                       *)
NewVolumes ==
    /\ start = "volume"
    /\ \/ clients' = clients \cup {"Manager"} /\ start' = "gc"
       \/ CloseClient /\ start' = "fail"
    /\ UNCHANGED <<main, collector, initialized, grpc, known, signal, rpc,
                   exit>>

(* An error of Start is fatal. *)
StartFails ==
    /\ start = "fail"
    /\ exit' = "fatal"
    /\ UNCHANGED <<main, start, clients, collector, initialized, grpc, known,
                   signal, rpc>>

(* go c.gc(ctx), the last statement of Start. *)
StartGc ==
    /\ start = "gc"
    /\ collector' = "started"
    /\ start' = "flag"
    /\ UNCHANGED <<main, clients, initialized, grpc, known, signal, rpc, exit>>

SetInitialized ==
    /\ start = "flag"
    /\ initialized' = TRUE
    /\ start' = "done"
    /\ UNCHANGED <<main, clients, collector, grpc, known, signal, rpc, exit>>

(***************************************************************************)
(* RPCs                                                                    *)
(***************************************************************************)
Arrive(r) ==
    /\ grpc = "serving"
    /\ rpc[r] = "idle"
    /\ rpc' = [rpc EXCEPT ![r] = "arrived"]
    /\ UNCHANGED <<main, start, clients, collector, initialized, grpc, known,
                   signal, exit>>

(* Mutant of Ready: the service is ready once the collector's client is.   *)
ReadyEarly == "runtime" \in clients

Ready == initialized

(* checkInitialized, the first statement of every handler. *)
CheckInitialized(r) ==
    /\ rpc[r] = "arrived"
    /\ rpc' = [rpc EXCEPT ![r] = IF Ready THEN "running" ELSE "idle"]
    /\ UNCHANGED <<main, start, clients, collector, initialized, grpc, known,
                   signal, exit>>

(* The handler uses one of its clients, and finds it nil. *)
UseNil(r) ==
    /\ rpc[r] = "running"
    /\ ~ (Uses(r) \subseteq clients)
    /\ exit' = "panic"
    /\ UNCHANGED <<main, start, clients, collector, initialized, grpc, known,
                   signal, rpc>>

(* It returns; what it does with its clients is in the other modules. *)
Return(r) ==
    /\ rpc[r] = "running"
    /\ rpc' = [rpc EXCEPT ![r] = "idle"]
    /\ UNCHANGED <<main, start, clients, collector, initialized, grpc, known,
                   signal, exit>>

(* The first pass of the collector; each begins with the runtime client.   *)
FirstPass ==
    /\ collector = "started"
    /\ IF "runtime" \in clients
         THEN collector' = "passing" /\ UNCHANGED exit
         ELSE exit' = "panic" /\ UNCHANGED collector
    /\ UNCHANGED <<main, start, clients, initialized, grpc, known, signal, rpc>>

(***************************************************************************)
(* The signal handler                                                      *)
(***************************************************************************)
Signal ==
    /\ signal = "none"
    /\ signal' = "pending"
    /\ UNCHANGED <<main, start, clients, collector, initialized, grpc, known,
                   rpc, exit>>

(* Mutant of HandleSignal: a signal that comes too early is passed over. *)
HandleSignalLater ==
    /\ signal = "pending"
    /\ signal' = IF known THEN "stop" ELSE "none"
    /\ UNCHANGED <<main, start, clients, collector, initialized, grpc, known,
                   rpc, exit>>

(* Without a server there is nothing to stop: main still goes on to serve  *)
(* and returns right after.                                                *)
HandleSignal ==
    /\ signal = "pending"
    /\ signal' = IF known THEN "stop" ELSE "done"
    /\ UNCHANGED <<main, start, clients, collector, initialized, grpc, known,
                   rpc, exit>>

(* grpcServer.Stop closes the connections and does not wait for handlers;  *)
(* RPCs that are being read from them may or may not start.                *)
StopServer ==
    /\ signal = "stop"
    /\ signal' = "close"
    /\ grpc' = "stopped"
    /\ UNCHANGED <<main, start, clients, collector, initialized, known, rpc,
                   exit>>

(* The plugins are closed in reverse order, k3c's among them. *)
Close ==
    /\ signal = "close"
    /\ signal' = "done"
    /\ CloseClient
    /\ UNCHANGED <<main, start, collector, initialized, grpc, known, rpc,
                   exit>>

(***************************************************************************)
(* Specification: nothing moves once the process has ended.                *)
(***************************************************************************)
Main ==
    \/ PluginInit
    \/ Bootstrap
    \/ LoadRest
    \/ Serve
    \/ Exit

Start ==
    \/ Dial
    \/ Connect
    \/ SetRuntime
    \/ SetImage
    \/ NewVolumes
    \/ StartFails
    \/ StartGc
    \/ SetInitialized

Handler == HandleSignal \/ StopServer \/ Close

Next ==
    /\ exit = "no"
    /\ \/ Main
       \/ Start
       \/ ReceiveServer
       \/ Handler
       \/ Signal
       \/ FirstPass
       \/ \E r \in Calls :
            Arrive(r) \/ CheckInitialized(r) \/ UseNil(r) \/ Return(r)

Spec == Init /\ [][Next]_vars

(* Every goroutine runs, and Bootstrap ends; no signal and no RPC need     *)
(* come.                                                                   *)
FairSpec ==
    /\ Spec
    /\ WF_vars(Next /\ Main)
    /\ WF_vars(Next /\ Start)
    /\ WF_vars(Next /\ Handler)
    /\ \A r \in Calls : WF_vars(Next /\ CheckInitialized(r))

(***************************************************************************)
(* Properties                                                              *)
(***************************************************************************)

(* While the server has not been told to stop, no handler and no pass of   *)
(* the collector meets a nil client, however early the RPC came            *)
(* (checkInitialized, Daemon.Start).                                       *)
NoNilClient == exit = "panic" => signal \in {"stop", "close", "done"}

(* The daemon comes up, or its process ends: the connection the plugin     *)
(* makes to its own process's socket does not keep that socket from being  *)
(* opened (PluginInitFunc).                                                *)
StartsUp == <>(initialized \/ exit # "no")

(* A signal ends the process wherever the start-up is, a dial in progress  *)
(* included (handleSignals, Server.Stop, Daemon.Close).                    *)
SignalEnds == signal = "pending" ~> exit # "no"

=============================================================================
