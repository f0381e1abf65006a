----------------------------- MODULE K3cDaemon -----------------------------
(* The k3c daemon over the CRI service, as the k3c commands drive it:      *)
(*   - the pod and container handlers of pkg/daemon, one step per CRI call *)
(*     (CreatePod, CreateContainer, GetContainer/listPods, StartContainer, *)
(*     StopContainer, RemoveContainer, Attach, ListPods);                  *)
(*   - the pod garbage collector goroutine (gc, runGC), one step per CRI   *)
(*     call, acting after its sleep on lists it took before it;            *)
(*   - the commands create, run, start, stop, rm and ps, sequences of RPCs *)
(*     with nothing held in between;                                       *)
(*   - another CRI client, containers that exit, failing calls, a client   *)
(*     that goes away, a daemon (or machine) that restarts.                *)
EXTENDS Cri

CONSTANTS
    Client,     \* k3c command line processes, one command each
    Commands,   \* the commands they may be given
    MaxFaults   \* bound: calls that fail for no reason seen here, restarts

ASSUME DaemonAssumption ==
    /\ Commands \subseteq {"create", "run", "run -d", "start", "stop",
                           "rm", "rm -f", "ps"}
    /\ MaxFaults \in Nat

VARIABLES
    pc, cmd, ref,  \* per client: next step, the command, its reference argument
    op,            \* the runtime call GetContainer resolves a reference for
    hold,          \* the pod a create holds the id of
    target,        \* the container a reference was resolved to
    seenPods,      \* listPods: sandboxes listed,
    todo, found,   \*   containers listed without / with their ContainerStatus
    result         \* how the command ended

VARIABLES
    kicked,        \* kicker.kicked
    gcPc,          \* next step of the gc goroutine
    gcPods,        \* runGC: keys of "pods", from ListContainers on those with count 0
    gcCtrs,        \* foreign containers runGC has still to remove
    gcCur,         \* the pod or container of the pending call
    born           \* history: containers added since runGC listed containers

VARIABLE faults

cliVars == <<pc, cmd, ref, op, hold, target, seenPods, todo, found, result>>
gcVars  == <<gcPc, gcPods, gcCtrs, gcCur>>
vars    == <<criVars, cliVars, kicked, gcVars, born, faults>>

ClientPc == {"idle", "createPod", "findPod", "criCreate", "criAdd", "listPods",
             "listCtrs", "status", "call", "stream", "starting"}
GcPc     == {"wait", "listPods", "listCtrs", "foreign", "rmForeign", "sweep",
             "stop", "remove"}
Ref      == Name \cup Ctr \cup {Empty}

Init ==
    /\ CriInit
    /\ pc = [x \in Client |-> "idle"]
    /\ cmd = [x \in Client |-> "none"]
    /\ ref = [x \in Client |-> Empty]
    /\ op = [x \in Client |-> "none"]
    /\ hold = [x \in Client |-> NoPod]
    /\ target = [x \in Client |-> NoCtr]
    /\ seenPods = [x \in Client |-> {}]
    /\ todo = [x \in Client |-> {}]
    /\ found = [x \in Client |-> {}]
    /\ result = [x \in Client |-> "none"]
    /\ kicked = TRUE      \* kicker.New(ctx, true)
    /\ gcPc = "wait"
    /\ gcPods = {}
    /\ gcCtrs = {}
    /\ gcCur = NoPod
    /\ born = {}
    /\ faults = 0

(* A call that could succeed fails all the same. *)
Fault ==
    /\ faults < MaxFaults
    /\ faults' = faults + 1

Outcome(would, ok) ==
    \/ ok = would /\ UNCHANGED faults
    \/ would /\ ~ok /\ Fault

-----------------------------------------------------------------------------
(* Commands *)

(* The runtime call a command asks for, the first of two for rm -f. *)
FirstOp(c) ==
    CASE c \in {"start", "run -d"} -> "start"
      [] c = "run"                 -> "attach"
      [] c \in {"stop", "rm -f"}   -> "stop"
      [] c = "rm"                  -> "remove"
      [] OTHER                     -> "list"

(* The process gets its command; create and run name the container they    *)
(* make, the others refer to one by name or by an id that was printed once.*)
Begin(x, c, r) ==
    /\ cmd[x] = "none"
    /\ cmd' = [cmd EXCEPT ![x] = c]
    /\ ref' = [ref EXCEPT ![x] = r]
    /\ op' = [op EXCEPT ![x] = FirstOp(c)]
    /\ IF c \in {"create", "run", "run -d"}
       THEN /\ r \in Name
            /\ pc' = [pc EXCEPT ![x] = "createPod"]
       ELSE /\ \/ r \in Name
               \/ r \in Ctr /\ cstate[r] # "absent"
            /\ pc' = [pc EXCEPT ![x] = "listPods"]
    /\ UNCHANGED <<criVars, hold, target, seenPods, todo, found, result, kicked,
                   gcVars, born, faults>>

(* The command ends; the client forgets what it held. *)
End(x, res) ==
    /\ pc' = [pc EXCEPT ![x] = "idle"]
    /\ result' = [result EXCEPT ![x] = res]
    /\ hold' = [hold EXCEPT ![x] = NoPod]
    /\ target' = [target EXCEPT ![x] = NoCtr]
    /\ seenPods' = [seenPods EXCEPT ![x] = {}]
    /\ todo' = [todo EXCEPT ![x] = {}]
    /\ found' = [found EXCEPT ![x] = {}]
    /\ UNCHANGED <<cmd, ref, op>>

(* The next RPC of the command resolves a reference. *)
Lookup(x, r, o) ==
    /\ pc' = [pc EXCEPT ![x] = "listPods"]
    /\ ref' = [ref EXCEPT ![x] = r]
    /\ op' = [op EXCEPT ![x] = o]
    /\ hold' = [hold EXCEPT ![x] = NoPod]
    /\ target' = [target EXCEPT ![x] = NoCtr]
    /\ seenPods' = [seenPods EXCEPT ![x] = {}]
    /\ todo' = [todo EXCEPT ![x] = {}]
    /\ found' = [found EXCEPT ![x] = {}]
    /\ UNCHANGED <<cmd, result>>

(* The RPC of the current op ended: rm -f ignores how its StopContainer did*)
(* and goes on to RemoveContainer, which resolves the reference again.     *)
EndOp(x, res) ==
    IF cmd[x] = "rm -f" /\ op[x] = "stop"
    THEN Lookup(x, ref[x], "remove")
    ELSE End(x, res)

(* RemoveContainer kicks the collector however it ends. *)
KickAfter(x) == kicked' = IF op[x] = "remove" THEN TRUE ELSE kicked

-----------------------------------------------------------------------------
(* CreatePod and CreateContainer, for create and run *)

(* Mutant of CreatePod: a failure does not keep the command from going on. *)
CreatePodUnchecked(x) ==
    /\ pc[x] = "createPod"
    /\ pc' = [pc EXCEPT ![x] = "findPod"]
    /\ \/ \E p \in Pod \ ForeignPod :
            /\ RunPodSandbox(p)
            /\ hold' = [hold EXCEPT ![x] = p]
            /\ UNCHANGED faults
       \/ Fault /\ UNCHANGED <<criVars, hold>>
    /\ UNCHANGED <<cmd, ref, op, target, seenPods, todo, found, result,
                   kicked, gcVars, born>>

(* CreatePod makes one CRI call.  When it fails, Create returns no error    *)
(* and the id "": create ends well, run goes on with the empty reference.  *)
CreatePod(x) ==
    /\ pc[x] = "createPod"
    /\ \/ \E p \in Pod \ ForeignPod :
            /\ RunPodSandbox(p)
            /\ pc' = [pc EXCEPT ![x] = "findPod"]
            /\ hold' = [hold EXCEPT ![x] = p]
            /\ UNCHANGED <<cmd, ref, op, target, seenPods, todo, found, result, faults>>
       \/ /\ Fault
          /\ UNCHANGED criVars
          /\ IF cmd[x] = "create" THEN End(x, "ok")
                                  ELSE Lookup(x, Empty, op[x])
    /\ UNCHANGED <<kicked, gcVars, born>>

(* CreateContainer first lists the pod by its id. *)
CreateContainerFindPod(x) ==
    /\ pc[x] = "findPod"
    /\ \E ok \in BOOLEAN :
         /\ Outcome(PodInStore(hold[x]), ok)
         /\ IF ok THEN /\ pc' = [pc EXCEPT ![x] = "criCreate"]
                       /\ UNCHANGED <<cmd, ref, op, hold, target, seenPods, todo, found, result>>
                  ELSE End(x, "error")
    /\ UNCHANGED <<criVars, kicked, gcVars, born>>

CreateContainerCheck(x) ==
    /\ pc[x] = "criCreate"
    /\ \E ok \in BOOLEAN :
         /\ Outcome(MayCreateIn(hold[x]), ok)
         /\ IF ok THEN /\ pc' = [pc EXCEPT ![x] = "criAdd"]
                       /\ UNCHANGED <<cmd, ref, op, hold, target, seenPods, todo, found, result>>
                  ELSE End(x, "error")
    /\ UNCHANGED <<criVars, kicked, gcVars, born>>

CreateContainerAdd(x) ==
    /\ pc[x] = "criAdd"
    /\ \/ \E k \in Ctr :
            /\ AddContainer(k, hold[x], ref[x])
            /\ born' = born \cup {k}
            /\ IF cmd[x] = "create" THEN End(x, "ok")
                                    ELSE Lookup(x, k, op[x])
            /\ UNCHANGED faults
       \/ /\ Fault
          /\ End(x, "error")
          /\ UNCHANGED <<criVars, born>>
    /\ UNCHANGED <<kicked, gcVars>>

-----------------------------------------------------------------------------
(* GetContainer, by way of listPods, and the call it is for *)

ListPodsSandboxes(x) ==
    /\ pc[x] = "listPods"
    /\ \/ /\ seenPods' = [seenPods EXCEPT ![x] = ListPodSandbox]
          /\ pc' = [pc EXCEPT ![x] = "listCtrs"]
          /\ UNCHANGED <<cmd, ref, op, hold, target, todo, found, result,
                         kicked, faults>>
       \/ Fault /\ EndOp(x, "error") /\ KickAfter(x)
    /\ UNCHANGED <<criVars, gcVars, born>>

(* Containers of sandboxes that were not listed are left out. *)
ListPodsContainers(x) ==
    /\ pc[x] = "listCtrs"
    /\ \/ /\ todo' = [todo EXCEPT ![x] =
                        {k \in ListContainers : podOf[k] \in seenPods[x]}]
          /\ pc' = [pc EXCEPT ![x] = "status"]
          /\ UNCHANGED <<cmd, ref, op, hold, target, seenPods, found, result,
                         kicked, faults>>
       \/ Fault /\ EndOp(x, "error") /\ KickAfter(x)
    /\ UNCHANGED <<criVars, gcVars, born>>

(* One ContainerStatus per container; the first that fails fails listPods, *)
(* whichever container the caller is after.                                *)
ListPodsStatus(x) ==
    /\ pc[x] = "status"
    /\ \E k \in todo[x], ok \in BOOLEAN :
         /\ Outcome(InStore(k), ok)
         /\ IF ok THEN /\ todo' = [todo EXCEPT ![x] = @ \ {k}]
                       /\ found' = [found EXCEPT ![x] = @ \cup {k}]
                       /\ UNCHANGED <<pc, cmd, ref, op, hold, target, seenPods, result, kicked>>
                  ELSE EndOp(x, "error") /\ KickAfter(x)
    /\ UNCHANGED <<criVars, gcVars, born>>

(* toPod drops the pods and the containers whose configuration is missing: *)
(* those of other clients.                                                 *)
ToPod(ks) == {k \in ks : ~Foreign(k)}

(* A container matches by name or id prefix.  Pods come in map order: any  *)
(* match may be the first.                                                 *)
Matches(x) == {k \in ToPod(found[x]) : ref[x] \in {k, nameOf[k], Empty}}

GetContainer(x) ==
    /\ pc[x] = "status"
    /\ todo[x] = {}
    /\ \/ /\ op[x] = "list"
          /\ End(x, "ok")
          /\ UNCHANGED kicked
       \/ /\ op[x] # "list"
          /\ Matches(x) = {}
          /\ EndOp(x, "notfound")
          /\ KickAfter(x)
       \/ /\ op[x] # "list"
          /\ \E k \in Matches(x) : target' = [target EXCEPT ![x] = k]
          /\ pc' = [pc EXCEPT ![x] = "call"]
          /\ seenPods' = [seenPods EXCEPT ![x] = {}]
          /\ found' = [found EXCEPT ![x] = {}]
          /\ UNCHANGED <<cmd, ref, op, hold, todo, result, kicked>>
    /\ UNCHANGED <<criVars, gcVars, born, faults>>

Verdict(ok) == IF ok THEN "ok" ELSE "error"

(* The StartContainer call of the runtime is under way, or was refused.    *)
BeginStart(x) ==
    \E ok \in BOOLEAN :
       /\ Outcome(cstate[target[x]] = "created", ok)
       /\ IF ok THEN /\ SetStarting(target[x])
                     /\ pc' = [pc EXCEPT ![x] = "starting"]
                     /\ UNCHANGED <<cmd, ref, op, hold, target, seenPods, todo, found, result>>
                ELSE /\ UNCHANGED criVars
                     /\ End(x, "error")

(* StartContainer, StopContainer and RemoveContainer of the daemon: the    *)
(* runtime call on the container the lookup returned, as it is by now.     *)
CallStart(x) ==
    /\ pc[x] = "call" /\ op[x] = "start"
    /\ BeginStart(x)
    /\ UNCHANGED <<kicked, gcVars, born>>

StartCheck(x) ==
    /\ pc[x] = "starting"
    /\ \E ok \in BOOLEAN :
         /\ Outcome(SandboxReady(target[x]), ok)
         /\ CheckSandbox(target[x], ok)
         /\ IF ok THEN UNCHANGED cliVars ELSE End(x, "error")
    /\ UNCHANGED <<kicked, gcVars, born>>

(* The task cannot join a sandbox that was stopped before it was created.  *)
StartLaunch(x) ==
    /\ pc[x] = "starting"
    /\ \E ok \in BOOLEAN :
         /\ \/ Outcome(TRUE, ok)
            \/ ~SandboxReady(target[x]) /\ ~ok /\ UNCHANGED faults
         /\ StartTask(target[x], ok)
         /\ End(x, Verdict(ok))
    /\ UNCHANGED <<kicked, gcVars, born>>

CallStop(x) ==
    /\ pc[x] = "call" /\ op[x] = "stop"
    /\ \E ok \in BOOLEAN :
         /\ Outcome(InStore(target[x]), ok)
         /\ StopContainer(target[x], ok)
         /\ EndOp(x, Verdict(ok))
    /\ UNCHANGED <<kicked, gcVars, born>>

(* Mutant of CallRemove: the error of the runtime is dropped. *)
CallRemoveUnchecked(x) ==
    /\ pc[x] = "call" /\ op[x] = "remove"
    /\ \E ok \in BOOLEAN :
         /\ Outcome(Removable(target[x]), ok)
         /\ RemoveContainer(target[x], ok)
         /\ End(x, "ok")
         /\ KickAfter(x)
    /\ UNCHANGED <<gcVars, born>>

CallRemove(x) ==
    /\ pc[x] = "call" /\ op[x] = "remove"
    /\ \E ok \in BOOLEAN :
         /\ Outcome(Removable(target[x]), ok)
         /\ RemoveContainer(target[x], ok)
         /\ End(x, Verdict(ok))
         /\ KickAfter(x)
    /\ UNCHANGED <<gcVars, born>>

(* Attach hands out a URL for a container that is created or running; the  *)
(* stream behind it starts the container if it is still only created.      *)
Attachable(k) == InStore(k) /\ cstate[k] # "exited"

CallAttach(x) ==
    /\ pc[x] = "call" /\ op[x] = "attach"
    /\ \E ok \in BOOLEAN :
         /\ Outcome(Attachable(target[x]), ok)
         /\ IF ok THEN /\ pc' = [pc EXCEPT ![x] = "stream"]
                       /\ UNCHANGED <<cmd, ref, op, hold, target, seenPods, todo, found, result>>
                  ELSE End(x, "error")
    /\ UNCHANGED <<criVars, kicked, gcVars, born>>

Stream(x) ==
    /\ pc[x] = "stream"
    /\ \/ /\ cstate[target[x]] = "created" \/ InStart(target[x])
          /\ BeginStart(x)
       \/ /\ cstate[target[x]] # "created" /\ ~InStart(target[x])
          /\ End(x, Verdict(cstate[target[x]] = "running"))
          /\ UNCHANGED <<criVars, faults>>
    /\ UNCHANGED <<kicked, gcVars, born>>

(* The client is interrupted; the RPC in progress is cancelled, and a start*)
(* that is under way fails (or it has come too far to be cancelled).       *)
Interrupt(x) ==
    /\ pc[x] # "idle"
    /\ IF pc[x] = "starting"
       THEN CheckSandbox(target[x], FALSE) \/ StartTask(target[x], FALSE)
       ELSE UNCHANGED criVars
    /\ End(x, "interrupted")
    /\ KickAfter(x)
    /\ UNCHANGED <<gcVars, born, faults>>

ClientStep(x) ==
    \/ CreatePod(x)
    \/ CreateContainerFindPod(x)
    \/ CreateContainerCheck(x)
    \/ CreateContainerAdd(x)
    \/ ListPodsSandboxes(x)
    \/ ListPodsContainers(x)
    \/ ListPodsStatus(x)
    \/ GetContainer(x)
    \/ CallStart(x)
    \/ StartCheck(x)
    \/ StartLaunch(x)
    \/ CallStop(x)
    \/ CallRemove(x)
    \/ CallAttach(x)
    \/ Stream(x)

-----------------------------------------------------------------------------
(* The garbage collector *)

(* Mutant of Kicked: the flag is taken back. *)
KickedOnce == kicked' = FALSE

(* Kicked() does not reset the flag: one kick keeps the collector going.   *)
Kicked == kicked' = kicked

(* gc: a pass follows the last one when Kicked() returns.                  *)
GcKicked ==
    /\ gcPc = "wait"
    /\ kicked
    /\ Kicked
    /\ gcPc' = "listPods"
    /\ UNCHANGED <<criVars, cliVars, gcPods, gcCtrs, gcCur, born, faults>>

(* The pass is over: after an error gc sleeps before the next one. *)
EndPass ==
    /\ gcPc' = "wait"
    /\ gcPods' = {}
    /\ gcCtrs' = {}
    /\ gcCur' = NoPod
    /\ born' = {}

GcListPods ==
    /\ gcPc = "listPods"
    /\ \/ /\ gcPods' = ListPodSandbox
          /\ gcPc' = "listCtrs"
          /\ UNCHANGED <<gcCtrs, gcCur, born, faults>>
       \/ Fault /\ EndPass
    /\ UNCHANGED <<criVars, cliVars, kicked>>

(* Mutant of CountedPods: only running containers count. *)
CountedRunningPods ==
    {podOf[k] : k \in {j \in ListContainers : ~Foreign(j) /\ cstate[j] = "running"}}

(* The pods runGC counts a container for, of those it lists. *)
CountedPods == {podOf[k] : k \in {j \in ListContainers : ~Foreign(j)}}

GcListCtrs ==
    /\ gcPc = "listCtrs"
    /\ \/ /\ gcPods' = gcPods \ CountedPods
          /\ gcCtrs' = {k \in ListContainers : Foreign(k)}
          /\ gcPc' = "foreign"
          /\ born' = {}
          /\ UNCHANGED <<gcCur, faults>>
       \/ Fault /\ EndPass
    /\ UNCHANGED <<criVars, cliVars, kicked>>

(* Containers whose k3c config cannot be read are stopped and removed, and *)
(* the errors ignored.                                                     *)
GcStopForeign ==
    /\ gcPc = "foreign"
    /\ \E k \in gcCtrs, ok \in BOOLEAN :
         /\ Outcome(InStore(k), ok)
         /\ StopContainer(k, ok)
         /\ gcCur' = k
    /\ gcPc' = "rmForeign"
    /\ UNCHANGED <<cliVars, kicked, gcPods, gcCtrs, born>>

GcRemoveForeign ==
    /\ gcPc = "rmForeign"
    /\ \E ok \in BOOLEAN :
         /\ Outcome(Removable(gcCur), ok)
         /\ RemoveContainer(gcCur, ok)
    /\ gcPc' = "foreign"
    /\ gcCtrs' = gcCtrs \ {gcCur}
    /\ gcCur' = NoPod
    /\ UNCHANGED <<cliVars, kicked, gcPods, born>>

(* time.Sleep(5 * time.Second) *)
GcSleep ==
    /\ gcPc = "foreign"
    /\ gcCtrs = {}
    /\ gcPc' = "sweep"
    /\ UNCHANGED <<criVars, cliVars, kicked, gcPods, gcCtrs, gcCur, born, faults>>

(* The call on a pod ended, well or not; the sweep goes on with the next.  *)
NextPod(p) ==
    /\ gcPc' = "sweep"
    /\ gcPods' = gcPods \ {p}
    /\ gcCur' = NoPod
    /\ UNCHANGED gcCtrs

(* StopPodSandbox, first part: an error for a pod that is gone.            *)
GcStopPod(p) ==
    /\ gcPc = "sweep"
    /\ p \in gcPods
    /\ \/ /\ PodInStore(p)
          /\ StopPodContainers(p)
          /\ gcPc' = "stop"
          /\ gcCur' = p
          /\ UNCHANGED <<gcPods, gcCtrs, faults>>
       \/ /\ ~PodInStore(p)
          /\ NextPod(p)
          /\ UNCHANGED <<criVars, faults>>
       \/ /\ PodInStore(p)
          /\ Fault
          /\ NextPod(p)
          /\ UNCHANGED criVars
    /\ UNCHANGED <<cliVars, kicked, born>>

GcStopSandbox ==
    /\ gcPc = "stop"
    /\ \/ /\ StopSandboxTask(gcCur)
          /\ gcPc' = "remove"
          /\ UNCHANGED <<gcPods, gcCtrs, gcCur, faults>>
       \/ Fault /\ NextPod(gcCur) /\ UNCHANGED criVars
    /\ UNCHANGED <<cliVars, kicked, born>>

GcRemovePod ==
    /\ gcPc = "remove"
    /\ NextPod(gcCur)
    /\ \/ RemovePodSandbox(gcCur) /\ UNCHANGED faults
       \/ Fault /\ UNCHANGED criVars
    /\ UNCHANGED <<cliVars, kicked, born>>

GcEnd ==
    /\ gcPc = "sweep"
    /\ gcPods = {}
    /\ EndPass
    /\ UNCHANGED <<criVars, cliVars, kicked, faults>>

Gc ==
    \/ GcKicked
    \/ GcListPods
    \/ GcListCtrs
    \/ GcStopForeign
    \/ GcRemoveForeign
    \/ GcSleep
    \/ \E p \in Pod : GcStopPod(p)
    \/ GcStopSandbox
    \/ GcRemovePod
    \/ GcEnd

-----------------------------------------------------------------------------
(* The environment *)

(* Another CRI client on the same socket, with its own pods. *)
ForeignRunPod(p) ==
    /\ p \in ForeignPod
    /\ RunPodSandbox(p)
    /\ UNCHANGED <<cliVars, kicked, gcVars, born, faults>>

ForeignCreate(k, p, n) ==
    /\ p \in ForeignPod
    /\ MayCreateIn(p)
    /\ AddContainer(k, p, n)
    /\ born' = born \cup {k}
    /\ UNCHANGED <<cliVars, kicked, gcVars, faults>>

ForeignStart(k) ==
    /\ Foreign(k)
    /\ \/ SetStarting(k)
       \/ \E ok \in BOOLEAN : CheckSandbox(k, ok) \/ StartTask(k, ok)
    /\ UNCHANGED <<cliVars, kicked, gcVars, born, faults>>

ForeignRemovePod(p) ==
    /\ p \in ForeignPod
    /\ DropPod(p)
    /\ UNCHANGED <<cliVars, kicked, gcVars, born, faults>>

Exit(k) ==
    /\ ContainerExits(k)
    /\ UNCHANGED <<cliVars, kicked, gcVars, born, faults>>

(* The daemon goes down and comes up again, with the machine or alone: RPCs*)
(* in progress fail, the collector starts over, a new kicker is kicked.    *)
Restart(reboot) ==
    /\ Fault
    /\ RecoverStores(reboot)
    /\ result' = [x \in Client |-> IF pc[x] = "idle" THEN result[x] ELSE "interrupted"]
    /\ pc' = [x \in Client |-> "idle"]
    /\ hold' = [x \in Client |-> NoPod]
    /\ target' = [x \in Client |-> NoCtr]
    /\ seenPods' = [x \in Client |-> {}]
    /\ todo' = [x \in Client |-> {}]
    /\ found' = [x \in Client |-> {}]
    /\ UNCHANGED <<cmd, ref, op>>
    /\ kicked' = TRUE
    /\ EndPass

Env ==
    \/ \E p \in Pod : ForeignRunPod(p) \/ ForeignRemovePod(p)
    \/ \E k \in Ctr, p \in Pod, n \in Name : ForeignCreate(k, p, n)
    \/ \E k \in Ctr : ForeignStart(k) \/ Exit(k)
    \/ \E reboot \in BOOLEAN : Restart(reboot)

Next ==
    \/ \E x \in Client, c \in Commands, r \in Name \cup Ctr : Begin(x, c, r)
    \/ \E x \in Client : ClientStep(x) \/ Interrupt(x)
    \/ Gc
    \/ Env

Spec == Init /\ [][Next]_vars

(* The gc goroutine is never starved: its calls return (Fault bounds how   *)
(* often with an error) and its sleeps end.                                *)
FairSpec == Spec /\ WF_vars(Gc)
-----------------------------------------------------------------------------
(* Properties *)

ClientTypeOK ==
    /\ pc \in [Client -> ClientPc]
    /\ cmd \in [Client -> Commands \cup {"none"}]
    /\ ref \in [Client -> Ref]
    /\ op \in [Client -> {"none", "start", "attach", "stop", "remove", "list"}]
    /\ hold \in [Client -> Pod \cup {NoPod}]
    /\ target \in [Client -> Ctr \cup {NoCtr}]
    /\ seenPods \in [Client -> SUBSET Pod]
    /\ todo \in [Client -> SUBSET Ctr]
    /\ found \in [Client -> SUBSET Ctr]
    /\ result \in [Client -> {"none", "ok", "error", "notfound", "interrupted"}]
    /\ \A x \in Client :
         /\ pc[x] \in {"createPod", "findPod", "criCreate", "criAdd"} => ref[x] \in Name
         /\ pc[x] \in {"findPod", "criCreate", "criAdd"} => hold[x] \in Pod
         /\ pc[x] \in {"call", "stream", "starting"} => target[x] \in Ctr

GcTypeOK ==
    /\ kicked \in BOOLEAN
    /\ gcPc \in GcPc
    /\ gcPods \in SUBSET Pod
    /\ gcCtrs \in SUBSET Ctr
    /\ gcCur \in Pod \cup Ctr \cup {NoPod}
    /\ gcPc = "rmForeign" => gcCur \in Ctr
    /\ gcPc \in {"stop", "remove"} => gcCur \in Pod
    /\ born \in SUBSET Ctr
    /\ faults \in 0..MaxFaults

(* Every variable has its type; the pending call of a client or of the     *)
(* collector has its argument.                                             *)
TypeOK == CriTypeOK /\ ClientTypeOK /\ GcTypeOK

(* runGC is past its lists. *)
Sweeping == gcPc \in {"foreign", "rmForeign", "sweep", "stop", "remove"}

(* runGC acts on lists that are five seconds old.  Whatever happened since,*)
(* a container of k3c that was in the store when the pass listed containers*)
(* is in none of the pods the pass has still to stop and remove: only one  *)
(* created since then can be lost.                                         *)
GcSparesListed ==
    \A p \in gcPods \ ForeignPod, k \in Ctr :
        Sweeping /\ k \in CtrsOf(p) => k \in born

(* A container runs only while its sandbox is in the store, however the    *)
(* steps of a create, of a start (which looks at the sandbox long before   *)
(* the task runs) and of the collector's StopPodSandbox and                *)
(* RemovePodSandbox interleave: no process is left that ps, stop and rm    *)
(* cannot see because listPods drops it with its pod.                      *)
RunningIsVisible ==
    \A k \in Ctr : cstate[k] = "running" => PodInStore(podOf[k])

(* Why: a start that has seen its sandbox keeps the container, and so the  *)
(* sandbox, from being removed.                                            *)
LaunchingIsVisible ==
    \A k \in Ctr : cstate[k] \in {"launching", "running"} => PodInStore(podOf[k])

(* A command that was given the id of a container of k3c and answers       *)
(* "container not found" is right: the container, or its pod, is gone, and *)
(* no list taken in several calls made GetContainer overlook it.           *)
NotFoundIsGone ==
    \A x \in Client :
        /\ pc[x] = "idle" /\ result[x] = "notfound"
        /\ ref[x] \in Ctr /\ ~Foreign(ref[x])
        => ~InStore(ref[x]) \/ ~PodInStore(podOf[ref[x]])

(* rm and rm -f of an id that end well leave no such container, although   *)
(* rm -f drops the error of its stop and resolves the id twice.            *)
RemovedIsGone ==
    \A x \in Client :
        /\ pc[x] = "idle" /\ result[x] = "ok"
        /\ cmd[x] \in {"rm", "rm -f"} /\ ref[x] \in Ctr
        => ~InStore(ref[x])

(* A pod without containers that no client is about to create one in: its  *)
(* create failed or was interrupted, or its container was removed.         *)
Unused(p) ==
    /\ PodInStore(p)
    /\ CtrsOf(p) = {}
    /\ \A x \in Client : hold[x] # p

(* Such a pod is eventually removed by the collector, although nothing     *)
(* kicks it when a create fails, and although calls fail and the daemon    *)
(* restarts (no more than MaxFaults times).                                *)
UnusedPodCollected ==
    \A p \in Pod \ ForeignPod : Unused(p) ~> sandbox[p] = "removed"

-----------------------------------------------------------------------------
(* What the documentation says and the code does not do *)

(* A step of the collector (never of a client) is one that moves gcPc.     *)
GcStep == gcPc' # gcPc /\ UNCHANGED cliVars

(* cmd/rm/rm.go: a running container is removed by force, with rm -f.  The *)
(* collector never ends a running container of k3c.                        *)
GcSparesRunning ==
    [][GcStep => \A k \in Ctr :
            cstate[k] = "running" /\ ~Foreign(k) => cstate'[k] = "running"]_vars

(* cmd/run: "Run a command in a new container".  The container a run starts*)
(* or attaches to is the one it created.                                   *)
RunsNewContainer ==
    \A x \in Client :
        pc[x] \in {"call", "stream"} /\ cmd[x] \in {"run", "run -d"}
            => target[x] = ref[x]
=============================================================================
