-------------------------------- MODULE Cri --------------------------------
(* The CRI service of the embedded containerd (src/vendor/.../cri/pkg/     *)
(* server): the sandbox store, the container store, and what each CRI call *)
(* k3c makes does to them.  The daemon talks to nothing else to keep pods  *)
(* and containers, and the stores survive a restart of the process.        *)
(*                                                                         *)
(* Sandbox and container ids are random and never reused: an id goes from  *)
(* "absent" through its life to "removed" once.                            *)
EXTENDS Naturals, FiniteSets

CONSTANTS
    Pod,         \* sandbox ids
    Ctr,         \* container ids
    Name,        \* container names
    ForeignPod,  \* sandboxes run by another CRI client (a kubelet, crictl)
    NoPod, NoCtr, NoName,
    Empty        \* the empty reference "", a prefix of every container id

ASSUME CriAssumption ==
    /\ ForeignPod \subseteq Pod
    /\ NoPod \notin Pod /\ NoCtr \notin Ctr /\ NoName \notin Name
    /\ Empty \notin Name /\ Empty \notin Ctr
    /\ Name \cap Ctr = {} /\ Pod \cap Ctr = {}

VARIABLES
    sandbox,  \* [Pod -> SandboxState]
    cstate,   \* [Ctr -> CtrState]
    podOf,    \* the sandbox of a container
    nameOf    \* the name of a container, not necessarily unique

criVars == <<sandbox, cstate, podOf, nameOf>>

SandboxState == {"absent", "ready", "notready", "removed"}
CtrState     == {"absent", "created", "starting", "launching", "running", "exited",
                 "removed"}

PodInStore(p) == sandbox[p] \in {"ready", "notready"}
InStart(k)    == cstate[k] \in {"starting", "launching"}
InStore(k)    == cstate[k] \in {"created", "running", "exited"} \/ InStart(k)
CtrsOf(p)     == {k \in Ctr : InStore(k) /\ podOf[k] = p}

(* A container without the k3c annotations: its creator is another client. *)
Foreign(k) == podOf[k] \in ForeignPod

(* Mutant of ListPodSandbox: sandboxes that are stopped are filtered out. *)
ListReadySandboxes == {p \in Pod : sandbox[p] = "ready"}

(* ListPodSandbox and ListContainers copy their store under its lock. *)
ListPodSandbox == {p \in Pod : PodInStore(p)}
ListContainers == {k \in Ctr : InStore(k)}

CriInit ==
    /\ sandbox = [p \in Pod |-> "absent"]
    /\ cstate = [k \in Ctr |-> "absent"]
    /\ podOf = [k \in Ctr |-> NoPod]
    /\ nameOf = [k \in Ctr |-> NoName]

-----------------------------------------------------------------------------
(* Sandboxes *)

(* setContainerRemoving refuses a container that runs or is being started. *)
Removable(k) == cstate[k] # "running" /\ ~InStart(k)

(* The sandbox enters the store when its task runs. *)
RunPodSandbox(p) ==
    /\ sandbox[p] = "absent"
    /\ sandbox' = [sandbox EXCEPT ![p] = "ready"]
    /\ UNCHANGED <<cstate, podOf, nameOf>>

(* StopPodSandbox stops the containers it lists, and only then the sandbox:*)
(* a container may be created and started in between.                      *)
StopPodContainers(p) ==
    /\ cstate' = [k \in Ctr |-> IF podOf[k] = p /\ cstate[k] = "running"
                                THEN "exited" ELSE cstate[k]]
    /\ UNCHANGED <<sandbox, podOf, nameOf>>

StopSandboxTask(p) ==
    /\ sandbox' = [sandbox EXCEPT ![p] = IF @ = "ready" THEN "notready" ELSE @]
    /\ UNCHANGED <<cstate, podOf, nameOf>>

(* RemovePodSandbox refuses a sandbox that runs, then removes its          *)
(* containers one by one and gives up at the first that cannot be removed. *)
(* A sandbox that is not in the store is no error.                         *)
RemovePodSandbox(p) ==
    LET removable == {k \in CtrsOf(p) : Removable(k)}
        remove(K) == [k \in Ctr |-> IF k \in K THEN "removed" ELSE cstate[k]]
    IN  \/ /\ ~PodInStore(p) \/ sandbox[p] = "ready"
           /\ UNCHANGED criVars
        \/ /\ sandbox[p] = "notready"
           /\ removable = CtrsOf(p)
           /\ cstate' = remove(removable)
           /\ sandbox' = [sandbox EXCEPT ![p] = "removed"]
           /\ UNCHANGED <<podOf, nameOf>>
        \/ /\ sandbox[p] = "notready"
           /\ removable # CtrsOf(p)
           /\ \E K \in SUBSET removable : cstate' = remove(K)
           /\ UNCHANGED <<sandbox, podOf, nameOf>>

-----------------------------------------------------------------------------
(* Containers *)

(* CreateContainer looks at the sandbox when it starts (it must be in the  *)
(* store with a running task) and not again before it adds the container.  *)
MayCreateIn(p) == sandbox[p] = "ready"

AddContainer(k, p, n) ==
    /\ cstate[k] = "absent"
    /\ cstate' = [cstate EXCEPT ![k] = "created"]
    /\ podOf' = [podOf EXCEPT ![k] = p]
    /\ nameOf' = [nameOf EXCEPT ![k] = n]
    /\ UNCHANGED sandbox

SetCtr(k, s) ==
    /\ cstate' = [cstate EXCEPT ![k] = s]
    /\ UNCHANGED <<sandbox, podOf, nameOf>>

(* StartContainer, in three steps.  setContainerStarting keeps other starts *)
(* and removals of the container out, but not a stop, and not what happens *)
(* to its sandbox.                                                         *)
SetStarting(k) ==
    /\ cstate[k] = "created"
    /\ SetCtr(k, "starting")

(* Mutant of SandboxReady: the sandbox is not looked at. *)
SandboxUnchecked(k) == TRUE

SandboxReady(k) == sandbox[podOf[k]] = "ready"

(* Then the sandbox is looked at, once; a start that fails leaves the      *)
(* container exited.                                                       *)
CheckSandbox(k, ok) ==
    /\ cstate[k] = "starting"
    /\ ok => SandboxReady(k)
    /\ SetCtr(k, IF ok THEN "launching" ELSE "exited")

(* Then the task is created and started; it may still do so when the       *)
(* sandbox was stopped meanwhile.                                          *)
StartTask(k, ok) ==
    /\ cstate[k] = "launching"
    /\ SetCtr(k, IF ok THEN "running" ELSE "exited")

(* StopContainer leaves alone a container that does not run. *)
StopContainer(k, ok) ==
    \/ /\ ok
       /\ InStore(k)
       /\ SetCtr(k, IF cstate[k] = "running" THEN "exited" ELSE cstate[k])
    \/ /\ ~ok
       /\ UNCHANGED criVars

(* RemoveContainer: one that is not in the store is no error.              *)
RemoveContainer(k, ok) ==
    \/ /\ ok
       /\ Removable(k)
       /\ SetCtr(k, IF InStore(k) THEN "removed" ELSE cstate[k])
    \/ /\ ~ok
       /\ UNCHANGED criVars

(* The process of a container ends by itself. *)
ContainerExits(k) ==
    /\ cstate[k] = "running"
    /\ SetCtr(k, "exited")

(* What recovery finds in the stores after the process restarted: tasks    *)
(* outlive it under their shims, unless the machine went down too.  A start*)
(* that was under way is undone, or its task runs already.                 *)
RecoverStores(reboot) ==
    /\ sandbox' = [p \in Pod |-> IF reboot /\ sandbox[p] = "ready"
                                 THEN "notready" ELSE sandbox[p]]
    /\ \E launched \in SUBSET {k \in Ctr : cstate[k] = "launching" /\ ~reboot} :
         cstate' = [k \in Ctr |-> CASE k \in launched -> "running"
                                    [] InStart(k) /\ k \notin launched -> "created"
                                    [] cstate[k] = "running" /\ reboot -> "exited"
                                    [] OTHER -> cstate[k]]
    /\ UNCHANGED <<podOf, nameOf>>

(* A client that owns the pod stops it and removes it with its containers. *)
DropPod(p) ==
    /\ sandbox[p] = "ready"
    /\ \A k \in CtrsOf(p) : ~InStart(k)
    /\ sandbox' = [sandbox EXCEPT ![p] = "removed"]
    /\ cstate' = [k \in Ctr |-> IF k \in CtrsOf(p) THEN "removed" ELSE cstate[k]]
    /\ UNCHANGED <<podOf, nameOf>>

(* The service by itself: any client may make any call at any time. *)
CriNext ==
    \/ \E p \in Pod : \/ RunPodSandbox(p) \/ StopPodContainers(p)
                      \/ StopSandboxTask(p) \/ RemovePodSandbox(p) \/ DropPod(p)
    \/ \E k \in Ctr, p \in Pod, n \in Name : AddContainer(k, p, n)
    \/ \E k \in Ctr, ok \in BOOLEAN : \/ CheckSandbox(k, ok) \/ StartTask(k, ok)
                                      \/ StopContainer(k, ok) \/ RemoveContainer(k, ok)
    \/ \E k \in Ctr : SetStarting(k) \/ ContainerExits(k)
    \/ \E reboot \in BOOLEAN : RecoverStores(reboot)

CriSpec == CriInit /\ [][CriNext]_criVars

CriTypeOK ==
    /\ sandbox \in [Pod -> SandboxState]
    /\ cstate \in [Ctr -> CtrState]
    /\ podOf \in [Ctr -> Pod \cup {NoPod}]
    /\ nameOf \in [Ctr -> Name \cup {NoName}]
    /\ \A k \in Ctr : cstate[k] # "absent" => podOf[k] \in Pod /\ nameOf[k] \in Name
=============================================================================
