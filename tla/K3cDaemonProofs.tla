-------------------------- MODULE K3cDaemonProofs --------------------------
(* Type correctness and the safety invariants of K3cDaemon, for any sets   *)
(* of pods, containers, names, clients and commands and any bound on       *)
(* faults.  The argument for the invariants goes through the CRI service:  *)
(* every step of the daemon is one of its calls (CallsCri), so what its    *)
(* calls preserve holds of the stores whoever makes them.                  *)
EXTENDS K3cDaemon, TLAPS

-----------------------------------------------------------------------------
(* What each operation of the CRI service does to the types of its stores. *)

LEMMA RunPodSandboxType ==
    ASSUME CriTypeOK, NEW p \in Pod, RunPodSandbox(p)
    PROVE  CriTypeOK'
BY DEF CriTypeOK, RunPodSandbox, SandboxState, CtrState

LEMMA AddContainerType ==
    ASSUME CriTypeOK, NEW k \in Ctr, NEW p \in Pod, NEW n \in Name,
           AddContainer(k, p, n)
    PROVE  CriTypeOK'
BY DEF CriTypeOK, AddContainer, SandboxState, CtrState

LEMMA SetCtrType ==
    ASSUME CriTypeOK, NEW k \in Ctr, cstate[k] # "absent",
           NEW s \in CtrState, SetCtr(k, s)
    PROVE  CriTypeOK'
BY DEF CriTypeOK, SetCtr

LEMMA StartStepType ==
    ASSUME CriTypeOK, NEW k \in Ctr, NEW ok \in BOOLEAN,
           SetStarting(k) \/ CheckSandbox(k, ok) \/ StartTask(k, ok)
    PROVE  CriTypeOK'
<1>1. PICK s \in CtrState : cstate[k] # "absent" /\ SetCtr(k, s)
  BY DEF SetStarting, CheckSandbox, StartTask, CtrState
<1> QED BY <1>1, SetCtrType

LEMMA StopContainerType ==
    ASSUME CriTypeOK, NEW k \in Ctr, NEW ok \in BOOLEAN, StopContainer(k, ok)
    PROVE  CriTypeOK'
<1>1. CASE InStore(k) /\ SetCtr(k, IF cstate[k] = "running" THEN "exited" ELSE cstate[k])
  BY <1>1, SetCtrType DEF InStore, InStart, CtrState
<1>2. CASE UNCHANGED criVars
  BY <1>2 DEF CriTypeOK, criVars
<1> QED BY <1>1, <1>2 DEF StopContainer

LEMMA RemoveContainerType ==
    ASSUME CriTypeOK, NEW k \in Ctr, NEW ok \in BOOLEAN, RemoveContainer(k, ok)
    PROVE  CriTypeOK'
<1>1. CASE SetCtr(k, IF InStore(k) THEN "removed" ELSE cstate[k])
  BY <1>1 DEF CriTypeOK, SetCtr, InStore, InStart, CtrState
<1>2. CASE UNCHANGED criVars
  BY <1>2 DEF CriTypeOK, criVars
<1> QED BY <1>1, <1>2 DEF RemoveContainer

LEMMA RemovePodSandboxType ==
    ASSUME CriTypeOK, NEW p \in Pod, RemovePodSandbox(p)
    PROVE  CriTypeOK'
<1>1. CASE UNCHANGED criVars
  BY <1>1 DEF CriTypeOK, criVars
<1>2. ASSUME NEW K \in SUBSET CtrsOf(p),
             cstate' = [k \in Ctr |-> IF k \in K THEN "removed" ELSE cstate[k]],
             \/ sandbox' = [sandbox EXCEPT ![p] = "removed"]
             \/ UNCHANGED sandbox,
             UNCHANGED <<podOf, nameOf>>
      PROVE  CriTypeOK'
  BY <1>2 DEF CriTypeOK, CtrsOf, InStore, InStart, SandboxState, CtrState
<1> DEFINE removable == {k \in CtrsOf(p) : Removable(k)}
<1>3. removable \in SUBSET CtrsOf(p) /\ (SUBSET removable) \subseteq SUBSET CtrsOf(p)
  OBVIOUS
<1> QED BY <1>1, <1>2, <1>3, Zenon DEF RemovePodSandbox

LEMMA StoresType ==
    ASSUME CriTypeOK
    PROVE  /\ \A p \in Pod : StopPodContainers(p) => CriTypeOK'
           /\ \A p \in Pod : StopSandboxTask(p) => CriTypeOK'
           /\ \A k \in Ctr : ContainerExits(k) => CriTypeOK'
           /\ \A reboot \in BOOLEAN : RecoverStores(reboot) => CriTypeOK'
           /\ \A p \in Pod : DropPod(p) => CriTypeOK'
<1>1. ASSUME NEW p \in Pod, StopPodContainers(p) PROVE CriTypeOK'
  BY <1>1 DEF CriTypeOK, StopPodContainers, SandboxState, CtrState
<1>2. ASSUME NEW p \in Pod, StopSandboxTask(p) PROVE CriTypeOK'
  BY <1>2 DEF CriTypeOK, StopSandboxTask, SandboxState, CtrState
<1>3. ASSUME NEW k \in Ctr, ContainerExits(k) PROVE CriTypeOK'
  BY <1>3, SetCtrType DEF ContainerExits, CtrState
<1>4. ASSUME NEW reboot \in BOOLEAN, RecoverStores(reboot) PROVE CriTypeOK'
  <2>1. cstate' \in [Ctr -> CtrState]
    BY <1>4 DEF CriTypeOK, RecoverStores, CtrState
  <2>2. \A k \in Ctr : cstate'[k] # "absent" => cstate[k] # "absent"
    BY <1>4 DEF CriTypeOK, RecoverStores, InStart
  <2> QED BY <1>4, <2>1, <2>2 DEF CriTypeOK, RecoverStores, SandboxState
<1>5. ASSUME NEW p \in Pod, DropPod(p) PROVE CriTypeOK'
  BY <1>5 DEF CriTypeOK, DropPod, CtrsOf, InStore, InStart, SandboxState, CtrState
<1> QED BY <1>1, <1>2, <1>3, <1>4, <1>5

-----------------------------------------------------------------------------
(* What the two ways a client's RPC ends do to the types of the clients. *)

Results == {"none", "ok", "error", "notfound", "interrupted"}
Ops     == {"none", "start", "attach", "stop", "remove", "list"}

LEMMA EndType ==
    ASSUME ClientTypeOK, NEW x \in Client, NEW res \in Results, End(x, res)
    PROVE  ClientTypeOK'
BY DEF ClientTypeOK, End, ClientPc, Results

LEMMA LookupType ==
    ASSUME ClientTypeOK, NEW x \in Client, NEW r \in Ref, NEW o \in Ops,
           Lookup(x, r, o)
    PROVE  ClientTypeOK'
BY DEF ClientTypeOK, Lookup, ClientPc, Ops

LEMMA EndOpType ==
    ASSUME ClientTypeOK, NEW x \in Client, NEW res \in Results, EndOp(x, res)
    PROVE  ClientTypeOK'
<1>1. ref[x] \in Ref
  BY DEF ClientTypeOK
<1> QED BY <1>1, EndType, LookupType DEF EndOp, Ops

LEMMA FaultType ==
    ASSUME GcTypeOK
    PROVE  /\ Fault => faults' \in 0..MaxFaults
           /\ \A would, ok \in BOOLEAN : Outcome(would, ok) => faults' \in 0..MaxFaults
<1>1. Fault => faults' \in 0..MaxFaults
  <2>1. faults \in 0..MaxFaults /\ MaxFaults \in Nat
    BY DaemonAssumption DEF GcTypeOK
  <2> QED BY <2>1 DEF Fault
<1>2. UNCHANGED faults => faults' \in 0..MaxFaults
  BY DEF GcTypeOK
<1> QED BY <1>1, <1>2, Zenon DEF Outcome

LEMMA UnchangedTypes ==
    /\ CriTypeOK /\ UNCHANGED criVars => CriTypeOK'
    /\ ClientTypeOK /\ UNCHANGED cliVars => ClientTypeOK'
    /\ GcTypeOK /\ UNCHANGED <<gcVars, born>> /\ kicked' \in BOOLEAN
         /\ faults' \in 0..MaxFaults => GcTypeOK'
<1>1. CriTypeOK /\ UNCHANGED criVars => CriTypeOK'
  BY DEF CriTypeOK, criVars
<1>2. ClientTypeOK /\ UNCHANGED cliVars => ClientTypeOK'
  BY DEF ClientTypeOK, cliVars
<1>3. GcTypeOK /\ UNCHANGED <<gcVars, born>> /\ kicked' \in BOOLEAN
         /\ faults' \in 0..MaxFaults => GcTypeOK'
  BY DEF GcTypeOK, gcVars
<1> QED BY <1>1, <1>2, <1>3

-----------------------------------------------------------------------------
(* Type correctness, one step per action. *)

(* The steps of a client that leave the collector alone. *)
LEMMA GcUntouchedType ==
    ASSUME GcTypeOK, UNCHANGED <<gcVars, born>>, kicked' \in BOOLEAN,
           \/ Fault
           \/ UNCHANGED faults
           \/ \E would, ok \in BOOLEAN : Outcome(would, ok)
    PROVE  GcTypeOK'
<1>1. faults' \in 0..MaxFaults
  BY FaultType, Zenon DEF GcTypeOK
<1> QED BY <1>1, UnchangedTypes

LEMMA KickAfterType ==
    ASSUME GcTypeOK, NEW x, KickAfter(x)
    PROVE  kicked' \in BOOLEAN
BY Zenon DEF KickAfter, GcTypeOK

LEMMA BeginType ==
    ASSUME TypeOK, NEW x \in Client, NEW c \in Commands, NEW r \in Name \cup Ctr,
           Begin(x, c, r)
    PROVE  TypeOK'
<1>1. FirstOp(c) \in Ops
  BY DEF FirstOp, Ops
<1>2. ClientTypeOK'
  <2>1. pc' \in [Client -> ClientPc]
    BY DEF TypeOK, ClientTypeOK, Begin, ClientPc
  <2>2. cmd' \in [Client -> Commands \cup {"none"}]
    BY DEF TypeOK, ClientTypeOK, Begin
  <2>3. ref' \in [Client -> Ref]
    BY DEF TypeOK, ClientTypeOK, Begin, Ref
  <2>4. op' \in [Client -> Ops]
    BY <1>1 DEF TypeOK, ClientTypeOK, Begin, Ops
  <2>5. UNCHANGED <<hold, target, seenPods, todo, found, result>>
    BY DEF Begin
  <2>6. /\ \A y \in Client \ {x} : pc'[y] = pc[y] /\ ref'[y] = ref[y]
        /\ (pc'[x] = "createPod" /\ ref'[x] \in Name) \/ pc'[x] = "listPods"
    BY DEF TypeOK, ClientTypeOK, Begin
  <2>7. \A y \in Client :
          /\ pc'[y] \in {"createPod", "findPod", "criCreate", "criAdd"} => ref'[y] \in Name
          /\ pc'[y] \in {"findPod", "criCreate", "criAdd"} => hold'[y] \in Pod
          /\ pc'[y] \in {"call", "stream", "starting"} => target'[y] \in Ctr
    BY <2>5, <2>6 DEF TypeOK, ClientTypeOK
  <2>8. QED
    BY <2>1, <2>2, <2>3, <2>4, <2>5, <2>7 DEF TypeOK, ClientTypeOK, Ops
<1>3. CriTypeOK' /\ GcTypeOK'
  BY UnchangedTypes DEF TypeOK, Begin, GcTypeOK
<1> QED BY <1>2, <1>3 DEF TypeOK

LEMMA CreateStepsType ==
    ASSUME TypeOK, NEW x \in Client,
           \/ CreatePod(x)
           \/ CreateContainerFindPod(x)
           \/ CreateContainerCheck(x)
           \/ CreateContainerAdd(x)
    PROVE  TypeOK'
<1> USE DEF TypeOK
<1>0. Empty \in Ref /\ Ctr \subseteq Ref /\ op[x] \in Ops
  BY DEF Ref, Ops, ClientTypeOK
<1>a. {"ok", "error"} \subseteq Results
  BY DEF Results
<1>1. CASE CreatePod(x)
  <2>1. ASSUME NEW p \in Pod \ ForeignPod, RunPodSandbox(p), pc[x] = "createPod",
               pc' = [pc EXCEPT ![x] = "findPod"], hold' = [hold EXCEPT ![x] = p],
               UNCHANGED <<cmd, ref, op, target, seenPods, todo, found, result>>
        PROVE  CriTypeOK' /\ ClientTypeOK'
    <3>1. CriTypeOK'
      BY <2>1, RunPodSandboxType
    <3>2. ClientTypeOK'
      BY <2>1 DEF ClientTypeOK, ClientPc
    <3> QED BY <3>1, <3>2
  <2>2. ASSUME UNCHANGED criVars,
               IF cmd[x] = "create" THEN End(x, "ok") ELSE Lookup(x, Empty, op[x])
        PROVE  CriTypeOK' /\ ClientTypeOK'
    BY <2>2, <1>0, <1>a, EndType, LookupType, UnchangedTypes
  <2>3. CriTypeOK' /\ ClientTypeOK'
    BY <1>1, <2>1, <2>2, Zenon DEF CreatePod
  <2>4. GcTypeOK'
    BY <1>1, GcUntouchedType DEF CreatePod, GcTypeOK
  <2> QED BY <2>3, <2>4
<1>2. CASE CreateContainerFindPod(x) \/ CreateContainerCheck(x)
  <2>1. CriTypeOK'
    BY <1>2, UnchangedTypes DEF CreateContainerFindPod, CreateContainerCheck
  <2>2. ASSUME pc[x] \in {"findPod", "criCreate"},
               pc' = [pc EXCEPT ![x] = "criCreate"] \/ pc' = [pc EXCEPT ![x] = "criAdd"],
               UNCHANGED <<cmd, ref, op, hold, target, seenPods, todo, found, result>>
        PROVE  ClientTypeOK'
    BY <2>2 DEF ClientTypeOK, ClientPc
  <2>3. ClientTypeOK'
    BY <1>2, <1>a, <2>2, EndType DEF CreateContainerFindPod, CreateContainerCheck
  <2>4. GcTypeOK'
    <3>1. PodInStore(hold[x]) \in BOOLEAN /\ MayCreateIn(hold[x]) \in BOOLEAN
      BY DEF PodInStore, MayCreateIn
    <3> QED BY <1>2, <3>1, GcUntouchedType, Zenon
          DEF CreateContainerFindPod, CreateContainerCheck, GcTypeOK
  <2> QED BY <2>1, <2>3, <2>4
<1>3. CASE CreateContainerAdd(x)
  <2>1. pc[x] = "criAdd" /\ hold[x] \in Pod /\ ref[x] \in Name
    BY <1>3 DEF CreateContainerAdd, ClientTypeOK
  <2>2. ASSUME NEW k \in Ctr, AddContainer(k, hold[x], ref[x]), born' = born \cup {k},
               IF cmd[x] = "create" THEN End(x, "ok") ELSE Lookup(x, k, op[x]),
               UNCHANGED <<kicked, gcVars, faults>>
        PROVE  TypeOK'
    <3>1. CriTypeOK'
      BY <2>1, <2>2, AddContainerType
    <3>2. ClientTypeOK'
      BY <1>0, <1>a, <2>2, EndType, LookupType
    <3>3. GcTypeOK'
      BY <2>2 DEF GcTypeOK, gcVars
    <3> QED BY <3>1, <3>2, <3>3
  <2>3. ASSUME Fault, End(x, "error"), UNCHANGED <<criVars, born, kicked, gcVars>>
        PROVE  TypeOK'
    <3>1. GcTypeOK'
      BY <2>3, GcUntouchedType DEF GcTypeOK
    <3> QED BY <1>a, <2>3, <3>1, EndType, UnchangedTypes
  <2> QED BY <1>3, <2>2, <2>3 DEF CreateContainerAdd
<1> QED BY <1>1, <1>2, <1>3

LEMMA LookupStepsType ==
    ASSUME TypeOK, NEW x \in Client,
           \/ ListPodsSandboxes(x)
           \/ ListPodsContainers(x)
           \/ ListPodsStatus(x)
           \/ GetContainer(x)
    PROVE  TypeOK'
<1> USE DEF TypeOK
<1>a. {"ok", "error", "notfound"} \subseteq Results
  BY DEF Results
<1>b. EndOp(x, "error") => ClientTypeOK'
  BY <1>a, EndOpType
<1>0. CriTypeOK'
  BY UnchangedTypes
     DEF ListPodsSandboxes, ListPodsContainers, ListPodsStatus, GetContainer
<1>1. CASE ListPodsSandboxes(x)
  <2>1. ASSUME seenPods' = [seenPods EXCEPT ![x] = ListPodSandbox],
               pc' = [pc EXCEPT ![x] = "listCtrs"],
               UNCHANGED <<cmd, ref, op, hold, target, todo, found, result>>
        PROVE  ClientTypeOK'
    BY <2>1 DEF ClientTypeOK, ClientPc, ListPodSandbox
  <2>2. ClientTypeOK'
    BY <1>1, <1>b, <2>1 DEF ListPodsSandboxes
  <2>3. GcTypeOK'
    BY <1>1, GcUntouchedType, KickAfterType DEF ListPodsSandboxes, GcTypeOK
  <2> QED BY <1>0, <2>2, <2>3
<1>2. CASE ListPodsContainers(x)
  <2>1. ASSUME todo' = [todo EXCEPT ![x] = {k \in ListContainers : podOf[k] \in seenPods[x]}],
               pc' = [pc EXCEPT ![x] = "status"],
               UNCHANGED <<cmd, ref, op, hold, target, seenPods, found, result>>
        PROVE  ClientTypeOK'
    BY <2>1 DEF ClientTypeOK, ClientPc, ListContainers
  <2>2. ClientTypeOK'
    BY <1>2, <1>b, <2>1 DEF ListPodsContainers
  <2>3. GcTypeOK'
    BY <1>2, GcUntouchedType, KickAfterType DEF ListPodsContainers, GcTypeOK
  <2> QED BY <1>0, <2>2, <2>3
<1>3. CASE ListPodsStatus(x)
  <2>1. PICK k \in todo[x], ok \in BOOLEAN :
          /\ Outcome(InStore(k), ok)
          /\ IF ok THEN /\ todo' = [todo EXCEPT ![x] = @ \ {k}]
                        /\ found' = [found EXCEPT ![x] = @ \cup {k}]
                        /\ UNCHANGED <<pc, cmd, ref, op, hold, target, seenPods, result, kicked>>
                   ELSE EndOp(x, "error") /\ KickAfter(x)
    BY <1>3 DEF ListPodsStatus
  <2>2. k \in Ctr
    BY DEF ClientTypeOK
  <2>3. ASSUME todo' = [todo EXCEPT ![x] = @ \ {k}],
               found' = [found EXCEPT ![x] = @ \cup {k}],
               UNCHANGED <<pc, cmd, ref, op, hold, target, seenPods, result>>
        PROVE  ClientTypeOK'
    BY <2>2, <2>3 DEF ClientTypeOK
  <2>4. ClientTypeOK'
    BY <1>b, <2>1, <2>3
  <2>5. InStore(k) \in BOOLEAN
    BY DEF InStore
  <2>6. kicked' \in BOOLEAN
    BY <2>1, KickAfterType DEF GcTypeOK
  <2>7. GcTypeOK'
    BY <1>3, <2>1, <2>5, <2>6, GcUntouchedType, Zenon DEF ListPodsStatus
  <2> QED BY <1>0, <2>4, <2>7
<1>4. CASE GetContainer(x)
  <2>1. ASSUME NEW k \in Matches(x), target' = [target EXCEPT ![x] = k],
               pc' = [pc EXCEPT ![x] = "call"],
               seenPods' = [seenPods EXCEPT ![x] = {}],
               found' = [found EXCEPT ![x] = {}],
               UNCHANGED <<cmd, ref, op, hold, todo, result>>
        PROVE  ClientTypeOK'
    BY <2>1 DEF ClientTypeOK, ClientPc, Matches, ToPod
  <2>2. ClientTypeOK'
    BY <1>4, <1>a, <2>1, EndType, EndOpType DEF GetContainer
  <2>3. GcTypeOK'
    BY <1>4, GcUntouchedType, KickAfterType DEF GetContainer, GcTypeOK
  <2> QED BY <1>0, <2>2, <2>3
<1> QED BY <1>1, <1>2, <1>3, <1>4

LEMMA BeginStartType ==
    ASSUME TypeOK, NEW x \in Client, target[x] \in Ctr, BeginStart(x),
           UNCHANGED <<kicked, gcVars, born>>
    PROVE  TypeOK'
<1> USE DEF TypeOK
<1>1. PICK ok \in BOOLEAN :
        /\ Outcome(cstate[target[x]] = "created", ok)
        /\ IF ok THEN /\ SetStarting(target[x])
                      /\ pc' = [pc EXCEPT ![x] = "starting"]
                      /\ UNCHANGED <<cmd, ref, op, hold, target, seenPods, todo, found, result>>
                 ELSE /\ UNCHANGED criVars
                      /\ End(x, "error")
  BY DEF BeginStart
<1>2. "error" \in Results
  BY DEF Results
<1>3. CriTypeOK'
  BY <1>1, StartStepType, UnchangedTypes
<1>4. ASSUME pc' = [pc EXCEPT ![x] = "starting"],
             UNCHANGED <<cmd, ref, op, hold, target, seenPods, todo, found, result>>
      PROVE  ClientTypeOK'
  BY <1>4 DEF ClientTypeOK, ClientPc
<1>5. ClientTypeOK'
  BY <1>1, <1>2, <1>4, EndType
<1>6. (cstate[target[x]] = "created") \in BOOLEAN
  OBVIOUS
<1>7. GcTypeOK'
  BY <1>1, <1>6, GcUntouchedType, Zenon DEF GcTypeOK
<1> QED BY <1>3, <1>5, <1>7

LEMMA StartStepsType ==
    ASSUME TypeOK, NEW x \in Client, StartCheck(x) \/ StartLaunch(x)
    PROVE  TypeOK'
<1> USE DEF TypeOK
<1>0. target[x] \in Ctr
  BY DEF ClientTypeOK, StartCheck, StartLaunch
<1>a. "error" \in Results /\ \A ok \in BOOLEAN : Verdict(ok) \in Results
  BY DEF Results, Verdict
<1>b. SandboxReady(target[x]) \in BOOLEAN /\ TRUE \in BOOLEAN
  BY DEF SandboxReady
<1>1. CASE StartCheck(x)
  <2>1. PICK ok \in BOOLEAN : /\ Outcome(SandboxReady(target[x]), ok)
                              /\ CheckSandbox(target[x], ok)
                              /\ IF ok THEN UNCHANGED cliVars ELSE End(x, "error")
    BY <1>1 DEF StartCheck
  <2>2. CriTypeOK' /\ ClientTypeOK'
    BY <1>0, <1>a, <2>1, StartStepType, EndType, UnchangedTypes
  <2>3. GcTypeOK'
    BY <1>1, <1>b, <2>1, GcUntouchedType, Zenon DEF StartCheck, GcTypeOK
  <2> QED BY <2>2, <2>3
<1>2. CASE StartLaunch(x)
  <2>1. PICK ok \in BOOLEAN : /\ Outcome(TRUE, ok) \/ UNCHANGED faults
                              /\ StartTask(target[x], ok)
                              /\ End(x, Verdict(ok))
    BY <1>2 DEF StartLaunch
  <2>2. CriTypeOK' /\ ClientTypeOK'
    BY <1>0, <1>a, <2>1, StartStepType, EndType
  <2>3. GcTypeOK'
    BY <1>2, <1>b, <2>1, GcUntouchedType, Zenon DEF StartLaunch, GcTypeOK
  <2> QED BY <2>2, <2>3
<1> QED BY <1>1, <1>2

LEMMA CallStepsType ==
    ASSUME TypeOK, NEW x \in Client,
           \/ CallStart(x)
           \/ CallStop(x)
           \/ CallRemove(x)
           \/ CallAttach(x)
           \/ Stream(x)
    PROVE  TypeOK'
<1> USE DEF TypeOK
<1>a. "error" \in Results /\ \A ok \in BOOLEAN : Verdict(ok) \in Results
  BY DEF Results, Verdict
<1>0. target[x] \in Ctr
  BY DEF ClientTypeOK, CallStart, CallStop, CallRemove, CallAttach, Stream
<1>b. /\ Removable(target[x]) \in BOOLEAN
      /\ Attachable(target[x]) \in BOOLEAN
      /\ InStore(target[x]) \in BOOLEAN
  BY DEF Removable, Attachable, InStore
<1>1. CASE CallStart(x)
  BY <1>0, <1>1, BeginStartType DEF CallStart
<1>2. CASE CallStop(x)
  <2>1. PICK ok \in BOOLEAN : /\ Outcome(InStore(target[x]), ok)
                              /\ StopContainer(target[x], ok)
                              /\ EndOp(x, Verdict(ok))
    BY <1>2 DEF CallStop
  <2>2. CriTypeOK' /\ ClientTypeOK'
    BY <1>0, <1>a, <2>1, StopContainerType, EndOpType
  <2>3. GcTypeOK'
    BY <1>2, <1>b, <2>1, GcUntouchedType, Zenon DEF CallStop, GcTypeOK
  <2> QED BY <2>2, <2>3
<1>3. CASE CallRemove(x)
  <2>1. PICK ok \in BOOLEAN : /\ Outcome(Removable(target[x]), ok)
                              /\ RemoveContainer(target[x], ok)
                              /\ End(x, Verdict(ok))
                              /\ KickAfter(x)
    BY <1>3 DEF CallRemove
  <2>2. CriTypeOK' /\ ClientTypeOK'
    BY <1>0, <1>a, <2>1, RemoveContainerType, EndType
  <2>3. kicked' \in BOOLEAN
    BY <2>1, KickAfterType
  <2>4. GcTypeOK'
    BY <1>3, <1>b, <2>1, <2>3, GcUntouchedType, Zenon DEF CallRemove
  <2> QED BY <2>2, <2>4
<1>4. CASE CallAttach(x)
  <2>1. PICK ok \in BOOLEAN :
          /\ Outcome(Attachable(target[x]), ok)
          /\ IF ok THEN /\ pc' = [pc EXCEPT ![x] = "stream"]
                        /\ UNCHANGED <<cmd, ref, op, hold, target, seenPods, todo, found, result>>
                   ELSE End(x, "error")
    BY <1>4 DEF CallAttach
  <2>2. ASSUME pc' = [pc EXCEPT ![x] = "stream"],
               UNCHANGED <<cmd, ref, op, hold, target, seenPods, todo, found, result>>
        PROVE  ClientTypeOK'
    BY <1>0, <2>2 DEF ClientTypeOK, ClientPc
  <2>3. ClientTypeOK'
    BY <1>a, <2>1, <2>2, EndType
  <2>5. GcTypeOK'
    BY <1>4, <1>b, <2>1, GcUntouchedType, Zenon DEF CallAttach, GcTypeOK
  <2>6. CriTypeOK'
    BY <1>4, UnchangedTypes DEF CallAttach
  <2> QED BY <2>3, <2>5, <2>6
<1>5. CASE Stream(x)
  <2>1. CASE BeginStart(x)
    BY <1>0, <1>5, <2>1, BeginStartType DEF Stream
  <2>2. CASE /\ End(x, Verdict(cstate[target[x]] = "running"))
             /\ UNCHANGED <<criVars, faults>>
    <3>1. Verdict(cstate[target[x]] = "running") \in Results
      BY DEF Verdict, Results
    <3>2. CriTypeOK' /\ ClientTypeOK'
      BY <1>5, <2>2, <3>1, EndType, UnchangedTypes
    <3>3. GcTypeOK'
      BY <1>5, <2>2, GcUntouchedType DEF Stream, GcTypeOK
    <3> QED BY <3>2, <3>3
  <2> QED BY <1>5, <2>1, <2>2, Zenon DEF Stream
<1> QED BY <1>1, <1>2, <1>3, <1>4, <1>5

LEMMA ClientStepType ==
    ASSUME TypeOK, NEW x \in Client, ClientStep(x) \/ Interrupt(x)
    PROVE  TypeOK'
<1>1. CASE Interrupt(x)
  <2>1. "interrupted" \in Results
    BY DEF Results
  <2>2. pc[x] = "starting" => target[x] \in Ctr
    BY DEF TypeOK, ClientTypeOK
  <2>4. CriTypeOK'
    BY <1>1, <2>2, StartStepType, UnchangedTypes DEF Interrupt, TypeOK
  <2>5. ClientTypeOK'
    BY <1>1, <2>1, EndType DEF Interrupt, TypeOK
  <2>3. GcTypeOK'
    BY <1>1, GcUntouchedType, KickAfterType DEF Interrupt, TypeOK
  <2> QED BY <2>3, <2>4, <2>5 DEF TypeOK
<1>2. CASE ClientStep(x)
  BY <1>2, CreateStepsType, LookupStepsType, CallStepsType, StartStepsType, Zenon DEF ClientStep
<1> QED BY <1>1, <1>2

LEMMA EndPassType ==
    ASSUME GcTypeOK, EndPass, kicked' \in BOOLEAN, faults' \in 0..MaxFaults
    PROVE  GcTypeOK'
BY DEF GcTypeOK, EndPass, GcPc

LEMMA NextPodType ==
    ASSUME GcTypeOK, NEW p, NextPod(p), UNCHANGED <<kicked, born>>,
           faults' \in 0..MaxFaults
    PROVE  GcTypeOK'
BY DEF GcTypeOK, NextPod, GcPc

LEMMA GcType ==
    ASSUME TypeOK, Gc
    PROVE  TypeOK'
<1> USE DEF TypeOK
<1>0. ClientTypeOK'
  BY UnchangedTypes
     DEF Gc, GcKicked, GcListPods, GcListCtrs, GcStopForeign, GcRemoveForeign,
         GcSleep, GcStopPod, GcStopSandbox, GcRemovePod, GcEnd
<1>f. /\ Fault => faults' \in 0..MaxFaults
      /\ UNCHANGED faults => faults' \in 0..MaxFaults
  BY FaultType DEF GcTypeOK
<1>1. CASE GcKicked
  BY <1>0, <1>1, UnchangedTypes DEF GcKicked, Kicked, GcTypeOK, GcPc
<1>2. CASE GcListPods
  <2>1. CASE EndPass /\ Fault
    BY <1>0, <1>2, <1>f, <2>1, EndPassType, UnchangedTypes DEF GcListPods, GcTypeOK
  <2>2. CASE gcPods' = ListPodSandbox /\ gcPc' = "listCtrs" /\ UNCHANGED <<gcCtrs, gcCur, born, faults>>
    BY <1>0, <1>2, <2>2, UnchangedTypes DEF GcListPods, ListPodSandbox, GcTypeOK, GcPc
  <2> QED BY <1>2, <2>1, <2>2 DEF GcListPods
<1>3. CASE GcListCtrs
  <2>1. CASE EndPass /\ Fault
    BY <1>0, <1>3, <1>f, <2>1, EndPassType, UnchangedTypes DEF GcListCtrs, GcTypeOK
  <2>2. CASE /\ gcPods' = gcPods \ CountedPods
             /\ gcCtrs' = {k \in ListContainers : Foreign(k)}
             /\ gcPc' = "foreign" /\ born' = {} /\ UNCHANGED <<gcCur, faults>>
    BY <1>0, <1>3, <2>2, UnchangedTypes DEF GcListCtrs, ListContainers, GcTypeOK, GcPc
  <2> QED BY <1>3, <2>1, <2>2 DEF GcListCtrs
<1>4. CASE GcStopForeign
  <2>1. PICK k \in gcCtrs, ok \in BOOLEAN :
          Outcome(InStore(k), ok) /\ StopContainer(k, ok) /\ gcCur' = k
    BY <1>4 DEF GcStopForeign
  <2>2. k \in Ctr /\ InStore(k) \in BOOLEAN
    BY DEF GcTypeOK, InStore
  <2>3. CriTypeOK'
    BY <2>1, <2>2, StopContainerType
  <2>4. faults' \in 0..MaxFaults
    BY <2>1, <2>2, FaultType, Zenon
  <2>5. GcTypeOK'
    BY <1>4, <2>1, <2>2, <2>4 DEF GcStopForeign, GcTypeOK, GcPc
  <2> QED BY <1>0, <2>3, <2>5
<1>5. CASE GcRemoveForeign
  <2>1. PICK ok \in BOOLEAN :
          Outcome(Removable(gcCur), ok) /\ RemoveContainer(gcCur, ok)
    BY <1>5 DEF GcRemoveForeign
  <2>2. gcCur \in Ctr
    BY <1>5 DEF GcRemoveForeign, GcTypeOK
  <2>3. CriTypeOK'
    BY <2>1, <2>2, RemoveContainerType
  <2>a. Removable(gcCur) \in BOOLEAN
    BY DEF Removable
  <2>4. faults' \in 0..MaxFaults
    BY <2>1, <2>a, FaultType, Zenon
  <2>5. GcTypeOK'
    BY <1>5, <2>4 DEF GcRemoveForeign, GcTypeOK, GcPc
  <2> QED BY <1>0, <2>3, <2>5
<1>6. CASE GcSleep
  BY <1>0, <1>6, UnchangedTypes DEF GcSleep, GcTypeOK, GcPc
<1>7. ASSUME NEW p \in Pod, GcStopPod(p) PROVE TypeOK'
  <2>1. CASE /\ StopPodContainers(p) /\ gcPc' = "stop" /\ gcCur' = p
             /\ UNCHANGED <<gcPods, gcCtrs, faults>>
    BY <1>0, <1>7, <2>1, StoresType DEF GcStopPod, GcTypeOK, GcPc
  <2>2. CASE NextPod(p) /\ UNCHANGED criVars /\ (Fault \/ UNCHANGED faults)
    BY <1>0, <1>7, <1>f, <2>2, NextPodType, UnchangedTypes DEF GcStopPod
  <2> QED BY <1>7, <2>1, <2>2 DEF GcStopPod
<1>8. CASE GcStopSandbox
  <2>1. gcCur \in Pod
    BY <1>8 DEF GcStopSandbox, GcTypeOK
  <2>2. CASE StopSandboxTask(gcCur) /\ gcPc' = "remove" /\ UNCHANGED <<gcPods, gcCtrs, gcCur, faults>>
    BY <1>0, <1>8, <2>1, <2>2, StoresType DEF GcStopSandbox, GcTypeOK, GcPc
  <2>3. CASE Fault /\ NextPod(gcCur) /\ UNCHANGED criVars
    BY <1>0, <1>8, <1>f, <2>3, NextPodType, UnchangedTypes DEF GcStopSandbox
  <2> QED BY <1>8, <2>2, <2>3 DEF GcStopSandbox
<1>9. CASE GcRemovePod
  <2>1. gcCur \in Pod
    BY <1>9 DEF GcRemovePod, GcTypeOK
  <2>2. CriTypeOK'
    BY <1>9, <2>1, RemovePodSandboxType, UnchangedTypes DEF GcRemovePod
  <2>3. GcTypeOK'
    BY <1>9, <1>f, NextPodType DEF GcRemovePod
  <2> QED BY <1>0, <2>2, <2>3
<1>10. CASE GcEnd
  BY <1>0, <1>10, <1>f, EndPassType, UnchangedTypes DEF GcEnd, GcTypeOK
<1> QED BY <1>1, <1>2, <1>3, <1>4, <1>5, <1>6, <1>7, <1>8, <1>9, <1>10 DEF Gc

LEMMA EnvType ==
    ASSUME TypeOK, Env
    PROVE  TypeOK'
<1> USE DEF TypeOK
<1>1. ASSUME NEW p \in Pod, ForeignRunPod(p) PROVE TypeOK'
  BY <1>1, RunPodSandboxType, UnchangedTypes DEF ForeignRunPod, GcTypeOK
<1>2. ASSUME NEW p \in Pod, ForeignRemovePod(p) PROVE TypeOK'
  <2>1. CriTypeOK'
    BY <1>2, StoresType DEF ForeignRemovePod
  <2> QED BY <1>2, <2>1, UnchangedTypes DEF ForeignRemovePod, GcTypeOK
<1>3. ASSUME NEW k \in Ctr, NEW p \in Pod, NEW n \in Name, ForeignCreate(k, p, n)
      PROVE  TypeOK'
  <2>1. CriTypeOK' /\ ClientTypeOK'
    BY <1>3, AddContainerType, UnchangedTypes DEF ForeignCreate
  <2>2. GcTypeOK'
    BY <1>3 DEF ForeignCreate, GcTypeOK, gcVars
  <2> QED BY <2>1, <2>2
<1>4. ASSUME NEW k \in Ctr, ForeignStart(k) PROVE TypeOK'
  BY <1>4, StartStepType, UnchangedTypes DEF ForeignStart, GcTypeOK
<1>5. ASSUME NEW k \in Ctr, Exit(k) PROVE TypeOK'
  BY <1>5, StoresType, UnchangedTypes DEF Exit, GcTypeOK
<1>6. ASSUME NEW reboot \in BOOLEAN, Restart(reboot) PROVE TypeOK'
  <2>1. CriTypeOK'
    BY <1>6, StoresType DEF Restart
  <2>2. ClientTypeOK'
    BY <1>6 DEF Restart, ClientTypeOK, ClientPc
  <2>3. GcTypeOK'
    BY <1>6, FaultType, EndPassType DEF Restart
  <2> QED BY <2>1, <2>2, <2>3
<1> QED BY <1>1, <1>2, <1>3, <1>4, <1>5, <1>6 DEF Env

LEMMA InitType == Init => TypeOK
<1>1. MaxFaults \in Nat
  BY DaemonAssumption
<1>2. ASSUME Init PROVE CriTypeOK
  BY <1>2 DEF Init, CriInit, CriTypeOK, SandboxState, CtrState
<1>3. ASSUME Init PROVE ClientTypeOK
  BY <1>3 DEF Init, ClientTypeOK, ClientPc, Ref
<1>4. ASSUME Init PROVE GcTypeOK
  BY <1>1, <1>4 DEF Init, GcTypeOK, GcPc
<1> QED BY <1>2, <1>3, <1>4 DEF TypeOK

LEMMA NextType ==
    ASSUME TypeOK, [Next]_vars
    PROVE  TypeOK'
<1>1. CASE UNCHANGED vars
  BY <1>1, UnchangedTypes DEF vars, TypeOK, GcTypeOK
<1>2. CASE Next
  BY <1>2, BeginType, ClientStepType, GcType, EnvType, Zenon DEF Next
<1> QED BY <1>1, <1>2

(* Every variable keeps its type: no handler, no step of the collector and *)
(* no restart leaves a pending call without its argument.                  *)
THEOREM TypeCorrect == Spec => []TypeOK
BY InitType, NextType, PTL DEF Spec

-----------------------------------------------------------------------------
(* Every step makes at most one call to the CRI service. *)

(* The steps of a client that call the runtime on a resolved container. *)
OnTarget(x) ==
    \/ CallStart(x) \/ StartCheck(x) \/ StartLaunch(x) \/ CallStop(x)
    \/ CallRemove(x) \/ CallAttach(x) \/ Stream(x) \/ Interrupt(x)

LEMMA TargetCalls ==
    ASSUME TypeOK, NEW x \in Client, OnTarget(x)
    PROVE  /\ UNCHANGED <<gcVars, born>>
           /\ \/ UNCHANGED criVars
              \/ \E k \in Ctr : SetStarting(k)
              \/ \E k \in Ctr, ok \in BOOLEAN :
                   \/ CheckSandbox(k, ok) \/ StartTask(k, ok)
                   \/ StopContainer(k, ok) \/ RemoveContainer(k, ok)
<1> USE DEF TypeOK
<1>1. UNCHANGED <<gcVars, born>>
  BY DEF OnTarget, CallStart, StartCheck, StartLaunch, CallStop, CallRemove, CallAttach,
         Stream, Interrupt
<1>2. CASE pc[x] \in {"call", "stream", "starting"}
  <2>1. target[x] \in Ctr /\ FALSE \in BOOLEAN
    BY <1>2 DEF ClientTypeOK
  <2> QED BY <1>1, <2>1, Zenon DEF OnTarget, BeginStart, CallStart, StartCheck, StartLaunch,
                             CallStop, CallRemove, CallAttach, Stream, Interrupt
<1>3. CASE pc[x] \notin {"call", "stream", "starting"}
  BY <1>1, <1>3 DEF OnTarget, CallStart, StartCheck, StartLaunch, CallStop, CallRemove,
                    CallAttach, Stream, Interrupt
<1> QED BY <1>2, <1>3

LEMMA CallsCri ==
    ASSUME TypeOK, [Next]_vars
    PROVE  [CriNext]_criVars
<1> USE DEF TypeOK
<1>1. CASE UNCHANGED vars
  BY <1>1 DEF vars
<1>2. ASSUME NEW x \in Client, NEW c \in Commands, NEW r \in Name \cup Ctr, Begin(x, c, r)
      PROVE  UNCHANGED criVars
  BY <1>2 DEF Begin
<1>3. ASSUME NEW x \in Client, ClientStep(x) \/ Interrupt(x)
      PROVE  [CriNext]_criVars
  <2>1. CASE CreatePod(x)
    BY <2>1 DEF CreatePod, CriNext
  <2>2. CASE CreateContainerAdd(x)
    <3>1. hold[x] \in Pod /\ ref[x] \in Name
      BY <2>2 DEF CreateContainerAdd, ClientTypeOK
    <3> QED BY <2>2, <3>1 DEF CreateContainerAdd, CriNext
  <2>3. CASE OnTarget(x)
    BY <2>3, TargetCalls, Zenon DEF CriNext
  <2>4. CASE \/ CreateContainerFindPod(x) \/ CreateContainerCheck(x)
             \/ ListPodsSandboxes(x) \/ ListPodsContainers(x) \/ ListPodsStatus(x)
             \/ GetContainer(x)
    BY <2>4 DEF CreateContainerFindPod, CreateContainerCheck, ListPodsSandboxes,
                ListPodsContainers, ListPodsStatus, GetContainer
  <2> QED BY <1>3, <2>1, <2>2, <2>3, <2>4, Zenon DEF ClientStep, OnTarget
<1>4. CASE Gc
  <2>1. CASE GcKicked \/ GcListPods \/ GcListCtrs \/ GcSleep \/ GcEnd
    BY <2>1 DEF GcKicked, GcListPods, GcListCtrs, GcSleep, GcEnd
  <2>2. CASE GcStopForeign
    <3>1. PICK k \in gcCtrs, ok \in BOOLEAN : StopContainer(k, ok)
      BY <2>2 DEF GcStopForeign
    <3>2. k \in Ctr
      BY DEF GcTypeOK
    <3> QED BY <3>1, <3>2, Zenon DEF CriNext
  <2>3. CASE GcRemoveForeign
    <3>1. gcCur \in Ctr
      BY <2>3 DEF GcRemoveForeign, GcTypeOK
    <3> QED BY <2>3, <3>1, Zenon DEF GcRemoveForeign, CriNext
  <2>4. ASSUME NEW p \in Pod, GcStopPod(p) PROVE [CriNext]_criVars
    BY <2>4, Zenon DEF GcStopPod, CriNext
  <2>5. CASE GcStopSandbox \/ GcRemovePod
    <3>1. gcCur \in Pod
      BY <2>5 DEF GcStopSandbox, GcRemovePod, GcTypeOK
    <3> QED BY <2>5, <3>1, Zenon DEF GcStopSandbox, GcRemovePod, CriNext
  <2> QED BY <1>4, <2>1, <2>2, <2>3, <2>4, <2>5, Zenon DEF Gc
<1>5. CASE Env
  <2>1. TRUE \in BOOLEAN
    OBVIOUS
  <2> QED BY <1>5, <2>1, Zenon DEF Env, ForeignRunPod, ForeignRemovePod, ForeignCreate,
                                ForeignStart, Exit, Restart, CriNext
<1> QED BY <1>1, <1>2, <1>3, <1>4, <1>5, Zenon DEF Next

(* The daemon, its collector and its clients use the CRI service by its    *)
(* calls only: what they do to the stores is a behaviour of the service.   *)
THEOREM ImplementsCri == Spec => CriSpec
<1>1. Init => CriInit
  BY DEF Init
<1> QED BY <1>1, CallsCri, TypeCorrect, PTL DEF Spec, CriSpec

-----------------------------------------------------------------------------
(* LaunchingIsVisible is kept by every call of the service. *)

LEMMA CriKeepsVisible ==
    ASSUME CriTypeOK, LaunchingIsVisible, [CriNext]_criVars
    PROVE  LaunchingIsVisible'
<1> USE DEF CriTypeOK, LaunchingIsVisible, PodInStore
<1>1. CASE UNCHANGED criVars
  BY <1>1 DEF criVars
<1>2. ASSUME NEW p \in Pod, RunPodSandbox(p) PROVE LaunchingIsVisible'
  BY <1>2 DEF RunPodSandbox
<1>3. ASSUME NEW p \in Pod, StopPodContainers(p) PROVE LaunchingIsVisible'
  BY <1>3 DEF StopPodContainers
<1>4. ASSUME NEW p \in Pod, StopSandboxTask(p) PROVE LaunchingIsVisible'
  BY <1>4 DEF StopSandboxTask
<1>5. ASSUME NEW p \in Pod, RemovePodSandbox(p) PROVE LaunchingIsVisible'
  <2> DEFINE removable == {k \in CtrsOf(p) : Removable(k)}
  <2>1. CASE /\ removable = CtrsOf(p)
             /\ cstate' = [k \in Ctr |-> IF k \in removable THEN "removed" ELSE cstate[k]]
             /\ sandbox' = [sandbox EXCEPT ![p] = "removed"]
             /\ UNCHANGED <<podOf, nameOf>>
    <3>1. ASSUME NEW k \in Ctr, podOf[k] = p PROVE cstate[k] \notin {"launching", "running"}
      BY <2>1, <3>1 DEF CtrsOf, InStore, InStart, Removable
    <3> QED BY <2>1, <3>1
  <2>2. ASSUME NEW K \in SUBSET removable,
               cstate' = [k \in Ctr |-> IF k \in K THEN "removed" ELSE cstate[k]],
               UNCHANGED <<sandbox, podOf, nameOf>>
        PROVE  LaunchingIsVisible'
    BY <2>2
  <2> QED BY <1>1, <1>5, <2>1, <2>2, Zenon DEF RemovePodSandbox
<1>6. ASSUME NEW p \in Pod, DropPod(p) PROVE LaunchingIsVisible'
  BY <1>6 DEF DropPod, CtrsOf, InStore, InStart
<1>7. ASSUME NEW k \in Ctr, NEW p \in Pod, NEW n \in Name, AddContainer(k, p, n)
      PROVE  LaunchingIsVisible'
  BY <1>7 DEF AddContainer
<1>8. ASSUME NEW k \in Ctr, NEW ok \in BOOLEAN,
             \/ CheckSandbox(k, ok) \/ StartTask(k, ok)
             \/ StopContainer(k, ok) \/ RemoveContainer(k, ok)
      PROVE  LaunchingIsVisible'
  <2>1. CASE CheckSandbox(k, ok)
    BY <2>1 DEF CheckSandbox, SandboxReady, SetCtr
  <2>2. CASE StartTask(k, ok)
    BY <2>2 DEF StartTask, SetCtr
  <2>3. ASSUME NEW s, s \in {"exited", "removed", cstate[k]}, SetCtr(k, s)
        PROVE  LaunchingIsVisible'
    BY <2>3 DEF SetCtr
  <2> QED BY <1>1, <1>8, <2>1, <2>2, <2>3 DEF StopContainer, RemoveContainer
<1>9. ASSUME NEW k \in Ctr, SetStarting(k) \/ ContainerExits(k) PROVE LaunchingIsVisible'
  BY <1>9 DEF SetStarting, ContainerExits, SetCtr
<1>10. ASSUME NEW reboot \in BOOLEAN, RecoverStores(reboot) PROVE LaunchingIsVisible'
  BY <1>10 DEF RecoverStores, InStart
<1> QED BY <1>1, <1>2, <1>3, <1>4, <1>5, <1>6, <1>7, <1>8, <1>9, <1>10, Zenon DEF CriNext

(* No interleaving of create, start, the collector and a restart leaves a  *)
(* container running whose pod is no longer listed.                        *)
THEOREM RunningVisible == Spec => []RunningIsVisible
<1>1. Init => LaunchingIsVisible
  BY DEF Init, CriInit, LaunchingIsVisible
<1>2. TypeOK /\ LaunchingIsVisible /\ [Next]_vars => LaunchingIsVisible'
  BY CallsCri, CriKeepsVisible DEF TypeOK
<1>3. LaunchingIsVisible => RunningIsVisible
  BY DEF LaunchingIsVisible, RunningIsVisible
<1> QED BY <1>1, <1>2, <1>3, TypeCorrect, PTL DEF Spec

-----------------------------------------------------------------------------
(* The collector: nothing but a create brings a container into the store. *)

NoNewCtrs ==
    /\ podOf' = podOf
    /\ \A k \in Ctr : InStore(k)' => InStore(k)

LEMMA CallsWithoutNewCtrs ==
    ASSUME CriTypeOK
    PROVE  /\ UNCHANGED criVars => NoNewCtrs
           /\ \A p \in Pod : \/ RunPodSandbox(p) \/ StopPodContainers(p)
                             \/ StopSandboxTask(p) \/ RemovePodSandbox(p) \/ DropPod(p)
                             => NoNewCtrs
           /\ \A k \in Ctr, ok \in BOOLEAN :
                \/ CheckSandbox(k, ok) \/ StartTask(k, ok)
                \/ StopContainer(k, ok) \/ RemoveContainer(k, ok)
                => NoNewCtrs
           /\ \A k \in Ctr : SetStarting(k) \/ ContainerExits(k) => NoNewCtrs
           /\ \A reboot \in BOOLEAN : RecoverStores(reboot) => NoNewCtrs
<1> USE DEF CriTypeOK, NoNewCtrs, InStore, InStart
<1>1. UNCHANGED criVars => NoNewCtrs
  BY DEF criVars
<1>2. ASSUME NEW p \in Pod,
             \/ RunPodSandbox(p) \/ StopPodContainers(p) \/ StopSandboxTask(p) \/ DropPod(p)
      PROVE  NoNewCtrs
  BY <1>2 DEF RunPodSandbox, StopPodContainers, StopSandboxTask, DropPod, CtrsOf
<1>3. ASSUME NEW p \in Pod, RemovePodSandbox(p) PROVE NoNewCtrs
  <2>1. ASSUME NEW K, cstate' = [k \in Ctr |-> IF k \in K THEN "removed" ELSE cstate[k]],
               UNCHANGED podOf
        PROVE  NoNewCtrs
    BY <2>1
  <2> QED BY <1>1, <1>3, <2>1, Zenon DEF RemovePodSandbox
<1>4. ASSUME NEW k \in Ctr, NEW ok \in BOOLEAN,
             \/ CheckSandbox(k, ok) \/ StartTask(k, ok)
             \/ StopContainer(k, ok) \/ RemoveContainer(k, ok)
      PROVE  NoNewCtrs
  <2>1. ASSUME NEW s, SetCtr(k, s), InStore(k) \/ s = cstate[k] PROVE NoNewCtrs
    BY <2>1 DEF SetCtr
  <2> QED BY <1>1, <1>4, <2>1
          DEF CheckSandbox, StartTask, StopContainer, RemoveContainer
<1>5. ASSUME NEW k \in Ctr, SetStarting(k) \/ ContainerExits(k) PROVE NoNewCtrs
  BY <1>5 DEF SetStarting, ContainerExits, SetCtr
<1>6. ASSUME NEW reboot \in BOOLEAN, RecoverStores(reboot) PROVE NoNewCtrs
  BY <1>6 DEF RecoverStores
<1> QED BY <1>1, <1>2, <1>3, <1>4, <1>5, <1>6

(* Three ways a step keeps GcSparesListed: the sweep has nothing new to    *)
(* look at, a container is created and recorded, or no sweep is under way. *)
LEMMA SweepGoesOn ==
    ASSUME TypeOK, GcSparesListed, NoNewCtrs, born \subseteq born',
           gcPods' \subseteq gcPods, Sweeping' => Sweeping
    PROVE  GcSparesListed'
BY DEF GcSparesListed, NoNewCtrs, CtrsOf

LEMMA CreateIsRecorded ==
    ASSUME TypeOK, GcSparesListed, NEW k \in Ctr, NEW p \in Pod, NEW n \in Name,
           AddContainer(k, p, n), born' = born \cup {k}, UNCHANGED gcVars
    PROVE  GcSparesListed'
BY DEF TypeOK, CriTypeOK, GcSparesListed, AddContainer, CtrsOf, InStore,
       InStart, gcVars, Sweeping

LEMMA NotSweeping ==
    ASSUME gcPc' \in {"wait", "listPods", "listCtrs"}
    PROVE  GcSparesListed'
BY DEF GcSparesListed, Sweeping

LEMMA StepKeepsListed ==
    ASSUME TypeOK, GcSparesListed, [Next]_vars
    PROVE  GcSparesListed'
<1> USE DEF TypeOK
<1>0. ASSUME NoNewCtrs, UNCHANGED <<gcVars, born>> PROVE GcSparesListed'
  BY <1>0, SweepGoesOn DEF gcVars, Sweeping
<1>1. CASE UNCHANGED vars
  BY <1>0, <1>1, CallsWithoutNewCtrs DEF vars
<1>2. ASSUME NEW x \in Client, NEW c \in Commands, NEW r \in Name \cup Ctr, Begin(x, c, r)
      PROVE  GcSparesListed'
  BY <1>0, <1>2, CallsWithoutNewCtrs DEF Begin
<1>3. ASSUME NEW x \in Client, ClientStep(x) \/ Interrupt(x)
      PROVE  GcSparesListed'
  <2>1. CASE CreatePod(x)
    BY <1>0, <2>1, CallsWithoutNewCtrs DEF CreatePod
  <2>2. CASE CreateContainerAdd(x)
    <3>1. hold[x] \in Pod /\ ref[x] \in Name
      BY <2>2 DEF CreateContainerAdd, ClientTypeOK
    <3>2. CASE UNCHANGED criVars /\ UNCHANGED born
      BY <1>0, <2>2, <3>2, CallsWithoutNewCtrs DEF CreateContainerAdd
    <3>3. ASSUME NEW k \in Ctr, AddContainer(k, hold[x], ref[x]), born' = born \cup {k}
          PROVE  GcSparesListed'
      BY <2>2, <3>1, <3>3, CreateIsRecorded DEF CreateContainerAdd
    <3> QED BY <2>2, <3>2, <3>3, Zenon DEF CreateContainerAdd
  <2>3. CASE OnTarget(x)
    <3>1. NoNewCtrs
      BY <2>3, TargetCalls, CallsWithoutNewCtrs, Zenon
    <3> QED BY <1>0, <2>3, <3>1, TargetCalls
  <2>4. CASE \/ CreateContainerFindPod(x) \/ CreateContainerCheck(x)
             \/ ListPodsSandboxes(x) \/ ListPodsContainers(x) \/ ListPodsStatus(x)
             \/ GetContainer(x)
    BY <1>0, <2>4, CallsWithoutNewCtrs
       DEF CreateContainerFindPod, CreateContainerCheck, ListPodsSandboxes,
           ListPodsContainers, ListPodsStatus, GetContainer
  <2> QED BY <1>3, <2>1, <2>2, <2>3, <2>4, Zenon DEF ClientStep, OnTarget
<1>4. CASE Gc
  <2>1. CASE GcKicked \/ GcListPods \/ GcEnd
    BY <2>1, NotSweeping DEF GcKicked, GcListPods, GcEnd, EndPass
  <2>2. CASE GcListCtrs
    <3>1. CASE EndPass
      BY <3>1, NotSweeping DEF EndPass
    <3>2. CASE gcPods' = gcPods \ CountedPods
      <4>1. UNCHANGED criVars
        BY <2>2 DEF GcListCtrs
      <4>2. \A p \in gcPods' \ ForeignPod : CtrsOf(p)' = {}
        <5> SUFFICES ASSUME NEW p \in gcPods' \ ForeignPod, NEW k \in CtrsOf(p)'
                     PROVE  FALSE
          OBVIOUS
        <5>1. k \in ListContainers /\ podOf[k] = p /\ ~Foreign(k)
          BY <4>1 DEF CtrsOf, InStore, InStart, criVars, ListContainers, Foreign
        <5>2. p \in CountedPods
          BY <5>1 DEF CountedPods
        <5> QED BY <3>2, <5>2
      <4> QED BY <4>2 DEF GcSparesListed
    <3> QED BY <2>2, <3>1, <3>2 DEF GcListCtrs
  <2>3. CASE GcStopForeign
    <3>1. PICK k \in gcCtrs, ok \in BOOLEAN : StopContainer(k, ok)
      BY <2>3 DEF GcStopForeign
    <3>2. NoNewCtrs
      BY <3>1, CallsWithoutNewCtrs DEF GcTypeOK
    <3> QED BY <2>3, <3>2, SweepGoesOn DEF GcStopForeign, Sweeping
  <2>4. CASE GcRemoveForeign
    <3>1. gcCur \in Ctr
      BY <2>4 DEF GcRemoveForeign, GcTypeOK
    <3>2. NoNewCtrs
      BY <2>4, <3>1, CallsWithoutNewCtrs, Zenon DEF GcRemoveForeign
    <3> QED BY <2>4, <3>2, SweepGoesOn DEF GcRemoveForeign, Sweeping
  <2>5. CASE GcSleep
    BY <2>5, CallsWithoutNewCtrs, SweepGoesOn DEF GcSleep, Sweeping
  <2>6. ASSUME NEW p \in Pod, GcStopPod(p) PROVE GcSparesListed'
    <3>1. NoNewCtrs
      BY <2>6, CallsWithoutNewCtrs, Zenon DEF GcStopPod
    <3> QED BY <2>6, <3>1, SweepGoesOn DEF GcStopPod, NextPod, Sweeping
  <2>7. CASE GcStopSandbox \/ GcRemovePod
    <3>1. gcCur \in Pod
      BY <2>7 DEF GcStopSandbox, GcRemovePod, GcTypeOK
    <3>2. NoNewCtrs
      BY <2>7, <3>1, CallsWithoutNewCtrs, Zenon DEF GcStopSandbox, GcRemovePod
    <3> QED BY <2>7, <3>2, SweepGoesOn DEF GcStopSandbox, GcRemovePod, NextPod, Sweeping
  <2> QED BY <1>4, <2>1, <2>2, <2>3, <2>4, <2>5, <2>6, <2>7, Zenon DEF Gc
<1>5. CASE Env
  <2>1. ASSUME NEW p \in Pod, ForeignRunPod(p) \/ ForeignRemovePod(p)
        PROVE  GcSparesListed'
    BY <1>0, <2>1, CallsWithoutNewCtrs DEF ForeignRunPod, ForeignRemovePod
  <2>2. ASSUME NEW k \in Ctr, NEW p \in Pod, NEW n \in Name, ForeignCreate(k, p, n)
        PROVE  GcSparesListed'
    BY <2>2, CreateIsRecorded DEF ForeignCreate
  <2>3. ASSUME NEW k \in Ctr, ForeignStart(k) \/ Exit(k)
        PROVE  GcSparesListed'
    BY <1>0, <2>3, CallsWithoutNewCtrs DEF ForeignStart, Exit
  <2>4. ASSUME NEW reboot \in BOOLEAN, Restart(reboot) PROVE GcSparesListed'
    BY <2>4, NotSweeping DEF Restart, EndPass
  <2> QED BY <1>5, <2>1, <2>2, <2>3, <2>4, Zenon DEF Env
<1> QED BY <1>1, <1>2, <1>3, <1>4, <1>5, Zenon DEF Next

(* Whatever happens while the collector sleeps between its lists and its   *)
(* sweep, no container of k3c that it listed is in a pod it still removes. *)
THEOREM ListedSpared == Spec => []GcSparesListed
<1>1. Init => GcSparesListed
  BY DEF Init, GcSparesListed
<1>2. TypeOK /\ GcSparesListed /\ [Next]_vars => GcSparesListed'
  BY StepKeepsListed
<1> QED BY <1>1, <1>2, TypeCorrect, PTL DEF Spec

-----------------------------------------------------------------------------
(* Ids: a sandbox or container that has left its store does not come back. *)

IdsForward ==
    /\ \A p \in Pod : sandbox[p] # "absent" =>
         sandbox'[p] # "absent" /\ (PodInStore(p)' => PodInStore(p))
    /\ \A k \in Ctr : cstate[k] # "absent" =>
         /\ cstate'[k] # "absent"
         /\ podOf'[k] = podOf[k] /\ nameOf'[k] = nameOf[k]
         /\ InStore(k)' => InStore(k)

LEMMA CriForward ==
    ASSUME CriTypeOK, [CriNext]_criVars
    PROVE  IdsForward
<1> USE DEF CriTypeOK, IdsForward, PodInStore, InStore, InStart
<1>1. CASE UNCHANGED criVars
  BY <1>1 DEF criVars
<1>2. ASSUME NEW p \in Pod, RunPodSandbox(p) PROVE IdsForward
  BY <1>2 DEF RunPodSandbox
<1>3. ASSUME NEW p \in Pod, StopPodContainers(p) PROVE IdsForward
  BY <1>3 DEF StopPodContainers
<1>4. ASSUME NEW p \in Pod, StopSandboxTask(p) PROVE IdsForward
  BY <1>4 DEF StopSandboxTask
<1>5. ASSUME NEW p \in Pod, RemovePodSandbox(p) PROVE IdsForward
  <2>1. ASSUME NEW K, cstate' = [k \in Ctr |-> IF k \in K THEN "removed" ELSE cstate[k]],
               sandbox' = [sandbox EXCEPT ![p] = "removed"] \/ UNCHANGED sandbox,
               UNCHANGED <<podOf, nameOf>>
        PROVE  IdsForward
    BY <2>1
  <2> QED BY <1>1, <1>5, <2>1, Zenon DEF RemovePodSandbox
<1>6. ASSUME NEW p \in Pod, DropPod(p) PROVE IdsForward
  BY <1>6 DEF DropPod, CtrsOf
<1>7. ASSUME NEW k \in Ctr, NEW p \in Pod, NEW n \in Name, AddContainer(k, p, n)
      PROVE  IdsForward
  BY <1>7 DEF AddContainer
<1>8. ASSUME NEW k \in Ctr, NEW s, SetCtr(k, s), s # "absent" \/ s = cstate[k],
             InStore(k) \/ s = cstate[k]
      PROVE  IdsForward
  BY <1>8 DEF SetCtr
<1>9. ASSUME NEW k \in Ctr, NEW ok \in BOOLEAN,
             \/ CheckSandbox(k, ok) \/ StartTask(k, ok)
             \/ StopContainer(k, ok) \/ RemoveContainer(k, ok)
      PROVE  IdsForward
  BY <1>1, <1>8, <1>9 DEF CheckSandbox, StartTask, StopContainer, RemoveContainer
<1>10. ASSUME NEW k \in Ctr, SetStarting(k) \/ ContainerExits(k) PROVE IdsForward
  BY <1>8, <1>10 DEF SetStarting, ContainerExits
<1>11. ASSUME NEW reboot \in BOOLEAN, RecoverStores(reboot) PROVE IdsForward
  BY <1>11 DEF RecoverStores
<1> QED BY <1>1, <1>2, <1>3, <1>4, <1>5, <1>6, <1>7, <1>9, <1>10, <1>11, Zenon DEF CriNext

(* A container or pod that was removed stays removed, and a container keeps*)
(* its pod and name, through every command, the collector and restarts.    *)
THEOREM IdsMoveForward == Spec => [][IdsForward]_vars
<1>1. TypeOK /\ [Next]_vars => [IdsForward]_vars
  BY CallsCri, CriForward DEF TypeOK
<1> QED BY <1>1, TypeCorrect, PTL DEF Spec

-----------------------------------------------------------------------------
(* Lookups *)

(* The container is there for listPods: in the store, in a listed pod, and *)
(* one of k3c's.                                                           *)
There(k) == InStore(k) /\ PodInStore(podOf[k]) /\ ~Foreign(k)

(* A container is in a pod that was run. *)
PodsExisted == \A k \in Ctr : podOf[k] \in Pod => sandbox[podOf[k]] # "absent"

(* What a client refers to, holds or has listed was there once. *)
Existed(x) ==
    /\ ref[x] \in Ctr => cstate[ref[x]] # "absent"
    /\ pc[x] \in {"findPod", "criCreate", "criAdd"} => sandbox[hold[x]] # "absent"
    /\ \A k \in todo[x] \cup found[x] : cstate[k] # "absent"

(* In every step of a lookup by id, a container that is there is among what*)
(* the lookup has kept so far.                                             *)
Keeps(x) ==
    ref[x] \in Ctr /\ There(ref[x]) =>
        /\ pc[x] = "listCtrs" => podOf[ref[x]] \in seenPods[x]
        /\ pc[x] = "status" => ref[x] \in todo[x] \cup found[x]

(* A lookup by id finds that container and no other. *)
OnRef(x) ==
    pc[x] \in {"call", "stream", "starting"} /\ ref[x] \in Ctr => target[x] = ref[x]

(* rm and rm -f come to their end by a RemoveContainer only. *)
Removes(x) ==
    cmd[x] \in {"rm", "rm -f"} =>
        /\ pc[x] \in {"idle", "listPods", "listCtrs", "status", "call"}
        /\ op[x] = "remove" \/ (cmd[x] = "rm -f" /\ op[x] = "stop")

NotFoundIsRight(x) ==
    pc[x] = "idle" /\ result[x] = "notfound" /\ ref[x] \in Ctr => ~There(ref[x])

RemovedIsRight(x) ==
    /\ pc[x] = "idle" /\ result[x] = "ok"
    /\ cmd[x] \in {"rm", "rm -f"} /\ ref[x] \in Ctr
    => ~InStore(ref[x])

LookupInv(x) ==
    /\ Existed(x)
    /\ Keeps(x)
    /\ OnRef(x)
    /\ Removes(x)
    /\ NotFoundIsRight(x)
    /\ RemovedIsRight(x)

LookupIInv == PodsExisted /\ \A x \in Client : LookupInv(x)

(* A step of another client or of the stores leaves what a client has. *)
SameClient(x) ==
    /\ pc'[x] = pc[x] /\ cmd'[x] = cmd[x] /\ ref'[x] = ref[x] /\ op'[x] = op[x]
    /\ hold'[x] = hold[x] /\ target'[x] = target[x] /\ seenPods'[x] = seenPods[x]
    /\ todo'[x] = todo[x] /\ found'[x] = found[x] /\ result'[x] = result[x]

(* No container that existed comes to be there. *)
LEMMA NotThereAgain ==
    ASSUME TypeOK, PodsExisted, IdsForward, NEW k \in Ctr, cstate[k] # "absent", There(k)'
    PROVE  There(k)
<1>1. podOf[k] \in Pod /\ sandbox[podOf[k]] # "absent" /\ podOf'[k] = podOf[k]
  BY DEF TypeOK, CriTypeOK, PodsExisted, IdsForward
<1>2. PodInStore(podOf[k])
  BY <1>1 DEF There, IdsForward, PodInStore
<1> QED BY <1>1, <1>2 DEF There, IdsForward, Foreign

LEMMA SameKeeps ==
    ASSUME TypeOK, PodsExisted, IdsForward, NEW x \in Client, LookupInv(x), SameClient(x)
    PROVE  LookupInv(x)'
<1> USE DEF LookupInv, SameClient
<1>1. ref[x] \in Ctr => cstate[ref[x]] # "absent" /\ cstate'[ref[x]] # "absent"
                        /\ podOf'[ref[x]] = podOf[ref[x]]
                        /\ (InStore(ref[x])' => InStore(ref[x]))
  BY DEF Existed, IdsForward
<1>2. ref[x] \in Ctr /\ There(ref[x])' => There(ref[x])
  BY <1>1, NotThereAgain
<1>3. Existed(x)'
  <2>1. pc[x] \in {"findPod", "criCreate", "criAdd"} => sandbox'[hold[x]] # "absent"
    BY DEF Existed, IdsForward, TypeOK, ClientTypeOK
  <2>2. \A k \in todo[x] \cup found[x] : cstate'[k] # "absent"
    BY DEF Existed, IdsForward, TypeOK, ClientTypeOK
  <2> QED BY <1>1, <2>1, <2>2 DEF Existed
<1>4. Keeps(x)'
  BY <1>1, <1>2 DEF Keeps, There, InStore, InStart, PodInStore, Foreign
<1>5. OnRef(x)' /\ Removes(x)'
  BY DEF OnRef, Removes
<1>6. NotFoundIsRight(x)'
  BY <1>2 DEF NotFoundIsRight, There, InStore, InStart, PodInStore, Foreign
<1>7. RemovedIsRight(x)'
  BY <1>1 DEF RemovedIsRight, InStore, InStart
<1> QED BY <1>3, <1>4, <1>5, <1>6, <1>7

(* A command that ends is right about what it says. *)
LEMMA EndKeeps ==
    ASSUME ClientTypeOK, IdsForward, NEW x \in Client, LookupInv(x),
           NEW res, End(x, res),
           res = "notfound" /\ ref[x] \in Ctr => ~There(ref[x])',
           res = "ok" /\ cmd[x] \in {"rm", "rm -f"} /\ ref[x] \in Ctr => ~InStore(ref[x])'
    PROVE  LookupInv(x)'
<1>1. /\ pc'[x] = "idle" /\ result'[x] = res /\ todo'[x] = {} /\ found'[x] = {}
      /\ cmd'[x] = cmd[x] /\ ref'[x] = ref[x] /\ op'[x] = op[x]
  BY DEF End, ClientTypeOK
<1>2. ref[x] \in Ctr => cstate'[ref[x]] # "absent"
  BY DEF LookupInv, Existed, IdsForward
<1>3. Existed(x)' /\ Keeps(x)' /\ OnRef(x)' /\ Removes(x)'
  BY <1>1, <1>2 DEF LookupInv, Existed, Keeps, OnRef, Removes
<1>4. NotFoundIsRight(x)' /\ RemovedIsRight(x)'
  BY <1>1 DEF NotFoundIsRight, RemovedIsRight, There, InStore, InStart, PodInStore, Foreign
<1> QED BY <1>3, <1>4 DEF LookupInv

(* A command that goes on to its next RPC starts a new lookup. *)
LEMMA LookupStarts ==
    ASSUME ClientTypeOK, NEW x \in Client, NEW r, NEW o, Lookup(x, r, o),
           r \in Ctr => cstate'[r] # "absent",
           cmd[x] \in {"rm", "rm -f"} => o = "remove"
    PROVE  LookupInv(x)'
<1>1. /\ pc'[x] = "listPods" /\ todo'[x] = {} /\ found'[x] = {}
      /\ cmd'[x] = cmd[x] /\ ref'[x] = r /\ op'[x] = o
  BY DEF Lookup, ClientTypeOK
<1> QED BY <1>1 DEF LookupInv, Existed, Keeps, OnRef, Removes, NotFoundIsRight, RemovedIsRight

LEMMA EndOpKeeps ==
    ASSUME ClientTypeOK, IdsForward, NEW x \in Client, LookupInv(x),
           NEW res, EndOp(x, res),
           res = "notfound" /\ ref[x] \in Ctr => ~There(ref[x])',
           res = "ok" => op[x] # "remove"
    PROVE  LookupInv(x)'
<1>1. CASE cmd[x] = "rm -f" /\ op[x] = "stop"
  <2>1. ref[x] \in Ctr => cstate'[ref[x]] # "absent"
    BY DEF LookupInv, Existed, IdsForward
  <2> QED BY <1>1, <2>1, LookupStarts DEF EndOp
<1>2. CASE ~(cmd[x] = "rm -f" /\ op[x] = "stop")
  <2>1. End(x, res)
    BY <1>2 DEF EndOp
  <2>2. res = "ok" => cmd[x] \notin {"rm", "rm -f"}
    BY <1>2 DEF LookupInv, Removes
  <2> QED BY <2>1, <2>2, EndKeeps
<1> QED BY <1>1, <1>2

(* The steps of create and run up to their lookup. *)
LEMMA CreateKeeps ==
    ASSUME TypeOK, TypeOK', IdsForward, NEW x \in Client, LookupInv(x),
           \/ CreatePod(x) \/ CreateContainerFindPod(x)
           \/ CreateContainerCheck(x) \/ CreateContainerAdd(x)
    PROVE  LookupInv(x)'
<1> USE DEF TypeOK
<1>0. pc[x] \in {"createPod", "findPod", "criCreate", "criAdd"} /\ cmd[x] \notin {"rm", "rm -f"}
      /\ Empty \notin Ctr
  BY CriAssumption DEF CreatePod, CreateContainerFindPod, CreateContainerCheck, CreateContainerAdd,
         LookupInv, Removes
<1>1. ASSUME NEW res \in {"ok", "error"}, End(x, res) PROVE LookupInv(x)'
  BY <1>0, <1>1, EndKeeps
<1>2. ASSUME NEW o, Lookup(x, Empty, o) PROVE LookupInv(x)'
  BY <1>0, <1>2, LookupStarts
<1>3. ASSUME NEW l \in {"findPod", "criCreate", "criAdd"}, pc' = [pc EXCEPT ![x] = l],
             hold'[x] \in Pod, sandbox'[hold'[x]] # "absent",
             UNCHANGED <<cmd, ref, op, target, seenPods, todo, found, result>>
      PROVE  LookupInv(x)'
  <2>1. pc'[x] = l
    BY <1>3 DEF ClientTypeOK
  <2>2. ref[x] \notin Ctr
    BY <1>0, CriAssumption DEF ClientTypeOK
  <2>3. \A k \in todo[x] \cup found[x] : cstate'[k] # "absent"
    BY DEF LookupInv, Existed, IdsForward, ClientTypeOK
  <2> QED BY <1>0, <1>3, <2>1, <2>2, <2>3
          DEF LookupInv, Existed, Keeps, OnRef, Removes, NotFoundIsRight, RemovedIsRight
<1>4. CASE CreatePod(x)
  <2>1. ASSUME NEW p \in Pod, RunPodSandbox(p), pc' = [pc EXCEPT ![x] = "findPod"],
               hold' = [hold EXCEPT ![x] = p],
               UNCHANGED <<cmd, ref, op, target, seenPods, todo, found, result>>
        PROVE  LookupInv(x)'
    <3>1. hold'[x] = p /\ sandbox'[p] = "ready"
      BY <2>1 DEF RunPodSandbox, ClientTypeOK, CriTypeOK
    <3> QED BY <1>3, <2>1, <3>1
  <2> QED BY <1>1, <1>2, <1>4, <2>1 DEF CreatePod
<1>5. CASE CreateContainerFindPod(x) \/ CreateContainerCheck(x)
  <2>1. hold[x] \in Pod /\ sandbox[hold[x]] # "absent"
    BY <1>5 DEF CreateContainerFindPod, CreateContainerCheck, ClientTypeOK, LookupInv, Existed
  <2>2. UNCHANGED criVars
    BY <1>5 DEF CreateContainerFindPod, CreateContainerCheck
  <2>3. sandbox'[hold[x]] # "absent"
    BY <2>1, <2>2 DEF criVars
  <2> QED BY <1>1, <1>3, <1>5, <2>1, <2>3 DEF CreateContainerFindPod, CreateContainerCheck
<1>6. CASE CreateContainerAdd(x)
  <2>1. ASSUME NEW k \in Ctr, AddContainer(k, hold[x], ref[x]), Lookup(x, k, op[x])
        PROVE  LookupInv(x)'
    <3>1. cstate'[k] # "absent"
      BY <2>1 DEF AddContainer, CriTypeOK
    <3> QED BY <1>0, <2>1, <3>1, LookupStarts
  <2> QED BY <1>1, <1>6, <2>1 DEF CreateContainerAdd
<1> QED BY <1>4, <1>5, <1>6

(* The steps of listPods: each list is taken of the stores as they are by  *)
(* then, and what is there at the last was there at the first.             *)
LEMMA ListKeeps ==
    ASSUME TypeOK, IdsForward, NEW x \in Client, LookupInv(x),
           ListPodsSandboxes(x) \/ ListPodsContainers(x) \/ ListPodsStatus(x)
    PROVE  LookupInv(x)'
<1> USE DEF TypeOK
<1>0. pc[x] \in {"listPods", "listCtrs", "status"} /\ UNCHANGED criVars
  BY DEF ListPodsSandboxes, ListPodsContainers, ListPodsStatus
<1>1. CASE EndOp(x, "error")
  BY <1>1, EndOpKeeps
<1>2. ASSUME NEW l \in {"listCtrs", "status"}, pc'[x] = l,
             UNCHANGED <<cmd, ref, op, hold, target, result>>,
             \A k \in todo'[x] \cup found'[x] : cstate[k] # "absent",
             l = "listCtrs" /\ ref[x] \in Ctr /\ There(ref[x]) => podOf[ref[x]] \in seenPods'[x],
             l = "status" /\ ref[x] \in Ctr /\ There(ref[x]) => ref[x] \in todo'[x] \cup found'[x]
      PROVE  LookupInv(x)'
  <2>1. Existed(x)'
    BY <1>0, <1>2 DEF LookupInv, Existed, criVars
  <2>2. Keeps(x)'
    BY <1>0, <1>2 DEF Keeps, There, InStore, InStart, PodInStore, Foreign, criVars
  <2>3. OnRef(x)' /\ Removes(x)' /\ NotFoundIsRight(x)' /\ RemovedIsRight(x)'
    BY <1>0, <1>2 DEF LookupInv, OnRef, Removes, NotFoundIsRight, RemovedIsRight
  <2> QED BY <2>1, <2>2, <2>3 DEF LookupInv
<1>3. CASE ListPodsSandboxes(x)
  <2>1. ASSUME seenPods' = [seenPods EXCEPT ![x] = ListPodSandbox],
               pc' = [pc EXCEPT ![x] = "listCtrs"],
               UNCHANGED <<cmd, ref, op, hold, target, todo, found, result>>
        PROVE  LookupInv(x)'
    <3>1. seenPods'[x] = ListPodSandbox /\ pc'[x] = "listCtrs"
      BY <2>1 DEF ClientTypeOK
    <3>2. ref[x] \in Ctr /\ There(ref[x]) => podOf[ref[x]] \in ListPodSandbox
      BY DEF There, InStore, InStart, ListPodSandbox, CriTypeOK
    <3>3. \A k \in todo[x] \cup found[x] : cstate[k] # "absent"
      BY DEF LookupInv, Existed
    <3> QED BY <1>2, <2>1, <3>1, <3>2, <3>3
  <2> QED BY <1>1, <1>3, <2>1 DEF ListPodsSandboxes
<1>4. CASE ListPodsContainers(x)
  <2>1. ASSUME todo' = [todo EXCEPT ![x] = {k \in ListContainers : podOf[k] \in seenPods[x]}],
               pc' = [pc EXCEPT ![x] = "status"],
               UNCHANGED <<cmd, ref, op, hold, target, seenPods, found, result>>
        PROVE  LookupInv(x)'
    <3>1. todo'[x] = {k \in ListContainers : podOf[k] \in seenPods[x]} /\ pc'[x] = "status"
      BY <2>1 DEF ClientTypeOK
    <3>2. ref[x] \in Ctr /\ There(ref[x]) => ref[x] \in todo'[x]
      BY <1>4, <3>1 DEF LookupInv, Keeps, There, ListContainers, ListPodsContainers
    <3>3. \A k \in todo'[x] \cup found[x] : cstate[k] # "absent"
      BY <3>1 DEF LookupInv, Existed, ListContainers, InStore, InStart
    <3> QED BY <1>2, <2>1, <3>1, <3>2, <3>3
  <2> QED BY <1>1, <1>4, <2>1 DEF ListPodsContainers
<1>5. CASE ListPodsStatus(x)
  <2>1. ASSUME NEW k \in todo[x],
               todo' = [todo EXCEPT ![x] = @ \ {k}],
               found' = [found EXCEPT ![x] = @ \cup {k}],
               UNCHANGED <<pc, cmd, ref, op, hold, target, seenPods, result>>
        PROVE  LookupInv(x)'
    <3>1. todo'[x] \cup found'[x] = todo[x] \cup found[x] /\ pc'[x] = "status"
      BY <1>5, <2>1 DEF ClientTypeOK, ListPodsStatus
    <3>2. ref[x] \in Ctr /\ There(ref[x]) => ref[x] \in todo[x] \cup found[x]
      BY <1>5 DEF LookupInv, Keeps, ListPodsStatus
    <3>3. \A j \in todo[x] \cup found[x] : cstate[j] # "absent"
      BY DEF LookupInv, Existed
    <3> QED BY <1>2, <2>1, <3>1, <3>2, <3>3
  <2> QED BY <1>1, <1>5, <2>1 DEF ListPodsStatus
<1> QED BY <1>3, <1>4, <1>5

(* The end of a lookup: nothing matches because nothing is there, and what *)
(* matches an id is that container.                                        *)
LEMMA GetKeeps ==
    ASSUME TypeOK, IdsForward, NEW x \in Client, LookupInv(x), GetContainer(x)
    PROVE  LookupInv(x)'
<1> USE DEF TypeOK
<1>0. pc[x] = "status" /\ todo[x] = {} /\ UNCHANGED criVars
  BY DEF GetContainer
<1>1. CASE op[x] = "list" /\ End(x, "ok")
  <2>1. cmd[x] \notin {"rm", "rm -f"}
    BY <1>1 DEF LookupInv, Removes
  <2> QED BY <1>1, <2>1, EndKeeps
<1>2. CASE Matches(x) = {} /\ EndOp(x, "notfound")
  <2>1. ref[x] \in Ctr => ~There(ref[x])
    BY <1>0, <1>2 DEF LookupInv, Keeps, Matches, ToPod, There
  <2>2. ref'[x] = ref[x]
    BY <1>2 DEF EndOp, End, Lookup, ClientTypeOK
  <2>3. ref[x] \in Ctr => ~There(ref[x])'
    BY <1>0, <2>1, <2>2 DEF There, InStore, InStart, PodInStore, Foreign, criVars
  <2> QED BY <1>2, <2>3, EndOpKeeps
<1>3. ASSUME NEW k \in Matches(x), target' = [target EXCEPT ![x] = k],
             pc' = [pc EXCEPT ![x] = "call"],
             found' = [found EXCEPT ![x] = {}],
             UNCHANGED <<cmd, ref, op, hold, todo, result>>
      PROVE  LookupInv(x)'
  <2>1. target'[x] = k /\ pc'[x] = "call" /\ found'[x] = {} /\ todo'[x] = {}
    BY <1>0, <1>3 DEF ClientTypeOK
  <2>2. ref[x] \in Ctr => k = ref[x]
    <3>1. k \in found[x] /\ ref[x] \in {k, nameOf[k], Empty}
      BY DEF Matches, ToPod
    <3>2. k \in Ctr /\ nameOf[k] \in Name
      BY <3>1 DEF LookupInv, Existed, ClientTypeOK, CriTypeOK
    <3> QED BY <3>1, <3>2, CriAssumption
  <2>3. ref[x] \in Ctr => cstate'[ref[x]] # "absent"
    BY DEF LookupInv, Existed, IdsForward
  <2> QED BY <1>3, <2>1, <2>2, <2>3
          DEF LookupInv, Existed, Keeps, OnRef, Removes, NotFoundIsRight, RemovedIsRight
<1> QED BY <1>1, <1>2, <1>3, Zenon DEF GetContainer

(* A removal that ends well leaves the container out of the store. *)
LEMMA RemovedLeaves ==
    ASSUME CriTypeOK, NEW k \in Ctr, RemoveContainer(k, TRUE)
    PROVE  cstate'[k] \in {"absent", "removed"}
BY DEF CriTypeOK, CtrState, RemoveContainer, Removable, SetCtr, InStore, InStart

(* The calls on the container a lookup returned. *)
LEMMA CallKeeps ==
    ASSUME TypeOK, IdsForward, NEW x \in Client, LookupInv(x), OnTarget(x)
    PROVE  LookupInv(x)'
<1> USE DEF TypeOK
<1>1. ASSUME NEW res \in {"error", "interrupted"}, End(x, res) PROVE LookupInv(x)'
  BY <1>1, EndKeeps
<1>2. ASSUME NEW ok \in BOOLEAN, cmd[x] \notin {"rm", "rm -f"}, End(x, Verdict(ok))
      PROVE  LookupInv(x)'
  <2>1. Verdict(ok) # "notfound"
    BY DEF Verdict
  <2> QED BY <1>2, <2>1, EndKeeps
<1>3. ASSUME pc[x] \in {"call", "stream", "starting"}, NEW l \in {"stream", "starting"},
             pc' = [pc EXCEPT ![x] = l], cmd[x] \notin {"rm", "rm -f"},
             UNCHANGED <<cmd, ref, op, hold, target, seenPods, todo, found, result>>
      PROVE  LookupInv(x)'
  <2>1. pc'[x] = l
    BY <1>3 DEF ClientTypeOK
  <2>2. ref[x] \in Ctr => cstate'[ref[x]] # "absent"
    BY DEF LookupInv, Existed, IdsForward
  <2>3. \A k \in todo[x] \cup found[x] : cstate'[k] # "absent"
    BY DEF LookupInv, Existed, IdsForward, ClientTypeOK
  <2> QED BY <1>3, <2>1, <2>2, <2>3
          DEF LookupInv, Existed, Keeps, OnRef, Removes, NotFoundIsRight, RemovedIsRight
<1>4. ASSUME cmd[x] \notin {"rm", "rm -f"}, pc[x] \in {"call", "stream"}, BeginStart(x)
      PROVE  LookupInv(x)'
  BY <1>1, <1>3, <1>4 DEF BeginStart
<1>5. CASE CallStart(x)
  <2>1. cmd[x] \notin {"rm", "rm -f"}
    BY <1>5 DEF CallStart, LookupInv, Removes
  <2> QED BY <1>4, <1>5, <2>1 DEF CallStart
<1>6. CASE StartCheck(x)
  <2>1. cmd[x] \notin {"rm", "rm -f"}
    BY <1>6 DEF StartCheck, LookupInv, Removes
  <2>2. CASE UNCHANGED cliVars
    <3>1. pc' = [pc EXCEPT ![x] = "starting"]
      BY <1>6, <2>2 DEF StartCheck, cliVars, ClientTypeOK
    <3> QED BY <1>3, <1>6, <2>1, <2>2, <3>1 DEF StartCheck, cliVars
  <2> QED BY <1>1, <1>6, <2>2 DEF StartCheck
<1>7. CASE StartLaunch(x)
  <2>1. cmd[x] \notin {"rm", "rm -f"}
    BY <1>7 DEF StartLaunch, LookupInv, Removes
  <2> QED BY <1>2, <1>7, <2>1 DEF StartLaunch
<1>8. CASE CallStop(x)
  <2>1. PICK ok \in BOOLEAN : EndOp(x, Verdict(ok))
    BY <1>8 DEF CallStop
  <2>2. op[x] # "remove" /\ Verdict(ok) # "notfound"
    BY <1>8 DEF CallStop, Verdict
  <2> QED BY <2>1, <2>2, EndOpKeeps
<1>9. CASE CallRemove(x)
  <2>1. PICK ok \in BOOLEAN : RemoveContainer(target[x], ok) /\ End(x, Verdict(ok))
    BY <1>9 DEF CallRemove
  <2>2. target[x] \in Ctr /\ (ref[x] \in Ctr => target[x] = ref[x])
    BY <1>9 DEF CallRemove, ClientTypeOK, LookupInv, OnRef
  <2>3. CASE ok = FALSE
    BY <1>1, <2>1, <2>3 DEF Verdict
  <2>4. CASE ok = TRUE
    <3>1. cstate'[target[x]] \in {"absent", "removed"} /\ ref'[x] = ref[x]
      BY <2>1, <2>2, <2>4, RemovedLeaves DEF End
    <3>2. ref[x] \in Ctr => ~InStore(ref[x])'
      BY <2>2, <3>1 DEF InStore, InStart
    <3> QED BY <2>1, <2>4, <3>2, EndKeeps DEF Verdict
  <2> QED BY <2>3, <2>4
<1>10. CASE CallAttach(x)
  <2>1. cmd[x] \notin {"rm", "rm -f"}
    BY <1>10 DEF CallAttach, LookupInv, Removes
  <2> QED BY <1>1, <1>3, <1>10, <2>1 DEF CallAttach
<1>11. CASE Stream(x)
  <2>1. cmd[x] \notin {"rm", "rm -f"}
    BY <1>11 DEF Stream, LookupInv, Removes
  <2>2. (cstate[target[x]] = "running") \in BOOLEAN
    OBVIOUS
  <2> QED BY <1>2, <1>4, <1>11, <2>1, <2>2 DEF Stream
<1>12. CASE Interrupt(x)
  BY <1>1, <1>12 DEF Interrupt
<1> QED BY <1>5, <1>6, <1>7, <1>8, <1>9, <1>10, <1>11, <1>12 DEF OnTarget

LEMMA BeginKeeps ==
    ASSUME TypeOK, NEW x \in Client, NEW c \in Commands, NEW r \in Name \cup Ctr,
           LookupInv(x), Begin(x, c, r)
    PROVE  LookupInv(x)'
<1> USE DEF TypeOK
<1>1. /\ pc'[x] \in {"createPod", "listPods"} /\ ref'[x] = r /\ cmd'[x] = c
      /\ c \notin {"create", "run", "run -d"} => pc'[x] = "listPods"
      /\ op'[x] = FirstOp(c) /\ UNCHANGED <<todo, found>> /\ UNCHANGED criVars
  BY DEF Begin, ClientTypeOK
<1>2. r \in Ctr => cstate[r] # "absent"
  BY CriAssumption DEF Begin
<1>3. c \in {"rm", "rm -f"} => FirstOp(c) = "remove" \/ (c = "rm -f" /\ FirstOp(c) = "stop")
  BY DEF FirstOp
<1>4. Existed(x)'
  BY <1>1, <1>2 DEF LookupInv, Existed, criVars
<1> QED BY <1>1, <1>3, <1>4 DEF LookupInv, Keeps, OnRef, Removes, NotFoundIsRight, RemovedIsRight

(* A step of one client leaves the others alone. *)
LEMMA OthersSame ==
    ASSUME TypeOK, NEW x \in Client, NEW y \in Client, y # x,
           \/ ClientStep(x) \/ Interrupt(x)
           \/ \E c \in Commands, r \in Name \cup Ctr : Begin(x, c, r)
    PROVE  SameClient(y)
<1> USE DEF TypeOK, ClientTypeOK, SameClient
<1>1. ASSUME NEW res, End(x, res) PROVE SameClient(y)
  BY <1>1 DEF End
<1>2. ASSUME NEW r, NEW o, Lookup(x, r, o) PROVE SameClient(y)
  BY <1>2 DEF Lookup
<1>3. ASSUME NEW res, EndOp(x, res) PROVE SameClient(y)
  BY <1>1, <1>2, <1>3 DEF EndOp
<1>4. ASSUME NEW c \in Commands, NEW r \in Name \cup Ctr, Begin(x, c, r) PROVE SameClient(y)
  <2>1. \E l : pc' = [pc EXCEPT ![x] = l]
    BY <1>4 DEF Begin
  <2>2. pc'[y] = pc[y]
    BY <2>1
  <2>3. /\ cmd' = [cmd EXCEPT ![x] = c] /\ ref' = [ref EXCEPT ![x] = r]
        /\ op' = [op EXCEPT ![x] = FirstOp(c)]
        /\ UNCHANGED <<hold, target, seenPods, todo, found, result>>
    BY <1>4 DEF Begin
  <2> QED BY <2>2, <2>3
<1>5. CASE CreatePod(x)
  BY <1>1, <1>2, <1>5 DEF CreatePod
<1>6. CASE CreateContainerFindPod(x) \/ CreateContainerCheck(x)
  BY <1>1, <1>6 DEF CreateContainerFindPod, CreateContainerCheck
<1>7. CASE CreateContainerAdd(x)
  BY <1>1, <1>2, <1>7 DEF CreateContainerAdd
<1>8. CASE ListPodsSandboxes(x) \/ ListPodsContainers(x) \/ ListPodsStatus(x)
  BY <1>3, <1>8 DEF ListPodsSandboxes, ListPodsContainers, ListPodsStatus
<1>9. CASE GetContainer(x)
  BY <1>1, <1>3, <1>9 DEF GetContainer
<1>10. ASSUME BeginStart(x) PROVE SameClient(y)
  BY <1>1, <1>10 DEF BeginStart
<1>11. CASE CallStart(x) \/ StartCheck(x) \/ StartLaunch(x)
  <2>1. CASE UNCHANGED cliVars
    BY <2>1 DEF cliVars
  <2> QED BY <1>1, <1>10, <1>11, <2>1, Zenon DEF CallStart, StartCheck, StartLaunch
<1>12. CASE CallStop(x) \/ CallRemove(x) \/ CallAttach(x)
  BY <1>1, <1>3, <1>12 DEF CallStop, CallRemove, CallAttach
<1>13. CASE Stream(x) \/ Interrupt(x)
  BY <1>1, <1>10, <1>13 DEF Stream, Interrupt
<1> QED BY <1>4, <1>5, <1>6, <1>7, <1>8, <1>9, <1>11, <1>12, <1>13, Zenon DEF ClientStep

(* Every step keeps what lookups rest on. *)
LEMMA StepKeepsLookups ==
    ASSUME TypeOK, LookupIInv, [Next]_vars
    PROVE  LookupIInv'
<1> USE DEF TypeOK, LookupIInv
<1>0. TypeOK' /\ IdsForward
  BY NextType, CallsCri, CriForward
<1>1. ASSUME podOf' = podOf PROVE PodsExisted'
  BY <1>0, <1>1 DEF PodsExisted, IdsForward
<1>2. ASSUME NEW k \in Ctr, NEW p \in Pod, NEW n, AddContainer(k, p, n), sandbox[p] # "absent"
      PROVE  PodsExisted'
  BY <1>2 DEF AddContainer, PodsExisted, CriTypeOK
<1>3. ASSUME UNCHANGED cliVars PROVE \A x \in Client : LookupInv(x)'
  <2>1. \A x \in Client : SameClient(x)
    BY <1>3 DEF cliVars, SameClient
  <2> QED BY <1>0, <2>1, SameKeeps
<1>4. CASE UNCHANGED vars
  BY <1>1, <1>3, <1>4 DEF vars, criVars
<1>5. ASSUME NEW x \in Client,
             \/ ClientStep(x) \/ Interrupt(x)
             \/ \E c \in Commands, r \in Name \cup Ctr : Begin(x, c, r)
      PROVE  LookupIInv'
  <2>1. ASSUME NEW y \in Client, y # x PROVE LookupInv(y)'
    BY <1>0, <1>5, <2>1, OthersSame, SameKeeps
  <2>2. LookupInv(x)'
    <3>1. CASE ClientStep(x) \/ Interrupt(x)
      BY <1>0, <3>1, CreateKeeps, ListKeeps, GetKeeps, CallKeeps, Zenon DEF ClientStep, OnTarget
    <3> QED BY <1>5, <3>1, BeginKeeps
  <2>3. PodsExisted'
    <3>1. CASE CreateContainerAdd(x)
      <4>1. hold[x] \in Pod /\ sandbox[hold[x]] # "absent"
        BY <3>1 DEF CreateContainerAdd, ClientTypeOK, LookupInv, Existed
      <4> QED BY <1>1, <1>2, <3>1, <4>1 DEF CreateContainerAdd, criVars
    <3>2. CASE OnTarget(x)
      <4>1. NoNewCtrs
        BY <3>2, TargetCalls, CallsWithoutNewCtrs, Zenon
      <4> QED BY <1>1, <4>1 DEF NoNewCtrs
    <3>3. CASE \/ CreatePod(x) \/ CreateContainerFindPod(x) \/ CreateContainerCheck(x)
               \/ ListPodsSandboxes(x) \/ ListPodsContainers(x) \/ ListPodsStatus(x)
               \/ GetContainer(x) \/ \E c \in Commands, r \in Name \cup Ctr : Begin(x, c, r)
      BY <1>1, <3>3
         DEF CreatePod, RunPodSandbox, CreateContainerFindPod, CreateContainerCheck,
             ListPodsSandboxes, ListPodsContainers, ListPodsStatus, GetContainer, Begin, criVars
    <3> QED BY <1>5, <3>1, <3>2, <3>3, Zenon DEF ClientStep, OnTarget
  <2> QED BY <2>1, <2>2, <2>3
<1>6. CASE Gc
  <2>1. UNCHANGED cliVars
    BY <1>6 DEF Gc, GcKicked, GcListPods, GcListCtrs, GcStopForeign, GcRemoveForeign,
                GcSleep, GcStopPod, GcStopSandbox, GcRemovePod, GcEnd
  <2>2. podOf' = podOf
    BY <1>6 DEF Gc, GcKicked, GcListPods, GcListCtrs, GcStopForeign, GcRemoveForeign,
                GcSleep, GcStopPod, GcStopSandbox, GcRemovePod, GcEnd, StopContainer,
                RemoveContainer, StopPodContainers, StopSandboxTask, RemovePodSandbox,
                SetCtr, criVars
  <2> QED BY <1>1, <1>3, <2>1, <2>2
<1>7. CASE Env
  <2>1. ASSUME NEW p \in Pod, ForeignRunPod(p) \/ ForeignRemovePod(p) PROVE LookupIInv'
    BY <1>1, <1>3, <2>1 DEF ForeignRunPod, ForeignRemovePod, RunPodSandbox, DropPod
  <2>2. ASSUME NEW k \in Ctr, NEW p \in Pod, NEW n \in Name, ForeignCreate(k, p, n)
        PROVE  LookupIInv'
    BY <1>2, <1>3, <2>2 DEF ForeignCreate, MayCreateIn
  <2>3. ASSUME NEW k \in Ctr, ForeignStart(k) \/ Exit(k) PROVE LookupIInv'
    BY <1>1, <1>3, <2>3 DEF ForeignStart, Exit, SetStarting, CheckSandbox, StartTask,
                            ContainerExits, SetCtr
  <2>4. ASSUME NEW reboot \in BOOLEAN, Restart(reboot) PROVE LookupIInv'
    <3>1. PodsExisted'
      BY <1>1, <2>4 DEF Restart, RecoverStores
    <3>2. ASSUME NEW x \in Client PROVE LookupInv(x)'
      <4>1. CASE pc[x] = "idle"
        <5>1. ref[x] \in Ctr => cstate[ref[x]] # "absent" /\ cstate'[ref[x]] # "absent"
                                /\ (InStore(ref[x])' => InStore(ref[x]))
          BY <1>0, <2>4 DEF LookupInv, Existed, IdsForward, Restart
        <5>2. ref[x] \in Ctr /\ There(ref[x])' => There(ref[x])
          BY <1>0, <2>4, <5>1, NotThereAgain DEF Restart
        <5> QED BY <2>4, <4>1, <5>1, <5>2
                DEF Restart, LookupInv, Existed, Keeps, OnRef, Removes, NotFoundIsRight,
                    RemovedIsRight
      <4>2. CASE pc[x] # "idle"
        <5>1. ref[x] \in Ctr => cstate'[ref[x]] # "absent"
          BY <1>0 DEF LookupInv, Existed, IdsForward
        <5> QED BY <2>4, <4>2, <5>1
                DEF Restart, LookupInv, Existed, Keeps, OnRef, Removes, NotFoundIsRight,
                    RemovedIsRight
      <4> QED BY <4>1, <4>2
    <3> QED BY <3>1, <3>2
  <2> QED BY <1>7, <2>1, <2>2, <2>3, <2>4, Zenon DEF Env
<1> QED BY <1>4, <1>5, <1>6, <1>7, Zenon DEF Next

(* Nothing exists at first, and no command was given. *)
LEMMA InitLookups == Init => LookupIInv
<1> SUFFICES ASSUME Init PROVE LookupIInv
  OBVIOUS
<1>1. PodsExisted
  BY CriAssumption DEF Init, CriInit, PodsExisted
<1>2. ASSUME NEW x \in Client PROVE LookupInv(x)
  BY CriAssumption DEF Init, LookupInv, Existed, Keeps, OnRef, Removes, NotFoundIsRight, RemovedIsRight
<1> QED BY <1>1, <1>2 DEF LookupIInv

LEMMA LookupsHold == Spec => [](TypeOK /\ LookupIInv)
<1>1. TypeOK /\ LookupIInv /\ [Next]_vars => LookupIInv'
  BY StepKeepsLookups
<1> QED BY <1>1, InitLookups, TypeCorrect, PTL DEF Spec

(* A command that answers "container not found" for the id of a container  *)
(* of k3c is right, although GetContainer puts its list together from      *)
(* several calls while containers and pods come and go.                    *)
THEOREM NotFoundRight == Spec => []NotFoundIsGone
<1>1. LookupIInv => NotFoundIsGone
  BY DEF LookupIInv, LookupInv, NotFoundIsRight, NotFoundIsGone, There
<1> QED BY <1>1, LookupsHold, PTL

(* rm and rm -f of an id that end well leave no such container: the lookup *)
(* returned that one, and nothing brings it back (cmd/rm, RemoveContainer).*)
THEOREM RemovedGone == Spec => []RemovedIsGone
<1>1. LookupIInv => RemovedIsGone
  BY DEF LookupIInv, LookupInv, RemovedIsRight, RemovedIsGone
<1> QED BY <1>1, LookupsHold, PTL

(* A command that was given the id of a container, or made the container,  *)
(* starts, attaches to, stops or removes that one and no other; a command  *)
(* that acts on another was given a name or the empty id (GetContainer).   *)
THEOREM ActsOnReferred == Spec => [](\A x \in Client : OnRef(x))
<1>1. LookupIInv => \A x \in Client : OnRef(x)
  BY DEF LookupIInv, LookupInv
<1> QED BY <1>1, LookupsHold, PTL
=============================================================================
