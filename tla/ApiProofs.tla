----------------------------- MODULE ApiProofs -----------------------------
(* The properties of Api, for any messages, answers and create commands,   *)
(* any widths of the machine words and any encoder and decoder that agree: *)
(* DecodedIsEncoded is the hypothesis of every theorem, and TLC shows it of*)
(* the code's own encoder and decoder (module Wire).                       *)
EXTENDS Api, TLAPS, WellFoundedInduction, SequenceTheorems, FiniteSetTheorems

-----------------------------------------------------------------------------
(* The inductive invariant. *)

(* What the create command c sends and what the daemon makes of it. *)
PodOpts(c) == toPodOptions(c).v
ConOpts(c) == toContainerOptions(c).v
PodCfg(c) == PodSandboxConfig(ConOpts(c).name, PodOpts(c))
ConCfg(c) == ContainerConfig(PodCfg(c).v, <<Word1>>, ConOpts(c))

(* A call: who has said and seen what, by the place it is at. *)
Exchange ==
    /\ pc \in {"idle", "request", "serve", "response", "return"}
    /\ rpc \in Methods
    /\ pc = "idle" => cmd = NoCommand
    /\ pc \in {"idle", "request", "serve"} => said = Nothing /\ got = Nothing
    /\ pc = "response" =>
          /\ got = Nothing
          /\ \/ said.err = "none" /\ said.v = <<sent>> /\ ~SaysNotFound(sent)
             \/ /\ said.err = "notfound" /\ said.v = <<>>
                /\ rpc \in {"GetContainer", "GetImage"}
                /\ sent = Zero(ServiceDesc[rpc].resp)
    /\ pc = "return" /\ ServiceDesc[rpc].stream => got = Nothing
    /\ OutcomeIsSeen

(* The create command: how far it is, and what the configurations are that  *)
(* it led to.                                                              *)
CmdFields == {"at", "flags", "pod", "container", "status"}
MethodAt == [pod |-> "CreatePod", container |-> "CreateContainer", inspect |-> "GetContainer"]
Asks(x) ==
    LET c == cmd.flags
    IN  /\ cmd.at = "pod" => x.name = ConOpts(c).name /\ x.opts = <<PodOpts(c)>>
        /\ cmd.at = "container" => x.image = <<Word1>> /\ x.opts = <<ConOpts(c)>>
        /\ cmd.at = "inspect" => x.name = <<Word2>>
InOrder ==
    LET c == cmd.flags
    IN  /\ cmd = [f \in CmdFields |-> cmd[f]]
        /\ cmd.at \in {"pod", "container", "inspect"}
        /\ rpc = MethodAt[cmd.at]
        /\ c \in Commands
        /\ toPodOptions(c).ok /\ toContainerOptions(c).ok
        /\ pc = "request" => Asks(sent)
        /\ pc = "serve" => Asks(m)
        /\ pc = "response" => said.err = "none"
        /\ pc = "return" /\ said.err = "none" => said.v # <<>>
PodMade ==
    cmd.at # "pod" \/ said.v # <<>> =>
        PodCfg(cmd.flags).ok /\ cmd.pod = <<PodCfg(cmd.flags).v>>
ContainerMade ==
    cmd.at = "inspect" \/ (cmd.at = "container" /\ said.v # <<>>) =>
        /\ ConCfg(cmd.flags).ok /\ cmd.container = <<ConCfg(cmd.flags).v>>
        /\ ~Panics(cmd.flags.groupAdd)
Reported ==
    LET pod == PodCfg(cmd.flags).v
        con == ConCfg(cmd.flags).v
    IN  /\ cmd.at = "container" /\ said.v # <<>> => said.v[1].container_id = <<Word2>>
        /\ cmd.at = "inspect" /\ said.v # <<>> =>
              \E ready \in BOOLEAN, listed \in Statuses : \E s \in Later(listed) :
                 /\ cmd.status = <<s>>
                 /\ said.v[1].pod = <<Extern(toPod(pod, con, ready, listed, s))>>
                 /\ said.v[1].container = <<Extern(toContainer(pod, con))>>
Progress == InOrder /\ PodMade /\ ContainerMade /\ Reported
Command == cmd # NoCommand => Progress

-----------------------------------------------------------------------------
(* A call: what the client sees is what the daemon said. *)

(* The calls of the create command are unary, and what an empty answer of   *)
(* GetContainer and of GetImage looks like.                                *)
LEMMA CallsOfCreate ==
    /\ {"ListPods", "CreatePod", "CreateContainer", "GetContainer", "GetImage"} \subseteq Methods
    /\ ~ServiceDesc["CreatePod"].stream
    /\ ~ServiceDesc["CreateContainer"].stream
    /\ ~ServiceDesc["GetContainer"].stream
    /\ ~ServiceDesc["GetImage"].stream
BY DEF Methods, ServiceDesc, Unary, ServerStream

LEMMA EmptyAnswers ==
    /\ Zero(ServiceDesc["GetContainer"].resp).container_id = <<>>
    /\ Zero(ServiceDesc["GetImage"].resp).image = <<>>
<1>1. ZeroOf("string") = <<>> /\ ZeroOf("message") = <<>>
  BY DEF ZeroOf, VarintKinds
<1>2. /\ ServiceDesc["GetContainer"].resp = GetContainerResponse
      /\ ServiceDesc["GetImage"].resp = GetImageResponse
  BY DEF ServiceDesc, Unary
<1>3. Zero(GetContainerResponse).container_id = <<>>
  BY <1>1 DEF Zero, GetContainerResponse, F
<1>4. Zero(GetImageResponse).image = <<>>
  BY <1>1 DEF Zero, GetImageResponse, M
<1>5. QED
  BY <1>2, <1>3, <1>4

LEMMA InitExchange == Init => Exchange
BY CallsOfCreate DEF Init, Exchange, OutcomeIsSeen, Nothing

(* A command is at one of its own calls. *)
LEMMA CommandCalls ==
    ASSUME Command, cmd # NoCommand
    PROVE  rpc \in {"CreatePod", "CreateContainer", "GetContainer"}
BY DEF Command, Progress, InOrder, MethodAt

(* A handler answers: the client has seen nothing yet. *)
LEMMA AnswerExchange ==
    ASSUME Exchange, pc = "serve", NEW x, Answer(x), ~SaysNotFound(x), rpc' = rpc
    PROVE  Exchange'
BY DEF Exchange, Answer, Transmit, Nothing, OutcomeIsSeen, SaysNotFound

(* A handler fails: the client has the status, or the end of the stream. *)
LEMMA RefuseExchange ==
    ASSUME Exchange, pc = "serve", NEW err \in {"error", "panic"}, Refuse(err), rpc' = rpc
    PROVE  Exchange'
BY DEF Exchange, Refuse, Failed, Nothing, OutcomeIsSeen

(* A handler finds nothing: an empty answer, or a status. *)
LEMMA NotFoundExchange ==
    ASSUME Exchange, pc = "serve", NotFound, rpc' = rpc
    PROVE  Exchange'
<1>1. CASE rpc \in {"GetContainer", "GetImage"}
  BY <1>1 DEF Exchange, NotFound, Transmit, Nothing, OutcomeIsSeen
<1>2. CASE rpc \notin {"GetContainer", "GetImage"}
  BY <1>2 DEF Exchange, NotFound, Refuse, Failed, Nothing, OutcomeIsSeen
<1>3. QED
  BY <1>1, <1>2

(* A create handler answers or fails. *)
LEMMA PerformExchange ==
    ASSUME Exchange, pc = "serve", rpc \in {"CreatePod", "CreateContainer"},
           NEW opts, NEW cfg, NEW kept, NEW answer, Perform(opts, cfg, kept, answer), rpc' = rpc
    PROVE  Exchange'
<1>1. Refuse("panic") \/ Refuse("error") \/ Answer(answer)
  BY DEF Perform
<1>2. ~SaysNotFound(answer)
  BY DEF SaysNotFound
<1>3. QED
  BY <1>1, <1>2, AnswerExchange, RefuseExchange

(* The answer is complete: the client takes it, or the not found it stands for. *)
LEMMA ReceiveExchange ==
    ASSUME Exchange, DecodedIsEncoded, Receive
    PROVE  Exchange'
<1>1. m = sent /\ pc = "response" /\ pc' = "return" /\ rpc' = rpc /\ said' = said
  BY DEF Receive, DecodedIsEncoded
<1>2. CASE said.err = "none" /\ said.v = <<sent>> /\ ~SaysNotFound(sent)
  BY <1>1, <1>2 DEF Exchange, Receive, OutcomeIsSeen, Nothing
<1>3. CASE said.err = "notfound" /\ said.v = <<>> /\ rpc \in {"GetContainer", "GetImage"}
           /\ sent = Zero(ServiceDesc[rpc].resp)
  <2>1. SaysNotFound(sent)
    BY <1>3, EmptyAnswers DEF SaysNotFound
  <2>2. QED
    BY <1>1, <1>3, <2>1 DEF Exchange, Receive, OutcomeIsSeen, Nothing
<1>4. QED
  BY <1>1, <1>2, <1>3 DEF Exchange

(* Every step keeps Exchange. *)
LEMMA ExchangeNext ==
    ASSUME Exchange, Command, DecodedIsEncoded, [Next]_vars
    PROVE  Exchange'
<1>1. ASSUME NEW r \in Methods, NEW x \in Requests[r], Invoke(r, x)
      PROVE  Exchange'
  BY <1>1 DEF Invoke, Transmit, Exchange, OutcomeIsSeen
<1>2. ASSUME NEW c \in Commands, Create(c)
      PROVE  Exchange'
  BY <1>2, CallsOfCreate DEF Create, Transmit, Exchange, OutcomeIsSeen
<1>3. CASE Decode
  BY <1>3 DEF Decode, DecodedIsEncoded, Exchange, OutcomeIsSeen, SaysNotFound
<1>4. CASE Dispatch
  BY <1>4 DEF Dispatch, Exchange, OutcomeIsSeen
<1>5. CASE NextCall
  BY <1>5, CallsOfCreate DEF NextCall, Transmit, Exchange, OutcomeIsSeen
<1>6. CASE Receive
  BY <1>6, ReceiveExchange
<1>7. CASE ReceiveStream
  BY <1>7 DEF ReceiveStream, Exchange, OutcomeIsSeen
<1>8. CASE Return
  BY <1>8, CallsOfCreate DEF Return, Exchange, OutcomeIsSeen
<1>9. CASE Serve
  <2>1. pc = "serve" /\ rpc' = rpc
    BY <1>9 DEF Serve
  <2>2. ASSUME NEW x \in Answers[rpc], Answer(x)
        PROVE  Exchange'
    <3>1. ~SaysNotFound(x)
      BY AnswersAssumption DEF SaysNotFound
    <3>2. QED
      BY <2>1, <2>2, <3>1, AnswerExchange
  <2>3. QED
    BY <1>9, <2>1, <2>2, NotFoundExchange, RefuseExchange DEF Serve
<1>10. CASE ServeStream
  <2>1. pc = "serve" /\ rpc' = rpc /\ rpc \notin {"GetContainer", "GetImage"}
    BY <1>10, CallsOfCreate DEF ServeStream
  <2>2. ASSUME NEW x, Answer(x)
        PROVE  Exchange'
    <3>1. ~SaysNotFound(x)
      BY <2>1 DEF SaysNotFound
    <3>2. QED
      BY <2>1, <2>2, <3>1, AnswerExchange
  <2>3. CASE pc' = "return" /\ UNCHANGED <<wireVars, said, got, cmd>>
    BY <2>1, <2>3 DEF Exchange, OutcomeIsSeen, Nothing
  <2>4. QED
    BY <1>10, <2>1, <2>2, <2>3, RefuseExchange DEF ServeStream
<1>11. CASE ServeCreatePod
  <2>1. pc = "serve" /\ rpc' = rpc /\ rpc = "CreatePod"
    BY <1>11 DEF ServeCreatePod, Command, Progress, InOrder, MethodAt, NoCommand
  <2>2. QED
    BY <1>11, <2>1, PerformExchange DEF ServeCreatePod
<1>12. CASE ServeCreateContainer
  <2>1. pc = "serve" /\ rpc' = rpc /\ rpc = "CreateContainer"
    BY <1>12 DEF ServeCreateContainer, Command, Progress, InOrder, MethodAt, NoCommand
  <2>2. QED
    BY <1>12, <2>1, PerformExchange DEF ServeCreateContainer
<1>13. CASE ServeInspect
  <2>1. pc = "serve" /\ rpc' = rpc /\ rpc = "GetContainer" /\ m.name = <<Word2>>
    BY <1>13 DEF ServeInspect, Command, Progress, InOrder, MethodAt, NoCommand, Asks
  <2>2. PICK x : Answer(x) /\ x.container_id = m.name
    BY <1>13 DEF ServeInspect
  <2>3. ~SaysNotFound(x)
    BY <2>1, <2>2 DEF SaysNotFound
  <2>4. QED
    BY <2>1, <2>2, <2>3, AnswerExchange
<1>14. CASE UNCHANGED vars
  BY <1>14 DEF vars, wireVars, Exchange, OutcomeIsSeen, SaysNotFound
<1>15. QED
  BY <1>1, <1>2, <1>3, <1>4, <1>5, <1>6, <1>7, <1>8, <1>9, <1>10, <1>11, <1>12, <1>13, <1>14
     DEF Next, Proceed

-----------------------------------------------------------------------------
(* The options that the create command makes of its flags. *)

LEMMA FieldOf ==
    ASSUME NEW schema, NEW r, NEW f \in DOMAIN schema, f \in DOMAIN r
    PROVE  Literal(schema, r)[f] = r[f]
BY DEF Literal

(* The security options of a pod and of a container. *)
LEMMA SharedOf ==
    ASSUME NEW c, NEW pod \in BOOLEAN
    PROVE  LET sec == toSharedSecretOptions(c, pod)
               mode(flag) == IF flag = <<HostWord>> THEN NODE ELSE POD
           IN  /\ sec.privileged = c.privileged
               /\ sec.user = IF pod THEN <<>> ELSE kvSplit(c.user, Colon)[1]
               /\ sec.groups = IF pod THEN <<>> ELSE c.groupAdd
               /\ sec.net_mode = mode(c.net)
               /\ sec.pid_mode = mode(c.pid)
               /\ sec.ipc_mode = mode(c.ipc)
BY DEF toSharedSecretOptions, Literal, SharedSecurityOptions

(* The options that CreatePod is sent. *)
LEMMA PodOptionsOf ==
    ASSUME NEW c, toPodOptions(c).ok
    PROVE  /\ PodOpts(c).security_context = <<toSharedSecretOptions(c, TRUE)>>
           /\ \A k \in DOMAIN c.publish : ParsePort(c.publish[k]).ok
           /\ PodOpts(c).port_mappings =
                 [k \in DOMAIN c.publish |-> Extern(ParsePort(c.publish[k]).v)]
<1>1. \A k \in DOMAIN c.publish : ParsePort(c.publish[k]).ok
  <2>1. ParsePorts(c.publish).ok
    BY DEF toPodOptions, Error
  <2>2. QED
    BY <2>1 DEF ParsePorts, All, Error
<1>2. ParsePorts(c.publish) = Ok([k \in DOMAIN c.publish |-> ParsePort(c.publish[k]).v])
  BY <1>1 DEF ParsePorts, All
<1>3. /\ ParsePorts(c.publish).ok
      /\ ParsePorts(c.publish).v = [k \in DOMAIN c.publish |-> ParsePort(c.publish[k]).v]
  BY <1>2 DEF Ok
<1>4. PodOpts(c).security_context = <<toSharedSecretOptions(c, TRUE)>>
  BY <1>3 DEF toPodOptions, PodOpts, Literal, PodOptions, Ok
<1>5. PodOpts(c).port_mappings
         = [k \in DOMAIN ParsePorts(c.publish).v |-> Extern(ParsePorts(c.publish).v[k])]
  BY <1>3 DEF toPodOptions, PodOpts, Literal, PodOptions, Ok
<1>6. QED
  BY <1>1, <1>3, <1>4, <1>5

(* The options that CreateContainer is sent. *)
LEMMA ContainerOptionsOf ==
    ASSUME NEW c, toContainerOptions(c).ok
    PROVE  /\ ConOpts(c).security_context = <<toSharedSecretOptions(c, FALSE)>>
           /\ \A k \in DOMAIN c.volume : ParseVolume(c.volume[k]).ok
           /\ ConOpts(c).mounts =
                 [k \in DOMAIN c.volume |-> Extern(ParseVolume(c.volume[k]).v)]
<1>1. \A k \in DOMAIN c.volume : ParseVolume(c.volume[k]).ok
  <2>1. ParseVolumes(c.volume).ok
    BY DEF toContainerOptions, Error
  <2>2. QED
    BY <2>1 DEF ParseVolumes, All, Error
<1>2. ParseVolumes(c.volume) = Ok([k \in DOMAIN c.volume |-> ParseVolume(c.volume[k]).v])
  BY <1>1 DEF ParseVolumes, All
<1>3. /\ ParseVolumes(c.volume).ok
      /\ ParseVolumes(c.volume).v = [k \in DOMAIN c.volume |-> ParseVolume(c.volume[k]).v]
  BY <1>2 DEF Ok
<1>4. ConOpts(c).security_context = <<toSharedSecretOptions(c, FALSE)>>
  BY <1>3 DEF toContainerOptions, ConOpts, Literal, ContainerOptions, Ok, Error
<1>5. ConOpts(c).mounts
         = [k \in DOMAIN ParseVolumes(c.volume).v |-> Extern(ParseVolumes(c.volume).v[k])]
  BY <1>3 DEF toContainerOptions, ConOpts, Literal, ContainerOptions, Ok, Error
<1>6. QED
  BY <1>1, <1>3, <1>4, <1>5

(* What the daemon reads of the two messages' security options. *)
LEMMA SecurityContexts ==
    ASSUME NEW c, toPodOptions(c).ok, toContainerOptions(c).ok
    PROVE  /\ GetSecurityContext(PodOpts(c)) = toSharedSecretOptions(c, TRUE)
           /\ GetSecurityContext(ConOpts(c)) = toSharedSecretOptions(c, FALSE)
           /\ GetSecurityContext(PodOpts(c)).groups = <<>>
           /\ GetSecurityContext(ConOpts(c)).groups = c.groupAdd
<1>1. /\ GetSecurityContext(PodOpts(c)) = toSharedSecretOptions(c, TRUE)
      /\ GetSecurityContext(ConOpts(c)) = toSharedSecretOptions(c, FALSE)
  <2>1. PodOpts(c).security_context = <<toSharedSecretOptions(c, TRUE)>>
    BY PodOptionsOf
  <2>2. ConOpts(c).security_context = <<toSharedSecretOptions(c, FALSE)>>
    BY ContainerOptionsOf
  <2>3. QED
    BY <2>1, <2>2 DEF GetSecurityContext
<1>2. QED
  BY <1>1, SharedOf

-----------------------------------------------------------------------------
(* The create command: each of its calls leads to the configuration that    *)
(* follows from its flags, and no call is made before the last one answered.*)

LEMMA InitCommand == Init => Command
BY DEF Init, Command

(* A step that keeps the command and what was said of it, where the call is *)
(* decoded, dispatched or received.                                        *)

LEMMA KeepsCommand ==
    ASSUME Command, UNCHANGED <<cmd, rpc, said>>,
           pc' = "request" => pc = "request" /\ sent' = sent,
           pc' = "serve" => cmd = NoCommand \/ Asks(m'),
           pc' = "response" => pc = "response",
           pc' = "return" /\ cmd # NoCommand /\ said.err = "none" => said.v # <<>>
    PROVE  Command'
<1>1. ASSUME cmd # NoCommand
      PROVE  Progress'
  <2>1. Progress
    BY <1>1 DEF Command
  <2>2. pc' = "request" => Asks(sent)'
    BY <2>1 DEF Progress, InOrder, Asks
  <2>3. pc' = "serve" => Asks(m)'
    BY <1>1 DEF Asks
  <2>4. InOrder'
    BY <1>1, <2>1, <2>2, <2>3 DEF Progress, InOrder
  <2>5. PodMade' /\ ContainerMade' /\ Reported'
    BY <2>1 DEF Progress, PodMade, ContainerMade, Reported
  <2>6. QED
    BY <2>4, <2>5 DEF Progress
<1>2. QED
  BY <1>1 DEF Command

(* The daemon refuses: the command keeps what it has. *)
LEMMA RefuseCommand ==
    ASSUME Exchange, Command, pc = "serve", cmd # NoCommand, rpc' = rpc,
           NEW err \in {"error", "panic"}, Refuse(err)
    PROVE  Command'
<1>1. /\ Progress /\ cmd' = cmd /\ pc' = "return" /\ said.v = <<>>
      /\ said'.err # "none" /\ said'.v = <<>>
  BY DEF Exchange, Command, Refuse, Nothing
<1>2. InOrder'
  BY <1>1 DEF Progress, InOrder
<1>3. PodMade' /\ ContainerMade' /\ Reported'
  BY <1>1 DEF Progress, PodMade, ContainerMade, Reported
<1>4. QED
  BY <1>2, <1>3 DEF Progress, Command

(* CreatePod leads to the pod's configuration. *)
LEMMA ServePodCommand ==
    ASSUME Exchange, Command, ServeCreatePod
    PROVE  Command'
<1> DEFINE c == cmd.flags
           answer == [PodID |-> <<Word1>>]
<1>1. /\ pc = "serve" /\ cmd.at = "pod" /\ rpc' = rpc /\ cmd # NoCommand
      /\ Progress /\ said = Nothing /\ got = Nothing
  BY DEF ServeCreatePod, Command, NoCommand, Exchange
<1>2. /\ m.name = ConOpts(c).name /\ m.opts = <<PodOpts(c)>>
      /\ toPodOptions(c).ok /\ toContainerOptions(c).ok
  BY <1>1 DEF Progress, InOrder, Asks
<1>3. Perform(PodOpts(c), PodCfg(c), "pod", answer)
  <2>1. m.opts[1] = PodOpts(c)
    BY <1>2
  <2>2. QED
    BY <1>2, <2>1 DEF ServeCreatePod, PodCfg
<1>4. CASE Refuse("panic") \/ Refuse("error")
  BY <1>1, <1>4, RefuseCommand
<1>5. CASE /\ cmd' = [cmd EXCEPT !["pod"] = <<PodCfg(c).v>>] /\ Answer(answer)
           /\ PodCfg(c).ok
  <2>1. pc' = "response" /\ said'.err = "none" /\ said'.v = <<answer>>
    BY <1>1, <1>5 DEF Answer, Nothing
  <2>2. /\ cmd' = [f \in CmdFields |-> cmd'[f]]
        /\ cmd'.at = "pod" /\ cmd'.flags = c /\ cmd'.pod = <<PodCfg(c).v>>
    BY <1>1, <1>5 DEF Progress, InOrder, CmdFields
  <2>3. InOrder'
    BY <1>1, <2>1, <2>2 DEF Progress, InOrder
  <2>4. PodMade' /\ ContainerMade' /\ Reported'
    BY <1>5, <2>2 DEF PodMade, ContainerMade, Reported
  <2>5. QED
    BY <2>3, <2>4 DEF Progress, Command
<1>6. QED
  BY <1>3, <1>4, <1>5 DEF Perform

(* CreateContainer leads to the container's configuration. *)
LEMMA ServeContainerCommand ==
    ASSUME Exchange, Command, ServeCreateContainer
    PROVE  Command'
<1> DEFINE c == cmd.flags
           answer == [container_id |-> <<Word2>>]
<1>1. /\ pc = "serve" /\ cmd.at = "container" /\ rpc' = rpc /\ cmd # NoCommand
      /\ Progress /\ said = Nothing /\ got = Nothing
  BY DEF ServeCreateContainer, Command, NoCommand, Exchange
<1>2. /\ m.image = <<Word1>> /\ m.opts = <<ConOpts(c)>>
      /\ toPodOptions(c).ok /\ toContainerOptions(c).ok
  BY <1>1 DEF Progress, InOrder, Asks
<1>3. PodCfg(c).ok /\ cmd.pod = <<PodCfg(c).v>>
  BY <1>1 DEF Progress, PodMade
<1>4. Perform(ConOpts(c), ConCfg(c), "container", answer)
  <2>1. m.opts[1] = ConOpts(c) /\ cmd.pod[1] = PodCfg(c).v
    BY <1>2, <1>3
  <2>2. QED
    BY <1>2, <2>1 DEF ServeCreateContainer, ConCfg
<1>5. CASE Refuse("panic") \/ Refuse("error")
  BY <1>1, <1>5, RefuseCommand
<1>6. CASE /\ cmd' = [cmd EXCEPT !["container"] = <<ConCfg(c).v>>] /\ Answer(answer)
           /\ ConCfg(c).ok
           /\ ~(toID(GetSecurityContext(ConOpts(c)).group).ok
                 /\ Panics(GetSecurityContext(ConOpts(c)).groups))
  <2>1. ~Panics(c.groupAdd)
    <3>1. toID(GetSecurityContext(ConOpts(c)).group).ok
      BY <1>6 DEF ConCfg, ContainerConfig, Error
    <3>2. QED
      BY <1>2, <1>6, <3>1, SecurityContexts
  <2>2. pc' = "response" /\ said'.err = "none" /\ said'.v = <<answer>>
    BY <1>1, <1>6 DEF Answer, Nothing
  <2>3. /\ cmd' = [f \in CmdFields |-> cmd'[f]]
        /\ cmd'.at = "container" /\ cmd'.flags = c /\ cmd'.pod = cmd.pod
        /\ cmd'.container = <<ConCfg(c).v>>
    BY <1>1, <1>6 DEF Progress, InOrder, CmdFields
  <2>4. InOrder'
    BY <1>1, <2>2, <2>3 DEF Progress, InOrder
  <2>5. PodMade' /\ ContainerMade'
    BY <1>3, <1>6, <2>1, <2>3 DEF PodMade, ContainerMade
  <2>6. Reported'
    BY <2>2, <2>3 DEF Reported
  <2>7. QED
    BY <2>4, <2>5, <2>6 DEF Progress, Command
<1>7. QED
  BY <1>4, <1>5, <1>6 DEF Perform

(* GetContainer reports both. *)
LEMMA ServeInspectCommand ==
    ASSUME Exchange, Command, ServeInspect
    PROVE  Command'
<1> DEFINE c == cmd.flags
           pod == PodCfg(c).v
           con == ConCfg(c).v
           answer(ready, listed, s) ==
             [pod |-> <<Extern(toPod(pod, con, ready, listed, s))>>,
              container |-> <<Extern(toContainer(pod, con))>>,
              container_id |-> m.name]
<1>1. /\ pc = "serve" /\ cmd.at = "inspect" /\ rpc' = rpc
      /\ Progress /\ said = Nothing /\ got = Nothing
  BY DEF ServeInspect, Command, NoCommand, Exchange
<1>2. cmd.pod = <<pod>> /\ cmd.container = <<con>>
  BY <1>1 DEF Progress, PodMade, ContainerMade
<1>3. PICK ready \in BOOLEAN, listed \in Statuses : \E s \in Later(listed) :
         cmd' = [cmd EXCEPT !.status = <<s>>] /\ Answer(answer(ready, listed, s))
  <2>1. cmd.pod[1] = pod /\ cmd.container[1] = con
    BY <1>2
  <2>2. QED
    BY <2>1 DEF ServeInspect
<1>4. PICK s \in Later(listed) :
         cmd' = [cmd EXCEPT !.status = <<s>>] /\ Answer(answer(ready, listed, s))
  BY <1>3
<1>5. pc' = "response" /\ said'.err = "none" /\ said'.v = <<answer(ready, listed, s)>>
  BY <1>1, <1>4 DEF Answer, Nothing
<1>6. /\ cmd' = [f \in CmdFields |-> cmd'[f]]
      /\ cmd'.at = "inspect" /\ cmd'.flags = c /\ cmd'.pod = cmd.pod
      /\ cmd'.container = cmd.container /\ cmd'.status = <<s>>
  BY <1>1, <1>4 DEF Progress, InOrder, CmdFields
<1>7. InOrder'
  BY <1>1, <1>5, <1>6 DEF Progress, InOrder
<1>8. PodMade' /\ ContainerMade'
  BY <1>1, <1>6 DEF Progress, PodMade, ContainerMade
<1>9. Reported'
  <2>1. said'.v[1] = answer(ready, listed, s)
    BY <1>5
  <2>2. QED
    BY <1>6, <2>1 DEF Reported
<1>10. QED
  BY <1>7, <1>8, <1>9 DEF Progress, Command

(* The command begins with what its flags ask for. *)
LEMMA CreateCommand ==
    ASSUME Exchange, NEW c \in Commands, Create(c)
    PROVE  Command'
<1>1. /\ pc' = "request" /\ rpc' = "CreatePod" /\ said'.v = <<>>
      /\ cmd' = [at |-> "pod", flags |-> c, pod |-> <<>>, container |-> <<>>, status |-> <<>>]
  BY DEF Create, Exchange, Nothing
<1>2. /\ toPodOptions(c).ok /\ toContainerOptions(c).ok
      /\ sent' = [name |-> ConOpts(c).name, opts |-> <<PodOpts(c)>>]
  BY DEF Create, Transmit, ConOpts, PodOpts
<1>3. /\ cmd' = [f \in CmdFields |-> cmd'[f]] /\ cmd'.at = "pod" /\ cmd'.flags = c
  BY <1>1 DEF CmdFields
<1>4. Asks(sent)'
  BY <1>2, <1>3 DEF Asks
<1>5. InOrder'
  BY <1>1, <1>2, <1>3, <1>4 DEF InOrder, MethodAt
<1>6. PodMade' /\ ContainerMade' /\ Reported'
  BY <1>1, <1>3 DEF PodMade, ContainerMade, Reported
<1>7. QED
  BY <1>5, <1>6 DEF Progress, Command

(* The command goes on only when the last call was answered. *)
LEMMA NextCallCommand ==
    ASSUME Exchange, Command, NextCall
    PROVE  Command'
<1> DEFINE c == cmd.flags
<1>1. /\ pc = "return" /\ got.err = "none" /\ cmd.at \in {"pod", "container"}
      /\ Progress /\ pc' = "request" /\ said'.v = <<>>
  BY DEF NextCall, Command, NoCommand, Nothing
<1>2. said.err = "none" /\ got.v = said.v
  <2>1. rpc \in {"CreatePod", "CreateContainer"}
    BY <1>1 DEF Progress, InOrder, MethodAt
  <2>2. QED
    BY <1>1, <2>1, CallsOfCreate DEF Exchange, OutcomeIsSeen
<1>3. said.v # <<>> /\ c \in Commands /\ toPodOptions(c).ok /\ toContainerOptions(c).ok
  BY <1>1, <1>2 DEF Progress, InOrder
<1>4. PodCfg(c).ok /\ cmd.pod = <<PodCfg(c).v>>
  BY <1>1, <1>3 DEF Progress, PodMade
<1>5. CASE cmd.at = "pod"
  <2>1. /\ rpc' = "CreateContainer" /\ cmd' = [cmd EXCEPT !.at = "container"]
        /\ sent' = [pod_id |-> got.v[1].PodID, image |-> <<Word1>>, opts |-> <<ConOpts(c)>>]
    BY <1>5 DEF NextCall, Transmit, ConOpts
  <2>2. /\ cmd' = [f \in CmdFields |-> cmd'[f]]
        /\ cmd'.at = "container" /\ cmd'.flags = c /\ cmd'.pod = cmd.pod
    BY <1>1, <2>1 DEF Progress, InOrder, CmdFields
  <2>3. Asks(sent)'
    BY <2>1, <2>2 DEF Asks
  <2>4. InOrder'
    BY <1>1, <1>3, <2>1, <2>2, <2>3 DEF InOrder, MethodAt
  <2>5. PodMade' /\ ContainerMade' /\ Reported'
    BY <1>1, <1>4, <2>2 DEF PodMade, ContainerMade, Reported
  <2>6. QED
    BY <2>4, <2>5 DEF Progress, Command
<1>6. CASE cmd.at = "container"
  <2>1. /\ rpc' = "GetContainer" /\ cmd' = [cmd EXCEPT !.at = "inspect"]
        /\ sent' = [name |-> got.v[1].container_id]
    BY <1>6 DEF NextCall, Transmit
  <2>2. /\ cmd' = [f \in CmdFields |-> cmd'[f]]
        /\ cmd'.at = "inspect" /\ cmd'.flags = c /\ cmd'.pod = cmd.pod
        /\ cmd'.container = cmd.container
    BY <1>1, <2>1 DEF Progress, InOrder, CmdFields
  <2>3. Asks(sent)'
    <3>1. got.v[1].container_id = <<Word2>>
      BY <1>1, <1>2, <1>3, <1>6 DEF Progress, Reported
    <3>2. QED
      BY <2>1, <2>2, <3>1 DEF Asks
  <2>4. InOrder'
    BY <1>1, <1>3, <2>1, <2>2, <2>3 DEF InOrder, MethodAt
  <2>5. PodMade' /\ ContainerMade' /\ Reported'
    BY <1>1, <1>3, <1>4, <1>6, <2>2 DEF Progress, PodMade, ContainerMade, Reported
  <2>6. QED
    BY <2>4, <2>5 DEF Progress, Command
<1>7. QED
  BY <1>1, <1>5, <1>6

(* Every step keeps Command. *)
LEMMA CommandNext ==
    ASSUME Exchange, Command, DecodedIsEncoded, [Next]_vars
    PROVE  Command'
<1>1. ASSUME NEW r \in Methods, NEW x \in Requests[r], Invoke(r, x)
      PROVE  Command'
  BY <1>1 DEF Invoke, Command
<1>2. ASSUME NEW c \in Commands, Create(c)
      PROVE  Command'
  BY <1>2, CreateCommand
<1>3. CASE Decode
  <2>1. UNCHANGED <<pc, rpc, sent, said, cmd>> /\ pc \in {"request", "response"}
    BY <1>3 DEF Decode, DecodedIsEncoded
  <2>2. QED
    BY <2>1, KeepsCommand
<1>4. CASE Dispatch
  <2>1. UNCHANGED <<cmd, rpc, said>> /\ pc = "request" /\ pc' = "serve"
    BY <1>4 DEF Dispatch
  <2>2. cmd # NoCommand => m' = sent /\ Asks(sent)
    BY <1>4 DEF Dispatch, DecodedIsEncoded, Command, Progress, InOrder
  <2>3. QED
    BY <2>1, <2>2, KeepsCommand
<1>5. CASE NextCall
  BY <1>5, NextCallCommand
<1>6. CASE Receive
  <2>1. UNCHANGED <<cmd, rpc, said>> /\ pc = "response" /\ pc' = "return"
    BY <1>6 DEF Receive
  <2>2. said.err = "none" => said.v # <<>>
    <3>1. <<sent>> # <<>>
      OBVIOUS
    <3>2. QED
      BY <2>1, <3>1 DEF Exchange
  <2>3. QED
    BY <2>1, <2>2, KeepsCommand
<1>7. CASE ReceiveStream \/ ServeStream
  <2>1. cmd = NoCommand
    BY <1>7, CommandCalls, CallsOfCreate DEF ReceiveStream, ServeStream
  <2>2. cmd' = cmd
    BY <1>7 DEF ReceiveStream, ServeStream, Refuse
  <2>3. QED
    BY <2>1, <2>2 DEF Command
<1>8. CASE Return
  BY <1>8 DEF Return, Command
<1>9. CASE Serve
  BY <1>9 DEF Serve, NotFound, Refuse, Command
<1>10. CASE ServeCreatePod \/ ServeCreateContainer \/ ServeInspect
  BY <1>10, ServePodCommand, ServeContainerCommand, ServeInspectCommand
<1>11. CASE UNCHANGED vars
  BY <1>11 DEF vars, wireVars, Command, Progress, InOrder, PodMade, ContainerMade, Reported, Asks
<1>12. QED
  BY <1>1, <1>2, <1>3, <1>4, <1>5, <1>6, <1>7, <1>8, <1>9, <1>10, <1>11 DEF Next, Proceed

-----------------------------------------------------------------------------
(* The types, and the panics. *)

(* The parts of TypeOK that a step can disturb. *)
Position ==
    /\ iNdEx \in 0 .. Len(dAtA)
    /\ pc \in {"request", "response"} => DOMAIN m = DOMAIN Receiving
Outcomes ==
    /\ said.err \in {"none", "error", "notfound", "panic"}
    /\ got.err \in {"none", "status", "notfound"}

(* Every step keeps TypeOK. *)
LEMMA TypesNext ==
    ASSUME TypeOK, Exchange, Command, Command', DecodedIsEncoded, DecodedIsEncoded', [Next]_vars
    PROVE  TypeOK'
<1> DEFINE Begun(schema) ==
             /\ iNdEx' = 0 /\ m' = Zero(schema) /\ pc' \in {"request", "response"}
             /\ Receiving' = schema
<1>1. pc' \in {"idle", "request", "serve", "response", "return"} /\ rpc' \in Methods
      /\ cmd'.at \in {"none", "pod", "container", "inspect"}
  BY ExchangeNext DEF Exchange, Command, Progress, InOrder, NoCommand
<1> SUFFICES Outcomes' /\ Position'
  BY <1>1 DEF TypeOK, Outcomes, Position
<1>2. Len(<<>>) = 0
  OBVIOUS
<1>3. ASSUME NEW schema, Begun(schema)
      PROVE  Position'
  <2>1. DOMAIN Zero(schema) = DOMAIN schema
    BY DEF Zero
  <2>2. Len(dAtA') \in Nat
    BY <1>3 DEF DecodedIsEncoded
  <2>3. QED
    BY <1>3, <2>1, <2>2 DEF Position
<1>4. ASSUME NEW x, Answer(x), rpc' = rpc, pc = "serve"
      PROVE  Outcomes' /\ Position'
  <2>1. Begun(ServiceDesc[rpc].resp)
    BY <1>4 DEF Answer, Transmit, Receiving
  <2>2. Outcomes'
    BY <1>4 DEF Answer, Exchange, Nothing, Outcomes
  <2>3. QED
    BY <1>3, <2>1, <2>2
<1>5. ASSUME NEW err \in {"error", "notfound", "panic"}, Refuse(err), pc = "serve"
      PROVE  Outcomes' /\ Position'
  BY <1>5 DEF Refuse, Failed, wireVars, TypeOK, Exchange, Nothing, Outcomes, Position
<1>6. ASSUME NEW r \in Methods, NEW x \in Requests[r], Invoke(r, x)
      PROVE  Outcomes' /\ Position'
  <2>1. Begun(ServiceDesc[r].req) /\ UNCHANGED <<said, got>>
    BY <1>6 DEF Invoke, Transmit, Receiving
  <2>2. QED
    BY <1>3, <2>1 DEF TypeOK, Outcomes
<1>7. ASSUME NEW c \in Commands, Create(c)
      PROVE  Outcomes' /\ Position'
  <2>1. Begun(ServiceDesc["CreatePod"].req) /\ UNCHANGED <<said, got>>
    BY <1>7 DEF Create, Transmit, Receiving, ServiceDesc, Unary
  <2>2. QED
    BY <1>3, <2>1 DEF TypeOK, Outcomes
<1>8. CASE Decode
  <2>1. /\ iNdEx' \in iNdEx + 1 .. Len(dAtA) /\ DOMAIN m' = DOMAIN Receiving
        /\ UNCHANGED <<pc, rpc, dAtA, said, got>>
    BY <1>8 DEF Decode, DecodedIsEncoded
  <2>2. QED
    BY <2>1 DEF TypeOK, Receiving, Outcomes, Position
<1>9. CASE Dispatch
  BY <1>2, <1>9 DEF Dispatch, TypeOK, Outcomes, Position
<1>10. CASE NextCall
  <2>1. \/ Begun(ServiceDesc["CreateContainer"].req)
        \/ Begun(ServiceDesc["GetContainer"].req)
    BY <1>10 DEF NextCall, Transmit, Receiving, ServiceDesc, Unary
  <2>2. Outcomes'
    BY <1>10 DEF NextCall, Nothing, Outcomes
  <2>3. QED
    BY <1>3, <2>1, <2>2
<1>11. CASE Receive
  BY <1>11 DEF Receive, wireVars, TypeOK, Exchange, Nothing, Outcomes, Position
<1>12. CASE ReceiveStream \/ Return
  BY <1>2, <1>12 DEF ReceiveStream, Return, Nothing, TypeOK, Outcomes, Position
<1>13. CASE Serve
  <2>1. CASE NotFound /\ rpc \in {"GetContainer", "GetImage"}
    <3>1. Begun(ServiceDesc[rpc].resp)
      BY <1>13, <2>1 DEF Serve, NotFound, Transmit, Receiving
    <3>2. Outcomes'
      BY <1>13, <2>1 DEF Serve, NotFound, Exchange, Nothing, Outcomes
    <3>3. QED
      BY <1>3, <3>1, <3>2
  <2>2. QED
    BY <1>4, <1>5, <1>13, <2>1 DEF Serve, NotFound
<1>14. CASE ServeStream
  BY <1>4, <1>5, <1>14 DEF ServeStream, wireVars, TypeOK, Exchange, Outcomes, Position
<1>15. CASE ServeCreatePod \/ ServeCreateContainer \/ ServeInspect
  BY <1>4, <1>5, <1>15 DEF ServeCreatePod, ServeCreateContainer, ServeInspect, Perform
<1>16. CASE UNCHANGED vars
  BY <1>16 DEF vars, wireVars, TypeOK, Receiving, Outcomes, Position
<1>17. QED
  BY <1>6, <1>7, <1>8, <1>9, <1>10, <1>11, <1>12, <1>13, <1>14, <1>15, <1>16
     DEF Next, Proceed

-----------------------------------------------------------------------------
(* Texts: what the parsers make of them. *)

LEMMA MinOf ==
    ASSUME NEW S \in SUBSET Nat, S # {}
    PROVE  Min(S) \in S /\ \A i \in S : Min(S) <= i
<1>1. \E i \in S : \A j \in S : <<j, i>> \notin OpToRel(<, Nat)
  BY WFMin, NatLessThanWellFounded
<1>2. PICK i \in S : \A j \in S : <<j, i>> \notin OpToRel(<, Nat)
  BY <1>1
<1>3. \A j \in S : i <= j
  <2>1. TAKE j \in S
  <2>2. CASE j < i
    <3>1. <<j, i>> \in OpToRel(<, Nat)
      BY <2>2 DEF OpToRel
    <3>2. QED
      BY <1>2, <3>1
  <2>3. QED
    BY <2>2
<1>4. QED
  BY <1>3 DEF Min

(* strings.SplitN(t, sep, 2): at the first sep, if there is one. *)
LEMMA CutOf ==
    ASSUME NEW S, NEW t \in Seq(S), NEW sep
    PROVE  \/ (\A i \in 1 .. Len(t) : t[i] # sep) /\ Cut(t, sep) = <<t>>
           \/ \E at \in 1 .. Len(t) :
                 /\ t[at] = sep /\ \A i \in 1 .. at - 1 : t[i] # sep
                 /\ Cut(t, sep) = <<SubSeq(t, 1, at - 1), SubSeq(t, at + 1, Len(t))>>
<1> DEFINE I == {i \in 1 .. Len(t) : t[i] = sep}
           at == SelectInSeq(t, LAMBDA c : c = sep)
<1>1. at = IF I # {} THEN Min(I) ELSE 0
  BY DEF SelectInSeq
<1>2. Cut(t, sep) = IF at = 0 THEN <<t>>
                    ELSE <<SubSeq(t, 1, at - 1), SubSeq(t, at + 1, Len(t))>>
  BY DEF Cut, CutAt
<1> HIDE DEF at
<1>3. CASE I = {}
  BY <1>1, <1>2, <1>3
<1>4. CASE I # {}
  <2>1. at \in I /\ \A i \in I : at <= i
    <3>1. I \in SUBSET Nat
      OBVIOUS
    <3>2. Min(I) \in I /\ \A i \in I : Min(I) <= i
      BY <1>4, <3>1, MinOf
    <3>3. QED
      BY <1>1, <1>4, <3>2
  <2>2. at \in 1 .. Len(t) /\ t[at] = sep /\ at # 0
    BY <2>1
  <2>3. \A i \in 1 .. at - 1 : t[i] # sep
    BY <2>1, <2>2
  <2>4. QED
    BY <1>2, <2>2, <2>3
<1>5. QED
  BY <1>3, <1>4

(* strings.TrimLeftFunc(t, unicode.IsSpace) of a text that starts with      *)
(* another token, and strings.TrimSpace of such a token.                   *)
LEMMA TrimLeftOf ==
    ASSUME NEW S, NEW t \in Seq(S), t # <<>>, t[1] # Space
    PROVE  TrimLeft(t) = t
<1> DEFINE I == {i \in 1 .. Len(t) : t[i] # Space}
           at == SelectInSeq(t, LAMBDA c : c # Space)
<1>1. at = IF I # {} THEN Min(I) ELSE 0
  BY DEF SelectInSeq
<1>2. TrimLeft(t) = IF at = 0 THEN <<>> ELSE SubSeq(t, at, Len(t))
  BY DEF TrimLeft, From
<1> HIDE DEF at
<1>3. 1 \in I
  OBVIOUS
<1>4. at \in I /\ \A i \in I : at <= i
  <2>1. I \in SUBSET Nat /\ I # {}
    BY <1>3
  <2>2. Min(I) \in I /\ \A i \in I : Min(I) <= i
    BY <2>1, MinOf
  <2>3. QED
    BY <1>1, <2>1, <2>2
<1>5. at = 1
  BY <1>3, <1>4
<1>6. QED
  BY <1>2, <1>5, SubSeqFull

LEMMA TrimSpaceOf ==
    ASSUME NEW x, x # Space
    PROVE  TrimSpace(<<x>>) = <<x>>
<1>1. <<x>> \in Seq({x}) /\ <<x>> # <<>> /\ <<x>>[1] = x
  OBVIOUS
<1>2. TrimLeft(<<x>>) = <<x>>
  BY <1>1, TrimLeftOf
<1>3. Reverse(<<x>>) = <<x>>
  BY DEF Reverse
<1>4. QED
  BY <1>2, <1>3 DEF TrimSpace

-----------------------------------------------------------------------------
(* What inspect shows. *)

LEMMA InspectedOf ==
    ASSUME Exchange, Command, Inspected
    PROVE  LET c == cmd.flags
               pod == PodCfg(c).v
               con == ConCfg(c).v
           IN  /\ c \in Commands /\ toPodOptions(c).ok /\ toContainerOptions(c).ok
               /\ PodCfg(c).ok /\ ConCfg(c).ok /\ ~Panics(c.groupAdd)
               /\ cmd.pod[1] = pod /\ cmd.container[1] = con
               /\ ShownContainer = toContainer(pod, con)
               /\ \E ready \in BOOLEAN, listed \in Statuses : \E s \in Later(listed) :
                     cmd.status[1] = s /\ ShownPod = toPod(pod, con, ready, listed, s)
<1> DEFINE c == cmd.flags
           pod == PodCfg(c).v
           con == ConCfg(c).v
<1>1. /\ pc = "return" /\ cmd.at = "inspect" /\ got.err = "none" /\ Progress
      /\ said.err = "none" /\ got.v = said.v
  <2>1. pc = "return" /\ cmd.at = "inspect" /\ got.err = "none" /\ Progress
    BY DEF Inspected, Command, NoCommand
  <2>2. rpc = "GetContainer"
    BY <2>1 DEF Progress, InOrder, MethodAt
  <2>3. QED
    BY <2>1, <2>2, CallsOfCreate DEF Exchange, OutcomeIsSeen
<1>2. /\ c \in Commands /\ toPodOptions(c).ok /\ toContainerOptions(c).ok /\ said.v # <<>>
  BY <1>1 DEF Progress, InOrder
<1>3. /\ PodCfg(c).ok /\ ConCfg(c).ok /\ ~Panics(c.groupAdd)
      /\ cmd.pod = <<pod>> /\ cmd.container = <<con>>
  BY <1>1 DEF Progress, PodMade, ContainerMade
<1>4. PICK ready \in BOOLEAN, listed \in Statuses : \E s \in Later(listed) :
         /\ cmd.status = <<s>>
         /\ said.v[1].pod = <<Extern(toPod(pod, con, ready, listed, s))>>
         /\ said.v[1].container = <<Extern(toContainer(pod, con))>>
  BY <1>1, <1>2 DEF Progress, Reported
<1>5. PICK s \in Later(listed) :
         /\ cmd.status = <<s>>
         /\ said.v[1].pod = <<Extern(toPod(pod, con, ready, listed, s))>>
         /\ said.v[1].container = <<Extern(toContainer(pod, con))>>
  BY <1>4
<1>6. ShownContainer = toContainer(pod, con) /\ ShownPod = toPod(pod, con, ready, listed, s)
  BY <1>1, <1>5 DEF ShownContainer, ShownPod, Content, Extern
<1>7. cmd.pod[1] = pod /\ cmd.container[1] = con /\ cmd.status[1] = s
  BY <1>3, <1>5
<1>8. QED
  BY <1>2, <1>3, <1>6, <1>7

(* Every status that the runtime may report after the one it listed. *)
LEMMA StatusShown ==
    ASSUME NEW ready \in BOOLEAN, NEW listed \in Statuses, NEW s \in Later(listed)
    PROVE  /\ State(s) = "created" => toContainerStatus(s) = "waiting"
           /\ State(s) = "running" => toContainerStatus(s) = "running"
           /\ State(s) = "exited" => toContainerStatus(s) = "terminated"
           /\ toPhase(ready, <<State(listed)>>) = "Running" => toContainerStatus(s) # "waiting"
<1>1. \A t \in Statuses :
         /\ t.unknown \in BOOLEAN /\ t.started \in {0, 1} /\ t.finished \in {0, 2}
         /\ State(t) \in {"created", "running", "exited", "unknown"}
         /\ State(t) = "created" => t.started = 0 /\ t.finished = 0
         /\ State(t) = "running" => t.started > 0 /\ t.finished = 0
         /\ State(t) = "exited" => t.finished > 0
  BY DEF Statuses, State
<1>2. s \in Statuses
  <2>1. [listed EXCEPT !.finished = 2] \in Statuses
    BY DEF Statuses
  <2>2. [listed EXCEPT !.unknown = FALSE, !.finished = 2] \in Statuses
    BY DEF Statuses
  <2>3. QED
    BY <1>1, <2>1, <2>2 DEF Later
<1>3. /\ State(s) = "created" => toContainerStatus(s) = "waiting"
      /\ State(s) = "running" => toContainerStatus(s) = "running"
      /\ State(s) = "exited" => toContainerStatus(s) = "terminated"
  BY <1>1, <1>2 DEF toContainerStatus
<1>4. ASSUME toPhase(ready, <<State(listed)>>) = "Running"
      PROVE  State(listed) \in {"running", "exited"}
  <2> DEFINE states == <<State(listed)>>
             I == {i \in 1 .. Len(states) : states[i] \in {"created", "unknown"}}
             first == SelectInSeq(states, LAMBDA x : x \in {"created", "unknown"})
  <2>1. first = IF I # {} THEN Min(I) ELSE 0
    BY DEF SelectInSeq
  <2>2. first = 0
    BY <1>4 DEF toPhase
  <2>3. I = {}
    <3>1. I \in SUBSET Nat /\ 0 \notin I
      OBVIOUS
    <3>2. I # {} => Min(I) \in I
      BY <3>1, MinOf
    <3>3. QED
      BY <2>1, <2>2, <3>1, <3>2
  <2>4. 1 \notin I
    BY <2>3
  <2>5. QED
    BY <1>1, <2>4
<1>5. ASSUME State(listed) \in {"running", "exited"}
      PROVE  toContainerStatus(s) # "waiting"
  <2>1. s = listed \/ s = [listed EXCEPT !.finished = 2]
    BY <1>5 DEF Later
  <2>2. CASE s = listed
    BY <1>3, <1>5, <2>2
  <2>3. CASE s = [listed EXCEPT !.finished = 2]
    <3>1. s.finished = 2
      BY <2>3 DEF Statuses
    <3>2. QED
      BY <3>1 DEF toContainerStatus
  <2>4. QED
    BY <2>1, <2>2, <2>3
<1>6. QED
  BY <1>3, <1>4, <1>5

(* The state and the phase that inspect shows. *)
LEMMA StateShown ==
    ASSUME Exchange, Command
    PROVE  StateIsShown
<1>1. SUFFICES ASSUME Inspected
               PROVE  LET s == cmd.status[1]
                      IN  /\ State(s) = "created" => ShownPod.state = "waiting"
                          /\ State(s) = "running" => ShownPod.state = "running"
                          /\ State(s) = "exited" => ShownPod.state = "terminated"
                          /\ ShownPod.phase = "Running" => ShownPod.state # "waiting"
  BY DEF StateIsShown
<1> DEFINE pod == PodCfg(cmd.flags).v
           con == ConCfg(cmd.flags).v
<1>2. PICK ready \in BOOLEAN, listed \in Statuses : \E s \in Later(listed) :
         cmd.status[1] = s /\ ShownPod = toPod(pod, con, ready, listed, s)
  BY <1>1, InspectedOf
<1>3. PICK s \in Later(listed) : cmd.status[1] = s /\ ShownPod = toPod(pod, con, ready, listed, s)
  BY <1>2
<1>4. ShownPod.state = toContainerStatus(s) /\ ShownPod.phase = toPhase(ready, <<State(listed)>>)
  BY <1>3 DEF toPod
<1>5. QED
  BY <1>3, <1>4, StatusShown

(* A part of a text, and a text of one token. *)
LEMMA PartOf ==
    ASSUME NEW S, NEW t \in Seq(S), NEW a \in Int, NEW b \in Int, 1 <= a, b <= Len(t)
    PROVE  /\ SubSeq(t, a, b) \in Seq(S)
           /\ Len(SubSeq(t, a, b)) = IF a <= b THEN b - a + 1 ELSE 0
           /\ \A i \in 1 .. b - a + 1 : SubSeq(t, a, b)[i] = t[a + i - 1]
<1>1. \A i \in a .. b : t[i] \in S
  OBVIOUS
<1>2. QED
  BY <1>1, SubSeqProperties

LEMMA OneToken ==
    ASSUME NEW S, NEW t \in Seq(S), Len(t) = 1
    PROVE  t = <<t[1]>>
OBVIOUS

(* What the daemon makes of the groups and of the user of a container. *)
LEMMA GroupsOf ==
    ASSUME NEW S, NEW groups \in Seq(S), toGroupIDs(groups).ok, ~Panics(groups)
    PROVE  toGroupIDs(groups).v = [k \in DOMAIN groups |-> Number[groups[k][1]]]
<1> DEFINE results == [k \in DOMAIN groups |-> toID(groups[k])]
<1>1. \A k \in DOMAIN groups : toID(groups[k]).ok
  BY DEF toGroupIDs, All, Error
<1>2. toGroupIDs(groups).v = [k \in DOMAIN groups |-> toID(groups[k]).v[1]]
  <2>1. All(results) = Ok([k \in DOMAIN groups |-> toID(groups[k]).v])
    BY <1>1 DEF All
  <2>2. All(results).ok /\ All(results).v = [k \in DOMAIN groups |-> toID(groups[k]).v]
    BY <2>1 DEF Ok
  <2>3. toGroupIDs(groups) = IF All(results).ok
                             THEN Ok([k \in DOMAIN All(results).v |-> All(results).v[k][1]])
                             ELSE Error
    BY DEF toGroupIDs
  <2>4. toGroupIDs(groups).v = [k \in DOMAIN All(results).v |-> All(results).v[k][1]]
    BY <2>2, <2>3 DEF Ok
  <2>5. QED
    BY <2>2, <2>4
<1>3. ASSUME NEW k \in DOMAIN groups
      PROVE  toID(groups[k]).v[1] = Number[groups[k][1]]
  <2>1. groups[k] \notin {<<>>, <<Root>>}
    <3>1. \A j \in 1 .. k - 1 : toID(groups[j]).ok
      BY <1>1
    <3>2. toID(groups[k]) # Ok(<<>>)
      BY <3>1 DEF Panics
    <3>3. QED
      BY <3>2 DEF toID
  <2>2. toID(groups[k]).ok
    BY <1>1
  <2>3. toID(groups[k]).v = <<Number[groups[k][1]]>>
    BY <2>1, <2>2 DEF toID, Atoi, Ok, Error
  <2>4. QED
    BY <2>3
<1>4. QED
  BY <1>2, <1>3

(* A user that begins with a number is that number. *)
LEMMA UserOf ==
    ASSUME NEW t \in Texts, t # <<>>, t[1] \in DOMAIN Number, Len(t) > 1 => t[2] = Colon
    PROVE  toUserID(kvSplit(t, Colon)[1]).id = <<Number[t[1]]>>
<1>1. t[1] \in {48, 49, 50, 51}
  BY DEF Number
<1> DEFINE S == 0 .. 255
<1>0. t \in Seq(S) /\ Len(t) \in Nat \ {0}
  BY DEF Texts
<1> HIDE DEF S
<1>2. Cut(t, Colon)[1] = <<t[1]>>
  <2>1. t[1] # Colon
    BY <1>1 DEF Colon
  <2>2. CASE Len(t) = 1
    <3>1. Cut(t, Colon) = <<t>>
      BY <1>0, <2>1, <2>2, CutOf
    <3>2. t = <<t[1]>>
      BY <1>0, <2>2
    <3>3. QED
      BY <3>1, <3>2
  <2>3. CASE Len(t) > 1
    <3>0. 2 \in 1 .. Len(t) /\ t[2] = Colon
      BY <1>0, <2>3
    <3>1. PICK at \in 1 .. Len(t) :
             /\ t[at] = Colon /\ \A i \in 1 .. at - 1 : t[i] # Colon
             /\ Cut(t, Colon) = <<SubSeq(t, 1, at - 1), SubSeq(t, at + 1, Len(t))>>
      BY <1>0, <3>0, CutOf
    <3>2. at = 2
      BY <2>1, <3>0, <3>1
    <3>3. SubSeq(t, 1, 1) = <<t[1]>>
      <4>1. /\ SubSeq(t, 1, 1) \in Seq(S) /\ Len(SubSeq(t, 1, 1)) = 1
            /\ SubSeq(t, 1, 1)[1] = t[1]
        BY <1>0, PartOf
      <4>2. QED
        BY <4>1, OneToken
    <3>4. QED
      BY <3>1, <3>2, <3>3
  <2>4. Len(t) = 1 \/ Len(t) > 1
    <3>1. \A n \in Nat \ {0} : n = 1 \/ n > 1
      OBVIOUS
    <3>2. QED
      BY <1>0, <3>1
  <2>5. QED
    BY <2>2, <2>3, <2>4
<1>3. kvSplit(t, Colon)[1] = <<t[1]>>
  <2>1. kvSplit(t, Colon)[1] = TrimSpace(Cut(t, Colon)[1])
    BY DEF kvSplit, SplitN
  <2>2. t[1] # Space
    BY <1>1 DEF Space
  <2>3. QED
    BY <1>2, <2>1, <2>2, TrimSpaceOf
<1>4. <<t[1]>> \notin {<<>>, <<Root>>}
  BY <1>1 DEF Root
<1>5. Atoi(<<t[1]>>) = Ok(Number[t[1]])
  BY DEF Atoi
<1>6. toID(<<t[1]>>) = Ok(<<Number[t[1]]>>)
  <2>1. Atoi(<<t[1]>>).ok /\ Atoi(<<t[1]>>).v = Number[t[1]]
    BY <1>5 DEF Ok
  <2>2. QED
    BY <1>4, <2>1 DEF toID
<1>7. QED
  BY <1>3, <1>4, <1>6 DEF toUserID, Ok

(* The security that inspect shows, and the configurations have. *)
LEMMA SecurityShown ==
    ASSUME Exchange, Command
    PROVE  SecurityAsAsked
<1>1. SUFFICES ASSUME Inspected
               PROVE  LET flags == cmd.flags
                          cfg == cmd.container[1]
                          host(flag) == flag = <<HostWord>>
                      IN  /\ ShownPod.hostNetwork <=> host(flags.net)
                          /\ ShownPod.hostPID <=> host(flags.pid)
                          /\ ShownPod.hostIPC <=> host(flags.ipc)
                          /\ <<cfg.net, cfg.pid, cfg.ipc>>
                               = <<cmd.pod[1].net, cmd.pod[1].pid, cmd.pod[1].ipc>>
                          /\ ShownContainer.privileged <=> flags.privileged
                          /\ cmd.pod[1].privileged <=> flags.privileged
                          /\ cfg.groups = [k \in DOMAIN flags.groupAdd |->
                                              Number[flags.groupAdd[k][1]]]
                          /\ /\ flags.user # <<>> /\ flags.user[1] \in DOMAIN Number
                             /\ Len(flags.user) > 1 => flags.user[2] = Colon
                             => ShownContainer.user = <<Number[flags.user[1]]>>
  BY DEF SecurityAsAsked
<1> DEFINE c == cmd.flags
           pod == PodCfg(c).v
           con == ConCfg(c).v
           podSec == GetSecurityContext(PodOpts(c))
           conSec == GetSecurityContext(ConOpts(c))
           mode(flag) == IF flag = <<HostWord>> THEN NODE ELSE POD
<1>2. /\ c \in Commands /\ toPodOptions(c).ok /\ toContainerOptions(c).ok
      /\ PodCfg(c).ok /\ ConCfg(c).ok /\ ~Panics(c.groupAdd)
      /\ cmd.pod[1] = pod /\ cmd.container[1] = con
      /\ ShownContainer = toContainer(pod, con)
      /\ \E ready, listed, s : ShownPod = toPod(pod, con, ready, listed, s)
  BY <1>1, InspectedOf
<1>3. /\ podSec = toSharedSecretOptions(c, TRUE)
      /\ conSec = toSharedSecretOptions(c, FALSE)
  BY <1>2, SecurityContexts
<1>4. /\ pod.net = podSec.net_mode /\ pod.pid = podSec.pid_mode /\ pod.ipc = podSec.ipc_mode
      /\ pod.privileged = podSec.privileged
  BY <1>2 DEF PodCfg, PodSandboxConfig, Ok, Error
<1>5. /\ con.net = conSec.net_mode /\ con.pid = conSec.pid_mode /\ con.ipc = conSec.ipc_mode
      /\ con.privileged = conSec.privileged
      /\ con.user = toUserID(conSec.user).id
      /\ con.groups = toGroupIDs(conSec.groups).v /\ toGroupIDs(conSec.groups).ok
  BY <1>2 DEF ConCfg, ContainerConfig, Ok, Error
<1> HIDE DEF podSec, conSec
<1>6. /\ podSec.net_mode = mode(c.net) /\ podSec.pid_mode = mode(c.pid)
      /\ podSec.ipc_mode = mode(c.ipc) /\ podSec.privileged = c.privileged
  BY <1>3, SharedOf
<1>7. /\ conSec.net_mode = mode(c.net) /\ conSec.pid_mode = mode(c.pid)
      /\ conSec.ipc_mode = mode(c.ipc) /\ conSec.privileged = c.privileged
      /\ conSec.user = kvSplit(c.user, Colon)[1] /\ conSec.groups = c.groupAdd
  BY <1>3, SharedOf
<1>8. \A flag : mode(flag) = NODE <=> flag = <<HostWord>>
  BY DEF NODE, POD
<1>9. /\ ShownPod.hostNetwork <=> pod.net = NODE
      /\ ShownPod.hostPID <=> pod.pid = NODE
      /\ ShownPod.hostIPC <=> pod.ipc = NODE
  <2>1. PICK ready, listed, s : ShownPod = toPod(pod, con, ready, listed, s)
    BY <1>2
  <2>2. /\ toPod(pod, con, ready, listed, s).hostNetwork <=> pod.net = NODE
        /\ toPod(pod, con, ready, listed, s).hostPID <=> pod.pid = NODE
        /\ toPod(pod, con, ready, listed, s).hostIPC <=> pod.ipc = NODE
    BY DEF toPod
  <2>3. QED
    BY <2>1, <2>2
<1>10. ShownContainer.privileged = con.privileged /\ ShownContainer.user = con.user
  BY <1>2 DEF toContainer
<1>17. c.groupAdd \in Seq(Texts) /\ c.user \in Texts
  BY <1>2, CommandsAssumption
<1>11. con.groups = [k \in DOMAIN c.groupAdd |-> Number[c.groupAdd[k][1]]]
  BY <1>2, <1>5, <1>7, <1>17, GroupsOf
<1>12. /\ c.user # <<>> /\ c.user[1] \in DOMAIN Number
       /\ Len(c.user) > 1 => c.user[2] = Colon
       => ShownContainer.user = <<Number[c.user[1]]>>
  BY <1>5, <1>7, <1>10, <1>17, UserOf
<1> HIDE DEF c, pod, con, mode
<1>13. /\ ShownPod.hostNetwork <=> c.net = <<HostWord>>
       /\ ShownPod.hostPID <=> c.pid = <<HostWord>>
       /\ ShownPod.hostIPC <=> c.ipc = <<HostWord>>
  BY <1>4, <1>6, <1>8, <1>9
<1>14. <<con.net, con.pid, con.ipc>> = <<pod.net, pod.pid, pod.ipc>>
  BY <1>4, <1>5, <1>6, <1>7
<1>15. ShownContainer.privileged = c.privileged /\ pod.privileged = c.privileged
  BY <1>4, <1>5, <1>6, <1>7, <1>10
<1>16. QED
  BY <1>2, <1>11, <1>12, <1>13, <1>14, <1>15 DEF c

-----------------------------------------------------------------------------
(* The ports: an argument that ports.Parse accepts has the numeral of the   *)
(* container's port, or the host's, a colon and the container's.           *)

(* A number that fits int32 is kept. *)
LEMMA SignedOf ==
    ASSUME NEW n \in Nat, Fits(n)
    PROVE  Signed(n, Int32Bits) = n
<1> DEFINE p == 2 ^ (Int32Bits - 1)
           q == 2 ^ Int32Bits
<1>1. p \in Nat \ {0} /\ q = 2 * p /\ n < p
  BY PowerAssumption DEF Fits
<1>2. Signed(n, Int32Bits) = IF n % q >= p THEN (n % q) - q ELSE n % q
  BY DEF Signed
<1> HIDE DEF p, q
<1>3. q \in Nat \ {0} /\ n < q
  BY <1>1
<1>4. n % q = n
  BY <1>3
<1>5. QED
  BY <1>1, <1>2, <1>4

(* The numerals and their numbers. *)
LEMMA NumberOf ==
    /\ DOMAIN Number = {48, 49, 50, 51}
    /\ \A t \in DOMAIN Number : Number[t] \in Nat
<1>1. 2 ^ Int32Bits \in Nat
  BY PowerAssumption
<1>2. QED
  BY <1>1 DEF Number

(* strconv.Atoi accepts a numeral and nothing else. *)
LEMMA AtoiOf ==
    ASSUME NEW t, Atoi(t).ok
    PROVE  Len(t) = 1 /\ t[1] \in DOMAIN Number /\ Atoi(t).v = Number[t[1]]
BY DEF Atoi, Ok, Error

(* What an argument without its suffix is split into. *)
LEMMA PortParts ==
    ASSUME NEW S, NEW b \in Seq(S),
           Len(Cut(b, Colon)) = 2 => Atoi(Cut(b, Colon)[1]).ok,
           Atoi(Last(Cut(b, Colon))).ok
    PROVE  \/ /\ Len(b) = 1 /\ b[1] \in DOMAIN Number
              /\ Len(Cut(b, Colon)) = 1 /\ Atoi(Last(Cut(b, Colon))).v = Number[b[1]]
           \/ /\ Len(b) = 3 /\ b[1] \in DOMAIN Number /\ b[2] = Colon /\ b[3] \in DOMAIN Number
              /\ Len(Cut(b, Colon)) = 2 /\ Atoi(Last(Cut(b, Colon))).v = Number[b[3]]
              /\ Atoi(Cut(b, Colon)[1]).v = Number[b[1]]
<1>1. CASE Cut(b, Colon) = <<b>>
  <2>1. Len(Cut(b, Colon)) = 1 /\ Last(Cut(b, Colon)) = b
    BY <1>1 DEF Last
  <2>2. QED
    BY <2>1, AtoiOf
<1>2. ASSUME NEW at \in 1 .. Len(b), b[at] = Colon,
             Cut(b, Colon) = <<SubSeq(b, 1, at - 1), SubSeq(b, at + 1, Len(b))>>
      PROVE  /\ Len(b) = 3 /\ b[1] \in DOMAIN Number /\ b[2] = Colon /\ b[3] \in DOMAIN Number
             /\ Len(Cut(b, Colon)) = 2 /\ Atoi(Last(Cut(b, Colon))).v = Number[b[3]]
             /\ Atoi(Cut(b, Colon)[1]).v = Number[b[1]]
  <2> DEFINE u == SubSeq(b, 1, at - 1)
             w == SubSeq(b, at + 1, Len(b))
  <2>0. Len(b) \in Nat
    OBVIOUS
  <2>1. Len(u) = at - 1 /\ \A i \in 1 .. at - 1 : u[i] = b[i]
    BY <2>0, PartOf
  <2>2. Len(w) = Len(b) - at /\ \A i \in 1 .. Len(b) - at : w[i] = b[at + i]
    BY <2>0, PartOf
  <2> HIDE DEF u, w
  <2>3. Cut(b, Colon) = <<u, w>>
    BY <1>2 DEF u, w
  <2>4. Len(Cut(b, Colon)) = 2 /\ Last(Cut(b, Colon)) = w /\ Cut(b, Colon)[1] = u
    BY <2>3 DEF Last
  <2>5. /\ Len(u) = 1 /\ u[1] \in DOMAIN Number /\ Atoi(u).v = Number[u[1]]
        /\ Len(w) = 1 /\ w[1] \in DOMAIN Number /\ Atoi(w).v = Number[w[1]]
    BY <2>4, AtoiOf
  <2>6. at = 2 /\ Len(b) = 3
    <3>1. at - 1 = 1 /\ Len(b) - at = 1
      BY <2>1, <2>2, <2>5
    <3>2. at \in Nat
      BY <2>0
    <3>3. QED
      BY <2>0, <3>1, <3>2
  <2>7. u[1] = b[1] /\ w[1] = b[3]
    BY <2>1, <2>2, <2>6
  <2>8. QED
    BY <1>2, <2>4, <2>5, <2>6, <2>7
<1>3. QED
  <2>1. \/ Cut(b, Colon) = <<b>>
        \/ \E at \in 1 .. Len(b) :
              /\ b[at] = Colon
              /\ Cut(b, Colon) = <<SubSeq(b, 1, at - 1), SubSeq(b, at + 1, Len(b))>>
    BY CutOf
  <2>2. QED
    BY <1>1, <1>2, <2>1

(* What ports.Parse makes of an argument, by the places of its numerals. *)
LEMMA PortOf ==
    ASSUME NEW t \in Texts, ParsePort(t).ok
    PROVE  LET v == ParsePort(t).v
           IN  /\ \/ /\ DOMAIN Numerals(t) = {1}
                     /\ v.container_port = Signed(Number[t[1]], Int32Bits)
                     /\ v.host_port = Signed(0, Int32Bits)
                  \/ /\ DOMAIN Numerals(t) = {1, 3}
                     /\ v.container_port = Signed(Number[t[3]], Int32Bits)
                     /\ v.host_port = Signed(Number[t[1]], Int32Bits)
               /\ v.protocol = "UDP" <=> Contains(t, UdpSuffix)
<1> DEFINE S == 0 .. 255
           suffix == t # <<>> /\ Last(t) \in {TcpSuffix, UdpSuffix}
           b == IF suffix THEN Front(t) ELSE t
           parts == Cut(b, Colon)
           v == ParsePort(t).v
<1>1. t \in Seq(S) /\ Len(t) \in Nat /\ DOMAIN t = 1 .. Len(t)
  BY DEF Texts
<1>2. suffix => Len(t) > 0
  BY <1>1
<1> HIDE DEF S
<1>3. /\ b \in Seq(S) /\ \A i \in 1 .. Len(b) : b[i] = t[i]
      /\ Len(t) = IF suffix THEN Len(b) + 1 ELSE Len(b)
  <2>1. CASE suffix
    <3>1. /\ SubSeq(t, 1, Len(t) - 1) \in Seq(S) /\ Len(SubSeq(t, 1, Len(t) - 1)) = Len(t) - 1
          /\ \A i \in 1 .. Len(t) - 1 : SubSeq(t, 1, Len(t) - 1)[i] = t[i]
      BY <1>1, <1>2, <2>1, PartOf
    <3>2. b = SubSeq(t, 1, Len(t) - 1)
      BY <2>1 DEF Front
    <3> HIDE DEF b
    <3>3. QED
      BY <1>1, <2>1, <3>1, <3>2
  <2>2. CASE ~suffix
    BY <1>1, <2>2
  <2>3. QED
    BY <2>1, <2>2
<1>4. /\ Len(parts) = 2 => Atoi(parts[1]).ok
      /\ Atoi(Last(parts)).ok
      /\ v.container_port = Signed(Atoi(Last(parts)).v, Int32Bits)
      /\ v.host_port = Signed(IF Len(parts) = 2 THEN Atoi(parts[1]).v ELSE 0, Int32Bits)
      /\ v.protocol = IF suffix /\ Last(t) = UdpSuffix THEN "UDP" ELSE "TCP"
  <2>1. SplitN(b, Colon, 2) = parts
    BY DEF SplitN
  <2> DEFINE host == IF Len(parts) = 2 THEN Atoi(parts[1]) ELSE Ok(0)
             container == Atoi(Last(parts))
             record == [protocol |-> IF suffix /\ Last(t) = UdpSuffix THEN "UDP" ELSE "TCP",
                        container_port |-> Signed(container.v, Int32Bits),
                        host_port |-> Signed(host.v, Int32Bits)]
  <2>2. ParsePort(t) = IF host.ok /\ container.ok THEN Ok(record) ELSE Error
    BY <2>1 DEF ParsePort
  <2> HIDE DEF b, parts
  <2>3. host.ok /\ container.ok
    BY <2>2 DEF Error
  <2>4. v = record
    BY <2>2, <2>3 DEF Ok
  <2>5. Ok(0).v = 0
    BY DEF Ok
  <2>6. host.v = IF Len(parts) = 2 THEN Atoi(parts[1]).v ELSE 0
    BY <2>5
  <2> HIDE DEF v
  <2>7. QED
    BY <2>3, <2>4, <2>6
<1> HIDE DEF b, v
<1>5. \/ /\ Len(b) = 1 /\ b[1] \in DOMAIN Number
         /\ Len(parts) = 1 /\ Atoi(Last(parts)).v = Number[b[1]]
      \/ /\ Len(b) = 3 /\ b[1] \in DOMAIN Number /\ b[2] = Colon /\ b[3] \in DOMAIN Number
         /\ Len(parts) = 2 /\ Atoi(Last(parts)).v = Number[b[3]]
         /\ Atoi(parts[1]).v = Number[b[1]]
  BY <1>3, <1>4, PortParts
<1> HIDE DEF parts
<1>6. DOMAIN Number \cap {Colon, TcpSuffix, UdpSuffix} = {} /\ Colon # UdpSuffix
  BY NumberOf DEF Colon, TcpSuffix, UdpSuffix
<1>7. \A i \in 1 .. Len(b) : b[i] # UdpSuffix
  BY <1>5, <1>6
<1>8. Contains(t, UdpSuffix) <=> (suffix /\ Last(t) = UdpSuffix)
  <2>1. ASSUME NEW i \in 1 .. Len(t), t[i] = UdpSuffix
        PROVE  suffix /\ Last(t) = UdpSuffix
    <3>1. i \notin 1 .. Len(b)
      BY <1>3, <1>7, <2>1
    <3>2. suffix /\ i = Len(t)
      BY <1>1, <1>3, <3>1
    <3>3. QED
      BY <2>1, <3>2 DEF Last
  <2>2. suffix => Len(t) \in 1 .. Len(t)
    BY <1>1, <1>2
  <2>3. QED
    BY <2>1, <2>2 DEF Contains, Last
<1>9. DOMAIN Numerals(t) = {n \in 1 .. Len(b) : b[n] \in DOMAIN Number}
  <2>1. DOMAIN Numerals(t) = {n \in 1 .. Len(t) : t[n] \in DOMAIN Number}
    BY <1>1 DEF Numerals
  <2>2. suffix => t[Len(t)] \notin DOMAIN Number
    BY <1>6 DEF Last
  <2>3. Len(b) \in Nat
    BY <1>3
  <2> HIDE DEF suffix
  <2>4. \A n \in 1 .. Len(t) : n \in 1 .. Len(b) \/ (suffix /\ n = Len(t))
    BY <1>3, <2>3
  <2>5. 1 .. Len(b) \subseteq 1 .. Len(t)
    BY <1>3, <2>3
  <2>6. QED
    BY <1>3, <2>1, <2>2, <2>4, <2>5
<1>10. v.protocol = "UDP" <=> Contains(t, UdpSuffix)
  BY <1>4, <1>8
<1>11. CASE Len(b) = 1 /\ Len(parts) = 1
  <2>1. DOMAIN Numerals(t) = {1} /\ b[1] = t[1]
    BY <1>3, <1>5, <1>9, <1>11
  <2>2. v.container_port = Signed(Number[t[1]], Int32Bits) /\ v.host_port = Signed(0, Int32Bits)
    BY <1>4, <1>5, <1>11, <2>1
  <2>3. QED
    BY <1>10, <2>1, <2>2 DEF v
<1>12. CASE Len(b) = 3 /\ Len(parts) = 2
  <2>1. DOMAIN Numerals(t) = {1, 3} /\ b[1] = t[1] /\ b[3] = t[3]
    BY <1>3, <1>5, <1>6, <1>9, <1>12
  <2>2. /\ v.container_port = Signed(Number[t[3]], Int32Bits)
        /\ v.host_port = Signed(Number[t[1]], Int32Bits)
    BY <1>4, <1>5, <1>12, <2>1
  <2>3. QED
    BY <1>10, <2>1, <2>2 DEF v
<1>13. QED
  BY <1>5, <1>11, <1>12

(* The greatest of the places of the numerals. *)
LEMMA GreatestOf ==
    /\ (CHOOSE n \in {1} : \A o \in {1} : o <= n) = 1
    /\ (CHOOSE n \in {1, 3} : \A o \in {1, 3} : o <= n) = 3
OBVIOUS

(* One --publish argument, as PortsAsAsked says it. *)
LEMMA PortShown ==
    ASSUME NEW t \in Texts, ParsePort(t).ok
    PROVE  LET v == ParsePort(t).v
               nums == Numerals(t)
               last == CHOOSE n \in DOMAIN nums : \A o \in DOMAIN nums : o <= n
           IN  /\ Fits(nums[last]) => v.container_port = nums[last]
               /\ \A n \in DOMAIN nums \ {last} : Fits(nums[n]) => v.host_port = nums[n]
               /\ DOMAIN nums = {last} => v.host_port = 0
<1> DEFINE v == ParsePort(t).v
           nums == Numerals(t)
           last == CHOOSE n \in DOMAIN nums : \A o \in DOMAIN nums : o <= n
<1>1. \A n \in DOMAIN nums : nums[n] = Number[t[n]] /\ Number[t[n]] \in Nat
  BY NumberOf DEF Numerals
<1>2. \A n \in DOMAIN nums : Fits(nums[n]) => Signed(Number[t[n]], Int32Bits) = nums[n]
  BY <1>1, SignedOf
<1>3. Signed(0, Int32Bits) = 0
  <2>1. Fits(0)
    BY PowerAssumption DEF Fits
  <2>2. QED
    BY <2>1, SignedOf
<1>4. \/ /\ DOMAIN nums = {1}
         /\ v.container_port = Signed(Number[t[1]], Int32Bits)
         /\ v.host_port = Signed(0, Int32Bits)
      \/ /\ DOMAIN nums = {1, 3}
         /\ v.container_port = Signed(Number[t[3]], Int32Bits)
         /\ v.host_port = Signed(Number[t[1]], Int32Bits)
  BY PortOf
<1>5. /\ DOMAIN nums = {1} => last = 1
      /\ DOMAIN nums = {1, 3} => last = 3
  BY GreatestOf
<1> HIDE DEF v, nums, last
<1>6. /\ Fits(nums[last]) => v.container_port = nums[last]
      /\ \A n \in DOMAIN nums \ {last} : Fits(nums[n]) => v.host_port = nums[n]
      /\ DOMAIN nums = {last} => v.host_port = 0
  <2>1. CASE DOMAIN nums = {1}
    BY <1>2, <1>3, <1>4, <1>5, <2>1
  <2>2. CASE DOMAIN nums = {1, 3}
    BY <1>2, <1>4, <1>5, <2>2
  <2>3. QED
    BY <1>4, <2>1, <2>2
<1>7. QED
  BY <1>6 DEF v, nums, last

(* The ports that inspect shows. *)
LEMMA PortsShown ==
    ASSUME Exchange, Command
    PROVE  PortsAsAsked
<1>1. SUFFICES ASSUME Inspected
               PROVE  /\ Len(ShownContainer.ports) = Len(cmd.flags.publish)
                      /\ \A k \in DOMAIN cmd.flags.publish :
                            LET arg == cmd.flags.publish[k]
                                nums == Numerals(arg)
                                last == CHOOSE n \in DOMAIN nums : \A o \in DOMAIN nums : o <= n
                                shown == ShownContainer.ports[k]
                            IN  /\ Fits(nums[last]) => shown.container = nums[last]
                                /\ \A n \in DOMAIN nums \ {last} :
                                      Fits(nums[n]) => shown.host = nums[n]
                                /\ DOMAIN nums = {last} => shown.host = 0
                                /\ shown.udp <=> Contains(arg, UdpSuffix)
  BY DEF PortsAsAsked
<1> DEFINE c == cmd.flags
           pod == PodCfg(c).v
           con == ConCfg(c).v
<1>2. /\ c \in Commands /\ toPodOptions(c).ok /\ toContainerOptions(c).ok /\ PodCfg(c).ok
      /\ ShownContainer = toContainer(pod, con)
  BY <1>1, InspectedOf
<1>3. /\ \A k \in DOMAIN c.publish : ParsePort(c.publish[k]).ok
      /\ PodOpts(c).port_mappings =
            [k \in DOMAIN c.publish |-> Extern(ParsePort(c.publish[k]).v)]
  BY <1>2, PodOptionsOf
<1>4. pod.ports = PodOpts(c).port_mappings
  BY <1>2 DEF PodCfg, PodSandboxConfig, Ok, Error
<1>5. ShownContainer.ports =
         [k \in DOMAIN pod.ports |->
             [host |-> Content(pod.ports[k]).host_port,
              container |-> Content(pod.ports[k]).container_port,
              udp |-> Content(pod.ports[k]).protocol = "UDP"]]
  BY <1>2 DEF toContainer
<1> HIDE DEF pod, con
<1>6. /\ DOMAIN pod.ports = DOMAIN c.publish
      /\ \A k \in DOMAIN c.publish : Content(pod.ports[k]) = ParsePort(c.publish[k]).v
  BY <1>3, <1>4 DEF Extern, Content
<1>7. c.publish \in Seq(Texts)
  BY <1>2, CommandsAssumption
<1>8. Len(ShownContainer.ports) = Len(c.publish)
  <2>1. DOMAIN pod.ports = 1 .. Len(c.publish) /\ Len(c.publish) \in Nat
    BY <1>6, <1>7
  <2>2. QED
    BY <1>5, <2>1
<1>9. ASSUME NEW k \in DOMAIN c.publish
      PROVE  LET arg == c.publish[k]
                 nums == Numerals(arg)
                 last == CHOOSE n \in DOMAIN nums : \A o \in DOMAIN nums : o <= n
                 shown == ShownContainer.ports[k]
             IN  /\ Fits(nums[last]) => shown.container = nums[last]
                 /\ \A n \in DOMAIN nums \ {last} : Fits(nums[n]) => shown.host = nums[n]
                 /\ DOMAIN nums = {last} => shown.host = 0
                 /\ shown.udp <=> Contains(arg, UdpSuffix)
  <2> DEFINE arg == c.publish[k]
             v == ParsePort(arg).v
             nums == Numerals(arg)
             last == CHOOSE n \in DOMAIN nums : \A o \in DOMAIN nums : o <= n
             shown == ShownContainer.ports[k]
  <2>1. shown.host = v.host_port /\ shown.container = v.container_port
        /\ (shown.udp <=> v.protocol = "UDP")
    <3>1. shown = [host |-> Content(pod.ports[k]).host_port,
                   container |-> Content(pod.ports[k]).container_port,
                   udp |-> Content(pod.ports[k]).protocol = "UDP"]
      BY <1>5, <1>6
    <3>2. Content(pod.ports[k]) = v
      BY <1>6
    <3> HIDE DEF shown, v
    <3>3. shown.udp = (v.protocol = "UDP")
      BY <3>1, <3>2
    <3>4. QED
      BY <3>1, <3>2, <3>3
  <2>2. arg \in Texts /\ ParsePort(arg).ok
    BY <1>3, <1>7
  <2> HIDE DEF arg, shown
  <2>3. /\ Fits(nums[last]) => v.container_port = nums[last]
        /\ \A n \in DOMAIN nums \ {last} : Fits(nums[n]) => v.host_port = nums[n]
        /\ DOMAIN nums = {last} => v.host_port = 0
    BY <2>2, PortShown
  <2>4. v.protocol = "UDP" <=> Contains(arg, UdpSuffix)
    BY <2>2, PortOf
  <2> HIDE DEF v, nums, last
  <2>5. /\ Fits(nums[last]) => shown.container = nums[last]
        /\ \A n \in DOMAIN nums \ {last} : Fits(nums[n]) => shown.host = nums[n]
        /\ DOMAIN nums = {last} => shown.host = 0
        /\ shown.udp <=> Contains(arg, UdpSuffix)
    BY <2>1, <2>3, <2>4
  <2>6. QED
    BY <2>5 DEF arg, shown, nums, last
<1>10. QED
  BY <1>8, <1>9

-----------------------------------------------------------------------------
(* The mounts. *)

LEMMA Tuples ==
    /\ \A a, u : <<a>> \o <<u>> = <<a, u>>
    /\ \A a, u, w : <<a>> \o <<u, w>> = <<a, u, w>>
<1>1. ASSUME NEW a, NEW u PROVE <<a>> \o <<u>> = <<a, u>>
  <2> DEFINE S == {a, u}
             s == <<a>> \o <<u>>
             t == <<a, u>>
  <2>1. /\ <<a>> \in Seq(S) /\ <<u>> \in Seq(S) /\ t \in Seq(S)
        /\ Len(t) = 2 /\ t[1] = a /\ t[2] = u
    OBVIOUS
  <2>2. s \in Seq(S) /\ Len(s) = 2 /\ s[1] = a /\ s[2] = u
    BY <2>1, ConcatProperties
  <2> HIDE DEF S, s, t
  <2>3. Len(s) = Len(t) /\ \A i \in 1 .. Len(s) : s[i] = t[i]
    BY <2>1, <2>2
  <2>4. s = t
    BY <2>1, <2>2, <2>3, SeqEqual
  <2>5. QED
    BY <2>4 DEF s, t
<1>2. ASSUME NEW a, NEW u, NEW w PROVE <<a>> \o <<u, w>> = <<a, u, w>>
  <2> DEFINE S == {a, u, w}
             s == <<a>> \o <<u, w>>
             t == <<a, u, w>>
  <2>1. /\ <<a>> \in Seq(S) /\ <<u, w>> \in Seq(S) /\ t \in Seq(S)
        /\ Len(t) = 3 /\ t[1] = a /\ t[2] = u /\ t[3] = w
    OBVIOUS
  <2>2. s \in Seq(S) /\ Len(s) = 3 /\ s[1] = a /\ s[2] = u /\ s[3] = w
    BY <2>1, ConcatProperties
  <2> HIDE DEF S, s, t
  <2>3. Len(s) = Len(t) /\ \A i \in 1 .. Len(s) : s[i] = t[i]
    BY <2>1, <2>2
  <2>4. s = t
    BY <2>1, <2>2, <2>3, SeqEqual
  <2>5. QED
    BY <2>4 DEF s, t
<1>3. QED
  BY <1>1, <1>2

(* How many parts there are, and the place before the last. *)
LEMMA Counts ==
    /\ \A n \in {1, 2, 3} : n > 1 => n \in {2, 3}
    /\ \A n \in {2, 3} : n > 1 /\ n \in {1, 2, 3} /\ n # 1 /\ n - 1 \in {1, 2}
    /\ \A n \in {1, 2, 3} : n \in 1 .. n
    /\ \A n \in Nat : \A r \in 1 .. n : n - r = 1 => r = n - 1 /\ n > 1
OBVIOUS

(* strings.SplitN(t, ":", 3): up to three texts, and the last of several is *)
(* what follows a colon of t, without another colon when it is the second. *)
LEMMA SplitOf ==
    ASSUME NEW t \in Texts
    PROVE  LET parts == SplitN(t, Colon, 3)
           IN  /\ parts \in Seq(Texts) /\ Len(parts) \in {1, 2, 3}
               /\ Len(parts) = 1 => \A i \in 1 .. Len(t) : t[i] # Colon
               /\ Len(parts) > 1 =>
                     \E r \in 1 .. Len(t) :
                        /\ t[r] = Colon
                        /\ Len(Last(parts)) = Len(t) - r
                        /\ \A i \in 1 .. Len(t) - r : Last(parts)[i] = t[r + i]
                        /\ Len(parts) = 2 => \A i \in r + 1 .. Len(t) : t[i] # Colon
<1> DEFINE S == 0 .. 255
           parts == SplitN(t, Colon, 3)
<1>1. t \in Seq(S) /\ Len(t) \in Nat /\ Texts = Seq(S)
  BY DEF Texts
<1> HIDE DEF S
<1>2. parts = IF Len(Cut(t, Colon)) = 1 THEN Cut(t, Colon)
              ELSE <<Cut(t, Colon)[1]>> \o Cut(Cut(t, Colon)[2], Colon)
  BY DEF SplitN, CutRest
<1> SUFFICES /\ parts \in Seq(Texts) /\ Len(parts) \in {1, 2, 3}
             /\ Len(parts) = 1 => \A i \in 1 .. Len(t) : t[i] # Colon
             /\ Len(parts) > 1 =>
                   \E r \in 1 .. Len(t) :
                      /\ t[r] = Colon
                      /\ Len(Last(parts)) = Len(t) - r
                      /\ \A i \in 1 .. Len(t) - r : Last(parts)[i] = t[r + i]
                      /\ Len(parts) = 2 => \A i \in r + 1 .. Len(t) : t[i] # Colon
  OBVIOUS
<1> HIDE DEF parts
<1>3. CASE (\A i \in 1 .. Len(t) : t[i] # Colon) /\ Cut(t, Colon) = <<t>>
  <2>1. parts = <<t>> /\ Len(parts) = 1
    BY <1>2, <1>3
  <2>2. parts \in Seq(Texts)
    BY <2>1
  <2>3. QED
    BY <1>3, <2>1, <2>2
<1>4. ASSUME NEW p \in 1 .. Len(t), t[p] = Colon,
             Cut(t, Colon) = <<SubSeq(t, 1, p - 1), SubSeq(t, p + 1, Len(t))>>
      PROVE  /\ parts \in Seq(Texts) /\ Len(parts) \in {2, 3}
             /\ \E r \in 1 .. Len(t) :
                   /\ t[r] = Colon
                   /\ Len(Last(parts)) = Len(t) - r
                   /\ \A i \in 1 .. Len(t) - r : Last(parts)[i] = t[r + i]
                   /\ Len(parts) = 2 => \A i \in r + 1 .. Len(t) : t[i] # Colon
  <2> DEFINE a == SubSeq(t, 1, p - 1)
             u == SubSeq(t, p + 1, Len(t))
  <2>1. p \in Nat \ {0} /\ p <= Len(t)
    BY <1>1
  <2>2. a \in Texts
    BY <1>1, <2>1, PartOf
  <2>3. /\ u \in Seq(S) /\ Len(u) = Len(t) - p
        /\ \A i \in 1 .. Len(t) - p : u[i] = t[p + i]
    BY <1>1, <2>1, PartOf
  <2>4. parts = <<a>> \o Cut(u, Colon)
    BY <1>2, <1>4
  <2> HIDE DEF a, u
  <2>5. CASE (\A i \in 1 .. Len(u) : u[i] # Colon) /\ Cut(u, Colon) = <<u>>
    <3>1. parts = <<a, u>>
      BY <2>4, <2>5, Tuples
    <3>2. parts \in Seq(Texts) /\ Len(parts) = 2 /\ Last(parts) = u
      BY <1>1, <2>2, <2>3, <3>1 DEF Last
    <3>3. \A i \in p + 1 .. Len(t) : t[i] # Colon
      <4>1. TAKE i \in p + 1 .. Len(t)
      <4>2. i - p \in 1 .. Len(t) - p /\ p + (i - p) = i
        BY <1>1, <2>1
      <4>3. QED
        BY <2>3, <2>5, <4>2
    <3>4. QED
      <4>1. /\ t[p] = Colon /\ Len(Last(parts)) = Len(t) - p
            /\ \A i \in 1 .. Len(t) - p : Last(parts)[i] = t[p + i]
        BY <1>4, <2>3, <3>2
      <4>2. Len(parts) \in {2, 3}
        BY <3>2
      <4>3. QED
        BY <3>2, <3>3, <4>1, <4>2
  <2>6. ASSUME NEW at \in 1 .. Len(u), u[at] = Colon,
               Cut(u, Colon) = <<SubSeq(u, 1, at - 1), SubSeq(u, at + 1, Len(u))>>
        PROVE  /\ parts \in Seq(Texts) /\ Len(parts) = 3
               /\ \E r \in 1 .. Len(t) :
                     /\ t[r] = Colon
                     /\ Len(Last(parts)) = Len(t) - r
                     /\ \A i \in 1 .. Len(t) - r : Last(parts)[i] = t[r + i]
    <3> DEFINE b == SubSeq(u, 1, at - 1)
               w == SubSeq(u, at + 1, Len(u))
               r == p + at
    <3>1. at \in Nat \ {0} /\ at <= Len(u) /\ Len(u) \in Nat
      BY <2>3
    <3>2. b \in Texts
      BY <1>1, <2>3, <3>1, PartOf
    <3>3. /\ w \in Texts /\ Len(w) = Len(u) - at
          /\ \A i \in 1 .. Len(u) - at : w[i] = u[at + i]
      <4>1. /\ at + 1 \in Int /\ Len(u) \in Int /\ 1 <= at + 1 /\ Len(u) <= Len(u)
            /\ Len(u) - (at + 1) + 1 = Len(u) - at
            /\ at + 1 > Len(u) => Len(u) - at = 0
        BY <3>1
      <4>2. /\ w \in Seq(S) /\ Len(w) = IF at + 1 <= Len(u) THEN Len(u) - (at + 1) + 1 ELSE 0
            /\ \A i \in 1 .. Len(u) - (at + 1) + 1 : w[i] = u[at + 1 + i - 1]
        BY <2>3, <4>1, PartOf
      <4> HIDE DEF w
      <4>3. \A i \in 1 .. Len(u) - at : at + 1 + i - 1 = at + i
        BY <3>1
      <4>4. Len(w) = Len(u) - at
        <5>1. \A n, i \in Nat : i <= n =>
                 (IF i + 1 <= n THEN n - (i + 1) + 1 ELSE 0) = n - i
          OBVIOUS
        <5>2. QED
          BY <3>1, <4>2, <5>1
      <4>5. \A i \in 1 .. Len(u) - at : w[i] = u[at + i]
        BY <4>1, <4>2, <4>3
      <4>6. QED
        BY <1>1, <4>2, <4>4, <4>5
    <3>4. parts = <<a, b, w>>
      BY <2>4, <2>6, Tuples
    <3> HIDE DEF b, w
    <3>5. parts \in Seq(Texts) /\ Len(parts) = 3 /\ Last(parts) = w
      BY <2>2, <3>2, <3>3, <3>4 DEF Last
    <3>6. r \in 1 .. Len(t) /\ Len(t) - r = Len(u) - at
      BY <1>1, <2>1, <2>3, <3>1
    <3>7. t[r] = Colon
      BY <2>3, <2>6, <3>1
    <3>8. \A i \in 1 .. Len(t) - r : w[i] = t[r + i]
      <4>1. TAKE i \in 1 .. Len(t) - r
      <4>2. i \in 1 .. Len(u) - at /\ at + i \in 1 .. Len(t) - p /\ p + (at + i) = r + i
        BY <1>1, <2>1, <2>3, <3>1, <3>6
      <4>3. QED
        BY <2>3, <3>3, <4>2
    <3> HIDE DEF r
    <3>9. QED
      BY <3>3, <3>5, <3>6, <3>7, <3>8
  <2>7. \/ (\A i \in 1 .. Len(u) : u[i] # Colon) /\ Cut(u, Colon) = <<u>>
        \/ \E at \in 1 .. Len(u) :
              /\ u[at] = Colon
              /\ Cut(u, Colon) = <<SubSeq(u, 1, at - 1), SubSeq(u, at + 1, Len(u))>>
    BY <2>3, CutOf
  <2>8. CASE \E at \in 1 .. Len(u) :
                /\ u[at] = Colon
                /\ Cut(u, Colon) = <<SubSeq(u, 1, at - 1), SubSeq(u, at + 1, Len(u))>>
    <3>1. PICK at \in 1 .. Len(u) :
                /\ u[at] = Colon
                /\ Cut(u, Colon) = <<SubSeq(u, 1, at - 1), SubSeq(u, at + 1, Len(u))>>
      BY <2>8
    <3>2. /\ parts \in Seq(Texts) /\ Len(parts) = 3
          /\ \E r \in 1 .. Len(t) :
                /\ t[r] = Colon
                /\ Len(Last(parts)) = Len(t) - r
                /\ \A i \in 1 .. Len(t) - r : Last(parts)[i] = t[r + i]
      BY <2>6, <3>1
    <3>3. Len(parts) \in {2, 3} /\ Len(parts) # 2
      BY <3>2
    <3>4. QED
      BY <3>2, <3>3
  <2>9. QED
    BY <2>5, <2>7, <2>8
<1>5. \/ (\A i \in 1 .. Len(t) : t[i] # Colon) /\ Cut(t, Colon) = <<t>>
      \/ \E p \in 1 .. Len(t) :
            t[p] = Colon /\ Cut(t, Colon) = <<SubSeq(t, 1, p - 1), SubSeq(t, p + 1, Len(t))>>
  BY <1>1, CutOf
<1>6. CASE \E p \in 1 .. Len(t) :
              t[p] = Colon /\ Cut(t, Colon) = <<SubSeq(t, 1, p - 1), SubSeq(t, p + 1, Len(t))>>
  <2>1. PICK p \in 1 .. Len(t) :
           t[p] = Colon /\ Cut(t, Colon) = <<SubSeq(t, 1, p - 1), SubSeq(t, p + 1, Len(t))>>
    BY <1>6
  <2>2. /\ parts \in Seq(Texts) /\ Len(parts) \in {2, 3}
        /\ \E r \in 1 .. Len(t) :
              /\ t[r] = Colon
              /\ Len(Last(parts)) = Len(t) - r
              /\ \A i \in 1 .. Len(t) - r : Last(parts)[i] = t[r + i]
              /\ Len(parts) = 2 => \A i \in r + 1 .. Len(t) : t[i] # Colon
    BY <1>4, <2>1
  <2>3. Len(parts) \in {1, 2, 3} /\ Len(parts) # 1
    BY <2>2, Counts
  <2>4. QED
    BY <2>2, <2>3
<1>7. QED
  BY <1>3, <1>5, <1>6

(* The words of a --volume argument, without its mode. *)
HasMode(t) ==
    LET parts == SplitN(t, Colon, 3) IN Len(parts) > 1 /\ Last(parts) \in {<<Ro>>, <<Rw>>}
Words(t) ==
    LET parts == SplitN(t, Colon, 3) IN IF HasMode(t) THEN Front(parts) ELSE parts

(* The words are texts, one to three of them. *)
LEMMA WordsOf ==
    ASSUME NEW t \in Texts
    PROVE  /\ Words(t) \in Seq(Texts) /\ Len(Words(t)) \in {1, 2, 3}
           /\ HasMode(t) => Len(Words(t)) # 3
           /\ ~HasMode(t) => Len(Words(t)) = Len(SplitN(t, Colon, 3))
<1> DEFINE parts == SplitN(t, Colon, 3)
<1>1. parts \in Seq(Texts) /\ Len(parts) \in {1, 2, 3}
  BY SplitOf
<1>2. /\ Words(t) = IF HasMode(t) THEN Front(parts) ELSE parts
      /\ HasMode(t) => Len(parts) > 1
  BY DEF Words, HasMode
<1> HIDE DEF parts
<1>3. CASE HasMode(t)
  <2>1. Len(parts) \in {2, 3}
    BY <1>1, <1>2, <1>3, Counts
  <2>2. /\ SubSeq(parts, 1, Len(parts) - 1) \in Seq(Texts)
        /\ Len(SubSeq(parts, 1, Len(parts) - 1)) = Len(parts) - 1
    BY <1>1, <2>1, PartOf
  <2>3. Words(t) = SubSeq(parts, 1, Len(parts) - 1)
    BY <1>2, <1>3 DEF Front
  <2>4. Len(Words(t)) \in {1, 2}
    BY <2>1, <2>2, <2>3, Counts
  <2>5. Len(Words(t)) \in {1, 2, 3} /\ Len(Words(t)) # 3
    <3>1. \A n \in {1, 2} : n \in {1, 2, 3} /\ n # 3
      OBVIOUS
    <3>2. QED
      BY <2>4, <3>1
  <2>6. Words(t) \in Seq(Texts)
    BY <2>2, <2>3
  <2>7. QED
    BY <1>3, <2>5, <2>6
<1>4. CASE ~HasMode(t)
  BY <1>1, <1>2, <1>4 DEF parts
<1>5. QED
  BY <1>3, <1>4

(* What volumes.Parse makes of an argument that it accepts. *)
LEMMA VolumeOf ==
    ASSUME NEW t \in Texts, ParseVolume(t).ok
    PROVE  LET v == ParseVolume(t).v
           IN  /\ Len(Words(t)) \in {1, 2}
               /\ v = [f \in {"container_path", "host_path", "readonly"} |-> v[f]]
               /\ v.container_path = Last(Words(t))
               /\ v.host_path = IF Len(Words(t)) = 2 THEN Words(t)[1] ELSE <<>>
               /\ v.host_path \in Texts
               /\ v.readonly <=> (HasMode(t) /\ Last(SplitN(t, Colon, 3)) = <<Ro>>)
<1> DEFINE v == ParseVolume(t).v
           parts == SplitN(t, Colon, 3)
           record == [container_path |-> Last(Words(t)),
                      host_path |-> IF Len(Words(t)) = 2 THEN Words(t)[1] ELSE <<>>,
                      readonly |-> HasMode(t) /\ Last(parts) = <<Ro>>]
<1>1. ParseVolume(t) = IF Len(Words(t)) = 3 THEN Error ELSE Ok(record)
  BY DEF ParseVolume, Words, HasMode
<1>2. Words(t) \in Seq(Texts) /\ Len(Words(t)) \in {1, 2, 3}
  BY WordsOf
<1>3. Len(Words(t)) # 3
  BY <1>1 DEF Error
<1>4. v = record
  BY <1>1, <1>3 DEF Ok
<1>5. Len(Words(t)) \in {1, 2}
  BY <1>2, <1>3
<1>6. (IF Len(Words(t)) = 2 THEN Words(t)[1] ELSE <<>>) \in Texts
  <2>1. Len(Words(t)) = 2 => Words(t)[1] \in Texts
    BY <1>2
  <2>2. <<>> \in Texts
    BY DEF Texts
  <2>3. QED
    BY <2>1, <2>2
<1> HIDE DEF v
<1>7. v = [f \in {"container_path", "host_path", "readonly"} |-> v[f]]
  BY <1>4
<1>8. v.readonly = (HasMode(t) /\ Last(parts) = <<Ro>>)
  BY <1>4
<1>9. /\ v.container_path = Last(Words(t))
      /\ v.host_path = IF Len(Words(t)) = 2 THEN Words(t)[1] ELSE <<>>
  BY <1>4
<1>10. QED
  BY <1>5, <1>6, <1>7, <1>8, <1>9 DEF v

(* A mount is read only if and only if its argument ends in ":ro". *)
LEMMA ReadOnlyOf ==
    ASSUME NEW t \in Texts, ParseVolume(t).ok
    PROVE  (HasMode(t) /\ Last(SplitN(t, Colon, 3)) = <<Ro>>) <=> EndsReadOnly(t)
<1> DEFINE parts == SplitN(t, Colon, 3)
           last == Last(parts)
<1>1. /\ parts \in Seq(Texts) /\ Len(parts) \in {1, 2, 3}
      /\ Len(parts) = 1 => \A i \in 1 .. Len(t) : t[i] # Colon
  BY SplitOf
<1>2. Len(t) \in Nat
  BY DEF Texts
<1>3. HasMode(t) <=> Len(parts) > 1 /\ last \in {<<Ro>>, <<Rw>>}
  BY DEF HasMode
<1>4. EndsReadOnly(t) <=> Len(t) > 1 /\ t[Len(t)] = Ro /\ t[Len(t) - 1] = Colon
  BY DEF EndsReadOnly, Last
<1>5. Ro # Colon /\ Ro # Rw /\ Rw # Colon
  BY DEF Ro, Rw, Colon
<1>6. Len(parts) = 3 => HasMode(t)
  <2>1. Len(Words(t)) \in {1, 2}
    BY VolumeOf
  <2>2. QED
    <3>1. Len(Words(t)) # 3
      BY <2>1
    <3>2. HasMode(t) \/ Len(Words(t)) = Len(parts)
      BY WordsOf
    <3>3. QED
      BY <3>1, <3>2
<1>7. ASSUME Len(parts) > 1
      PROVE  \E r \in 1 .. Len(t) :
                /\ t[r] = Colon
                /\ Len(last) = Len(t) - r
                /\ \A i \in 1 .. Len(t) - r : last[i] = t[r + i]
                /\ Len(parts) = 2 => \A i \in r + 1 .. Len(t) : t[i] # Colon
  BY <1>7, SplitOf
<1>8. last \in Texts
  <2>1. Len(parts) \in 1 .. Len(parts)
    BY <1>1, Counts
  <2>2. QED
    BY <1>1, <2>1, ElementOfSeq DEF Last
<1> HIDE DEF parts, last
<1>9. \A x : last = <<x>> <=> Len(last) = 1 /\ last[1] = x
  <2>1. Len(last) = 1 => last = <<last[1]>>
    BY <1>8, OneToken DEF Texts
  <2>2. QED
    BY <2>1
<1>10. ASSUME HasMode(t), last = <<Ro>>
       PROVE  EndsReadOnly(t)
  <2>1. PICK r \in 1 .. Len(t) :
           /\ t[r] = Colon /\ Len(last) = Len(t) - r
           /\ \A i \in 1 .. Len(t) - r : last[i] = t[r + i]
    BY <1>3, <1>7, <1>10
  <2>2. Len(last) = 1 /\ last[1] = Ro
    BY <1>10
  <2>3. r = Len(t) - 1
    <3>1. Len(t) - r = 1
      BY <2>1, <2>2
    <3>2. QED
      BY <1>2, <3>1, Counts
  <2>4. t[Len(t)] = Ro /\ Len(t) > 1
    BY <1>2, <2>1, <2>2, <2>3
  <2>5. QED
    BY <1>4, <2>1, <2>3, <2>4
<1>11. ASSUME EndsReadOnly(t)
       PROVE  HasMode(t) /\ last = <<Ro>>
  <2>1. Len(t) > 1 /\ t[Len(t)] = Ro /\ t[Len(t) - 1] = Colon
    BY <1>4, <1>11
  <2>2. Len(t) - 1 \in 1 .. Len(t)
    BY <1>2, <2>1
  <2>3. Len(parts) \in {2, 3}
    BY <1>1, <2>1, <2>2
  <2>4. PICK r \in 1 .. Len(t) :
           /\ t[r] = Colon /\ Len(last) = Len(t) - r
           /\ \A i \in 1 .. Len(t) - r : last[i] = t[r + i]
           /\ Len(parts) = 2 => \A i \in r + 1 .. Len(t) : t[i] # Colon
    <3>1. Len(parts) > 1
      BY <2>3, Counts
    <3>2. QED
      BY <1>7, <3>1
  <2>5. r = Len(t) - 1
    <3>1. r # Len(t)
      BY <1>5, <2>1, <2>4
    <3>2. CASE Len(parts) = 2
      <4>1. Len(t) - 1 \notin r + 1 .. Len(t)
        BY <2>1, <2>4, <3>2
      <4>2. QED
        BY <1>2, <3>1, <4>1
    <3>3. CASE Len(parts) = 3
      <4>1. Len(last) = 1
        BY <1>3, <1>6, <1>9, <3>3
      <4>2. QED
        <5>1. Len(t) - r = 1
          BY <2>4, <4>1
        <5>2. QED
          BY <1>2, <5>1, Counts
    <3>4. QED
      BY <2>3, <3>2, <3>3
  <2>6. Len(last) = 1 /\ last[1] = Ro
    BY <1>2, <2>1, <2>4, <2>5
  <2>7. last = <<Ro>>
    BY <1>9, <2>6
  <2>8. Len(parts) > 1
    BY <2>3, Counts
  <2>9. HasMode(t)
    BY <1>3, <2>7, <2>8
  <2>10. QED
    BY <2>7, <2>9
<1>12. QED
  BY <1>10, <1>11 DEF last, parts

(* The name under which the mount of t, number k, is shown. *)
Source(t) == ParseVolume(t).v.host_path
VolumeName(t, k) ==
    IF Source(t) = <<>> THEN <<Anonymous(k)>>
    ELSE IF IsVolume(Source(t)) THEN Base(Source(t)) ELSE Digest(Source(t))

LEMMA MaxOf ==
    ASSUME NEW n \in Nat, NEW S \in SUBSET (1 .. n), S # {}
    PROVE  Max(S) \in S /\ \A i \in S : i <= Max(S)
<1> DEFINE R == {n - i : i \in S}
<1>1. R \in SUBSET Nat /\ R # {}
  <2>1. \A i \in S : i \in 1 .. n
    OBVIOUS
  <2>2. \A i \in S : n - i \in Nat
    BY <2>1
  <2>3. QED
    BY <2>2
<1>2. Min(R) \in R /\ \A r \in R : Min(R) <= r
  BY <1>1, MinOf
<1>3. PICK x \in S : Min(R) = n - x
  BY <1>2
<1>4. \A i \in S : i <= x
  <2>1. TAKE i \in S
  <2>2. n - x <= n - i
    BY <1>2, <1>3
  <2>3. QED
    BY <2>2
<1>5. QED
  BY <1>4 DEF Max

(* filepath.Base: where the last element ends and where it begins. *)
LEMMA BaseAt ==
    ASSUME NEW T, NEW p \in Seq(T)
    PROVE  \E first \in 1 .. Len(p) + 1, end \in 0 .. Len(p) :
              /\ Base(p) = SubSeq(p, first, end)
              /\ \A e \in 1 .. Len(p) :
                    p[e] # Slash /\ (\A i \in e + 1 .. Len(p) : p[i] = Slash) => end = e
              /\ \A a \in 0 .. Len(p) :
                    /\ a = 0 \/ (a > 0 /\ p[a] = Slash)
                    /\ a < end
                    /\ \A i \in a + 1 .. end : p[i] \notin Slashed
                    => first = a + 1
<1> DEFINE E == {i \in 1 .. Len(p) : p[i] # Slash}
           end == SelectLastInSeq(p, LAMBDA c : c # Slash)
           q == SubSeq(p, 1, end)
           A == {i \in 1 .. Len(q) : q[i] \in Slashed}
           at == SelectLastInSeq(q, LAMBDA c : c \in Slashed)
           first == IF at > 0 /\ p[at] # Slash THEN at ELSE at + 1
<1>1. end = IF E # {} THEN Max(E) ELSE 0
  BY DEF SelectLastInSeq
<1>2. at = IF A # {} THEN Max(A) ELSE 0
  BY DEF SelectLastInSeq
<1>3. Base(p) = SubSeq(p, first, end)
  BY DEF Base
<1>4. Len(p) \in Nat
  OBVIOUS
<1> HIDE DEF end, at
<1>5. E # {} => Max(E) \in E /\ \A i \in E : i <= Max(E)
  <2>1. E \in SUBSET (1 .. Len(p))
    OBVIOUS
  <2>2. QED
    BY <1>4, <2>1, MaxOf
<1>6. /\ end \in 0 .. Len(p)
      /\ end > 0 => p[end] # Slash
      /\ \A i \in end + 1 .. Len(p) : p[i] = Slash
  <2>1. CASE E = {}
    BY <1>1, <1>4, <2>1
  <2>2. CASE E # {}
    <3>1. end \in E /\ \A i \in E : i <= end
      BY <1>1, <1>5, <2>2
    <3>2. end \in 1 .. Len(p) /\ p[end] # Slash
      BY <3>1
    <3>3. ASSUME NEW i \in end + 1 .. Len(p)
          PROVE  p[i] = Slash
      <4>1. i \in 1 .. Len(p) /\ ~(i <= end)
        BY <1>4, <3>2
      <4>2. QED
        BY <3>1, <4>1
    <3>4. QED
      BY <1>4, <3>2, <3>3
  <2>3. QED
    BY <2>1, <2>2
<1>7. Len(q) = end /\ \A i \in 1 .. end : q[i] = p[i]
  <2>1. /\ Len(q) = IF 1 <= end THEN end - 1 + 1 ELSE 0
        /\ \A i \in 1 .. end - 1 + 1 : q[i] = p[1 + i - 1]
    BY <1>6, PartOf
  <2>2. QED
    BY <1>6, <2>1
<1> HIDE DEF q
<1>8. A # {} => Max(A) \in A /\ \A i \in A : i <= Max(A)
  <2>1. A \in SUBSET (1 .. Len(q)) /\ Len(q) \in Nat
    BY <1>6, <1>7
  <2>2. QED
    BY <2>1, MaxOf
<1>9. /\ at \in 0 .. end
      /\ at > 0 => p[at] \in Slashed
      /\ \A i \in at + 1 .. end : p[i] \notin Slashed
  <2>1. CASE A = {}
    <3>1. \A i \in 1 .. end : p[i] \notin Slashed
      BY <1>7, <2>1
    <3>2. at = 0
      BY <1>2, <2>1
    <3>3. QED
      BY <1>6, <3>1, <3>2
  <2>2. CASE A # {}
    <3>1. at \in A /\ \A i \in A : i <= at
      BY <1>2, <1>8, <2>2
    <3>2. at \in 1 .. end /\ q[at] \in Slashed
      BY <1>7, <3>1
    <3>3. p[at] \in Slashed
      BY <1>7, <3>2
    <3>4. ASSUME NEW i \in at + 1 .. end
          PROVE  p[i] \notin Slashed
      <4>1. i \in 1 .. end /\ ~(i <= at)
        BY <1>6, <3>2
      <4>2. i \notin A
        BY <3>1, <4>1
      <4>3. q[i] \notin Slashed
        BY <1>7, <4>1, <4>2
      <4>4. QED
        BY <1>7, <4>1, <4>3
    <3>5. QED
      BY <1>6, <3>2, <3>3, <3>4
  <2>3. QED
    BY <2>1, <2>2
<1>10. first \in 1 .. Len(p) + 1
  BY <1>4, <1>6, <1>9
<1>11. ASSUME NEW e \in 1 .. Len(p), p[e] # Slash, \A i \in e + 1 .. Len(p) : p[i] = Slash
       PROVE  end = e
  <2>1. ~(end < e)
    BY <1>6, <1>11
  <2>2. ~(end > e)
    BY <1>6, <1>11
  <2>3. QED
    BY <1>6, <2>1, <2>2
<1>12. ASSUME NEW a \in 0 .. Len(p), a = 0 \/ (a > 0 /\ p[a] = Slash), a < end,
              \A i \in a + 1 .. end : p[i] \notin Slashed
       PROVE  first = a + 1
  <2>1. ~(at > a)
    BY <1>6, <1>9, <1>12
  <2>2. ~(at < a)
    <3>1. SUFFICES ASSUME at < a
                   PROVE  FALSE
      OBVIOUS
    <3>2. a \in at + 1 .. end /\ p[a] = Slash
      BY <1>6, <1>9, <1>12, <3>1
    <3>3. QED
      BY <1>9, <3>2 DEF Slashed
  <2>3. at = a
    BY <1>6, <1>9, <2>1, <2>2
  <2>4. QED
    BY <1>12, <2>3
<1> HIDE DEF first
<1>13. QED
  BY <1>3, <1>6, <1>10, <1>11, <1>12

(* The last element of a text is a text. *)
LEMMA BaseIsText ==
    ASSUME NEW p \in Texts
    PROVE  Base(p) \in Texts
<1>1. PICK first \in 1 .. Len(p) + 1, end \in 0 .. Len(p) : Base(p) = SubSeq(p, first, end)
  BY BaseAt DEF Texts
<1>2. p \in Seq(0 .. 255) /\ Len(p) \in Nat
  BY DEF Texts
<1>3. first \in Int /\ end \in Int /\ 1 <= first /\ end <= Len(p)
  BY <1>2
<1>4. SubSeq(p, first, end) \in Seq(0 .. 255)
  BY <1>2, <1>3, PartOf
<1>5. QED
  BY <1>1, <1>4 DEF Texts

(* The last element of a path whose other elements end with a slash. *)
LEMMA BaseOf ==
    ASSUME NEW T, NEW p \in Seq(T), NEW a \in 0 .. Len(p) - 1,
           a = 0 \/ (a > 0 /\ p[a] = Slash),
           \A i \in a + 1 .. Len(p) : p[i] \notin Slashed
    PROVE  Base(p) = SubSeq(p, a + 1, Len(p))
<1>1. PICK first \in 1 .. Len(p) + 1, end \in 0 .. Len(p) :
              /\ Base(p) = SubSeq(p, first, end)
              /\ \A e \in 1 .. Len(p) :
                    p[e] # Slash /\ (\A i \in e + 1 .. Len(p) : p[i] = Slash) => end = e
              /\ \A b \in 0 .. Len(p) :
                    /\ b = 0 \/ (b > 0 /\ p[b] = Slash)
                    /\ b < end
                    /\ \A i \in b + 1 .. end : p[i] \notin Slashed
                    => first = b + 1
  BY BaseAt
<1>2. Len(p) \in Nat /\ Len(p) \in 1 .. Len(p) /\ Slash \in Slashed
  BY DEF Slashed
<1>3. end = Len(p)
  <2>1. \A e \in 1 .. Len(p) :
            p[e] # Slash /\ (\A i \in e + 1 .. Len(p) : p[i] = Slash) => end = e
    BY <1>1
  <2>2. p[Len(p)] # Slash
    BY <1>2
  <2>3. \A i \in Len(p) + 1 .. Len(p) : p[i] = Slash
    BY <1>2
  <2>4. QED
    BY <1>2, <2>1, <2>2, <2>3
<1>4. first = a + 1
  <2>1. \A b \in 0 .. Len(p) :
            /\ b = 0 \/ (b > 0 /\ p[b] = Slash)
            /\ b < end
            /\ \A i \in b + 1 .. end : p[i] \notin Slashed
            => first = b + 1
    BY <1>1
  <2>2. a \in 0 .. Len(p) /\ a < end
    BY <1>2, <1>3
  <2>3. \A i \in a + 1 .. end : p[i] \notin Slashed
    BY <1>3
  <2>4. QED
    BY <2>1, <2>2, <2>3
<1>5. QED
  BY <1>1, <1>3, <1>4

(* A name is its own last element, in the volume directory and alone. *)
LEMMA BaseOfName ==
    ASSUME NEW T, NEW w \in Seq(T), w # <<>>, \A i \in 1 .. Len(w) : w[i] \notin Slashed
    PROVE  Base(w) = w /\ Base(<<VolumeDir, Slash>> \o w) = w
<1>1. Base(w) = w
  <2>1. Base(w) = SubSeq(w, 0 + 1, Len(w))
    BY BaseOf
  <2>2. QED
    BY <2>1, SubSeqFull
<1>2. Base(<<VolumeDir, Slash>> \o w) = w
  <2> DEFINE U == T \cup {VolumeDir, Slash}
             p == <<VolumeDir, Slash>> \o w
  <2>1. p \in Seq(U) /\ Len(p) = Len(w) + 2 /\ Len(w) \in Nat \ {0}
    OBVIOUS
  <2>2. p[2] = Slash /\ \A i \in 1 .. Len(w) : p[i + 2] = w[i]
    OBVIOUS
  <2> HIDE DEF p, U
  <2>3. \A i \in 3 .. Len(p) : p[i] \notin Slashed
    <3>1. TAKE i \in 3 .. Len(p)
    <3>2. i - 2 \in 1 .. Len(w) /\ (i - 2) + 2 = i
      BY <2>1
    <3>3. QED
      BY <2>2, <3>2
  <2>4. Base(p) = SubSeq(p, 3, Len(p))
    <3>1. 2 \in 0 .. Len(p) - 1 /\ 2 + 1 = 3 /\ 2 > 0
      BY <2>1
    <3>2. \A i \in 2 + 1 .. Len(p) : p[i] \notin Slashed
      BY <2>3, <3>1
    <3>3. Base(p) = SubSeq(p, 2 + 1, Len(p))
      BY <2>1, <2>2, <3>1, <3>2, BaseOf
    <3>4. QED
      BY <3>1, <3>3
  <2>5. /\ SubSeq(p, 3, Len(p)) \in Seq(U) /\ Len(SubSeq(p, 3, Len(p))) = Len(w)
        /\ \A i \in 1 .. Len(w) : SubSeq(p, 3, Len(p))[i] = p[3 + i - 1]
    BY <2>1, PartOf
  <2>6. \A i \in 1 .. Len(w) : SubSeq(p, 3, Len(p))[i] = w[i]
    BY <2>1, <2>2, <2>5
  <2>7. SubSeq(p, 3, Len(p)) = w
    BY <2>5, <2>6, SeqEqual
  <2>8. QED
    BY <2>4, <2>7 DEF p
<1>3. QED
  BY <1>1, <1>2

LEMMA ThreeTokens ==
    ASSUME NEW x, NEW y, NEW z
    PROVE  <<x, y>> \o <<z>> = <<x, y, z>>
<1> DEFINE S == {x, y, z}
           s == <<x, y>> \o <<z>>
           t == <<x, y, z>>
<1>1. <<x, y>> \in Seq(S) /\ <<z>> \in Seq(S) /\ Len(<<x, y>>) = 2 /\ Len(<<z>>) = 1
  OBVIOUS
<1>2. s \in Seq(S) /\ Len(s) = 3 /\ s[1] = x /\ s[2] = y /\ s[3] = z
  BY <1>1
<1>3. t \in Seq(S) /\ Len(t) = 3 /\ t[1] = x /\ t[2] = y /\ t[3] = z
  OBVIOUS
<1> HIDE DEF s, t
<1>4. \A i \in 1 .. 3 : s[i] = t[i]
  BY <1>2, <1>3
<1>5. s = t
  BY <1>2, <1>3, <1>4, SeqEqual
<1>6. QED
  BY <1>5 DEF s, t

(* What volume.Setup leaves of a mount, and the name its volume is shown by. *)
LEMMA MountOf ==
    ASSUME NEW t \in Texts, NEW k \in Nat \ {0},
           ParseVolume(t).ok, Setup(ParseVolume(t).v, k).ok
    PROVE  LET v == ParseVolume(t).v
               w == Setup(v, k).v
           IN  /\ w.container_path = v.container_path
               /\ w.readonly = v.readonly
               /\ VolumeFor(w)[1] = VolumeName(t, k)
<1> DEFINE v == ParseVolume(t).v
           w == Setup(v, k).v
           host == v.host_path
           name == VolumeName(t, k)
<1>1. /\ v = [f \in {"container_path", "host_path", "readonly"} |-> v[f]]
      /\ host \in Texts
  BY VolumeOf
<1>2. name = IF host = <<>> THEN <<Anonymous(k)>>
             ELSE IF IsVolume(host) THEN Base(host) ELSE Digest(host)
  BY DEF VolumeName, Source
<1>3. Anonymous(k) \notin Slashed /\ VolumeDir \in Slashed
  BY DEF Anonymous, Slashed, Slash, VolumeDir, TcpSuffix, UdpSuffix
<1>4. Setup(v, k) =
         IF host = <<>> THEN Ok([v EXCEPT !.host_path = <<VolumeDir, Slash, Anonymous(k)>>])
         ELSE IF Head(host) \in Slashed THEN Ok(v)
         ELSE IF ValidName(host) THEN Ok([v EXCEPT !.host_path = <<VolumeDir, Slash>> \o host])
         ELSE Error
  BY DEF Setup
<1> HIDE DEF v, name
<1>5. \A path :
         LET x == [v EXCEPT !.host_path = path]
         IN  x.container_path = v.container_path /\ x.readonly = v.readonly /\ x.host_path = path
  BY <1>1
<1>6. \A x : Ok(x).v = x
  BY DEF Ok
<1>7. \A mount : Head(mount.host_path) = VolumeDir => VolumeFor(mount)[1] = Base(mount.host_path)
  BY DEF VolumeFor, PathToType
<1>8. CASE host = <<>>
  <2> DEFINE path == <<VolumeDir, Slash, Anonymous(k)>>
  <2>1. w = [v EXCEPT !.host_path = path]
    BY <1>4, <1>6, <1>8
  <2>2. w.container_path = v.container_path /\ w.readonly = v.readonly /\ w.host_path = path
    BY <1>5, <2>1
  <2>3. Base(path) = <<Anonymous(k)>>
    <3>1. <<Anonymous(k)>> \in Seq({Anonymous(k)}) /\ <<Anonymous(k)>> # <<>>
          /\ Len(<<Anonymous(k)>>) = 1 /\ <<Anonymous(k)>>[1] = Anonymous(k)
      OBVIOUS
    <3>2. \A i \in 1 .. Len(<<Anonymous(k)>>) : <<Anonymous(k)>>[i] \notin Slashed
      BY <1>3
    <3>3. Base(<<VolumeDir, Slash>> \o <<Anonymous(k)>>) = <<Anonymous(k)>>
      BY <3>1, <3>2, BaseOfName
    <3>4. <<VolumeDir, Slash>> \o <<Anonymous(k)>> = <<VolumeDir, Slash, Anonymous(k)>>
      BY ThreeTokens
    <3>5. QED
      BY <3>3, <3>4
  <2>4. Head(path) = VolumeDir
    OBVIOUS
  <2>5. QED
    BY <1>2, <1>7, <1>8, <2>2, <2>3, <2>4 DEF v, name
<1>9. CASE host # <<>> /\ Head(host) \in Slashed
  <2>1. w = v
    BY <1>4, <1>6, <1>9
  <2>2. CASE Head(host) = VolumeDir
    BY <1>2, <1>7, <1>9, <2>1, <2>2 DEF IsVolume, v, name
  <2>3. CASE Head(host) # VolumeDir
    <3>1. name = Digest(host)
      BY <1>2, <1>9, <2>3 DEF IsVolume
    <3>2. VolumeFor(v)[1] = Digest(host)
      BY <2>3 DEF VolumeFor, PathToType
    <3>3. QED
      BY <2>1, <3>1, <3>2 DEF v, name
  <2>4. QED
    BY <2>2, <2>3
<1>10. CASE host # <<>> /\ Head(host) \notin Slashed
  <2> DEFINE path == <<VolumeDir, Slash>> \o host
  <2>1. ValidName(host)
    BY <1>4, <1>10 DEF Error, v
  <2>2. w = [v EXCEPT !.host_path = path]
    BY <1>4, <1>6, <1>10, <2>1
  <2>3. w.container_path = v.container_path /\ w.readonly = v.readonly /\ w.host_path = path
    BY <1>5, <2>2
  <2>4. Head(path) = VolumeDir
    BY <1>1 DEF Texts
  <2>5. Base(host) = host /\ Base(path) = host
    <3>1. \A i \in 1 .. Len(host) : host[i] \notin Slashed
      BY <1>1, <2>1 DEF ValidName, Texts
    <3>2. QED
      BY <1>1, <1>10, <3>1, BaseOfName DEF Texts
  <2>6. name = Base(host)
    BY <1>2, <1>10 DEF IsVolume
  <2> HIDE DEF path
  <2>7. QED
    BY <1>7, <2>3, <2>4, <2>5, <2>6 DEF v, name
<1>11. QED
  BY <1>8, <1>9, <1>10

(* Two mounts have the same name only if both have the same source, or are  *)
(* below the volume directory and end in the same element.                 *)
LEMMA NamesDiffer ==
    ASSUME NEW t \in Texts, NEW u \in Texts, NEW k \in Nat \ {0}, NEW n \in Nat \ {0}, k # n,
           ParseVolume(t).ok, ParseVolume(u).ok, VolumeName(t, k) = VolumeName(u, n)
    PROVE  LET a == Words(t)[1]
               b == Words(u)[1]
           IN  /\ Len(Words(t)) # 1 /\ Len(Words(u)) # 1 /\ a # <<>> /\ b # <<>>
               /\ a = b \/ (IsVolume(a) /\ IsVolume(b) /\ Base(a) = Base(b))
<1> DEFINE a == Source(t)
           b == Source(u)
<1>1. /\ a \in Texts /\ a = IF Len(Words(t)) = 2 THEN Words(t)[1] ELSE <<>>
      /\ b \in Texts /\ b = IF Len(Words(u)) = 2 THEN Words(u)[1] ELSE <<>>
  BY VolumeOf DEF Source
<1>2. /\ VolumeName(t, k) = IF a = <<>> THEN <<Anonymous(k)>>
                            ELSE IF IsVolume(a) THEN Base(a) ELSE Digest(a)
      /\ VolumeName(u, n) = IF b = <<>> THEN <<Anonymous(n)>>
                            ELSE IF IsVolume(b) THEN Base(b) ELSE Digest(b)
  BY DEF VolumeName
<1> HIDE DEF a, b
<1>3. \A i \in Nat : <<Anonymous(i)>> \notin Texts
  <2>1. SUFFICES ASSUME NEW i \in Nat, <<Anonymous(i)>> \in Texts
                 PROVE  FALSE
    OBVIOUS
  <2>2. <<Anonymous(i)>>[1] \in 0 .. 255
    BY <2>1 DEF Texts
  <2>3. Anonymous(i) > 255
    BY DEF Anonymous
  <2>4. QED
    BY <2>2, <2>3
<1>4. <<Anonymous(k)>> # <<Anonymous(n)>>
  <2>1. Anonymous(k) # Anonymous(n)
    BY DEF Anonymous
  <2>2. QED
    BY <2>1
<1>5. \A x \in Texts : /\ Digest(x)[1] = 999 /\ Len(Digest(x)) = Len(x) + 1
                       /\ \A i \in 1 .. Len(x) : Digest(x)[i + 1] = x[i]
  BY DEF Digest, Texts
<1>6. \A x \in Texts : Digest(x) \notin Texts
  <2>1. SUFFICES ASSUME NEW x \in Texts, Digest(x) \in Texts
                 PROVE  FALSE
    OBVIOUS
  <2>2. Len(x) \in Nat
    BY DEF Texts
  <2>3. 1 \in 1 .. Len(Digest(x))
    BY <1>5, <2>2
  <2>4. Digest(x)[1] \in 0 .. 255
    BY <2>1, <2>3, ElementOfSeq DEF Texts
  <2>5. Digest(x)[1] = 999
    BY <1>5
  <2>6. QED
    BY <2>4, <2>5
<1>7. \A x \in Texts, i \in Nat : Digest(x) # <<Anonymous(i)>>
  <2>1. SUFFICES ASSUME NEW x \in Texts, NEW i \in Nat, Digest(x) = <<Anonymous(i)>>
                 PROVE  FALSE
    OBVIOUS
  <2>2. <<Anonymous(i)>>[1] = Anonymous(i) /\ Anonymous(i) # 999
    BY DEF Anonymous
  <2>3. QED
    BY <1>5, <2>1, <2>2
<1>8. \A x, y \in Texts : Digest(x) = Digest(y) => x = y
  <2>1. SUFFICES ASSUME NEW x \in Texts, NEW y \in Texts, Digest(x) = Digest(y)
                 PROVE  x = y
    OBVIOUS
  <2>2. Len(x) \in Nat /\ Len(y) \in Nat
    BY DEF Texts
  <2>3. Len(x) = Len(y)
    BY <1>5, <2>1, <2>2
  <2>4. \A i \in 1 .. Len(x) : x[i] = y[i]
    BY <1>5, <2>1, <2>3
  <2>5. QED
    BY <2>3, <2>4, SeqEqual DEF Texts
<1>9. Base(a) \in Texts /\ Base(b) \in Texts
  BY <1>1, BaseIsText
<1>10. a # <<>> /\ b # <<>>
  BY <1>1, <1>2, <1>3, <1>4, <1>7, <1>9
<1>11. a = b \/ (IsVolume(a) /\ IsVolume(b) /\ Base(a) = Base(b))
  <2>1. (IF IsVolume(a) THEN Base(a) ELSE Digest(a)) = (IF IsVolume(b) THEN Base(b) ELSE Digest(b))
    BY <1>2, <1>10
  <2>2. a \in Texts /\ b \in Texts
    BY <1>1
  <2>3. Digest(a) \notin Texts /\ Digest(b) \notin Texts /\ (Digest(a) = Digest(b) => a = b)
    BY <1>6, <1>8, <2>2
  <2>4. QED
    BY <1>9, <2>1, <2>3
<1>12. /\ Len(Words(t)) = 2 /\ a = Words(t)[1]
       /\ Len(Words(u)) = 2 /\ b = Words(u)[1]
  BY <1>1, <1>10
<1>13. QED
  BY <1>10, <1>11, <1>12

(* The mounts of the configuration that the container is created with. *)
LEMMA MountsMade ==
    ASSUME NEW c \in Commands, toContainerOptions(c).ok, ConCfg(c).ok
    PROVE  /\ c.volume \in Seq(Texts)
           /\ DOMAIN ConCfg(c).v.mounts = DOMAIN c.volume
           /\ \A k \in DOMAIN c.volume :
                 /\ ParseVolume(c.volume[k]).ok
                 /\ Setup(ParseVolume(c.volume[k]).v, k).ok
                 /\ ConCfg(c).v.mounts[k] = Setup(ParseVolume(c.volume[k]).v, k).v
<1> DEFINE mounts == ConOpts(c).mounts
           results == [k \in DOMAIN mounts |-> Setup(Content(mounts[k]), k)]
<1>1. c.volume \in Seq(Texts)
  BY CommandsAssumption
<1>2. /\ \A k \in DOMAIN c.volume : ParseVolume(c.volume[k]).ok
      /\ mounts = [k \in DOMAIN c.volume |-> Extern(ParseVolume(c.volume[k]).v)]
  BY ContainerOptionsOf
<1>3. resolveMounts(mounts).ok /\ ConCfg(c).v.mounts = resolveMounts(mounts).v
  BY DEF ConCfg, ContainerConfig, Ok, Error
<1>4. resolveMounts(mounts) = All(results)
  BY DEF resolveMounts
<1> HIDE DEF mounts
<1>5. \A k \in DOMAIN mounts : Setup(Content(mounts[k]), k).ok
  BY <1>3, <1>4 DEF All, Error
<1>6. resolveMounts(mounts).v = [k \in DOMAIN mounts |-> Setup(Content(mounts[k]), k).v]
  BY <1>4, <1>5 DEF All, Ok
<1>7. /\ DOMAIN mounts = DOMAIN c.volume
      /\ \A k \in DOMAIN c.volume : Content(mounts[k]) = ParseVolume(c.volume[k]).v
  BY <1>2 DEF Extern, Content
<1>8. DOMAIN ConCfg(c).v.mounts = DOMAIN c.volume
  BY <1>3, <1>6, <1>7
<1>9. ASSUME NEW k \in DOMAIN c.volume
      PROVE  /\ Setup(ParseVolume(c.volume[k]).v, k).ok
             /\ ConCfg(c).v.mounts[k] = Setup(ParseVolume(c.volume[k]).v, k).v
  <2>1. Setup(Content(mounts[k]), k).ok
    BY <1>5, <1>7
  <2>2. ConCfg(c).v.mounts[k] = Setup(Content(mounts[k]), k).v
    BY <1>3, <1>6, <1>7
  <2>3. Content(mounts[k]) = ParseVolume(c.volume[k]).v
    BY <1>7
  <2>4. QED
    BY <2>1, <2>2, <2>3
<1>10. QED
  BY <1>1, <1>2, <1>8, <1>9

(* The words of two --volume arguments that share a volume. *)
Shares(v, w) ==
    /\ ~(Len(v) = 1 \/ v[1] = <<>>) /\ ~(Len(w) = 1 \/ w[1] = <<>>)
    /\ \/ v[1] = w[1]
       \/ IsVolume(v[1]) /\ IsVolume(w[1]) /\ Base(v[1]) = Base(w[1])

(* The mounts and the volumes that inspect shows. *)
LEMMA MountsShown ==
    ASSUME Exchange, Command
    PROVE  MountsAsAsked
<1> DEFINE c == cmd.flags
           asked == c.volume
           shown == ShownContainer.mounts
           con == ConCfg(c).v
<1>1. SUFFICES ASSUME Inspected
               PROVE  /\ DOMAIN shown = DOMAIN asked
                      /\ \A k \in DOMAIN asked :
                            /\ shown[k].path = Last(Words(asked[k]))
                            /\ shown[k].readonly <=> EndsReadOnly(asked[k])
                            /\ Cardinality({v \in ShownPod.volumes : v[1] = shown[k].name}) = 1
                      /\ \A k, n \in DOMAIN asked :
                            k # n /\ shown[k].name = shown[n].name =>
                               Shares(Words(asked[k]), Words(asked[n]))
  BY DEF MountsAsAsked, Words, HasMode, Shares
<1>2. /\ c \in Commands /\ toContainerOptions(c).ok /\ ConCfg(c).ok
      /\ ShownContainer = toContainer(PodCfg(c).v, con)
      /\ \E ready, listed, s : ShownPod = toPod(PodCfg(c).v, con, ready, listed, s)
  BY <1>1, InspectedOf
<1>3. shown = VolumeMounts(con) /\ ShownPod.volumes = Volumes(con)
  BY <1>2 DEF toContainer, toPod
<1>4. /\ asked \in Seq(Texts) /\ DOMAIN con.mounts = DOMAIN asked
      /\ \A k \in DOMAIN asked :
            /\ ParseVolume(asked[k]).ok
            /\ Setup(ParseVolume(asked[k]).v, k).ok
            /\ con.mounts[k] = Setup(ParseVolume(asked[k]).v, k).v
  BY <1>2, MountsMade
<1>5. \A k \in DOMAIN asked : asked[k] \in Texts /\ k \in Nat \ {0}
  BY <1>4
<1> HIDE DEF asked, shown, con
<1>6. ASSUME NEW k \in DOMAIN asked
      PROVE  /\ con.mounts[k].container_path = Last(Words(asked[k]))
             /\ con.mounts[k].readonly <=> EndsReadOnly(asked[k])
             /\ VolumeFor(con.mounts[k])[1] = VolumeName(asked[k], k)
  <2> DEFINE t == asked[k]
             v == ParseVolume(t).v
  <2>1. t \in Texts /\ k \in Nat \ {0} /\ ParseVolume(t).ok /\ Setup(v, k).ok
    BY <1>4, <1>5
  <2>2. con.mounts[k] = Setup(v, k).v
    BY <1>4
  <2> HIDE DEF t
  <2>3. /\ Setup(v, k).v.container_path = v.container_path
        /\ Setup(v, k).v.readonly = v.readonly
        /\ VolumeFor(Setup(v, k).v)[1] = VolumeName(t, k)
    BY <2>1, MountOf
  <2>4. v.container_path = Last(Words(t))
    BY <2>1, VolumeOf
  <2>5. v.readonly <=> EndsReadOnly(t)
    BY <2>1, VolumeOf, ReadOnlyOf
  <2> HIDE DEF v
  <2>6. QED
    BY <2>2, <2>3, <2>4, <2>5 DEF t
<1>7. DOMAIN shown = DOMAIN asked
  BY <1>3, <1>4 DEF VolumeMounts
<1>8. ASSUME NEW k \in DOMAIN asked
      PROVE  /\ shown[k].name = VolumeName(asked[k], k)
             /\ shown[k].path = con.mounts[k].container_path
             /\ shown[k].readonly = con.mounts[k].readonly
  <2>1. shown[k] = [name |-> VolumeFor(con.mounts[k])[1],
                    path |-> con.mounts[k].container_path,
                    readonly |-> con.mounts[k].readonly]
    BY <1>3, <1>4 DEF VolumeMounts
  <2>2. QED
    BY <1>6, <2>1
<1>9. ASSUME NEW k \in DOMAIN asked
      PROVE  Cardinality({v \in ShownPod.volumes : v[1] = shown[k].name}) = 1
  <2> DEFINE same == {v \in ShownPod.volumes : v[1] = shown[k].name}
             name(n) == VolumeFor(con.mounts[n])[1]
             isNew(n) == \A i \in 1 .. n - 1 : name(i) # name(n)
             N == {n \in DOMAIN asked : name(n) = name(k)}
  <2>1. ShownPod.volumes = {VolumeFor(con.mounts[n]) : n \in {i \in DOMAIN asked : isNew(i)}}
    BY <1>3, <1>4 DEF Volumes
  <2>2. shown[k].name = name(k)
    BY <1>6, <1>8
  <2>3. DOMAIN asked = 1 .. Len(asked) /\ Len(asked) \in Nat
    BY <1>4
  <2> HIDE DEF name
  <2>4. PICK j \in N : \A n \in N : j <= n
    <3>1. N \in SUBSET Nat /\ N # {}
      BY <2>3
    <3>2. QED
      BY <3>1, MinOf
  <2>5. j \in DOMAIN asked /\ name(j) = name(k) /\ isNew(j)
    BY <2>3, <2>4
  <2>6. ASSUME NEW n \in DOMAIN asked, isNew(n), name(n) = name(k)
        PROVE  n = j
    <3>1. j <= n
      BY <2>4, <2>6
    <3>2. ~(j < n)
      BY <2>3, <2>5, <2>6
    <3>3. QED
      BY <2>3, <2>5, <3>1, <3>2
  <2>7. same = {VolumeFor(con.mounts[j])}
    <3>1. \A n : VolumeFor(con.mounts[n])[1] = name(n)
      BY DEF name
    <3>2. QED
      BY <2>1, <2>2, <2>5, <2>6, <3>1
  <2> HIDE DEF same
  <2>8. Cardinality(same) = 1
    BY <2>7, FS_Singleton
  <2>9. QED
    BY <2>8 DEF same
<1>10. ASSUME NEW k \in DOMAIN asked, NEW n \in DOMAIN asked,
              k # n, shown[k].name = shown[n].name
       PROVE  Shares(Words(asked[k]), Words(asked[n]))
  <2>1. VolumeName(asked[k], k) = VolumeName(asked[n], n)
    BY <1>8, <1>10
  <2>2. QED
    BY <1>4, <1>5, <1>10, <2>1, NamesDiffer DEF Shares
<1>11. ASSUME NEW k \in DOMAIN asked
       PROVE  /\ shown[k].path = Last(Words(asked[k]))
              /\ shown[k].readonly <=> EndsReadOnly(asked[k])
  BY <1>6, <1>8
<1>12. QED
  BY <1>7, <1>9, <1>10, <1>11

-----------------------------------------------------------------------------
(* The theorems: as long as the encoder and the decoder of the two sides    *)
(* agree.                                                                  *)

(* The inductive invariant: what was said and seen of a call, and what the  *)
(* create command has led to.                                              *)
THEOREM CallsInOrder == Spec /\ []DecodedIsEncoded => [](Exchange /\ Command)
<1>1. Init => Exchange /\ Command
  BY InitExchange, InitCommand
<1>2. Exchange /\ Command /\ DecodedIsEncoded /\ [Next]_vars => Exchange' /\ Command'
  BY ExchangeNext, CommandNext
<1>3. QED
  BY <1>1, <1>2, PTL DEF Spec

(* Types are kept, and the reader of a message never leaves its bytes. *)
THEOREM ApiTypes == Spec /\ []DecodedIsEncoded => []TypeOK
<1>1. Init => TypeOK
  <2>1. Len(<<>>) = 0
    OBVIOUS
  <2>2. QED
    BY <2>1, CallsOfCreate DEF Init, TypeOK, Nothing, NoCommand
<1>2. TypeOK /\ (Exchange /\ Command) /\ (Exchange /\ Command)'
         /\ DecodedIsEncoded /\ DecodedIsEncoded' /\ [Next]_vars => TypeOK'
  BY TypesNext
<1>3. QED
  BY <1>1, <1>2, CallsInOrder, PTL DEF Spec

(* What the client of a unary call sees is what the daemon said, whatever   *)
(* the method, the messages and the fields of other versions between them:  *)
(* remote.go undoes what container_service.go does to an error and to a     *)
(* missing object.                                                         *)
THEOREM ClientSeesOutcome == Spec /\ []DecodedIsEncoded => []OutcomeIsSeen
<1>1. Exchange => OutcomeIsSeen
  BY DEF Exchange
<1>2. QED
  BY <1>1, CallsInOrder, PTL

(* Every --publish of every create command is shown by inspect as it was    *)
(* asked for: ports.Parse, CreatePod and toContainer agree on which number  *)
(* is which.                                                               *)
THEOREM PublishedPorts == Spec /\ []DecodedIsEncoded => []PortsAsAsked
<1>1. Exchange /\ Command => PortsAsAsked
  BY PortsShown
<1>2. QED
  BY <1>1, CallsInOrder, PTL

(* Every --volume of every create command is mounted as it was asked for,   *)
(* and mounts are shown with one volume only if they name the same source   *)
(* or end in the same element below the volume directory: volumes.Parse,    *)
(* volume.Setup, PathToType and addMount.                                  *)
THEOREM AskedMounts == Spec /\ []DecodedIsEncoded => []MountsAsAsked
<1>1. Exchange /\ Command => MountsAsAsked
  BY MountsShown
<1>2. QED
  BY <1>1, CallsInOrder, PTL

(* The namespaces, the groups, the user and the privileges of every create  *)
(* command reach the pod and the container alike: toSharedSecretOptions,    *)
(* CreatePod and CreateContainer.                                          *)
THEOREM AskedSecurity == Spec /\ []DecodedIsEncoded => []SecurityAsAsked
<1>1. Exchange /\ Command => SecurityAsAsked
  BY SecurityShown
<1>2. QED
  BY <1>1, CallsInOrder, PTL

(* Inspect shows the state that the runtime reported last, unless that is   *)
(* unknown, and no phase that is ahead of it although the phase was read    *)
(* earlier: toPhase, toContainerStatus.                                    *)
THEOREM ReportedState == Spec /\ []DecodedIsEncoded => []StateIsShown
<1>1. Exchange /\ Command => StateIsShown
  BY StateShown
<1>2. QED
  BY <1>1, CallsInOrder, PTL

=============================================================================
