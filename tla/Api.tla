-------------------------------- MODULE Api --------------------------------
(***************************************************************************)
(* A call of the k3c API from the command to the daemon and back:          *)
(* pkg/client/remote.go, the generated stubs and handlers of api.pb.go,    *)
(* pkg/remote/server/container_service.go.  The request and each message   *)
(* of the answer are encoded, sent and decoded field by field; encoder and *)
(* decoder are parameters, which module Wire gives their values.  k3c      *)
(* create followed by k3c inspect is modelled as the three calls it makes, *)
(* with the conversions of module Convert on both sides; of the other      *)
(* calls, any client's, the daemon's outcome is any.                       *)
(***************************************************************************)
EXTENDS Convert

CONSTANTS
    Encode(_, _, _),            \* the encoder of module Wire
    DecodeField(_, _, _, _),    \* its decoder, one field
    Requests,     \* for every method, what clients ask
    Answers,      \* for every method, what the daemon may answer
    Commands,     \* the flags of the create commands
    Unknown       \* encoded fields that only a peer of another version knows

VARIABLES
    pc,        \* where the call is
    rpc,       \* the method called
    sent,      \* the message under way
    dAtA,      \* its bytes
    iNdEx,     \* how many of them are decoded
    m,         \* the message decoded so far
    said,      \* the daemon's outcome: its error, and the message it sent
    got,       \* the outcome the client has seen
    cmd        \* the create command, and the configurations it led to

wireVars == <<sent, dAtA, iNdEx, m>>
vars == <<pc, rpc, wireVars, said, got, cmd>>

\* The methods of ContainerServiceServer: request, answer, server stream.
Unary(req, resp) == [req |-> req, resp |-> resp, stream |-> FALSE]
ServerStream(req, resp) == [req |-> req, resp |-> resp, stream |-> TRUE]
ServiceDesc ==
    [ListPods |-> Unary(ListPodsRequest, ListPodsResponse),
     CreatePod |-> Unary(CreatePodRequest, CreatePodResponse),
     CreateContainer |-> Unary(CreateContainerRequest, CreateContainerResponse),
     StartContainer |-> Unary(StartContainerRequest, StartContainerResponse),
     StopContainer |-> Unary(StopContainerRequest, StopContainerResponse),
     RemoveContainer |-> Unary(RemoveContainerRequest, RemoveContainerResponse),
     GetContainer |-> Unary(GetContainerRequest, GetContainerResponse),
     Attach |-> Unary(AttachRequest, StreamResponse),
     Exec |-> Unary(ExecRequest, StreamResponse),
     ListImages |-> Unary(ListImagesRequest, ListImagesResponse),
     RemoveImage |-> Unary(RemoveImageRequest, RemoveImageResponse),
     PullImage |-> Unary(PullImageRequest, PullImageResponse),
     PushImage |-> Unary(PushImageRequest, PushImageResponse),
     GetImage |-> Unary(GetImageRequest, GetImageResponse),
     TagImage |-> Unary(TagImageRequest, TagImageResponse),
     ListVolumes |-> Unary(ListVolumesRequest, ListVolumesResponse),
     CreateVolume |-> Unary(CreateVolumeRequest, CreateVolumeResponse),
     RemoveVolume |-> Unary(RemoveVolumeRequest, RemoveVolumeResponse),
     LogContainer |-> ServerStream(LogContainerRequest, LogEntry),
     PullProgress |-> ServerStream(InfoRequest, InfoResponse),
     PushProgress |-> ServerStream(InfoRequest, InfoResponse),
     Events |-> ServerStream(EventsRequest, Event)]
Methods == DOMAIN ServiceDesc

\* A container and an image that the daemon returns have an id.
ASSUME AnswersAssumption ==
    /\ \A x \in Answers["GetContainer"] : x.container_id # <<>>
    /\ \A x \in Answers["GetImage"] : x.image # <<>> /\ x.image[1].id # <<>>

\* A text is a sequence of tokens.
Texts == Seq(0 .. 255)
ASSUME CommandsAssumption ==
    \A c \in Commands :
        /\ DOMAIN c = DOMAIN DefaultFlags
        /\ {c.user, c.net, c.pid, c.ipc} \subseteq Texts
        /\ {c.groupAdd, c.publish, c.volume} \subseteq Seq(Texts)
        /\ {c.privileged, c.readOnly} \subseteq BOOLEAN

NoCommand == [at |-> "none"]
Nothing == [err |-> "none", v |-> <<>>]

Init ==
    /\ pc = "idle"
    /\ rpc = "ListPods"
    /\ sent = <<>> /\ dAtA = <<>> /\ iNdEx = 0 /\ m = <<>>
    /\ said = Nothing
    /\ got = Nothing
    /\ cmd = NoCommand

-----------------------------------------------------------------------------
(* A message on its way.                                                   *)

\* The sender encodes x; a newer sender has fields of its own, first or last.
Transmit(schema, x) ==
    /\ sent' = x
    /\ \E down \in BOOLEAN, first \in BOOLEAN, extra \in Unknown \cup {<<>>} :
          LET bytes == Encode(schema, x, down)
          IN  /\ extra = <<>> => first
              /\ extra # <<>> => down /\ cmd' = NoCommand
              /\ dAtA' = IF first THEN extra \o bytes ELSE bytes \o extra
    /\ iNdEx' = 0
    /\ m' = Zero(schema)

\* The call fails with a status.  The client of a stream takes any error of Recv
\* for the end: it closes the channel, and its reader sees no error.
Failed(seen) == IF ServiceDesc[rpc].stream THEN seen ELSE [seen EXCEPT !.err = "status"]

Complete == iNdEx >= Len(dAtA)
Receiving == IF pc = "request" THEN ServiceDesc[rpc].req ELSE ServiceDesc[rpc].resp

\* One field is decoded.
Decode ==
    /\ pc \in {"request", "response"}
    /\ ~Complete
    /\ \E r \in {DecodeField(Receiving, m, dAtA, iNdEx)} :
          IF r.err
          THEN /\ pc' = "return"
               /\ got' = Failed(got)
               /\ UNCHANGED <<iNdEx, m>>
          ELSE /\ iNdEx' = r.i
               /\ m' = r.m
               /\ UNCHANGED <<pc, got>>
    /\ UNCHANGED <<rpc, sent, dAtA, said, cmd>>

\* Mutant: the buffer is given up and the position kept.
DispatchKeepsIndex ==
    /\ pc = "request"
    /\ Complete
    /\ pc' = "serve"
    /\ sent' = <<>> /\ dAtA' = <<>> /\ iNdEx' = iNdEx
    /\ m' = IF cmd = NoCommand THEN <<>> ELSE m
    /\ UNCHANGED <<rpc, said, got, cmd>>

\* The request is complete: the handler of the method is called with it.
\* What the daemon does for other commands than create is any of its outcomes,
\* so their requests need not be kept.
Dispatch ==
    /\ pc = "request"
    /\ Complete
    /\ pc' = "serve"
    /\ sent' = <<>> /\ dAtA' = <<>> /\ iNdEx' = 0
    /\ m' = IF cmd = NoCommand THEN <<>> ELSE m
    /\ UNCHANGED <<rpc, said, got, cmd>>

-----------------------------------------------------------------------------
(* The client.                                                             *)

\* Any client calls any method.
Invoke(r, x) ==
    /\ pc = "idle"
    /\ cmd = NoCommand
    /\ pc' = "request"
    /\ rpc' = r
    /\ cmd' = NoCommand
    /\ Transmit(ServiceDesc[r].req, x)
    /\ UNCHANGED <<said, got>>

\* k3c create: the flags are parsed and CreatePod is called.  A parse error
\* ends the command before it calls anything.
Create(c) ==
    /\ pc = "idle"
    /\ cmd = NoCommand
    /\ pc' = "request"
    /\ rpc' = "CreatePod"
    /\ cmd' = [at |-> "pod", flags |-> c, pod |-> <<>>, container |-> <<>>, status |-> <<>>]
    /\ \E podConfig \in {toPodOptions(c)}, conConfig \in {toContainerOptions(c)} :
          /\ podConfig.ok /\ conConfig.ok
          /\ Transmit(CreatePodRequest, [name |-> conConfig.v.name, opts |-> <<podConfig.v>>])
    /\ UNCHANGED <<said, got>>

\* The command goes on to the next call with what the last one returned.
NextCall ==
    /\ pc = "return"
    /\ got.err = "none"
    /\ cmd.at \in {"pod", "container"}
    /\ pc' = "request"
    /\ IF cmd.at = "pod"
       THEN /\ rpc' = "CreateContainer"
            /\ cmd' = [cmd EXCEPT !.at = "container"]
            /\ Transmit(CreateContainerRequest,
                        [pod_id |-> got.v[1].PodID, image |-> <<Word1>>,
                         opts |-> <<toContainerOptions(cmd.flags).v>>])
       ELSE /\ rpc' = "GetContainer"
            /\ cmd' = [cmd EXCEPT !.at = "inspect"]
            /\ Transmit(GetContainerRequest, [name |-> got.v[1].container_id])
    /\ said' = Nothing
    /\ got' = Nothing

\* Mutant: the client does not look for an empty answer.
SaysNotFoundNever(x) == FALSE

\* What the client makes of a message: an answer without an id is its not found.
SaysNotFound(x) ==
    \/ rpc = "GetContainer" /\ x.container_id = <<>>
    \/ rpc = "GetImage" /\ (x.image = <<>> \/ x.image[1].id = <<>>)

\* The answer of a unary call is complete.
Receive ==
    /\ pc = "response"
    /\ Complete
    /\ ~ServiceDesc[rpc].stream
    /\ pc' = "return"
    /\ got' = IF SaysNotFound(m) THEN [got EXCEPT !.err = "notfound"]
                                 ELSE [got EXCEPT !.v = <<m>>]
    /\ UNCHANGED <<rpc, wireVars, said, cmd>>

\* A message of a stream is complete and handed to the reader.
ReceiveStream ==
    /\ pc = "response"
    /\ Complete
    /\ ServiceDesc[rpc].stream
    /\ pc' = "serve"
    /\ sent' = <<>> /\ dAtA' = <<>> /\ iNdEx' = 0 /\ m' = <<>>
    /\ said' = Nothing
    /\ UNCHANGED <<rpc, got, cmd>>

\* The call returns and the command with it.
Return ==
    /\ pc = "return"
    /\ cmd.at \in {"pod", "container"} => got.err # "none"
    /\ pc' = "idle"
    /\ rpc' = "ListPods"
    /\ sent' = <<>> /\ dAtA' = <<>> /\ iNdEx' = 0 /\ m' = <<>>
    /\ said' = Nothing
    /\ got' = Nothing
    /\ cmd' = NoCommand


-----------------------------------------------------------------------------
(* The server.                                                             *)

\* The handler returns an error: gRPC sends its status and no message.
Refuse(err) ==
    /\ pc' = "return"
    /\ said' = [said EXCEPT !.err = err]
    /\ got' = Failed(got)
    /\ UNCHANGED <<wireVars, cmd>>

\* The handler returns, or sends, a message.
Answer(x) ==
    /\ pc' = "response"
    /\ said' = [said EXCEPT !.v = <<x>>]
    /\ Transmit(ServiceDesc[rpc].resp, x)
    /\ UNCHANGED got

\* GetContainer and GetImage answer an empty message when the daemon finds
\* nothing; elsewhere not found is an error like any other.
NotFound ==
    IF rpc \in {"GetContainer", "GetImage"}
    THEN /\ pc' = "response"
         /\ said' = [said EXCEPT !.err = "notfound"]
         /\ cmd' = cmd
         /\ Transmit(ServiceDesc[rpc].resp, Zero(ServiceDesc[rpc].resp))
         /\ UNCHANGED got
    ELSE Refuse("notfound")

\* A call of any client: the daemon does what it is asked, or fails.
Serve ==
    /\ pc = "serve"
    /\ cmd = NoCommand
    /\ ~ServiceDesc[rpc].stream
    /\ \/ \E x \in Answers[rpc] : cmd' = cmd /\ Answer(x)
       \/ NotFound
       \/ Refuse("error")
    /\ UNCHANGED rpc

\* A stream: another message, its end, or an error.
ServeStream ==
    /\ pc = "serve"
    /\ ServiceDesc[rpc].stream
    /\ \/ \E x \in Answers[rpc] : cmd' = cmd /\ Answer(x)
       \/ pc' = "return" /\ UNCHANGED <<wireVars, said, got, cmd>>
       \/ Refuse("error")
    /\ UNCHANGED rpc

\* A create handler of the daemon: it panics or fails where it reads the
\* groups, or gives a configuration to the runtime.
Perform(opts, cfg, kept, answer) ==
    LET sec == GetSecurityContext(opts)
    IN  IF toID(sec.group).ok /\ Panics(sec.groups) THEN Refuse("panic")
        ELSE IF ~cfg.ok THEN Refuse("error")
        ELSE /\ cmd' = [cmd EXCEPT ![kept] = <<cfg.v>>]
             /\ Answer(answer)

\* CreatePod of the daemon for the create command.
ServeCreatePod ==
    /\ pc = "serve"
    /\ cmd.at = "pod"
    /\ Perform(m.opts[1], PodSandboxConfig(m.name, m.opts[1]), "pod", [PodID |-> <<Word1>>])
    /\ UNCHANGED rpc

\* CreateContainer of the daemon for the create command.
ServeCreateContainer ==
    /\ pc = "serve"
    /\ cmd.at = "container"
    /\ Perform(m.opts[1], ContainerConfig(cmd.pod[1], m.image, m.opts[1]), "container",
               [container_id |-> <<Word2>>])
    /\ UNCHANGED rpc

\* GetContainer of the daemon for the create command: the runtime lists the
\* sandbox, ready or not, lists the container in some state and then reports
\* its status.
ServeInspect ==
    /\ pc = "serve"
    /\ cmd.at = "inspect"
    /\ \E ready \in BOOLEAN, listed \in Statuses : \E s \in Later(listed) :
          /\ cmd' = [cmd EXCEPT !.status = <<s>>]
          /\ Answer([pod |-> <<Extern(toPod(cmd.pod[1], cmd.container[1], ready, listed, s))>>,
                     container |-> <<Extern(toContainer(cmd.pod[1], cmd.container[1]))>>,
                     container_id |-> m.name])
    /\ UNCHANGED rpc

\* A call that was made goes on.
Proceed ==
    \/ Decode
    \/ Dispatch
    \/ NextCall
    \/ Receive
    \/ ReceiveStream
    \/ Return
    \/ Serve
    \/ ServeStream
    \/ ServeCreatePod
    \/ ServeCreateContainer
    \/ ServeInspect

Next ==
    \/ \E r \in Methods : \E x \in Requests[r] : Invoke(r, x)
    \/ \E c \in Commands : Create(c)
    \/ Proceed

Spec == Init /\ [][Next]_vars

-----------------------------------------------------------------------------
(* Properties.                                                             *)

\* The type invariant, with the position never beyond the bytes.
TypeOK ==
    /\ pc \in {"idle", "request", "serve", "response", "return"}
    /\ rpc \in Methods
    /\ iNdEx \in 0 .. Len(dAtA)
    /\ pc \in {"request", "response"} => DOMAIN m = DOMAIN Receiving
    /\ said.err \in {"none", "error", "notfound", "panic"}
    /\ got.err \in {"none", "status", "notfound"}
    /\ cmd.at \in {"none", "pod", "container", "inspect"}

\* What is decoded is what was encoded, for every message of the API, with the
\* fields of a peer of another version in between: api.pb.go's Size, Marshal
\* and Unmarshal agree.  Up to the end every field is read without an error,
\* and the reader goes on without leaving the bytes.
DecodedIsEncoded ==
    pc \in {"request", "response"} =>
        /\ Len(dAtA) \in Nat
        /\ IF Complete THEN m = sent
           ELSE LET r == DecodeField(Receiving, m, dAtA, iNdEx)
                IN  /\ ~r.err
                    /\ r.i \in iNdEx + 1 .. Len(dAtA)
                    /\ DOMAIN r.m = DOMAIN Receiving

\* The client of a unary call sees the daemon's outcome: its answer, its not
\* found where the method can say so, an error if and only if the handler
\* returned one (remote.go and container_service.go against each other).  A
\* stream is left out: its reader sees the same end whatever the outcome.
OutcomeIsSeen ==
    pc = "return" /\ ~ServiceDesc[rpc].stream =>
        /\ got.v = said.v
        /\ got.err = CASE said.err = "none" -> "none"
                       [] said.err = "notfound" /\ rpc \in {"GetContainer", "GetImage"} -> "notfound"
                       [] OTHER -> "status"

\* The command ended and inspect shows a pod and a container.
Inspected == pc = "return" /\ cmd.at = "inspect" /\ got.err = "none"
ShownPod == Content(got.v[1].pod[1])
ShownContainer == Content(got.v[1].container[1])

\* The numerals of a --publish argument, from the last.
Numerals(arg) == [k \in {n \in DOMAIN arg : arg[n] \in DOMAIN Number} |-> Number[arg[k]]]
Fits(n) == n < 2 ^ (Int32Bits - 1)

\* Every published port is shown as it was asked for: the last numeral is the
\* container's port, one before it the host's, as long as they fit the field
\* (ports.Parse, the wire, the pod's configuration, toContainer).
PortsAsAsked ==
    Inspected =>
        /\ Len(ShownContainer.ports) = Len(cmd.flags.publish)
        /\ \A k \in DOMAIN cmd.flags.publish :
              LET arg == cmd.flags.publish[k]
                  nums == Numerals(arg)
                  last == CHOOSE n \in DOMAIN nums : \A o \in DOMAIN nums : o <= n
                  shown == ShownContainer.ports[k]
              IN  /\ Fits(nums[last]) => shown.container = nums[last]
                  /\ \A n \in DOMAIN nums \ {last} : Fits(nums[n]) => shown.host = nums[n]
                  /\ DOMAIN nums = {last} => shown.host = 0
                  /\ shown.udp <=> Contains(arg, UdpSuffix)

EndsReadOnly(arg) == Len(arg) > 1 /\ Last(arg) = Ro /\ arg[Len(arg) - 1] = Colon

\* Where a source is below the volume directory: a name, or a path that starts
\* with that directory.
IsVolume(source) == Head(source) \notin Slashed \/ Head(source) = VolumeDir

\* Two mounts show the same volume only if the same source was asked for, or
\* both are below the volume directory and end in the same element (the code
\* takes <dir>/a/x, <dir>/b/x and the name x for one volume); a mount without a
\* source has a volume of its own, every volume that is mounted is listed once,
\* and a mount is read only if and only if it says so (volumes.Parse,
\* volume.Setup, PathToType, addMount).
MountsAsAsked ==
    Inspected =>
        LET asked == cmd.flags.volume
            shown == ShownContainer.mounts
            parts(k) == SplitN(asked[k], Colon, 3)
            moded(k) == Len(parts(k)) > 1 /\ Last(parts(k)) \in {<<Ro>>, <<Rw>>}
            words(k) == IF moded(k) THEN Front(parts(k)) ELSE parts(k)
            source(k) == words(k)[1]
            anonymous(k) == Len(words(k)) = 1 \/ source(k) = <<>>
        IN  /\ DOMAIN shown = DOMAIN asked
            /\ \A k \in DOMAIN asked :
                  /\ shown[k].path = Last(words(k))
                  /\ shown[k].readonly <=> EndsReadOnly(asked[k])
                  /\ Cardinality({v \in ShownPod.volumes : v[1] = shown[k].name}) = 1
            /\ \A k, n \in DOMAIN asked :
                  k # n /\ shown[k].name = shown[n].name =>
                      /\ ~anonymous(k) /\ ~anonymous(n)
                      /\ \/ source(k) = source(n)
                         \/ /\ IsVolume(source(k)) /\ IsVolume(source(n))
                            /\ Base(source(k)) = Base(source(n))

\* The namespaces, the user and the privileges of the container are the ones
\* asked for, in the pod and in the container alike (toSharedSecretOptions is
\* called for each, and each is sent in a message of its own).
SecurityAsAsked ==
    Inspected =>
        LET flags == cmd.flags
            cfg == cmd.container[1]
            host(flag) == flag = <<HostWord>>
        IN  /\ ShownPod.hostNetwork <=> host(flags.net)
            /\ ShownPod.hostPID <=> host(flags.pid)
            /\ ShownPod.hostIPC <=> host(flags.ipc)
            /\ <<cfg.net, cfg.pid, cfg.ipc>> = <<cmd.pod[1].net, cmd.pod[1].pid, cmd.pod[1].ipc>>
            /\ ShownContainer.privileged <=> flags.privileged
            /\ cmd.pod[1].privileged <=> flags.privileged
            /\ cfg.groups = [k \in DOMAIN flags.groupAdd |-> Number[flags.groupAdd[k][1]]]
            /\ /\ flags.user # <<>> /\ flags.user[1] \in DOMAIN Number
               /\ Len(flags.user) > 1 => flags.user[2] = Colon
               => ShownContainer.user = <<Number[flags.user[1]]>>

\* What inspect says of a container is the state the runtime reported last,
\* whether the container ever started or not, unless that state is unknown; and
\* the phase, read from an earlier list, is not ahead of it: a pod in phase
\* Running has a container that runs or has ended, never one that waits.  (The
\* converse is not so: toPhase keeps Running for a container that ended.)
StateIsShown ==
    Inspected =>
        LET s == cmd.status[1]
        IN  /\ State(s) = "created" => ShownPod.state = "waiting"
            /\ State(s) = "running" => ShownPod.state = "running"
            /\ State(s) = "exited" => ShownPod.state = "terminated"
            /\ ShownPod.phase = "Running" => ShownPod.state # "waiting"
=============================================================================
