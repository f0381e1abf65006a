------------------------------ MODULE Convert ------------------------------
(***************************************************************************)
(* What the flags of k3c create become: the options the command sends      *)
(* (cmd/create/create.go, pkg/ports, pkg/volumes, pkg/kvfile), the         *)
(* configurations the daemon gives to the container runtime and the        *)
(* Kubernetes objects it later shows (pkg/daemon/pod.go, container.go).    *)
(*                                                                         *)
(* A text is a sequence of tokens: a separator, a word the code looks for, *)
(* a numeral or any other word.  A message of another package is one       *)
(* opaque byte, see Extern.                                                *)
(***************************************************************************)
EXTENDS Schema

\* Tokens.
Space == 32
Hash == 35
Colon == 58
Equals == 61
TcpSuffix == 116    \* "/tcp"
UdpSuffix == 117    \* "/udp"
Ro == 111
Rw == 119
Root == 114
HostWord == 104
Slash == 47
VolumeDir == 118    \* "/var/lib/rancher/k3c/volumes", the directory of the volume manager
Slashed == {Slash, VolumeDir, TcpSuffix, UdpSuffix}    \* what starts with "/"
Kilo == 107         \* a unit of memory
Word1 == 97         \* any other word
Word2 == 98
Random == 120       \* the name that name.Random makes up

\* Numerals, with one that is beyond the range of int32.
Number ==
    [t \in {48, 49, 50, 51} |->
        CASE t = 48 -> 0 [] t = 49 -> 80 [] t = 50 -> 127 [] t = 51 -> 2 ^ Int32Bits + 80]

\* The bytes of a message of another package with the content x.
Extern(x) == <<x>>
Content(bytes) == bytes[1]

Error == [ok |-> FALSE]
Ok(v) == [ok |-> TRUE, v |-> v]

\* The results of a parser on a list of arguments, or its first error.
All(results) ==
    IF \A k \in DOMAIN results : results[k].ok
    THEN Ok([k \in DOMAIN results |-> results[k].v])
    ELSE Error

\* strings.SplitN(t, sep, n), for n of 2 and 3: what is before the first sep
\* and what follows it, which is cut again for n of 3.
CutAt(t, at) ==
    IF at = 0 THEN <<t>> ELSE <<SubSeq(t, 1, at - 1), SubSeq(t, at + 1, Len(t))>>
Cut(t, sep) == CutAt(t, SelectInSeq(t, LAMBDA c : c = sep))
CutRest(parts, sep) == IF Len(parts) = 1 THEN parts ELSE <<parts[1]>> \o Cut(parts[2], sep)
SplitN(t, sep, n) == IF n = 2 THEN Cut(t, sep) ELSE CutRest(Cut(t, sep), sep)

From(t, at) == IF at = 0 THEN <<>> ELSE SubSeq(t, at, Len(t))
TrimLeft(t) == From(t, SelectInSeq(t, LAMBDA c : c # Space))
TrimSpace(t) == Reverse(TrimLeft(Reverse(TrimLeft(t))))

\* kv.Split.
kvSplit(t, sep) ==
    LET parts == SplitN(t, sep, 2)
    IN  <<TrimSpace(parts[1]), IF Len(parts) > 1 THEN TrimSpace(parts[2]) ELSE <<>>>>

\* strconv.Atoi, ParseInt and ParseFloat of a numeral.
Atoi(t) == IF Len(t) = 1 /\ t[1] \in DOMAIN Number THEN Ok(Number[t[1]]) ELSE Error

\* units.RAMInBytes: a number with or without a unit.
RAMInBytes(t) ==
    IF Len(t) = 2 /\ t[1] \in DOMAIN Number /\ t[2] = Kilo THEN Ok(1024 * Number[t[1]])
                                                        ELSE Atoi(t)

-----------------------------------------------------------------------------
(* The command line.                                                       *)

\* Mutant: the ports are taken the wrong way round.
ParsePortSwapped(p) ==
    LET suffix == p # <<>> /\ Last(p) \in {TcpSuffix, UdpSuffix}
        parts == SplitN(IF suffix THEN Front(p) ELSE p, Colon, 2)
        container == Atoi(parts[1])
        host == IF Len(parts) = 2 THEN Atoi(parts[2]) ELSE Ok(0)
    IN  IF host.ok /\ container.ok
        THEN Ok([protocol |-> IF suffix /\ Last(p) = UdpSuffix THEN "UDP" ELSE "TCP",
                 container_port |-> Signed(container.v, Int32Bits),
                 host_port |-> Signed(host.v, Int32Bits)])
        ELSE Error

\* ports.Parse of one argument: [hostPort:]containerPort[/tcp|/udp].
ParsePort(p) ==
    LET suffix == p # <<>> /\ Last(p) \in {TcpSuffix, UdpSuffix}
        parts == SplitN(IF suffix THEN Front(p) ELSE p, Colon, 2)
        host == IF Len(parts) = 2 THEN Atoi(parts[1]) ELSE Ok(0)
        container == Atoi(Last(parts))
    IN  IF host.ok /\ container.ok
        THEN Ok([protocol |-> IF suffix /\ Last(p) = UdpSuffix THEN "UDP" ELSE "TCP",
                 container_port |-> Signed(container.v, Int32Bits),
                 host_port |-> Signed(host.v, Int32Bits)])
        ELSE Error

ParsePorts(args) == All([k \in DOMAIN args |-> ParsePort(args[k])])

\* volumes.Parse of one argument: [source:]destination[:ro|:rw].
ParseVolume(v) ==
    LET parts == SplitN(v, Colon, 3)
        mode == Last(parts)
        moded == Len(parts) > 1 /\ mode \in {<<Ro>>, <<Rw>>}
        paths == IF moded THEN Front(parts) ELSE parts
    IN  IF Len(paths) = 3
        THEN Error
        ELSE Ok([container_path |-> Last(paths),
                 host_path |-> IF Len(paths) = 2 THEN paths[1] ELSE <<>>,
                 readonly |-> moded /\ mode = <<Ro>>])

ParseVolumes(args) == All([k \in DOMAIN args |-> ParseVolume(args[k])])

\* parseKeyValueFile: blank lines and comments are dropped, a name without a
\* value takes emptyFn's, a name with a blank in it is an error.
ParseLine(line, emptyFn) ==
    LET text == TrimLeft(line)
        data == SplitN(text, Equals, 2)
    IN  IF text = <<>> \/ Head(text) = Hash THEN Ok(<<>>)
        ELSE IF Contains(data[1], Space) THEN Error
        ELSE IF Len(data) > 1 THEN Ok(<<data[1] \o <<Equals>> \o data[2]>>)
        ELSE Ok(<<TrimSpace(text) \o <<Equals>> \o emptyFn>>)

\* readKVStrings: the lines of the files, then the flags.
readKVStrings(files, override, emptyFn) ==
    LET text == FlattenSeq(files)
        lines == All([k \in DOMAIN text |-> ParseLine(text[k], emptyFn)])
    IN  IF lines.ok THEN Ok(FlattenSeq(lines.v) \o override) ELSE Error

\* What a name without a value gets: its variable of the command's
\* environment, where each is set to Word2, or nothing.
osGetenv == <<Word2>>
noGetenv == <<>>

ReadEnv(files, override) ==
    LET vals == readKVStrings(files, override, osGetenv)
    IN  IF vals.ok
        THEN Ok([k \in DOMAIN vals.v |-> Extern(kvSplit(vals.v[k], Equals))])
        ELSE Error

\* kv.SplitMapFromSlice: a later value of a key replaces an earlier one.
SplitMap(pairs) ==
    [key \in {pairs[k][1] : k \in DOMAIN pairs} |->
        pairs[SelectLastInSeq(pairs, LAMBDA p : p[1] = key)][2]]

ReadKVMap(files, override) ==
    LET vals == readKVStrings(files, override, noGetenv)
    IN  IF vals.ok
        THEN Ok(SplitMap([k \in DOMAIN vals.v |-> kvSplit(vals.v[k], Equals)]))
        ELSE Error

\* The arguments of create: the flags the code looks into, other for those it
\* copies as they are (runtime, working directory, DNS, CPU quotas...), the
\* command line of the container, and stdinOnce, which run sets.
DefaultFlags ==
    [name |-> <<>>, hostname |-> <<>>, entrypoint |-> <<>>, user |-> <<>>, other |-> <<>>,
     cpus |-> <<>>, net |-> <<>>, pid |-> <<>>, ipc |-> <<>>, init |-> FALSE,
     tty |-> FALSE, interactive |-> FALSE, privileged |-> FALSE, readOnly |-> FALSE,
     groupAdd |-> <<>>, publish |-> <<>>, volume |-> <<>>, env |-> <<>>, envFile |-> <<>>,
     label |-> <<>>, labelFile |-> <<>>, memory |-> <<>>, sysctl |-> <<>>,
     capAdd |-> <<>>, capDrop |-> <<>>, args |-> <<>>, stdinOnce |-> FALSE]

\* v1alpha2.NamespaceMode.
POD == 0
CONTAINER == 1
NODE == 2

\* Mutant: the namespaces are set for the pod only.
toSharedSecretOptionsPodOnly(c, pod) ==
    LET mode(flag, other) == IF pod /\ flag = <<HostWord>> THEN NODE ELSE other
        names == kvSplit(c.user, Colon)
    IN  Literal(SharedSecurityOptions,
            [privileged |-> c.privileged,
             readonly_root |-> c.readOnly,
             user |-> IF pod THEN <<>> ELSE names[1],
             group |-> IF pod THEN <<>> ELSE names[2],
             groups |-> IF pod THEN <<>> ELSE c.groupAdd,
             ipc_mode |-> mode(c.ipc, POD),
             pid_mode |-> mode(c.pid, POD),
             net_mode |-> mode(c.net, POD)])

toSharedSecretOptions(c, pod) ==
    LET mode(flag, other) == IF flag = <<HostWord>> THEN NODE ELSE other
        names == kvSplit(c.user, Colon)
    IN  Literal(SharedSecurityOptions,
            [privileged |-> c.privileged,
             readonly_root |-> c.readOnly,
             user |-> IF pod THEN <<>> ELSE names[1],
             group |-> IF pod THEN <<>> ELSE names[2],
             groups |-> IF pod THEN <<>> ELSE c.groupAdd,
             ipc_mode |-> mode(c.ipc, POD),
             pid_mode |-> mode(c.pid, POD),    \* --init sets POD, which is the zero value
             net_mode |-> mode(c.net, POD)])

toPodOptions(c) ==
    LET ports == ParsePorts(c.publish)
    IN  IF ports.ok
        THEN Ok(Literal(PodOptions,
                    [hostname |-> c.hostname,
                     runtime |-> c.other,
                     dns_config |-> <<Extern(c.other)>>,
                     port_mappings |-> [k \in DOMAIN ports.v |-> Extern(ports.v[k])],
                     cgroup_parent |-> c.other,
                     sysctls |-> c.sysctl,
                     security_context |-> <<toSharedSecretOptions(c, TRUE)>>]))
        ELSE Error

toContainerOptions(c) ==
    LET labels == ReadKVMap(c.labelFile, c.label)
        env == ReadEnv(c.envFile, c.env)
        memory == IF c.memory = <<>> THEN Ok(0) ELSE RAMInBytes(c.memory)
        cpus == IF c.cpus = <<>> THEN Ok(0) ELSE Atoi(c.cpus)
        mounts == ParseVolumes(c.volume)
    IN  IF labels.ok /\ env.ok /\ memory.ok /\ cpus.ok /\ mounts.ok
        THEN Ok(Literal(ContainerOptions,
                    [labels |-> labels.v,
                     name |-> IF c.name = <<>> THEN <<Random>> ELSE c.name,
                     command |-> IF c.entrypoint = <<>> THEN <<>> ELSE <<c.entrypoint>>,
                     args |-> c.args,
                     working_dir |-> c.other,
                     envs |-> env.v,
                     mounts |-> [k \in DOMAIN mounts.v |-> Extern(mounts.v[k])],
                     stdin |-> c.interactive,
                     stdin_once |-> c.stdinOnce,
                     tty |-> c.tty,
                     millis_cpu |-> cpus.v * 1000,
                     linux_resources |-> <<Extern([memory |-> memory.v, other |-> c.other])>>,
                     add_capabilities |-> c.capAdd,
                     drop_capabilities |-> c.capDrop,
                     security_context |-> <<toSharedSecretOptions(c, FALSE)>>]))
        ELSE Error

-----------------------------------------------------------------------------
(* The daemon: options to the runtime's configurations.                    *)

\* toID: nil for the empty text and for root.
toID(t) == IF t \in {<<>>, <<Root>>} THEN Ok(<<>>)
           ELSE LET n == Atoi(t) IN IF n.ok THEN Ok(<<n.v>>) ELSE Error

\* toUserID, and toPodUser which drops the name.
toUserID(t) == LET n == toID(t)
               IN  IF t \notin {<<>>, <<Root>>} /\ n.ok
                   THEN [name |-> <<>>, id |-> n.v] ELSE [name |-> t, id |-> <<>>]
toPodUser(t) == toUserID(t).id

\* toGroupIDs reads the value of every id, nil or not: a panic.
Panics(groups) ==
    \E k \in DOMAIN groups :
        /\ toID(groups[k]) = Ok(<<>>)
        /\ \A j \in 1 .. k - 1 : toID(groups[j]).ok
toGroupIDs(groups) ==
    LET ids == All([k \in DOMAIN groups |-> toID(groups[k])])
    IN  IF ids.ok THEN Ok([k \in DOMAIN ids.v |-> ids.v[k][1]]) ELSE Error

\* opts.GetSecurityContext(): nil has the getters of a zero message.
GetSecurityContext(opts) ==
    IF opts.security_context = <<>> THEN Zero(SharedSecurityOptions)
                                    ELSE opts.security_context[1]

\* The configuration CreatePod gives to RunPodSandbox, or its error.
PodSandboxConfig(name, opts) ==
    LET sec == GetSecurityContext(opts)
        group == toID(sec.group)
        groups == toGroupIDs(sec.groups)
    IN  IF group.ok /\ groups.ok
        THEN Ok([name |-> name,
                 hostname |-> IF opts.hostname = <<>> THEN name ELSE opts.hostname,
                 ports |-> opts.port_mappings,
                 dns |-> opts.dns_config,
                 labels |-> opts.labels, annotations |-> opts.annotations,
                 cgroup |-> opts.cgroup_parent, sysctls |-> opts.sysctls,
                 selinux |-> sec.selinux_options, seccomp |-> sec.seccomp_profile,
                 net |-> sec.net_mode, pid |-> sec.pid_mode, ipc |-> sec.ipc_mode,
                 user |-> toPodUser(sec.user), group |-> group.v, groups |-> groups.v,
                 privileged |-> sec.privileged, readonly |-> sec.readonly_root,
                 runtime |-> opts.runtime])
        ELSE Error

\* Mutant: a fixed name for anonymous volumes.
AnonymousFixed(k) == 1000

\* volume.Setup on the mount number k: an anonymous volume gets a new
\* directory, a name of letters, digits and dashes a directory of the volume
\* manager, a path is kept.
Anonymous(k) == 1000 + k
ValidName(t) == \A k \in DOMAIN t : t[k] \notin {Space, Hash, Colon, Equals} \cup Slashed
Setup(mount, k) ==
    IF mount.host_path = <<>>
    THEN Ok([mount EXCEPT !.host_path = <<VolumeDir, Slash, Anonymous(k)>>])
    ELSE IF Head(mount.host_path) \in Slashed
    THEN Ok(mount)
    ELSE IF ValidName(mount.host_path)
    THEN Ok([mount EXCEPT !.host_path = <<VolumeDir, Slash>> \o mount.host_path])
    ELSE Error

resolveMounts(mounts) == All([k \in DOMAIN mounts |-> Setup(Content(mounts[k]), k)])

\* The configuration CreateContainer gives to the runtime, or its error.
ContainerConfig(pod, image, opts) ==
    LET sec == GetSecurityContext(opts)
        user == toUserID(sec.user)
        group == toID(sec.group)
        groups == toGroupIDs(sec.groups)
        mounts == resolveMounts(opts.mounts)
    IN  IF group.ok /\ groups.ok /\ mounts.ok
        THEN Ok([name |-> IF opts.name = <<>> THEN pod.name ELSE opts.name,
                 attempt |-> opts.attempt, image |-> image, labels |-> opts.labels,
                 command |-> opts.command, args |-> opts.args, workdir |-> opts.working_dir,
                 envs |-> opts.envs, mounts |-> mounts.v,
                 stdin |-> opts.stdin, stdinOnce |-> opts.stdin_once, tty |-> opts.tty,
                 devices |-> opts.devices, resources |-> opts.linux_resources,
                 caps |-> <<opts.add_capabilities, opts.drop_capabilities>>,
                 net |-> sec.net_mode, pid |-> sec.pid_mode, ipc |-> sec.ipc_mode,
                 user |-> user.id, username |-> user.name, group |-> group.v,
                 groups |-> groups.v, privileged |-> sec.privileged,
                 readonly |-> sec.readonly_root, selinux |-> sec.selinux_options,
                 seccomp |-> sec.seccomp_profile, noNewPrivs |-> opts.no_new_privs,
                 paths |-> <<opts.masked_paths, opts.readonly_paths>>, annotations |-> {}])
        ELSE Error

-----------------------------------------------------------------------------
(* The daemon: what it shows of a pod with one container.                  *)

\* filepath.Base: the last element of a path, without the slashes behind it.
\* Of a token that starts with a slash the token itself is the last element.
Base(path) ==
    LET end == SelectLastInSeq(path, LAMBDA c : c # Slash)
        at == SelectLastInSeq(SubSeq(path, 1, end), LAMBDA c : c \in Slashed)
        first == IF at > 0 /\ path[at] # Slash THEN at ELSE at + 1
    IN  SubSeq(path, first, end)

\* The md5 of a path: like no other and like no name.
Digest(path) == <<999>> \o path

\* volume.PathToType: what is below the volume directory is shown by its last
\* element, any other path by a digest.
PathToType(path) ==
    IF Head(path) = VolumeDir THEN <<Base(path), "volume">> ELSE <<Digest(path), "hostPath">>

\* addMount for every mount: the mounts, and a volume for the first one of
\* each name.
VolumeFor(mount) == PathToType(mount.host_path)
VolumeMounts(cfg) ==
    [k \in DOMAIN cfg.mounts |->
        [name |-> VolumeFor(cfg.mounts[k])[1],
         path |-> cfg.mounts[k].container_path, readonly |-> cfg.mounts[k].readonly]]
Volumes(cfg) ==
    LET isNew(k) == \A n \in 1 .. k - 1 : VolumeFor(cfg.mounts[n])[1] # VolumeFor(cfg.mounts[k])[1]
    IN  {VolumeFor(cfg.mounts[k]) : k \in {n \in DOMAIN cfg.mounts : isNew(n)}}

toContainer(podCfg, cfg) ==
    [name |-> cfg.name, image |-> cfg.image, command |-> cfg.command, args |-> cfg.args,
     workdir |-> cfg.workdir,
     ports |-> [k \in DOMAIN podCfg.ports |->
                   LET p == Content(podCfg.ports[k]) IN
                   [host |-> p.host_port, container |-> p.container_port,
                    udp |-> p.protocol = "UDP"]],
     env |-> [k \in DOMAIN cfg.envs |-> Content(cfg.envs[k])],
     memory |-> Content(cfg.resources[1]).memory,
     cpu |-> cfg.annotations,              \* read from k3c.io/cpus, which nothing writes
     mounts |-> VolumeMounts(cfg), caps |-> cfg.caps,
     privileged |-> cfg.privileged, readonly |-> cfg.readonly, selinux |-> cfg.selinux,
     user |-> cfg.user, group |-> cfg.group,
     stdin |-> cfg.stdin, stdinOnce |-> cfg.stdinOnce, tty |-> cfg.tty]

\* A status of the runtime: when the container started and finished (0: not
\* yet), and whether a restart failed to load it, which keeps the two times.
Statuses == [unknown : BOOLEAN, started : {0, 1}, finished : {0, 2}]

\* The state that the runtime reports.
State(s) ==
    CASE s.unknown -> "unknown"
      [] ~s.unknown /\ s.finished > 0 -> "exited"
      [] ~s.unknown /\ s.finished = 0 /\ s.started > 0 -> "running"
      [] OTHER -> "created"

\* The statuses that a container listed with status s may have by the time its
\* own status is asked for: a start sets the first time, or the second if it
\* fails, an exit the second; of an unknown container only the exit is noticed.
Later(s) ==
    {s} \cup
      CASE State(s) = "created" -> {t \in Statuses : ~t.unknown}
        [] State(s) = "running" -> {[s EXCEPT !.finished = 2]}
        [] State(s) = "unknown" /\ s.finished = 0 -> {[s EXCEPT !.unknown = FALSE, !.finished = 2]}
        [] OTHER -> {}

\* Mutant: the start is looked at before the end.
toContainerStatusStartFirst(s) ==
    CASE s.started > 0 -> "running"
      [] s.started = 0 /\ s.finished > 0 -> "terminated"
      [] OTHER -> "waiting"

toContainerStatus(s) ==
    CASE s.finished > 0 -> "terminated"
      [] s.finished = 0 /\ s.started > 0 -> "running"
      [] OTHER -> "waiting"

\* toPhase, from the states in which the containers were listed: allRunning is
\* never set to false, so the phases of a pod that ended are not reached.
toPhase(ready, states) ==
    LET first == SelectInSeq(states, LAMBDA s : s \in {"created", "unknown"})
    IN  IF ~ready \/ states = <<>> THEN "Pending"
        ELSE IF first = 0 THEN "Running"
        ELSE IF states[first] = "created" THEN "Pending" ELSE "Unknown"

\* The pod of a container, when its sandbox was ready or not and the container
\* was listed as such and then had status s.
toPod(podCfg, cfg, ready, listed, s) ==
    [name |-> podCfg.name, hostname |-> podCfg.hostname,
     hostNetwork |-> podCfg.net = NODE, hostPID |-> podCfg.pid = NODE,
     hostIPC |-> podCfg.ipc = NODE, sharePID |-> podCfg.pid = POD,
     user |-> podCfg.user, group |-> podCfg.group, groups |-> podCfg.groups,
     dns |-> podCfg.dns, sysctls |-> podCfg.sysctls, selinux |-> podCfg.selinux,
     runtime |-> podCfg.runtime, labels |-> cfg.labels,
     volumes |-> Volumes(cfg), phase |-> toPhase(ready, <<State(listed)>>), state |-> toContainerStatus(s),
     start |-> s.started]
=============================================================================
