# A TLA+ model of k3c

k3c is a container engine in one binary: a daemon, which is containerd with its
CRI plugin and a k3c plugin compiled in, and a command line client that drives
it over gRPC. This directory holds TLA+ modules for the parts of k3c that keep
state or run concurrently, TLC configurations that check them on small
instances, and TLAPS proofs of the main safety results for every instance.

`PROJECT.json` lists components, runs, mutants, the source lines each definition
models (`map`), findings, hazards and theorems.

## 1. Inventory

| component | state | operations | talks to |
|---|---|---|---|
| CRI stores (vendored `cri/pkg/server`) | sandboxes, containers, their status | RunPodSandbox, StopPodSandbox, RemovePodSandbox, Create/Start/Stop/RemoveContainer, lists, recovery after a restart | called by the daemon and by any other CRI client on the socket |
| pod and container handlers (`pkg/daemon/pod.go`, `container.go`) | none of their own: the stores, and annotations on what is stored | CreatePod, CreateContainer, listPods, GetContainer, Start/Stop/RemoveContainer, Attach, Exec | CRI, over the daemon's own socket; the kicker |
| pod garbage collector (`gc`, `runGC`) | lists on its stack, across a five second sleep | one pass per Kicked | CRI, kicker |
| kicker (`pkg/kicker`) | a flag, a mutex, a condition variable, a context | Kick, Kicked, New | collector, RemoveContainer |
| container commands (`cmd/create`, `run`, `start`, `stop`, `rm`, `ps`) | one process per command | sequences of RPCs with nothing held in between | the daemon, by gRPC |
| image pull (`cmd/pull`, `PullImage`, `PullProgress`) | a ticker goroutine and a channel per progress | pull, progress | image service |
| image push (`cmd/push`, `PushImage`, `PushProgress`, `pkg/pushstatus`) | `pushJobs`, a tracker goroutine per push | push, progress | image service |
| event and log streams (`Events`, `LogContainer`, `cmd/events`, `cmd/logs`) | goroutines, channels and a gRPC stream | open, deliver, end | event bus, log files, CRI |
| volumes (`pkg/daemon/volume`) | a directory per volume | create, remove, list, set up a mount | CreateContainer, which creates anonymous volumes |
| image store operations (tag, rmi, images) | containerd's image store, and the index of it that the CRI keeps | TagImage, RemoveImage, PullImage, ListImages, GetImage | TagImage writes to containerd; every lookup reads the index; events connect the two |
| start-up and shutdown (`plugins.go`, `client.go`, `remote/server`) | the `initialized` flag, the clients Start makes | Bootstrap, Start, SetInitialized, Close | everything |
| conversions and argument parsing | none | flags to options, options to CRI configurations, configurations and statuses to Kubernetes objects | commands, handlers |
| generated API (`api.pb.go`), client and server wrappers | a message being decoded | Size, Marshal, Unmarshal of each message; unary and streaming calls | everything between a command and the daemon |
| exec, image build, daemon command, flag library, tables | wiring | | |

What is hard here, and what makes each part correct:

* The collector acts on lists that are five seconds old, in a store that
  everybody else keeps changing. It must not take down what is in use, and must
  get every pod that is not.
* A container is created and started in several steps, each of which looks at
  its pod once. Nothing may run in a pod that no k3c command can see any more.
* A command resolves a reference with one list call per kind and one status call
  per container, then acts on the answer. "Not found" and "removed" have to be
  true.
* Nobody holds anything between two RPCs: clients are interrupted, calls fail,
  the daemon and the machine restart at every point. What is left behind has to
  be found again.
* Goroutines hand over on unbuffered channels, and contexts are cancelled from
  the other end. Each has to end with its client.
* The daemon connects to the socket of its own process, which opens only once
  the daemon's plugin has returned; RPCs arrive before it is connected, and
  signals at any time.
* A condition variable with two kinds of wakeup must not lose one.
* The index of images is brought up to date by whoever changed something and by
  a monitor of events, each reading containerd first and writing later. It must
  not stay wrong.
* Tagging and removing an image take one access per reference, with pulls, tags
  and removals of others in between, and may stop in the middle.
* A flag passes through five forms before inspect shows it: text, options, bytes,
  a runtime configuration, a Kubernetes object. Sizes are computed apart from the
  bytes they announce, and int, int64 and int32 are cut into each other.

## 2. Modules

| module | what it models |
|---|---|
| `Cri` | the stores, and one action per CRI call (or per part of a call, where others can get in between) |
| `K3cDaemon` | handlers, collector, commands and environment over `Cri` |
| `MCK3cDaemon` | the symmetry set for TLC |
| `K3cDaemonProofs` | theorems about `K3cDaemon` |
| `Latch` | what a kicker promises |
| `Kicker` | the kicker, statement by statement; implements `Latch` |
| `KickerProofs` | theorems about `Kicker` |
| `Pull` | one pull with its progress, against other clients of the image store |
| `Push` | concurrent pushes of one image |
| `Stream` | one `events` or `logs` from its source to the command |
| `PullProofs`, `PushProofs`, `StreamProofs` | theorems about these three |
| `Startup` | the daemon coming up, serving and going down |
| `StartupProofs` | theorems about `Startup` |
| `Store` | images and volumes: pulls, tags, removals, containers and their mounts, by several clients |
| `StoreProofs` | theorems about `Store` |
| `Schema` | the messages of the API: their fields, zero values and widths |
| `Wire` | their encoding and decoding |
| `Convert` | the conversions from flags to what inspect shows, as operators over `Schema`'s messages |
| `Api` | calls from the command to the daemon and back, over `Convert`; encoder and decoder are parameters |
| `MCApi` | `Wire`'s encoder and decoder for those parameters, and the messages, flags and unknown fields for TLC |
| `ApiProofs` | theorems about `Api` |

### Cri

`sandbox[p]` is absent, ready, notready or removed; `cstate[k]` is absent,
created, starting, launching, running, exited or removed. Ids are random in the
code and never reused, so an id lives once. Calls that are not atomic are split
where it matters:

* StopPodSandbox stops the containers it finds (`StopPodContainers`), then the
  sandbox (`StopSandboxTask`);
* RemovePodSandbox removes containers and gives up at one it cannot remove, with
  any part of the others removed;
* CreateContainer looks at the sandbox (`MayCreateIn`) long before it adds the
  container (`AddContainer`), and not again;
* StartContainer marks the container (`SetStarting`), looks at the sandbox
  (`CheckSandbox`), and starts the task (`StartTask`). The mark keeps removal and
  other starts out, not stops and not changes of the sandbox.

`RecoverStores` is what a restart leaves: tasks survive the daemon and not the
machine; a start that was under way is undone or done. `CriSpec` is the service
with any client making any call at any time.

Abstracted: images, networks, snapshots, metadata other than name and sandbox.
A container that recovery cannot classify (state UNKNOWN), which needs corrupt
checkpoints, is left out. DropPod, how another client removes a pod of its own,
is one step.

### K3cDaemon

Each client process gets one command. `pc` says which call it makes next; `ref`
is the reference it was given, or got from its create; `op` the runtime call it
looks a container up for; `seenPods`, `todo` and `found` are listPods in progress;
`target` is the container found. A reference is a name, an id, or `Empty`, the
string "" that is a prefix of every id and that a `run` whose CreatePod failed
goes on with.

The collector has a step per call: `GcListPods`, `GcListCtrs`, a stop and a removal
per container without k3c annotations, `GcSleep`, then for each pod counted 0
`GcStopPod`, `GcStopSandbox`, `GcRemovePod`. `kicked` is set by every
RemoveContainer and, as in the code, never reset. `born` is a history variable:
the containers added since the pass listed containers.

The environment: another CRI client (`Foreign...`), containers that exit, clients
that are interrupted at any step, a daemon that restarts with or without the
machine. A call that could succeed may fail all the same (`Fault`); `MaxFaults`
bounds these failures and the restarts together.

Abstracted: what pods and containers are configured with; IPs and statistics
that listPods collects; several arguments on one command line (the command
repeated). The stream of an attached `run` ends, for the model, when the
container was started: it changes no state after that. A stop's timeout is part
of StopContainer.

### Kicker and Latch

`Kicker` has a step per statement under the mutex, the notify list of `sync.Cond`,
the goroutine that `New` starts, and a context. `Latch` says what users rely on: once
kicked, every call of Kicked returns true; once cancelled and never kicked,
every call returns false; nobody waits once either has happened.

### Pull, Push, Stream

`Pull` has the command's two goroutines, the two RPC handlers and the ticker
goroutine; other clients pull and remove the image meanwhile (`MaxChanges`
times). `Push` has any number of pushes of one image that share a key of
`pushJobs`: which tracker a progress handler finds depends on who registered or
deleted last, and `late` has the handlers whose minute of polling is over. An image
that is there without a digest is pulled without a progress. `Stream` follows items (event types, log lines) by their position
from the source through the daemon's goroutine, the handler, the gRPC stream of
`Window` messages, the client's goroutine to the command. The event subscription
stops delivering when its context is done but never closes its channel, so the
daemon's side of `events` stays for ever; `logs` has an end of file, a container
that is started, exits and is removed, and a context instead. ReadLogs fails where
its file, its watcher or the runtime does (`ReadLogsFails`), at a first line that no
parser takes (`Read`), and when a container it follows is gone (`WaitLogs`); the
daemon logs the error and the client sees a normal end. `failed` says that this
happened; `had`, how many lines there were at the start, is a ghost.

### Startup

Four kinds of goroutine: containerd's `main`, which loads the plugins and then
opens the socket; the goroutine of `PluginInitFunc`, which connects to that socket
and sets the fields of the `Daemon` one at a time (`clients`); the RPC handlers,
each with the fields it uses (`Uses`); the signal handler, which stops the server
and closes the plugins without waiting for anybody. Using a field that is nil
ends the process (`exit = "panic"`), and after a signal this can happen: Close sets
`cClient` to nil under the handlers that are still running. Bootstrap changes
nothing of this state, whether it is skipped, succeeds or fails: its error is
logged. `K3cDaemon` begins where `initialized` is set.

### Store

`store` is containerd's table from references to images, `index` the CRI's, `events`
the references whose events the monitor has not handled. An update of the index
takes its lock, reads containerd (`fetched`) and writes what it read; containerd goes
on changing in between. Each client runs one call at a time and `call[c].pc` is the
next access it makes: PullImage fetches a tag (`PullFetch`, any image, or a failure
with or without the tag set), then creates or moves three references and updates the
index after each; TagImage resolves by the index, reads the digest's entry from
containerd and creates one tag after another until one is malformed or exists;
rmi of a digest lists first, RemoveImage resolves by the index and deletes the
references it saw, in any order (the code keeps them in a map's order), updating
the index after each. `Restart` ends every call and loads the index again.

Volumes are directories: CreateVolume is one Mkdir, RemoveVolume a Stat and then a
RemoveAll that asks nobody, CreateContainer one step per mount and then the
runtime's call in two: it makes the paths that are missing (`RunCreate`) and, long
after, has the container in its store (`AddContainer`). Anonymous volumes are
numbered. `granted`, `paths` and `skipped`, and `since` and `made` of a call, are ghosts
that remember what happened for the properties: `paths[c]` what a create has made and
nobody removed since, `skipped` the references the last restart failed to load.

A restart that comes between containerd's record of a container and the store's
finds the container again; as the outcome of a create is not kept, this is
`AddContainer` followed by `Restart`.

Abstracted: the references are those of one repository, and an image's id and
manifest digest stand for each other. Handling an event reads what containerd has by
then, so one event per reference stands for all that wait; an event whose handling
failed waits on, which is the monitor's backoff. containerd's commit and the
publication of its event are one step: an event that is not published yet and one
that is not handled yet are the same to everybody, and both are lost with the process
only. An image without the CRI's label, which buildkit writes and which updateImage
labels itself with a write of its own, is left out.

### Schema, Wire, Convert, Api

The generator of `api.pb.go` writes the same code around each message's list of
fields. `Schema` has the lists (one definition per message, mapped to its Unmarshal,
where the numbers and wire types are) and `Wire` the code once: sizes of varints, elements
and maps; the buffer that is filled from its end, last field first; the loop that
reads a tag, checks the wire type, reads a varint or a length, refuses negative and
overlong lengths, and skips what it does not know, groups included. Messages of
other packages are one opaque byte. Words are narrower than Go's because TLC's
integers have 32 bits: uint64 has `WordBits` = 29 and int32 `Int32Bits` = 18 bits,
chosen so that the last byte of a full varint holds one bit, as with 64.

`Convert` has the parsers (ports, volumes, environment and label files), the three
functions of `cmd/create` that make options, the daemon's functions that make CRI
configurations from them (users, groups, namespaces, mounts), and toPod, toContainer,
toContainerStatus, toPhase and addMount. A text is a sequence of tokens (a separator,
a word the code looks for, a numeral, another word), enough to meet every case of
every parser. One token, `VolumeDir`, stands for the default directory of the volume
manager, which it is assumed to have: Setup puts it in front of a name, a flag may
begin with it, and PathToType shows what is below it by its last element (`Base`), any
other path by a digest. A status of the runtime has a start, an end and a flag for a
container that a restart failed to load, in any combination.

`Api` sends them. It takes the encoder and the decoder of one field as the constants
`Encode` and `DecodeField`, because `Wire` is recursive over data and `Api` is proved
about; `MCApi` gives them `Wire`'s. A call is made (`Invoke` with any request, or `Create`), encoded with
unknown fields around its own (`Transmit`), decoded a field per step (`Decode`), served,
answered, decoded again and returned. `Create` makes the calls of k3c create, CreatePod
and CreateContainer, and then inspect's GetContainer, each through the wire and each
with the configuration the last one led to; of the other methods the daemon's outcome
is any answer or error. A unary call's error reaches the client as a status; the client
of a stream drops it and closes its channel (`Failed`).

## 3. Runs

| run | bounds | shows |
|---|---|---|
| `lifecycle` | two clients with one command each, of all eight; two pods, two containers of one name; two faults or restarts | types, `RunningIsVisible`, `GcSparesListed`, `NotFoundIsGone`, `RemovedIsGone` |
| `collect` | one pod of k3c, one of another client, two clients that create and rm (the stop of rm -f is in `lifecycle`), one fault | `UnusedPodCollected`, under fairness of the collector only |
| `kicker` | two callers of Kicked, two of Kick | types, `NoLostWakeup`, `ImplementsLatch` (liveness included) |
| `pull` | other clients change the store twice | types, `DoneIsDrained`, `StreamEnds`, `StreamedPullEnds` |
| `push` | pushes of one image | types, `NoStaleJob`, `ProgressTerminates`, `TrackerEnds` |
| `stream` | three items, a window of one | types, `InOrder`, `LogsComplete`, `LogHandlerReturns`, `FollowEnds` |
| `startup` | one RPC for each set of clients that an RPC of several uses, in flight at once | types, `NoNilClient`, `StartsUp`, `SignalEnds` |
| `store` | two clients and two calls, two tags, two images (one of them pulled before), one volume name, two mounts, one restart that skips at most one reference | types, `IndexIsCurrent`, `TaggedTogether`, `RemovedWhole`, `VolumesKept`, `IndexCatchesUp` |
| `api` | every message with up to two fields set to values at the edges of their widths; every method; create commands of up to two flags; one unknown field of each wire type | types, `DecodedIsEncoded`, `OutcomeIsSeen`, `PortsAsAsked`, `MountsAsAsked`, `SecurityAsAsked`, `StateIsShown` |
| `gc_kills_running` | | violated: a pass that listed a pod before its container was created kills the container, running |
| `run_new` | | violated: run goes on with "" and starts or attaches to any container |
| `pull_hang` | | violated: pull of an image that is there waits for ever |

The bounds are the smallest at which what the properties are about happens: a
pod that is swept while another is being made, two containers of one name, a
command that resolves what another removes, a restart in the middle of either. A
third pod or client adds no new pair of steps; the proofs have no bounds.
Symmetry is used in safety runs only. In `store` two calls suffice for every pair
of operations to interleave step by step, with each other and with the monitor: two
removals of one image, a create and the removal of what it mounts. In
`api` (`MCApi` makes the `Requests`, `Answers` and `Commands`) two fields show what a field's length does to its neighbour; the values have
lengths of one and two bytes and are both ends of each width, and two flags are
what two conversions need to get in each other's way (net and privileged, two
mounts, a file and a flag).

Fairness. `collect` assumes that the collector's goroutine is not starved, that
its calls return and its sleeps end, nothing about clients. `pull`, `push` and
`stream` assume that goroutines run and that a `select` does not pass over a
context that is done for ever (a strong fairness where the other case is a
ticker, since Go picks among ready cases at random), and that a timer fires; nobody
is assumed to leave, to publish, to exit or to fail. `kicker` assumes that a lock that is free again and again
is got. `startup` assumes that goroutines run and that Bootstrap, which may pull an
image, ends; no signal and no RPC has to come. Deadlock checking is off in
`pull`, `push` and `stream`, where everybody may be done, and in `startup`, where the
process ends. `store` assumes that whoever holds the lock of the index gives it
back and that the monitor's goroutine goes on, nothing about clients; deadlock
checking is off because the bound on the calls stops it.

What the violations rest on is quoted in PROJECT.json under `findings`.

## 4. Proofs

For any sets of pods, containers, names, clients and commands and any bound on
faults, from `CriAssumption` and `DaemonAssumption` (the sets are disjoint where
ids and names must differ) only:

* `TypeCorrect`: `Spec => []TypeOK`. Beyond types, `TypeOK` says that a pending call has
  its argument (the collector's current pod is a pod, a client about to call has
  a target), which is what later proofs need of a `pc`.
* `ImplementsCri`: `Spec => CriSpec`. Every step of the daemon and its environment
  is one call of the service or leaves the stores alone, so what the calls
  preserve holds whoever makes them.
* `RunningVisible`: `Spec => []RunningIsVisible`. Not inductive: a container that is
  being started may find its sandbox removed. `LaunchingIsVisible` adds the
  containers that have seen their sandbox; it is inductive because such a
  container is not removable and RemovePodSandbox gives up at it.
* `ListedSpared`: `Spec => []GcSparesListed`. Nothing but a create brings a container
  into the store (`CallsWithoutNewCtrs`), every create is recorded in `born`, and the
  pass starts with pods that have no container at the moment it lists them.
* `ServedIsReady`: `Spec => []NoNilClient` for any RPCs in flight (`CallsAssumption`: they
  are RPCs of the service). `NoNilClient` speaks of the moment of a panic; `IInv` in
  `StartupProofs` adds the order in which Start sets the clients, that the flag is
  last, that handlers run after it, and that only Close takes a client back.
  `StartupTypes` follows from the same invariant.
* `KickerTypes`, `WakeupKept` and `RefinesLatch` for any number of callers of the kicker, from
  an inductive invariant (`IInv` in `KickerProofs`) that ties the flag, the notify list and
  the holder of the lock together.

Of the lookups of `K3cDaemon`, from the same assumptions:

* `IdsMoveForward`: `Spec => [][IdsForward]_vars`. No step of anybody brings back a
  container or a pod that is gone or gives a container another pod or name.
* `NotFoundRight` and `RemovedGone`: `NotFoundIsGone` and `RemovedIsGone`. A lookup lists the
  pods, then the containers, then asks for the status of each, and the stores change in
  between. `LookupIInv` follows one container through these stages: as long as it is
  there it is among what the lookup has kept (`Keeps`), because whatever was there once
  is never new again (`Existed`, with `IdsForward`); a lookup by id has found that
  container and no other (`OnRef`); and rm comes to its end by a RemoveContainer only
  (`Removes`).
* `ActsOnReferred`: `OnRef` for every client, in every state. No run checks it by itself; the
  violation `run_new` shows what happens where its hypothesis, an id, fails.

Of the streams, for any number of changes, pushes and items and any window
(`PullAssumption`, `PushAssumption`, `StreamAssumption`):

* `DrainedWhenDone` and `PullTypes`, from the order in which the command, the handler and
  the ticker begin (`CommandInOrder`, `NotYetCalled`) and end (`EndsInOrder`).
  `NilStreamStays` says for every instance why `pull_hang` finds a pull that waits for
  ever: no step leaves a range over the nil channel, and none lets its command end well.
* `JobIsLive` and `PushTypes`: `NoStaleJob` is inductive once a push that is registered has a
  tracker (`HasTracker`).
* `ReceivedInOrder`, `LogsAreComplete` and `StreamTypes`. `InOrder` is stated as: the path (what
  the command has, what it holds, the wire, what the handler holds) lists exactly the
  items that were read, strictly upwards. In this form a step is one of two facts about
  sequences: passing an item on leaves the path as it is (`MovedOn`), and reading one puts
  it at the end of the path, or counts for nothing if it is not shown (`TakenIn`).
  `LogsComplete` adds that who ended has seen the one behind it end with nothing left
  (`EndsInOrder`), and that the reader of a log ends only with a failure, or after the
  last line and, if it follows, after it saw that the container does not run
  (`ReadAfterExit`).

Of the store, for any clients, tags, images, names, calls and restarts, from
`ImageAssumption`:

* `IndexFollows`: `Spec => []IndexIsCurrent`. Not inductive: an
  update may be about to write something stale over what is right. `IndexInv` in
  `StoreProofs` adds `Fresh` (what was fetched is what containerd has, or an event is
  pending) and `OneHolder` (the lock: nobody else is about to write, so that the one
  write that was going to set a reference right is not lost). A restart drops all of
  this and starts from the store, less what it adds to `skipped`. Without the lock the
  property is false, which is the mutant of the run.
* `TagsTogether` and `RemovalIsWhole`: `TaggedTogether` and `RemovedWhole`, from `CallsInv`: what
  the record of a call says at each `pc` (`CallOK`), and that what a removal has deleted
  by now (`Gone`) is gone or was written since (`Cleared`). The step that could break the
  second is somebody else's write; `SetMoves` shows that it is noted in every removal
  that saw the reference, and `CallMoves` that all other steps only take references away.
* `VolumesStay` and `StoreTypes`: `VolumesKept` and `TypeOK`. `VolumesKept` is not inductive: a
  create has its anonymous volumes before there is a container. `Apart` adds that they
  have one owner among the containers and the creates under way, and that their
  numbers were given out; `PathsOK` that the paths a create has made are there until a
  removal takes them from `paths` too, which makes them `lost` in the container that is
  added later. Names may even be numbers: nothing is assumed of them.

Of the API, for any requests and answers, any create commands (flags of any length) and
any fields of other versions, any widths of the words, and any encoder and decoder:

* every theorem has the form `Spec /\ []DecodedIsEncoded => []P`. What the wire has to do
  for the calls is the hypothesis: a message that is read to its end is the one that was
  sent, and until then each field is read without an error and inside the bytes. For the
  code's own encoder and decoder TLC checks it in `api`; for every message it is an
  induction over data.
* `CallsInOrder`: `Exchange` and `Command`, the inductive invariant. `Exchange` says, by
  `pc`, what the daemon has said and the client has seen; at `response` it is that the
  message on its way is the answer that was given, or the empty one that stands for not
  found, which no answer looks like; of a stream that ended it is that its reader has
  seen nothing of how. `Command` says of a create command which call it is at,
  that what it sends is what its flags make (`Asks`), and that the configurations it keeps
  are those that `Convert` makes of the flags, once the call that makes them was answered.
  Neither is inductive without the other: which method a command calls decides whether
  an answer can be taken for a not found.
* `ClientSeesOutcome` and `ApiTypes` follow from it.
* `PublishedPorts`, `AskedMounts`, `AskedSecurity` and `ReportedState` follow in the states where
  inspect has answered (`InspectedOf`), by what the parsers and conversions do to any text.
  `CutOf` and `SplitOf` say where strings.SplitN cuts; `PortOf` that an argument ports.Parse
  accepts is one numeral, or two with a colon between, whatever its suffix; `ReadOnlyOf` that
  volumes.Parse takes `:ro` at the end and nowhere else; `MountOf` and `NamesDiffer` what
  Setup and PathToType make of a source, and that a volume that was made up is not one
  that was named; `BaseOf` and `BaseOfName` that the directory in front of a name does not
  change its last element, so that a name and a path can share a volume only by that
  element; `GroupsOf` and `UserOf` what becomes of numbers.
* assumed of the constants: `AnswersAssumption` (an object that is returned has an id),
  `CommandsAssumption` (flags are texts), `WidthAssumption`, and `PowerAssumption`, two facts
  about powers of two that the provers have no theory of. TLC evaluates all four.

The inductive invariants were checked by TLC on the instances of the runs first, those
of `Api` on fewer commands.

Only model-checked:

* all liveness properties (`UnusedPodCollected`, `StreamEnds`, `StreamedPullEnds`,
  `ProgressTerminates`, `TrackerEnds`, `LogHandlerReturns`, `FollowEnds`, `StartsUp`,
  `SignalEnds`, `IndexCatchesUp`): fairness is out of the prover's reach, so of
  `ImplementsLatch` the safety part only is proved (`RefinesLatch`);
* `DecodedIsEncoded`: what the encoder and the decoder compute for every message is an
  induction over data, which the provers cannot do.

## 5. Not modelled

Not modelled:

* exec: a lookup, which `K3cDaemon` has for the other commands, and a call without an
  effect on k3c's state; its messages are in `Schema`;
* the build and the buildkit worker: buildkit's own state machine, wired up here;
* the daemon command and its configuration: flags that become files for containerd;
* the flag library (`pkg/clibuilder`) and `pkg/validate`: reflection over struct tags;
* tables and output formats;
* of the generated API, what has no part in a call: String, GoString, Reset, getters.

Every safety property that a passing run checks has its theorem, except
`DecodedIsEncoded`, on which the theorems about `Api` rest.

Behaviours of the code that no property states, for want of a text that says
otherwise, or because one sequential test shows them:

* a container that CreateContainer adds after the collector removed its pod stays
  in the store and is listed by no k3c command (it can never run: `RunningIsVisible`);
* the collector stops and removes containers without k3c annotations, those of other
  CRI clients included (pod.go:194);
* the clients of streams take every error for the end: logs ends without one when its
  container is unknown or removed, when a line has no known format or the file cannot be
  read; events ends with its first event (cmd/events/events.go:29);
* logs -f of a container that is just being started ends at the end of what it has
  written so far: it is not running yet;
* a reference that a restart fails to load is not tried again until it is written;
* volume rm between the moment a create makes a path and the moment its container is
  there is not noticed: the container mounts nothing that exists;
* inspect shows one volume for `<volumes>/a/x`, `<volumes>/b/x` and the name x;
* `--group-add root`, or an empty group, makes toGroupIDs dereference nil
  (container.go:361): the handler panics;
* a container whose status a restart failed to load is shown by its times, as running
  for instance;
* a port beyond int32 becomes another one (`PortsAsAsked` speaks of those that fit);
* `--cpus` is sent and not used, the annotation it would be read from is never
  written; `--init` and the apparmor option have no effect;
* the values of `--env` are trimmed by kv.Split, although the file they may come from
  is read without trimming;
* the phase of a pod with one running container is Running whatever the others do
  (allRunning in toPhase is never set to false), and stays Running when it ends;
* rm -v and the force of volume rm are ignored; PathToType looks at the default
  directory, whatever directory the manager was given;
* rmi of a tag that the index does not have yet succeeds and removes nothing.
