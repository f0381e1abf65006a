------------------------------- MODULE Store -------------------------------
(***************************************************************************)
(* The images and the volumes of the daemon: pkg/daemon/image.go (tag,     *)
(* remove, pull), pkg/daemon/volume/volume.go, the mounts of               *)
(* CreateContainer in pkg/daemon/container.go and the commands that call   *)
(* them (cmd/tag, cmd/rmi, cmd/volume).                                    *)
(*                                                                         *)
(* The image store of containerd is the truth; the CRI service keeps an    *)
(* index of it that it brings up to date reference by reference: at once   *)
(* for what it changes itself, by containerd's events for what others      *)
(* change (TagImage goes to containerd directly).  Every lookup by name    *)
(* goes to the index.  Clients call concurrently; a call is a sequence of  *)
(* steps, each one access to a store or to the file system.                *)
(***************************************************************************)
EXTENDS Naturals, Sequences, FiniteSets

CONSTANTS
    Clients,       \* the clients that call at the same time
    Monitor,       \* the goroutine that handles containerd's events
    Tags,          \* references "repository:tag", all of one repository
    BadTag,        \* a text ParseDockerRef refuses
    Images,        \* images: a manifest with its configuration
    NoImage,
    PulledTag,     \* what was pulled before: a tag and its image
    PulledImage,
    Names,         \* names of volumes
    BadName,       \* a name the expression of valid names refuses
    MaxCalls,      \* how many calls the clients make
    MaxMounts,     \* how many mounts a container has
    MaxRestarts,   \* how often the daemon restarts
    MaxSkipped     \* how many references a restart fails to load

ASSUME ImageAssumption ==
    /\ NoImage \notin Images
    /\ PulledTag \in Tags
    /\ PulledImage \in Images
    /\ BadTag \notin Tags
    /\ Monitor \notin Clients

VARIABLES
    store,       \* containerd: the image each reference points to
    index,       \* the CRI index of it
    events,      \* the references whose image events the CRI has not handled
    skipped,     \* ghost: the references the last restart failed to load
    fetched,     \* what an update of the index has read and not yet written
    dirs,        \* the directories of the volume manager
    containers,  \* the containers, with the volumes they mount
    paths,       \* ghost: what a create mounts and nobody removed since it made it
    call,        \* what each client is doing
    granted,     \* ghost: the names that a successful volume create handed out
    calls, anonymous, restarts    \* counters

imageVars == <<store, index, events, skipped, fetched>>
volumeVars == <<dirs, containers, paths, granted, anonymous>>
vars == <<imageVars, volumeVars, call, calls, restarts>>

-----------------------------------------------------------------------------
(* Images.                                                                 *)

\* An image has a reference by its id and one by its digest.
IdRef(i) == <<"id", i>>
DigestRef(i) == <<"digest", i>>
Refs == Tags \cup {IdRef(i) : i \in Images} \cup {DigestRef(i) : i \in Images}

\* containerd creates or moves a reference, or deletes it, and publishes an
\* event.  (An event that is not published yet and one that is not handled yet
\* are the same: both are lost with the process only, and made up for by the
\* load.)  A removal under way remembers (since) what was written after it
\* looked.
Set(r, i, rec) ==
    /\ store' = [store EXCEPT ![r] = i]
    /\ events' = events \cup {r}
    /\ skipped' = skipped \ {r}
    /\ call' = [c \in Clients |->
                   IF r \in rec[c].saw THEN [rec[c] EXCEPT !.since = @ \cup {r}] ELSE rec[c]]
Delete(r) ==
    IF store[r] = NoImage
    THEN UNCHANGED <<store, events, skipped>>
    ELSE /\ store' = [store EXCEPT ![r] = NoImage]
         /\ events' = events \cup {r}
         /\ skipped' = skipped \ {r}

\* Mutant: the index is updated without its lock.
Unlocked == TRUE

\* imageStore.Update, under the lock of the index: the image is read from
\* containerd, which goes on changing, and then written to the index.
Locked == \A u \in Clients \cup {Monitor} : fetched[u] = <<>>
Fetch(u, r) ==
    /\ Locked
    /\ fetched' = [fetched EXCEPT ![u] = <<[ref |-> r, img |-> store[r]]>>]
Update(u) ==
    /\ fetched[u] # <<>>
    /\ index' = [index EXCEPT ![fetched[u][1].ref] = fetched[u][1].img]
    /\ fetched' = [fetched EXCEPT ![u] = <<>>]

\* The references of an image in the index, and the image a reference or an
\* id resolves to (localResolve).
References(i) == {r \in Refs : index[r] = i}
Resolve(r) == IF \E i \in Images : r = IdRef(i) /\ References(i) # {}
              THEN CHOOSE i \in Images : r = IdRef(i)
              ELSE index[r]

-----------------------------------------------------------------------------
(* Calls.                                                                  *)

Idle == [op |-> "none", pc |-> "done", ok |-> FALSE, name |-> BadName, img |-> NoImage,
         todo |-> <<>>, n |-> 0, refs |-> {}, saw |-> {}, since |-> {}, made |-> {}]

Begin(c, rec) ==
    /\ call' = [call EXCEPT ![c] = rec]
    /\ UNCHANGED <<imageVars, volumeVars, restarts>>

\* A call that returns keeps what the properties look at.
Done(rec, ok) ==
    CASE rec.op = "tag" -> [rec EXCEPT !.pc = "done", !.ok = ok, !.name = BadName]
      [] rec.op = "rmi" /\ ok -> [Idle EXCEPT !.op = "rmi", !.ok = TRUE,
                                             !.saw = rec.saw, !.since = rec.since]
      [] OTHER -> Idle
Returned(c, ok) == [call EXCEPT ![c] = Done(@, ok)]

Init ==
    /\ store = [r \in Refs |-> IF r \in {PulledTag, IdRef(PulledImage), DigestRef(PulledImage)}
                               THEN PulledImage ELSE NoImage]
    /\ index = store
    /\ events = {} /\ skipped = {}
    /\ fetched = [u \in Clients \cup {Monitor} |-> <<>>]
    /\ dirs = {} /\ containers = {} /\ granted = {}
    /\ paths = [c \in Clients |-> {}]
    /\ call = [c \in Clients |-> Idle]
    /\ calls = 0 /\ anonymous = 0 /\ restarts = 0

-----------------------------------------------------------------------------
(* PullImage of the CRI: the tag, then the id, the tag and the digest.     *)

BeginPull(c, t) ==
    Begin(c, [Idle EXCEPT !.op = "pull", !.pc = "fetch", !.name = t])

\* The registry's answer is any image; a failure to unpack leaves the tag.
PullFetch(c) ==
    /\ call[c].pc = "fetch"
    /\ \/ /\ call' = Returned(c, FALSE)
          /\ UNCHANGED imageVars
       \/ \E i \in Images :
             /\ \/ Set(call[c].name, i,
                       [call EXCEPT ![c].pc = "reference", ![c].img = i,
                                    ![c].todo = <<IdRef(i), call[c].name, DigestRef(i)>>])
                \/ Set(call[c].name, i, Returned(c, FALSE))
             /\ UNCHANGED <<index, fetched>>
    /\ UNCHANGED <<volumeVars, calls, restarts>>

\* createImageReference: the reference is created; one that exists and is
\* right is left, another is updated in a second step.
PullReference(c) ==
    /\ call[c].pc = "reference"
    /\ LET r == call[c].todo[call[c].n + 1]
           next(pc) == [call EXCEPT ![c].pc = pc]
       IN  IF store[r] = NoImage
           THEN Set(r, call[c].img, next("fetched"))
           ELSE /\ call' = next(IF store[r] = call[c].img THEN "fetched" ELSE "move")
                /\ UNCHANGED <<store, events, skipped>>
    /\ UNCHANGED <<index, fetched, volumeVars, calls, restarts>>

\* The reference may be gone by then: the pull fails.
PullMove(c) ==
    /\ call[c].pc = "move"
    /\ LET r == call[c].todo[call[c].n + 1]
       IN  IF store[r] = NoImage
           THEN call' = Returned(c, FALSE) /\ UNCHANGED <<store, events, skipped>>
           ELSE Set(r, call[c].img, [call EXCEPT ![c].pc = "fetched"])
    /\ UNCHANGED <<index, fetched, volumeVars, calls, restarts>>

\* The pull or the removal brings the index up to date for the reference it
\* changed; an error of containerd ends the call.
UpdateFetch(c) ==
    /\ call[c].pc = "fetched"
    /\ \/ /\ Fetch(c, call[c].todo[call[c].n + 1])
          /\ call' = [call EXCEPT ![c].pc = "update"]
       \/ /\ call' = Returned(c, FALSE)
          /\ UNCHANGED fetched
    /\ UNCHANGED <<store, index, events, skipped, volumeVars, calls, restarts>>

PullUpdate(c) ==
    /\ call[c].pc = "update" /\ call[c].op = "pull"
    /\ Update(c)
    /\ call' = IF call[c].n + 1 = Len(call[c].todo)
               THEN Returned(c, TRUE)
               ELSE [call EXCEPT ![c].pc = "reference", ![c].n = @ + 1]
    /\ UNCHANGED <<store, events, skipped, volumeVars, calls, restarts>>

-----------------------------------------------------------------------------
(* TagImage.                                                               *)

BeginTag(c, image, tags) ==
    Begin(c, [Idle EXCEPT !.op = "tag", !.pc = "resolveImage", !.name = image, !.todo = tags])

\* resolveImage: the index knows the name and a digest of its image.
TagResolve(c) ==
    /\ call[c].pc = "resolveImage"
    /\ LET i == Resolve(call[c].name)
       IN  call' = IF i = NoImage \/ DigestRef(i) \notin References(i)
                   THEN Returned(c, FALSE)
                   ELSE [call EXCEPT ![c].pc = "get", ![c].name = BadName, ![c].img = i]
    /\ UNCHANGED <<imageVars, volumeVars, calls, restarts>>

\* containerd has that digest.
TagGet(c) ==
    /\ call[c].pc = "get"
    /\ call' = IF store[DigestRef(call[c].img)] = NoImage
               THEN Returned(c, FALSE)
               ELSE [call EXCEPT ![c].pc = "create", ![c].img = store[DigestRef(call[c].img)]]
    /\ UNCHANGED <<imageVars, volumeVars, calls, restarts>>

\* Mutant: a tag that exists is passed over.
TagCreateSkips(c) ==
    /\ call[c].pc = "create"
    /\ LET t == call[c].todo[call[c].n + 1]
           made == [call EXCEPT ![c].n = @ + 1, ![c].made = @ \cup {<<t, call[c].img>>}]
           next(rec) == IF call[c].n + 1 = Len(call[c].todo)
                        THEN [rec EXCEPT ![c] = Done(@, TRUE)] ELSE rec
       IN  IF t = BadTag
           THEN call' = Returned(c, FALSE) /\ UNCHANGED <<store, events, skipped>>
           ELSE IF store[t] # NoImage
           THEN call' = next([call EXCEPT ![c].n = @ + 1]) /\ UNCHANGED <<store, events, skipped>>
           ELSE Set(t, call[c].img, next(made))
    /\ UNCHANGED <<index, fetched, volumeVars, calls, restarts>>

\* One iteration of the loop over the tags: a tag that is malformed or exists
\* ends the call.
TagCreate(c) ==
    /\ call[c].pc = "create"
    /\ LET t == call[c].todo[call[c].n + 1]
           made == [call EXCEPT ![c].n = @ + 1, ![c].made = @ \cup {<<t, call[c].img>>}]
       IN  IF t = BadTag \/ store[t] # NoImage
           THEN /\ call' = Returned(c, FALSE)
                /\ UNCHANGED <<store, events, skipped>>
           ELSE Set(t, call[c].img,
                    IF call[c].n + 1 = Len(call[c].todo)
                    THEN [made EXCEPT ![c] = Done(@, TRUE)]
                    ELSE made)
    /\ UNCHANGED <<index, fetched, volumeVars, calls, restarts>>

-----------------------------------------------------------------------------
(* RemoveImage, and k3c rmi.                                               *)

\* rmi of a name; of a digest it lists the images first.
BeginRmi(c, r) ==
    Begin(c, [Idle EXCEPT !.op = "rmi", !.name = r,
                 !.pc = IF \E i \in Images : r = DigestRef(i) THEN "list" ELSE "localResolve"])

\* The list shows an image with that digest: it is removed by its id.
RmiList(c) ==
    /\ call[c].pc = "list"
    /\ LET i == CHOOSE i \in Images : call[c].name = DigestRef(i)
       IN  call' = IF DigestRef(i) \in References(i)
                   THEN [call EXCEPT ![c].pc = "localResolve", ![c].name = IdRef(i)]
                   ELSE Returned(c, TRUE)
    /\ UNCHANGED <<imageVars, volumeVars, calls, restarts>>

\* An image that is not found is no error.
RemoveResolve(c) ==
    /\ call[c].pc = "localResolve"
    /\ LET i == Resolve(call[c].name)
       IN  call' = IF i = NoImage
                   THEN Returned(c, TRUE)
                   ELSE [call EXCEPT ![c].pc = "delete", ![c].name = BadName,
                                     ![c].refs = References(i), ![c].saw = References(i)]
    /\ UNCHANGED <<imageVars, volumeVars, calls, restarts>>

\* Mutant: a reference that is gone already ends the call.
RemoveDeleteStops(c) ==
    /\ call[c].pc = "delete"
    /\ \E r \in call[c].refs :
          /\ Delete(r)
          /\ call' = IF store[r] = NoImage
                     THEN Returned(c, TRUE)
                     ELSE [call EXCEPT ![c].pc = "fetched", ![c].todo = <<r>>]
    /\ UNCHANGED <<index, fetched, volumeVars, calls, restarts>>

\* One of the references the image had is deleted, in any order; one that is
\* gone already is no error.  Another error ends the call.
RemoveDelete(c) ==
    /\ call[c].pc = "delete"
    /\ \/ \E r \in call[c].refs :
             /\ Delete(r)
             /\ call' = [call EXCEPT ![c].pc = "fetched", ![c].todo = <<r>>]
       \/ /\ call' = Returned(c, FALSE)
          /\ UNCHANGED <<store, events, skipped>>
    /\ UNCHANGED <<index, fetched, volumeVars, calls, restarts>>

RemoveUpdate(c) ==
    /\ call[c].pc = "update" /\ call[c].op = "rmi"
    /\ LET r == call[c].todo[1]
       IN  /\ Update(c)
           /\ call' = IF call[c].refs = {r}
                      THEN Returned(c, TRUE)
                      ELSE [call EXCEPT ![c].pc = "delete", ![c].refs = @ \ {r}, ![c].todo = <<>>]
    /\ UNCHANGED <<store, events, skipped, volumeVars, calls, restarts>>

-----------------------------------------------------------------------------
(* The event monitor of the CRI.                                           *)

\* Mutant: the event of a deletion is not handled.
HandleEventNotDelete(r) ==
    /\ r \in events
    /\ store[r] # NoImage
    /\ events' = events \ {r}
    /\ Fetch(Monitor, r)
    /\ UNCHANGED <<store, index, skipped, volumeVars, call, calls, restarts>>

\* Handling an event reads what containerd has by then, so that one event per
\* reference stands for all that wait.  An event whose handling failed is put
\* off and handled again: it waits on.
HandleEvent(r) ==
    /\ r \in events
    /\ events' = events \ {r}
    /\ Fetch(Monitor, r)
    /\ UNCHANGED <<store, index, skipped, volumeVars, call, calls, restarts>>

EventUpdate ==
    /\ Update(Monitor)
    /\ UNCHANGED <<store, events, skipped, volumeVars, call, calls, restarts>>

-----------------------------------------------------------------------------
(* Volumes.  Anonymous volumes are numbered.                               *)

\* Mutant: os.MkdirAll, which does not mind an existing directory.
MkdirAll(name) == TRUE

\* os.Mkdir fails when the directory exists.
Mkdir(name) == name \notin dirs

\* CreateVolume; without a name it makes one up.
CreateVolume(c, name) ==
    /\ LET ok == name # BadName /\ Mkdir(name)
       IN  /\ call' = [call EXCEPT ![c] = Idle]
           /\ dirs' = IF ok THEN dirs \cup {name} ELSE dirs
           /\ granted' = IF ok THEN granted \cup {<<calls', name>>} ELSE granted
    /\ UNCHANGED <<imageVars, containers, paths, restarts>>
CreateNamed(c) == \E name \in Names \cup {BadName} :
                     CreateVolume(c, name) /\ UNCHANGED anonymous
CreateAnonymous(c) == anonymous' = anonymous + 1 /\ CreateVolume(c, anonymous')

BeginRemoveVolume(c, name) ==
    Begin(c, [Idle EXCEPT !.op = "rmvol", !.pc = "stat", !.name = name])

\* GetVolume: a volume that does not exist is removed already.
RemoveVolumeStat(c) ==
    /\ call[c].pc = "stat"
    /\ call' = IF call[c].name = BadName THEN Returned(c, FALSE)
               ELSE IF call[c].name \in dirs THEN [call EXCEPT ![c].pc = "removeAll"]
               ELSE Returned(c, TRUE)
    /\ UNCHANGED <<imageVars, volumeVars, calls, restarts>>

\* os.RemoveAll, whoever uses the directory.
RemoveAll(c) ==
    /\ call[c].pc = "removeAll"
    /\ dirs' = dirs \ {call[c].name}
    /\ paths' = [d \in Clients |-> paths[d] \ {call[c].name}]
    /\ granted' = {g \in granted : g[2] # call[c].name}
    /\ containers' = {[k EXCEPT !.lost = @ \cup ({call[c].name} \cap k.mounts)] : k \in containers}
    /\ call' = Returned(c, TRUE)
    /\ UNCHANGED <<imageVars, anonymous, calls, restarts>>

-----------------------------------------------------------------------------
(* CreateContainer and RemoveContainer, as far as images and volumes go.   *)

BeginCreate(c, image) ==
    Begin(c, [Idle EXCEPT !.op = "create", !.pc = "setup", !.name = image])

\* Mutant: the names of volumes are not validated.
SetupMountUnchecked(c) ==
    /\ call[c].pc = "setup"
    /\ call[c].n < MaxMounts
    /\ \E name \in Names \cup {BadName} :
          call' = [call EXCEPT ![c].n = @ + 1, ![c].made = @ \cup {name}]
    /\ UNCHANGED <<imageVars, volumeVars, calls, restarts>>

\* resolveMounts, one mount: an anonymous volume is created, a name is only
\* resolved, an invalid one ends the call.  Paths need nothing.
SetupMount(c) ==
    /\ call[c].pc = "setup"
    /\ call[c].n < MaxMounts
    /\ \/ /\ anonymous' = anonymous + 1
          /\ dirs' = dirs \cup {anonymous'}
          /\ call' = [call EXCEPT ![c].n = @ + 1, ![c].made = @ \cup {anonymous'}]
       \/ \E name \in Names :
             /\ call' = [call EXCEPT ![c].n = @ + 1, ![c].made = @ \cup {name}]
             /\ UNCHANGED <<dirs, anonymous>>
       \/ /\ call' = Returned(c, FALSE)
          /\ UNCHANGED <<dirs, anonymous>>
    /\ UNCHANGED <<imageVars, containers, paths, granted, calls, restarts>>

\* The runtime's CreateContainer: the image by the index, its content by one
\* of its references; then, for the specification of the container, the host
\* paths that are missing are made.
RunCreate(c) ==
    /\ call[c].pc = "setup"
    /\ LET i == Resolve(call[c].name)
       IN  \/ /\ i = NoImage \/ \E r \in References(i) : store[r] = NoImage
              /\ call' = Returned(c, FALSE)
              /\ UNCHANGED <<dirs, paths>>
           \/ /\ i # NoImage /\ \E r \in References(i) : store[r] # NoImage
              /\ call' = [call EXCEPT ![c].pc = "add"]
              /\ dirs' = dirs \cup call[c].made
              /\ paths' = [paths EXCEPT ![c] = call[c].made]
    /\ UNCHANGED <<imageVars, containers, granted, anonymous, calls, restarts>>

\* Much later the container is in the store, unless something fails on the
\* way.  Nobody looks at the paths again.
AddContainer(c) ==
    /\ call[c].pc = "add"
    /\ \/ /\ call' = Returned(c, TRUE)
          /\ containers' = containers \cup
                {[id |-> calls, by |-> c, mounts |-> call[c].made,
                  lost |-> call[c].made \ paths[c]]}
       \/ call' = Returned(c, FALSE) /\ UNCHANGED containers
    /\ paths' = [paths EXCEPT ![c] = {}]
    /\ UNCHANGED <<imageVars, dirs, granted, anonymous, calls, restarts>>

\* RemoveContainer leaves the volumes, with k3c rm -v too.
RemoveContainer(c, k) ==
    /\ containers' = containers \ {k}
    /\ call' = [call EXCEPT ![c] = Idle]
    /\ UNCHANGED <<imageVars, dirs, paths, granted, anonymous, restarts>>

-----------------------------------------------------------------------------

\* The daemon, with containerd and the CRI in it, is killed and started again:
\* calls end with an error, and the index is loaded from containerd.  A
\* reference whose image cannot be checked, is not complete or cannot be read
\* is passed over with a warning, and not tried again.
Restart ==
    /\ restarts < MaxRestarts
    /\ restarts' = restarts + 1
    /\ call' = [c \in Clients |->
                   IF call[c].pc = "done" THEN call[c] ELSE Done(call[c], FALSE)]
    /\ skipped' \in {refs \in SUBSET {r \in Refs : store[r] # NoImage} :
                        Cardinality(refs) <= MaxSkipped}
    /\ index' = [r \in Refs |-> IF r \in skipped' THEN NoImage ELSE store[r]]
    /\ events' = {}
    /\ fetched' = [u \in Clients \cup {Monitor} |-> <<>>]
    /\ UNCHANGED <<store, volumeVars, calls>>

\* Two tags, the second of which may be malformed.
TagLists == {l \in Tags \X (Tags \cup {BadTag}) : l[1] # l[2]}

\* A client that is not waiting for an answer makes a call.
Invoke(c) ==
    /\ call[c].pc = "done"
    /\ calls < MaxCalls
    /\ calls' = calls + 1
    /\ \/ \E t \in Tags : BeginPull(c, t)
       \/ \E image \in Tags, tags \in TagLists : BeginTag(c, image, tags)
       \/ \E r \in Tags \cup {DigestRef(i) : i \in Images} : BeginRmi(c, r)
       \/ CreateNamed(c)
       \/ CreateAnonymous(c)
       \/ \E name \in Names \cup {BadName} \cup dirs : BeginRemoveVolume(c, name)
       \/ \E t \in Tags : BeginCreate(c, t)
       \/ \E k \in containers : RemoveContainer(c, k)

Step(c) ==
    \/ PullFetch(c)
    \/ PullReference(c)
    \/ PullMove(c)
    \/ UpdateFetch(c)
    \/ PullUpdate(c)
    \/ TagResolve(c)
    \/ TagGet(c)
    \/ TagCreate(c)
    \/ RmiList(c)
    \/ RemoveResolve(c)
    \/ RemoveDelete(c)
    \/ RemoveUpdate(c)
    \/ RemoveVolumeStat(c)
    \/ RemoveAll(c)
    \/ SetupMount(c)
    \/ RunCreate(c)
    \/ AddContainer(c)

Next ==
    \/ \E c \in Clients : Invoke(c) \/ Step(c)
    \/ \E r \in Refs : HandleEvent(r)
    \/ EventUpdate
    \/ Restart

\* Work on the index goes on: whoever holds its lock writes and gives it back,
\* and the monitor takes it for the next event.
IndexWork ==
    \/ \E r \in Refs : HandleEvent(r)
    \/ EventUpdate
    \/ \E c \in Clients : PullUpdate(c) \/ RemoveUpdate(c)
Fairness == WF_vars(IndexWork)
Spec == Init /\ [][Next]_vars /\ Fairness

-----------------------------------------------------------------------------
(* Properties.                                                             *)

Volumes == Names \cup Nat
Pcs == {"done", "fetch", "reference", "move", "fetched", "update", "resolveImage", "get", "create", "list",
        "localResolve", "delete", "stat", "removeAll", "setup", "add"}

\* The type invariant.
TypeOK ==
    /\ store \in [Refs -> Images \cup {NoImage}]
    /\ index \in [Refs -> Images \cup {NoImage}]
    /\ events \subseteq Refs /\ skipped \subseteq Refs
    /\ dirs \subseteq Volumes
    /\ \A k \in containers : k.mounts \subseteq Volumes /\ k.lost \subseteq k.mounts
    /\ \A c \in Clients :
          call[c].pc \in Pcs /\ call[c].ok \in BOOLEAN /\ paths[c] \subseteq Volumes
    /\ <<calls, anonymous, restarts>> \in Nat \X Nat \X Nat

\* The right image of a reference is about to be written to the index.
Underway(r) ==
    \E u \in Clients \cup {Monitor} : fetched[u] = <<[ref |-> r, img |-> store[r]]>>

\* Where the index the daemon answers from differs from containerd, an update
\* or an event is on its way that will set it right: no interleaving of pulls,
\* removals and tags with each other and with the monitor and no failed update
\* leaves it wrong for good.  A restart does so only for the references that
\* it failed to load (loadImages goes on after an error), and only until they
\* are written or deleted.
IndexIsCurrent ==
    \A r \in Refs : index[r] # store[r] => r \in events \/ Underway(r) \/ r \in skipped

\* What was tagged, moved or deleted is seen by every lookup in the end
\* (image.go resolves names by the index only), but for what the last restart
\* failed to load.
Differing == {r \in Refs : index[r] # store[r]}
IndexCatchesUp == Differing # {} ~> Differing \subseteq skipped

\* A tag call gives all its tags to the image its source named when it was
\* resolved, wherever a pull moves the source meanwhile; it succeeded only if
\* it made every one of them, and failed only after a prefix (TagImage).
TaggedTogether ==
    \A c \in Clients : call[c].op = "tag" =>
        /\ call[c].made = {<<call[c].todo[k], call[c].img>> : k \in 1 .. call[c].n}
        /\ call[c].ok => call[c].n = Len(call[c].todo)

\* When a removal succeeded, every reference the image had when it was looked
\* up is gone or was written again since, with other removals, pulls and tags
\* in between (RemoveImage, rmi).
RemovedWhole ==
    \A c \in Clients : call[c].op = "rmi" /\ call[c].ok =>
        \A r \in call[c].saw : store[r] # NoImage => r \in call[c].since

\* A volume is handed out by one successful create only until it is removed,
\* containers do not share anonymous volumes, and what a container mounts
\* exists unless it was removed since its create made the paths that were
\* missing: a removal before that, of a volume the create had resolved or made
\* already, does no harm, one between that and the container's entry in the
\* store is not noticed (volume.go, resolveMounts, the runtime's WithMounts).
VolumesKept ==
    /\ \A g, h \in granted : g[2] \in dirs /\ (g[2] = h[2] => g = h)
    /\ \A k, l \in containers : k # l => k.mounts \cap l.mounts \subseteq Names
    /\ \A k \in containers : k.mounts \ dirs \subseteq k.lost
=============================================================================
