---------------------------- MODULE StoreProofs ----------------------------
(***************************************************************************)
(* The theorems about Store, for any number of clients, tags, images,      *)
(* names, calls and restarts, in three parts.                              *)
(*                                                                         *)
(* The index.  The update of the index reads containerd and writes what it *)
(* read later.  Whoever holds something stale has an event behind it       *)
(* (Fresh), and nobody else writes meanwhile (OneHolder, which is the      *)
(* lock).                                                                  *)
(*                                                                         *)
(* The calls.  What a call has done follows from its record (CallOK), and  *)
(* what a removal has deleted is gone or was written since (Cleared).      *)
(*                                                                         *)
(* The volumes.  An anonymous volume has one owner, a container or a       *)
(* create under way (Apart), and what a create made and nobody removed is  *)
(* there (PathsOK).                                                        *)
(***************************************************************************)
EXTENDS Store, TLAPS

Actors == Clients \cup {Monitor}

\* The tables are functions, so that an assignment to one entry leaves the
\* others alone, and what is fetched is one reference at most.
Tables ==
    /\ DOMAIN store = Refs /\ store = [r \in Refs |-> store[r]]
    /\ DOMAIN index = Refs /\ index = [r \in Refs |-> index[r]]
    /\ DOMAIN fetched = Actors /\ fetched = [u \in Actors |-> fetched[u]]
    /\ \A u \in Actors : fetched[u] # <<>> =>
          \E r, i : fetched[u] = <<[ref |-> r, img |-> i]>>

\* What was fetched is what containerd has, or an event says that it is not.
Fresh ==
    \A u \in Actors, r \in Refs : \A i :
        fetched[u] = <<[ref |-> r, img |-> i]>> => i = store[r] \/ r \in events

\* The lock of the index.
OneHolder == \A u, w \in Actors : fetched[u] # <<>> /\ fetched[w] # <<>> => u = w

\* The inductive invariant.
IndexInv == Tables /\ Fresh /\ OneHolder /\ IndexIsCurrent

-----------------------------------------------------------------------------

\* containerd changes a reference and announces it: the index may lag there,
\* and what was fetched of it may be stale.
LEMMA ChangeKeeps ==
    ASSUME IndexInv, NEW r, NEW i,
           store' = [store EXCEPT ![r] = i], events' = events \cup {r},
           skipped' = skipped \ {r}, UNCHANGED <<index, fetched>>
    PROVE  IndexInv'
<1>1. /\ DOMAIN store' = Refs
      /\ \A q \in Refs : q # r => store'[q] = store[q]
      /\ store' = [q \in Refs |-> store'[q]]
  BY DEF IndexInv, Tables
<1>2. Tables'
  BY <1>1 DEF IndexInv, Tables
<1>3. Fresh'
  BY <1>1 DEF IndexInv, Fresh
<1>4. OneHolder'
  BY DEF IndexInv, OneHolder
<1>5. IndexIsCurrent'
  <2> SUFFICES ASSUME NEW q \in Refs, index'[q] # store'[q], q \notin events', q \notin skipped'
               PROVE  Underway(q)'
    BY DEF IndexIsCurrent
  <2>1. /\ q # r /\ store'[q] = store[q] /\ index[q] # store[q]
        /\ q \notin events /\ q \notin skipped
    BY <1>1
  <2>2. Underway(q)
    BY <2>1 DEF IndexInv, IndexIsCurrent
  <2>3. QED
    BY <2>1, <2>2 DEF Underway
<1>6. QED
  BY <1>2, <1>3, <1>4, <1>5 DEF IndexInv

LEMMA SetKeeps ==
    ASSUME IndexInv, NEW r, NEW i, NEW rec, Set(r, i, rec), UNCHANGED <<index, fetched>>
    PROVE  IndexInv'
BY ChangeKeeps DEF Set

\* A step that leaves the images alone.
LEMMA OtherKeeps ==
    ASSUME IndexInv, UNCHANGED imageVars
    PROVE  IndexInv'
<1>1. /\ store' = store /\ index' = index /\ events' = events
      /\ skipped' = skipped /\ fetched' = fetched
  BY DEF imageVars
<1>2. Tables'
  BY <1>1 DEF IndexInv, Tables
<1>3. Fresh' /\ OneHolder'
  BY <1>1 DEF IndexInv, Fresh, OneHolder
<1>4. IndexIsCurrent'
  BY <1>1 DEF IndexInv, IndexIsCurrent, Underway
<1>5. QED
  BY <1>2, <1>3, <1>4 DEF IndexInv

LEMMA DeleteKeeps ==
    ASSUME IndexInv, NEW r, Delete(r), UNCHANGED <<index, fetched>>
    PROVE  IndexInv'
<1>1. CASE store[r] = NoImage
  BY <1>1, OtherKeeps DEF Delete, imageVars
<1>2. CASE store[r] # NoImage
  BY <1>2, ChangeKeeps DEF Delete
<1>3. QED
  BY <1>1, <1>2

\* The holder of the lock reads a reference: its event has done its work.
LEMMA FetchKeeps ==
    ASSUME IndexInv, NEW u \in Actors, NEW r, Fetch(u, r),
           UNCHANGED <<store, index, skipped>>, events \ {r} \subseteq events'
    PROVE  IndexInv'
<1>1. /\ \A w \in Actors : fetched[w] = <<>>
      /\ fetched' = [w \in Actors |-> IF w = u THEN <<[ref |-> r, img |-> store[r]]>> ELSE <<>>]
  BY DEF Fetch, Locked, IndexInv, Tables, Actors
<1>2. Tables'
  BY <1>1 DEF IndexInv, Tables
<1>3. Fresh'
  BY <1>1 DEF Fresh
<1>4. OneHolder'
  BY <1>1 DEF OneHolder
<1>5. IndexIsCurrent'
  <2> SUFFICES ASSUME NEW q \in Refs, index'[q] # store'[q], q \notin events', q \notin skipped'
               PROVE  Underway(q)'
    BY DEF IndexIsCurrent
  <2>1. ~Underway(q)
    BY <1>1 DEF Underway, Actors
  <2>2. q = r
    BY <2>1 DEF IndexInv, IndexIsCurrent
  <2>3. fetched'[u] = <<[ref |-> q, img |-> store'[q]]>>
    BY <1>1, <2>2
  <2>4. QED
    BY <2>3 DEF Underway, Actors
<1>6. QED
  BY <1>2, <1>3, <1>4, <1>5 DEF IndexInv

\* The holder of the lock writes what it read: where that is stale there is an
\* event, and nobody else was about to write.
LEMMA UpdateKeeps ==
    ASSUME IndexInv, NEW u \in Actors, Update(u), UNCHANGED <<store, events, skipped>>
    PROVE  IndexInv'
<1>1. PICK r, i : fetched[u] = <<[ref |-> r, img |-> i]>>
  BY DEF Update, IndexInv, Tables
<1>2. r \in Refs => i = store[r] \/ r \in events
  BY <1>1 DEF IndexInv, Fresh
<1>3. /\ fetched[u] # <<>> /\ fetched[u][1].ref = r /\ fetched[u][1].img = i
  BY <1>1 DEF Update
<1>4. /\ DOMAIN index' = Refs
      /\ \A q \in Refs : index'[q] = IF q = r THEN i ELSE index[q]
      /\ index' = [q \in Refs |-> index'[q]]
  BY <1>3 DEF Update, IndexInv, Tables
<1>5. fetched' = [w \in Actors |-> <<>>]
  <2>1. \A w \in Actors : w # u => fetched[w] = <<>>
    BY <1>3 DEF IndexInv, OneHolder
  <2>2. QED
    BY <2>1 DEF Update, IndexInv, Tables
<1>6. Tables'
  BY <1>4, <1>5 DEF IndexInv, Tables
<1>7. Fresh' /\ OneHolder'
  BY <1>5 DEF Fresh, OneHolder
<1>8. IndexIsCurrent'
  <2> SUFFICES ASSUME NEW q \in Refs, index'[q] # store'[q], q \notin events', q \notin skipped'
               PROVE  FALSE
    BY DEF IndexIsCurrent
  <2>1. q # r
    BY <1>2, <1>4
  <2>2. Underway(q)
    BY <1>4, <2>1 DEF IndexInv, IndexIsCurrent
  <2>3. PICK w \in Actors : fetched[w] = <<[ref |-> q, img |-> store[q]]>>
    BY <2>2 DEF Underway, Actors
  <2>4. w = u
    <3>1. fetched[w] # <<>>
      BY <2>3
    <3>2. QED
      BY <1>3, <3>1 DEF IndexInv, OneHolder
  <2>5. QED
    BY <1>1, <2>1, <2>3, <2>4
<1>9. QED
  BY <1>6, <1>7, <1>8 DEF IndexInv

-----------------------------------------------------------------------------

LEMMA IndexInit == Init => IndexInv
<1> SUFFICES ASSUME Init
             PROVE  IndexInv
  OBVIOUS
<1>1. /\ store = [r \in Refs |-> store[r]] /\ index = store /\ events = {}
      /\ fetched = [u \in Actors |-> <<>>]
  BY DEF Init, Actors
<1>2. Tables
  BY <1>1 DEF Tables
<1>3. Fresh /\ OneHolder
  BY <1>1 DEF Fresh, OneHolder
<1>4. IndexIsCurrent
  BY <1>1 DEF IndexIsCurrent
<1>5. QED
  BY <1>2, <1>3, <1>4 DEF IndexInv

\* Every step of a client: one access to a store, or none.
LEMMA ClientKeeps ==
    ASSUME IndexInv, NEW c \in Clients, Invoke(c) \/ Step(c)
    PROVE  IndexInv'
<1> Clients \subseteq Actors
  BY DEF Actors
<1>1. CASE Invoke(c)
  <2>1. UNCHANGED imageVars
    BY <1>1 DEF Invoke, BeginPull, BeginTag, BeginRmi, BeginRemoveVolume, BeginCreate, Begin,
                CreateNamed, CreateAnonymous, CreateVolume, RemoveContainer
  <2>2. QED
    BY <2>1, OtherKeeps
<1>2. CASE PullFetch(c)
  <2>1. CASE UNCHANGED imageVars
    BY <2>1, OtherKeeps
  <2>2. CASE \E i, rec : Set(call[c].name, i, rec) /\ UNCHANGED <<index, fetched>>
    BY <2>2, SetKeeps
  <2>3. QED
    BY <1>2, <2>1, <2>2 DEF PullFetch
<1>3. CASE PullReference(c)
  <2> DEFINE r == call[c].todo[call[c].n + 1]
             rec == [call EXCEPT ![c].pc = "fetched"]
  <2>1. CASE store[r] # NoImage
    <3>1. UNCHANGED imageVars
      BY <1>3, <2>1 DEF PullReference, imageVars
    <3>2. QED
      BY <3>1, OtherKeeps
  <2>2. CASE store[r] = NoImage
    <3>1. Set(r, call[c].img, rec) /\ UNCHANGED <<index, fetched>>
      BY <1>3, <2>2 DEF PullReference
    <3>2. QED
      BY <3>1, SetKeeps
  <2>3. QED
    BY <2>1, <2>2
<1>4. CASE PullMove(c)
  <2> DEFINE r == call[c].todo[call[c].n + 1]
             rec == [call EXCEPT ![c].pc = "fetched"]
  <2>1. CASE store[r] = NoImage
    <3>1. UNCHANGED imageVars
      BY <1>4, <2>1 DEF PullMove, imageVars
    <3>2. QED
      BY <3>1, OtherKeeps
  <2>2. CASE store[r] # NoImage
    <3>1. Set(r, call[c].img, rec) /\ UNCHANGED <<index, fetched>>
      BY <1>4, <2>2 DEF PullMove
    <3>2. QED
      BY <3>1, SetKeeps
  <2>3. QED
    BY <2>1, <2>2
<1>5. CASE UpdateFetch(c)
  <2>1. CASE UNCHANGED fetched
    <3>1. UNCHANGED imageVars
      BY <1>5, <2>1 DEF UpdateFetch, imageVars
    <3>2. QED
      BY <3>1, OtherKeeps
  <2>2. CASE Fetch(c, call[c].todo[call[c].n + 1])
    <3>1. UNCHANGED <<store, index, skipped>> /\ events' = events
      BY <1>5 DEF UpdateFetch
    <3>2. QED
      BY <2>2, <3>1, FetchKeeps
  <2>3. QED
    BY <1>5, <2>1, <2>2 DEF UpdateFetch
<1>6. CASE PullUpdate(c) \/ RemoveUpdate(c)
  <2>1. Update(c) /\ UNCHANGED <<store, events, skipped>>
    BY <1>6 DEF PullUpdate, RemoveUpdate
  <2>2. QED
    BY <2>1, UpdateKeeps
<1>7. CASE TagResolve(c) \/ TagGet(c) \/ RmiList(c) \/ RemoveResolve(c) \/ RemoveVolumeStat(c)
              \/ RemoveAll(c) \/ SetupMount(c) \/ RunCreate(c) \/ AddContainer(c)
  <2>1. UNCHANGED imageVars
    BY <1>7 DEF TagResolve, TagGet, RmiList, RemoveResolve, RemoveVolumeStat, RemoveAll,
                SetupMount, RunCreate, AddContainer
  <2>2. QED
    BY <2>1, OtherKeeps
<1>8. CASE TagCreate(c)
  <2> DEFINE t == call[c].todo[call[c].n + 1]
  <2>1. CASE t = BadTag \/ store[t] # NoImage
    <3>1. UNCHANGED imageVars
      BY <1>8, <2>1 DEF TagCreate, imageVars
    <3>2. QED
      BY <3>1, OtherKeeps
  <2>2. CASE ~(t = BadTag \/ store[t] # NoImage)
    <3>1. PICK rec : Set(t, call[c].img, rec) /\ UNCHANGED <<index, fetched>>
      BY <1>8, <2>2 DEF TagCreate
    <3>2. QED
      BY <3>1, SetKeeps
  <2>3. QED
    BY <2>1, <2>2
<1>9. CASE RemoveDelete(c)
  <2>1. CASE UNCHANGED imageVars
    BY <2>1, OtherKeeps
  <2>2. CASE \E r \in call[c].refs : Delete(r) /\ UNCHANGED <<index, fetched>>
    BY <2>2, DeleteKeeps
  <2>3. QED
    BY <1>9, <2>1, <2>2 DEF RemoveDelete, imageVars
<1>10. QED
  BY <1>1, <1>2, <1>3, <1>4, <1>5, <1>6, <1>7, <1>8, <1>9 DEF Step

LEMMA IndexNext == IndexInv /\ [Next]_vars => IndexInv'
<1> SUFFICES ASSUME IndexInv, [Next]_vars
             PROVE  IndexInv'
  OBVIOUS
<1> Monitor \in Actors
  BY DEF Actors
<1>1. CASE \E c \in Clients : Invoke(c) \/ Step(c)
  BY <1>1, ClientKeeps
<1>2. CASE \E r \in Refs : HandleEvent(r)
  <2>1. PICK r \in Refs : HandleEvent(r)
    BY <1>2
  <2>2. Fetch(Monitor, r) /\ UNCHANGED <<store, index, skipped>> /\ events \ {r} \subseteq events'
    BY <2>1 DEF HandleEvent
  <2>3. QED
    BY <2>2, FetchKeeps
<1>3. CASE EventUpdate
  <2>1. Update(Monitor) /\ UNCHANGED <<store, events, skipped>>
    BY <1>3 DEF EventUpdate
  <2>2. QED
    BY <2>1, UpdateKeeps
<1>4. CASE Restart
  <2>1. /\ index' = [r \in Refs |-> IF r \in skipped' THEN NoImage ELSE store[r]]
        /\ store' = store /\ fetched' = [u \in Actors |-> <<>>]
    BY <1>4 DEF Restart, Actors
  <2>2. Tables'
    BY <2>1 DEF IndexInv, Tables
  <2>3. Fresh' /\ OneHolder' /\ IndexIsCurrent'
    BY <2>1 DEF Fresh, OneHolder, IndexIsCurrent
  <2>4. QED
    BY <2>2, <2>3 DEF IndexInv
<1>5. CASE UNCHANGED vars
  BY <1>5, OtherKeeps DEF vars, imageVars
<1>6. QED
  BY <1>1, <1>2, <1>3, <1>4, <1>5 DEF Next

\* Where the index that GetImage, TagImage, CreateContainer and rmi answer
\* from differs from containerd, an event waits or an update is under way
\* that sets it right; or the last restart failed to load that reference.
THEOREM IndexFollows == Spec => []IndexIsCurrent
<1>1. IndexInv => IndexIsCurrent
  BY DEF IndexInv
<1>2. QED
  BY IndexInit, IndexNext, <1>1, PTL DEF Spec

-----------------------------------------------------------------------------
(* The calls.  What a call has done so far is in its record; the other     *)
(* clients' steps change of it at most what a removal remembers (since).   *)

\* The record of a call has these fields.
Fields == {"op", "pc", "ok", "name", "img", "todo", "n", "refs", "saw", "since", "made"}
Shape(x) == x = [f \in Fields |-> x[f]]

\* A pull works through the three references of the image it got.
Pulls(x) == x.op = "pull" =>
    /\ x.pc \in {"fetch", "reference", "move", "fetched", "update"}
    /\ x.name \in Tags
    /\ x.n \in 0 .. 2
    /\ x.pc = "fetch" => x.n = 0
    /\ x.pc # "fetch" => x.img \in Images /\ x.todo = <<IdRef(x.img), x.name, DigestRef(x.img)>>

\* A tag call has made the first n of its tags, all of one image, and
\* succeeds with the last.
Tagged(x) == x.op = "tag" =>
    /\ x.pc \in {"resolveImage", "get", "create", "done"}
    /\ x.todo \in TagLists
    /\ x.n \in 0 .. 2
    /\ x.pc = "resolveImage" => x.n = 0 /\ x.name \in Tags
    /\ x.pc = "get" => x.n = 0 /\ x.img \in Images
    /\ x.pc = "create" => x.n < 2 /\ x.img \in Images
    /\ x.made = {<<x.todo[k], x.img>> : k \in 1 .. x.n}
    /\ x.ok => x.n = 2

\* A removal has the references it saw and those of them it has yet to delete.
Removes(x) == x.op = "rmi" =>
    /\ x.pc \in {"list", "localResolve", "delete", "fetched", "update", "done"}
    /\ x.refs \subseteq x.saw
    /\ x.saw \subseteq Refs
    /\ x.n = 0
    /\ x.pc = "list" => \E i \in Images : x.name = DigestRef(i)
    /\ x.pc = "localResolve" => x.name \in Refs
    /\ x.pc \in {"list", "localResolve"} => x.saw = {}
    /\ x.pc \in {"fetched", "update"} => \E r \in x.refs : x.todo = <<r>>

Mounts(x) == x.op = "create" => x.pc \in {"setup", "add"} /\ x.name \in Tags /\ x.n \in Nat

CallOK(x) ==
    /\ Shape(x)
    /\ x.op \in {"none", "pull", "tag", "rmi", "rmvol", "create"}
    /\ x.ok \in BOOLEAN
    /\ x.ok => x.pc = "done"
    /\ x.op = "none" => x.pc = "done"
    /\ x.op = "rmvol" => x.pc \in {"stat", "removeAll"}
    /\ Pulls(x) /\ Tagged(x) /\ Removes(x) /\ Mounts(x)

CallsOK == call = [c \in Clients |-> call[c]] /\ \A c \in Clients : CallOK(call[c])

\* The references a removal has deleted by now.
Gone(x) ==
    IF x.op # "rmi" THEN {}
    ELSE IF x.ok THEN x.saw
    ELSE IF x.pc = "delete" THEN x.saw \ x.refs
    ELSE IF x.pc \in {"fetched", "update"} THEN (x.saw \ x.refs) \cup {x.todo[1]}
    ELSE {}

\* They are gone, or were written again since the removal looked.
Clear(x) == \A r \in Gone(x) : store[r] # NoImage => r \in x.since

Cleared == \A c \in Clients : Clear(call[c])

\* The tables of the images have their types.
ImagesOK ==
    /\ store \in [Refs -> Images \cup {NoImage}]
    /\ index \in [Refs -> Images \cup {NoImage}]
    /\ events \subseteq Refs /\ skipped \subseteq Refs
    /\ fetched = [u \in Actors |-> fetched[u]]
    /\ \A u \in Actors : fetched[u] # <<>> =>
          \E r \in Refs, i \in Images \cup {NoImage} : fetched[u] = <<[ref |-> r, img |-> i]>>

\* The inductive invariant of the calls.
CallsInv == CallsOK /\ Cleared /\ ImagesOK

\* The volumes that a container being created is to mount.
MadeOf(x) == IF x.op = "create" THEN x.made ELSE {}

\* No call has more to mount than before.
Fewer == \A c \in Clients : MadeOf(call'[c]) \subseteq MadeOf(call[c])

LEMMA IdleOK == CallOK(Idle) /\ MadeOf(Idle) = {} /\ Gone(Idle) = {}
<1>1. Shape(Idle)
  BY DEF Shape, Fields, Idle
<1>2. QED
  BY <1>1 DEF CallOK, Pulls, Tagged, Removes, Mounts, Idle, MadeOf, Gone

\* The record that a call leaves when it returns.
LEMMA DoneOK ==
    ASSUME NEW x, CallOK(x), NEW ok \in BOOLEAN, x.op = "tag" /\ ok => x.n = 2
    PROVE  /\ CallOK(Done(x, ok))
           /\ MadeOf(Done(x, ok)) = {}
           /\ Gone(Done(x, ok)) = IF x.op = "rmi" /\ ok THEN x.saw ELSE {}
           /\ x.op = "rmi" /\ ok => Done(x, ok).since = x.since
<1> DEFINE y == Done(x, ok)
<1>1. CASE x.op = "tag"
  <2>1. y = [x EXCEPT !.pc = "done", !.ok = ok, !.name = BadName]
    BY <1>1 DEF Done
  <2>2. /\ Shape(y) /\ y.op = "tag" /\ y.pc = "done" /\ y.ok = ok /\ y.img = x.img
        /\ y.todo = x.todo /\ y.n = x.n /\ y.made = x.made
    BY <1>1, <2>1 DEF CallOK, Shape, Fields
  <2>3. CallOK(y)
    BY <1>1, <2>2 DEF CallOK, Pulls, Tagged, Removes, Mounts
  <2>4. QED
    BY <1>1, <2>2, <2>3 DEF MadeOf, Gone
<1>2. CASE x.op = "rmi" /\ ok
  <2>1. y = [Idle EXCEPT !.op = "rmi", !.ok = TRUE, !.saw = x.saw, !.since = x.since]
    BY <1>2 DEF Done
  <2>2. /\ Shape(y) /\ y.op = "rmi" /\ y.pc = "done" /\ y.ok = TRUE /\ y.n = 0
        /\ y.refs = {} /\ y.saw = x.saw /\ y.since = x.since
    BY <2>1 DEF Idle, Shape, Fields
  <2>3. CallOK(y)
    BY <1>2, <2>2 DEF CallOK, Pulls, Tagged, Removes, Mounts
  <2>4. QED
    BY <1>2, <2>2, <2>3 DEF MadeOf, Gone
<1>3. CASE x.op # "tag" /\ ~(x.op = "rmi" /\ ok)
  <2>1. y = Idle
    BY <1>3 DEF Done
  <2>2. QED
    BY <1>3, <2>1, IdleOK
<1>4. QED
  BY <1>1, <1>2, <1>3

\* What was written since is noted, and nothing else of the record changes.
LEMMA SinceOK ==
    ASSUME NEW x, CallOK(x), NEW r
    PROVE  LET y == [x EXCEPT !.since = @ \cup {r}]
           IN  /\ CallOK(y) /\ MadeOf(y) = MadeOf(x) /\ Gone(y) = Gone(x)
               /\ y.since = x.since \cup {r}
<1> DEFINE y == [x EXCEPT !.since = @ \cup {r}]
<1>1. /\ Shape(y) /\ y.op = x.op /\ y.pc = x.pc /\ y.ok = x.ok /\ y.name = x.name /\ y.img = x.img
      /\ y.todo = x.todo /\ y.n = x.n /\ y.refs = x.refs /\ y.saw = x.saw /\ y.made = x.made
      /\ y.since = x.since \cup {r}
  BY DEF CallOK, Shape, Fields
<1>2. Pulls(y) /\ Tagged(y) /\ Removes(y) /\ Mounts(y)
  BY <1>1 DEF CallOK, Pulls, Tagged, Removes, Mounts
<1>3. CallOK(y)
  BY <1>1, <1>2 DEF CallOK
<1>4. QED
  BY <1>1, <1>3 DEF MadeOf, Gone

LEMMA GoneIsSeen ==
    ASSUME NEW x, CallOK(x)
    PROVE  Gone(x) \subseteq x.saw \cap Refs
BY DEF Gone, CallOK, Removes

\* One call moves on, and containerd gets no new reference.
LEMMA CallMoves ==
    ASSUME CallsOK, Cleared, NEW c \in Clients, NEW y, CallOK(y),
           call' = [call EXCEPT ![c] = y],
           \A r \in Refs : store'[r] # NoImage => store[r] # NoImage,
           \A r \in Gone(y) : store'[r] # NoImage => r \in y.since
    PROVE  CallsOK' /\ Cleared' /\ (MadeOf(y) \subseteq MadeOf(call[c]) => Fewer)
<1>1. /\ call' = [d \in Clients |-> call'[d]]
      /\ \A d \in Clients : call'[d] = IF d = c THEN y ELSE call[d]
  BY DEF CallsOK
<1>2. CallsOK'
  BY <1>1 DEF CallsOK
<1>3. Cleared'
  <2> SUFFICES ASSUME NEW d \in Clients, NEW r \in Gone(call'[d]), store'[r] # NoImage
               PROVE  r \in call'[d].since
    BY DEF Cleared, Clear
  <2>1. CASE d = c
    BY <1>1, <2>1
  <2>2. CASE d # c
    <3>1. call'[d] = call[d] /\ CallOK(call[d])
      BY <1>1, <2>2 DEF CallsOK
    <3>2. r \in Refs
      BY <3>1, GoneIsSeen
    <3>3. QED
      BY <3>1, <3>2 DEF Cleared, Clear
  <2>3. QED
    BY <2>1, <2>2
<1>4. MadeOf(y) \subseteq MadeOf(call[c]) => Fewer
  BY <1>1 DEF Fewer
<1>5. QED
  BY <1>2, <1>3, <1>4

\* One call moves on and writes a reference: the removals that saw it note it.
LEMMA SetMoves ==
    ASSUME CallsOK, Cleared, NEW c \in Clients, NEW y, CallOK(y), NEW r, NEW i,
           Set(r, i, [call EXCEPT ![c] = y]),
           MadeOf(y) \subseteq MadeOf(call[c]),
           Clear(y), DOMAIN store = Refs
    PROVE  CallsOK' /\ Cleared' /\ Fewer
<1> DEFINE rec == [call EXCEPT ![c] = y]
<1>1. \A d \in Clients : rec[d] = IF d = c THEN y ELSE call[d]
  BY DEF CallsOK
<1>2. /\ call' = [d \in Clients |-> call'[d]]
      /\ \A d \in Clients :
            call'[d] = IF r \in rec[d].saw THEN [rec[d] EXCEPT !.since = @ \cup {r}] ELSE rec[d]
  BY DEF Set
<1>3. \A d \in Clients : CallOK(rec[d]) /\ Clear(rec[d]) /\ MadeOf(rec[d]) \subseteq MadeOf(call[d])
  BY <1>1 DEF CallsOK, Cleared
<1>4. ASSUME NEW d \in Clients
      PROVE  /\ CallOK(call'[d])
             /\ MadeOf(call'[d]) = MadeOf(rec[d])
             /\ Gone(call'[d]) = Gone(rec[d])
             /\ rec[d].since \subseteq call'[d].since
             /\ r \in rec[d].saw => r \in call'[d].since
  <2> HIDE DEF rec
  <2>1. CASE r \in rec[d].saw
    <3> DEFINE z == [rec[d] EXCEPT !.since = @ \cup {r}]
    <3>1. call'[d] = z
      BY <1>2, <2>1
    <3>2. /\ CallOK(z) /\ MadeOf(z) = MadeOf(rec[d]) /\ Gone(z) = Gone(rec[d])
          /\ z.since = rec[d].since \cup {r}
      BY <1>3, SinceOK
    <3> HIDE DEF z
    <3>3. QED
      BY <3>1, <3>2
  <2>2. CASE r \notin rec[d].saw
    BY <1>2, <1>3, <2>2
  <2>3. QED
    BY <2>1, <2>2
<1>5. CallsOK'
  BY <1>2, <1>4 DEF CallsOK
<1>6. Cleared'
  <2> SUFFICES ASSUME NEW d \in Clients, NEW q \in Gone(call'[d]), store'[q] # NoImage
               PROVE  q \in call'[d].since
    BY DEF Cleared, Clear
  <2>1. q \in Gone(rec[d]) /\ q \in rec[d].saw /\ q \in Refs
    BY <1>3, <1>4, GoneIsSeen
  <2>2. CASE q = r
    BY <1>4, <2>1, <2>2
  <2>3. CASE q # r
    <3>1. store'[q] = store[q]
      BY <2>1, <2>3 DEF Set
    <3>2. QED
      BY <1>3, <1>4, <2>1, <3>1 DEF Clear
  <2>4. QED
    BY <2>2, <2>3
<1>7. Fewer
  BY <1>3, <1>4 DEF Fewer
<1>8. QED
  BY <1>5, <1>6, <1>7

\* A call returns.
LEMMA CallReturns ==
    ASSUME CallsOK, Cleared, NEW c \in Clients, NEW ok \in BOOLEAN,
           call' = Returned(c, ok), store' = store,
           call[c].op = "tag" /\ ok => call[c].n = 2,
           call[c].op = "rmi" /\ ok =>
               \A r \in call[c].saw : store[r] # NoImage => r \in call[c].since
    PROVE  CallsOK' /\ Cleared' /\ Fewer
<1> DEFINE y == Done(call[c], ok)
<1>1. call' = [call EXCEPT ![c] = y]
  BY DEF Returned
<1>2. /\ CallOK(y) /\ MadeOf(y) = {}
      /\ Gone(y) = IF call[c].op = "rmi" /\ ok THEN call[c].saw ELSE {}
      /\ call[c].op = "rmi" /\ ok => y.since = call[c].since
  BY DoneOK DEF CallsOK
<1>3. \A r \in Gone(y) : store'[r] # NoImage => r \in y.since
  BY <1>2
<1> HIDE DEF y
<1>4. QED
  BY <1>1, <1>2, <1>3, CallMoves

-----------------------------------------------------------------------------
(* The tables keep their types.                                            *)

LEMMA ImagesSame ==
    ASSUME ImagesOK, UNCHANGED imageVars
    PROVE  ImagesOK'
<1>1. /\ store' = store /\ index' = index /\ events' = events
      /\ skipped' = skipped /\ fetched' = fetched
  BY DEF imageVars
<1>2. QED
  BY <1>1 DEF ImagesOK

LEMMA ImagesChange ==
    ASSUME ImagesOK, NEW r \in Refs, NEW i \in Images \cup {NoImage},
           store' = [store EXCEPT ![r] = i], events' = events \cup {r},
           skipped' = skipped \ {r}, UNCHANGED <<index, fetched>>
    PROVE  ImagesOK'
<1>1. store' \in [Refs -> Images \cup {NoImage}]
  BY DEF ImagesOK
<1>2. QED
  BY <1>1 DEF ImagesOK

LEMMA ImagesFetch ==
    ASSUME ImagesOK, NEW u \in Actors, NEW r \in Refs, Fetch(u, r),
           UNCHANGED <<store, index, skipped>>, events' \subseteq events
    PROVE  ImagesOK'
<1>1. /\ fetched' = [w \in Actors |-> fetched'[w]]
      /\ \A w \in Actors : fetched'[w] = IF w = u THEN <<[ref |-> r, img |-> store[r]]>> ELSE fetched[w]
      /\ store[r] \in Images \cup {NoImage}
  BY DEF ImagesOK, Fetch
<1>2. ASSUME NEW w \in Actors, fetched'[w] # <<>>
      PROVE  \E q \in Refs, i \in Images \cup {NoImage} : fetched'[w] = <<[ref |-> q, img |-> i]>>
  <2>1. CASE w = u
    BY <1>1, <2>1
  <2>2. CASE w # u
    BY <1>1, <1>2, <2>2 DEF ImagesOK
  <2>3. QED
    BY <2>1, <2>2
<1>3. QED
  BY <1>1, <1>2 DEF ImagesOK

LEMMA ImagesUpdate ==
    ASSUME ImagesOK, NEW u \in Actors, Update(u), UNCHANGED <<store, events, skipped>>
    PROVE  ImagesOK'
<1>1. PICK r \in Refs, i \in Images \cup {NoImage} : fetched[u] = <<[ref |-> r, img |-> i]>>
  BY DEF Update, ImagesOK
<1>2. index' = [index EXCEPT ![r] = i]
  <2>1. fetched[u][1].ref = r /\ fetched[u][1].img = i
    BY <1>1
  <2>2. QED
    BY <2>1 DEF Update
<1>3. index' \in [Refs -> Images \cup {NoImage}]
  BY <1>2 DEF ImagesOK
<1>4. /\ fetched' = [w \in Actors |-> fetched'[w]]
      /\ \A w \in Actors : fetched'[w] = IF w = u THEN <<>> ELSE fetched[w]
  BY DEF Update, ImagesOK
<1>5. QED
  BY <1>3, <1>4 DEF ImagesOK

\* What a reference resolves to is an image or nothing.
LEMMA ResolveOK ==
    ASSUME ImagesOK, NEW r \in Refs
    PROVE  Resolve(r) \in Images \cup {NoImage}
BY DEF ImagesOK, Resolve

LEMMA RefsOK == Tags \subseteq Refs /\ \A i \in Images : IdRef(i) \in Refs /\ DigestRef(i) \in Refs
BY DEF Refs

-----------------------------------------------------------------------------
(* The steps of a call.                                                    *)

\* A call that only moves on in its own record.
LEMMA MovesOn ==
    ASSUME CallsInv, NEW c \in Clients, NEW y, CallOK(y), Gone(y) = {},
           MadeOf(y) \subseteq MadeOf(call[c]),
           call' = [call EXCEPT ![c] = y], UNCHANGED imageVars
    PROVE  CallsInv' /\ Fewer
<1>1. store' = store
  BY DEF imageVars
<1>2. CallsOK' /\ Cleared' /\ Fewer
  BY <1>1, CallMoves DEF CallsInv
<1>3. QED
  BY <1>2, ImagesSame DEF CallsInv

\* A call that fails leaves what it did.
LEMMA Fails ==
    ASSUME CallsInv, NEW c \in Clients, call' = Returned(c, FALSE), UNCHANGED imageVars
    PROVE  CallsInv' /\ Fewer
<1>1. store' = store
  BY DEF imageVars
<1>2. CallsOK' /\ Cleared' /\ Fewer
  BY <1>1, CallReturns DEF CallsInv
<1>3. QED
  BY <1>2, ImagesSame DEF CallsInv

\* A call that writes a reference.
LEMMA Writes ==
    ASSUME CallsInv, NEW c \in Clients, NEW y, CallOK(y), Gone(y) = {},
           MadeOf(y) \subseteq MadeOf(call[c]),
           NEW r \in Refs, NEW i \in Images,
           Set(r, i, [call EXCEPT ![c] = y]), UNCHANGED <<index, fetched>>
    PROVE  CallsInv' /\ Fewer
<1>1. Clear(y) /\ DOMAIN store = Refs
  BY DEF Clear, CallsInv, ImagesOK
<1>2. CallsOK' /\ Cleared' /\ Fewer
  BY <1>1, SetMoves DEF CallsInv
<1>3. ImagesOK'
  BY ImagesChange DEF CallsInv, Set
<1>4. QED
  BY <1>2, <1>3 DEF CallsInv

\* The registry answered: the record of the pull from there on.
LEMMA PullGot ==
    ASSUME NEW x, CallOK(x), x.pc = "fetch", NEW i \in Images
    PROVE  LET y == [x EXCEPT !.pc = "reference", !.img = i,
                              !.todo = <<IdRef(i), x.name, DigestRef(i)>>]
           IN  CallOK(y) /\ Gone(y) = {} /\ MadeOf(y) = {}
<1> DEFINE y == [x EXCEPT !.pc = "reference", !.img = i,
                          !.todo = <<IdRef(i), x.name, DigestRef(i)>>]
<1>1. x.op = "pull" /\ x.name \in Tags /\ x.n = 0 /\ ~x.ok
  BY DEF CallOK, Pulls, Tagged, Removes, Mounts
<1>2. /\ Shape(y) /\ y.op = "pull" /\ y.pc = "reference" /\ y.img = i /\ y.ok = x.ok
      /\ y.todo = <<IdRef(i), x.name, DigestRef(i)>> /\ y.name = x.name /\ y.n = x.n
  BY <1>1 DEF CallOK, Shape, Fields
<1>3. QED
  BY <1>1, <1>2 DEF CallOK, Pulls, Tagged, Removes, Mounts, Gone, MadeOf

LEMMA PullFetchKeeps ==
    ASSUME CallsInv, NEW c \in Clients, PullFetch(c)
    PROVE  CallsInv' /\ Fewer
<1> DEFINE x == call[c]
<1>1. CallOK(x) /\ x.pc = "fetch" /\ x.op = "pull" /\ x.name \in Tags /\ x.n = 0
  BY DEF CallsInv, CallsOK, CallOK, PullFetch, Pulls, Tagged, Removes, Mounts
<1>2. CASE call' = Returned(c, FALSE) /\ UNCHANGED imageVars
  BY <1>2, Fails
<1>3. ASSUME NEW i \in Images, UNCHANGED <<index, fetched>>,
             Set(x.name, i, [call EXCEPT ![c].pc = "reference", ![c].img = i,
                                         ![c].todo = <<IdRef(i), x.name, DigestRef(i)>>])
      PROVE  CallsInv' /\ Fewer
  <2> DEFINE y == [x EXCEPT !.pc = "reference", !.img = i,
                            !.todo = <<IdRef(i), x.name, DigestRef(i)>>]
  <2>1. Set(x.name, i, [call EXCEPT ![c] = y])
    BY <1>3 DEF CallsInv, CallsOK
  <2>2. CallOK(y) /\ Gone(y) = {} /\ MadeOf(y) = {}
    BY <1>1, PullGot
  <2> HIDE DEF y
  <2>3. QED
    BY <1>1, <1>3, <2>1, <2>2, Writes, RefsOK
<1>4. ASSUME NEW i \in Images, UNCHANGED <<index, fetched>>, Set(x.name, i, Returned(c, FALSE))
      PROVE  CallsInv' /\ Fewer
  <2> DEFINE y == Done(x, FALSE)
  <2>1. Set(x.name, i, [call EXCEPT ![c] = y])
    BY <1>4 DEF Returned
  <2>2. CallOK(y) /\ Gone(y) = {} /\ MadeOf(y) = {}
    BY <1>1, DoneOK
  <2>3. QED
    BY <1>1, <1>4, <2>1, <2>2, Writes, RefsOK
<1>5. QED
  BY <1>2, <1>3, <1>4 DEF PullFetch

\* The reference a pull is at, and the record when it moves on.
LEMMA PullAt ==
    ASSUME NEW x, CallOK(x), x.pc \in {"reference", "move"} \/ (x.op = "pull" /\ x.pc # "fetch")
    PROVE  /\ x.op = "pull" /\ x.img \in Images /\ x.n \in 0 .. 2 /\ Len(x.todo) = 3
           /\ x.todo[x.n + 1] \in Refs
<1>1. /\ x.op = "pull" /\ x.img \in Images /\ x.n \in 0 .. 2 /\ x.name \in Tags
      /\ x.todo = <<IdRef(x.img), x.name, DigestRef(x.img)>>
  BY DEF CallOK, Pulls, Tagged, Removes, Mounts
<1>2. Len(x.todo) = 3 /\ x.todo[x.n + 1] \in Refs
  BY <1>1, RefsOK
<1>3. QED
  BY <1>1, <1>2

LEMMA PullPc ==
    ASSUME NEW x, CallOK(x), x.op = "pull", x.pc # "fetch",
           NEW p \in {"reference", "move", "fetched", "update"},
           NEW k \in 0 .. 2
    PROVE  LET y == [x EXCEPT !.pc = p, !.n = k]
           IN  CallOK(y) /\ Gone(y) = {} /\ MadeOf(y) = {} /\ y.since = x.since
<1> DEFINE y == [x EXCEPT !.pc = p, !.n = k]
<1>1. /\ Shape(y) /\ y.op = "pull" /\ y.pc = p /\ y.img = x.img /\ y.ok = x.ok
      /\ y.todo = x.todo /\ y.name = x.name /\ y.n = k /\ y.since = x.since
  BY DEF CallOK, Shape, Fields
<1>2. x.pc # "done" /\ ~x.ok
  BY DEF CallOK, Pulls
<1>3. QED
  BY <1>1, <1>2 DEF CallOK, Pulls, Tagged, Removes, Mounts, Gone, MadeOf

\* The same, for a step that leaves the position alone.
LEMMA PullPcOnly ==
    ASSUME NEW x, CallOK(x), x.op = "pull", x.pc # "fetch",
           NEW p \in {"reference", "move", "fetched", "update"}
    PROVE  LET y == [x EXCEPT !.pc = p]
           IN  CallOK(y) /\ Gone(y) = {} /\ MadeOf(y) = {} /\ y.since = x.since
<1> DEFINE y == [x EXCEPT !.pc = p]
<1>1. /\ Shape(y) /\ y.op = "pull" /\ y.pc = p /\ y.img = x.img /\ y.ok = x.ok
      /\ y.todo = x.todo /\ y.name = x.name /\ y.n = x.n /\ y.since = x.since
  BY DEF CallOK, Shape, Fields
<1>2. x.pc # "done" /\ ~x.ok
  BY DEF CallOK, Pulls
<1>3. QED
  BY <1>1, <1>2 DEF CallOK, Pulls, Tagged, Removes, Mounts, Gone, MadeOf

LEMMA PullReferenceKeeps ==
    ASSUME CallsInv, NEW c \in Clients, PullReference(c)
    PROVE  CallsInv' /\ Fewer
<1> DEFINE x == call[c]
           r == x.todo[x.n + 1]
           y(p) == [x EXCEPT !.pc = p]
<1>0. CallOK(x) /\ x.pc = "reference"
  BY DEF CallsInv, CallsOK, PullReference
<1>1. /\ x.op = "pull" /\ x.img \in Images /\ r \in Refs
  BY <1>0, PullAt
<1>a. \A p \in {"fetched", "move"} : CallOK(y(p)) /\ Gone(y(p)) = {} /\ MadeOf(y(p)) = {}
  BY <1>0, <1>1, PullPcOnly
<1>2. CASE store[r] = NoImage
  <2>1. Set(r, x.img, [call EXCEPT ![c].pc = "fetched"]) /\ UNCHANGED <<index, fetched>>
    BY <1>2 DEF PullReference
  <2>2. [call EXCEPT ![c].pc = "fetched"] = [call EXCEPT ![c] = y("fetched")]
    BY DEF CallsInv, CallsOK
  <2>3. QED
    BY <1>1, <1>a, <2>1, <2>2, Writes
<1>3. CASE store[r] # NoImage
  <2>1. PICK p \in {"fetched", "move"} : call' = [call EXCEPT ![c].pc = p]
    BY <1>3 DEF PullReference
  <2>2. call' = [call EXCEPT ![c] = y(p)] /\ UNCHANGED imageVars
    BY <1>3, <2>1 DEF PullReference, imageVars, CallsInv, CallsOK
  <2>3. QED
    BY <1>a, <2>2, MovesOn
<1>4. QED
  BY <1>2, <1>3

LEMMA PullMoveKeeps ==
    ASSUME CallsInv, NEW c \in Clients, PullMove(c)
    PROVE  CallsInv' /\ Fewer
<1> DEFINE x == call[c]
           r == x.todo[x.n + 1]
           y == [x EXCEPT !.pc = "fetched"]
<1>0. CallOK(x) /\ x.pc = "move"
  BY DEF CallsInv, CallsOK, PullMove
<1>1. x.op = "pull" /\ x.img \in Images /\ r \in Refs
  BY <1>0, PullAt
<1>a. CallOK(y) /\ Gone(y) = {} /\ MadeOf(y) = {}
  BY <1>0, <1>1, PullPcOnly
<1>2. CASE store[r] = NoImage
  <2>1. call' = Returned(c, FALSE) /\ UNCHANGED imageVars
    BY <1>2 DEF PullMove, imageVars
  <2>2. QED
    BY <2>1, Fails
<1>3. CASE store[r] # NoImage
  <2>1. Set(r, x.img, [call EXCEPT ![c].pc = "fetched"]) /\ UNCHANGED <<index, fetched>>
    BY <1>3 DEF PullMove
  <2>2. [call EXCEPT ![c].pc = "fetched"] = [call EXCEPT ![c] = y]
    BY DEF CallsInv, CallsOK
  <2>3. QED
    BY <1>1, <1>a, <2>1, <2>2, Writes
<1>4. QED
  BY <1>2, <1>3

\* The record of a removal that is about to update the index.
LEMMA RemovalFetches ==
    ASSUME NEW x, CallOK(x), x.op = "rmi", x.pc = "fetched"
    PROVE  LET y == [x EXCEPT !.pc = "update"]
           IN  /\ x.todo[x.n + 1] \in Refs
               /\ CallOK(y) /\ Gone(y) = Gone(x) /\ y.since = x.since /\ MadeOf(y) = {}
<1> DEFINE y == [x EXCEPT !.pc = "update"]
<1>1. /\ Shape(y) /\ y.op = "rmi" /\ y.pc = "update" /\ y.ok = x.ok /\ y.n = x.n
      /\ y.todo = x.todo /\ y.refs = x.refs /\ y.saw = x.saw /\ y.since = x.since
  BY DEF CallOK, Shape, Fields
<1>2. /\ x.n = 0 /\ x.refs \subseteq x.saw /\ x.saw \subseteq Refs /\ ~x.ok
      /\ \E q \in x.refs : x.todo = <<q>>
  BY DEF CallOK, Removes
<1>3. CallOK(y)
  BY <1>1, <1>2 DEF CallOK, Pulls, Tagged, Removes, Mounts
<1>4. Gone(y) = Gone(x) /\ MadeOf(y) = {}
  BY <1>1, <1>2 DEF Gone, MadeOf
<1>5. x.todo[x.n + 1] \in Refs
  BY <1>2
<1>6. QED
  BY <1>1, <1>3, <1>4, <1>5

\* A pull or a removal is about to bring the index up to date; what the
\* removal has deleted stays deleted.
LEMMA UpdateFetchKeeps ==
    ASSUME CallsInv, NEW c \in Clients, UpdateFetch(c)
    PROVE  CallsInv' /\ Fewer
<1> DEFINE x == call[c]
           r == x.todo[x.n + 1]
           y == [x EXCEPT !.pc = "update"]
<1>1. x.pc = "fetched" /\ CallOK(x) /\ Clear(x)
  BY DEF UpdateFetch, CallsInv, CallsOK, Cleared
<1>2. CASE call' = Returned(c, FALSE) /\ UNCHANGED fetched
  <2>1. UNCHANGED imageVars
    BY <1>2 DEF UpdateFetch, imageVars
  <2>2. QED
    BY <1>2, <2>1, Fails
<1>3. CASE Fetch(c, r) /\ call' = [call EXCEPT ![c].pc = "update"]
  <2>1. call' = [call EXCEPT ![c] = y]
    BY <1>3 DEF CallsInv, CallsOK
  <2>2. r \in Refs /\ CallOK(y) /\ Gone(y) = Gone(x) /\ y.since = x.since /\ MadeOf(y) = {}
    <3>1. CASE x.op = "pull"
      <4>1. Gone(x) = {}
        BY <3>1 DEF Gone
      <4>2. r \in Refs
        BY <1>1, <3>1, PullAt
      <4>3. CallOK(y) /\ Gone(y) = {} /\ y.since = x.since /\ MadeOf(y) = {}
        BY <1>1, <3>1, PullPcOnly
      <4>4. QED
        BY <4>1, <4>2, <4>3
    <3>2. CASE x.op = "rmi"
      BY <1>1, <3>2, RemovalFetches
    <3>3. QED
      BY <1>1, <3>1, <3>2 DEF CallOK, Tagged, Mounts
  <2>3. store' = store /\ UNCHANGED <<store, index, skipped>> /\ events' \subseteq events
    BY DEF UpdateFetch
  <2>4. \A q \in Gone(y) : store'[q] # NoImage => q \in y.since
    BY <1>1, <2>2, <2>3 DEF Clear
  <2> HIDE DEF y
  <2>5. CallsOK' /\ Cleared' /\ Fewer
    BY <2>1, <2>2, <2>3, <2>4, CallMoves DEF CallsInv
  <2>6. ImagesOK'
    BY <1>3, <2>2, <2>3, ImagesFetch DEF CallsInv, Actors
  <2>7. QED
    BY <2>5, <2>6 DEF CallsInv
<1>4. QED
  BY <1>2, <1>3 DEF UpdateFetch

LEMMA PullUpdateKeeps ==
    ASSUME CallsInv, NEW c \in Clients, PullUpdate(c)
    PROVE  CallsInv' /\ Fewer
<1> DEFINE x == call[c]
           y == [x EXCEPT !.pc = "reference", !.n = x.n + 1]
<1>1. x.pc = "update" /\ x.op = "pull" /\ CallOK(x)
  BY DEF PullUpdate, CallsInv, CallsOK
<1>2. Update(c) /\ UNCHANGED <<store, events, skipped>>
  BY DEF PullUpdate
<1>3. ImagesOK'
  BY <1>2, ImagesUpdate DEF CallsInv, Actors
<1>4. CASE x.n + 1 = Len(x.todo)
  <2>1. call' = Returned(c, TRUE)
    BY <1>4 DEF PullUpdate
  <2>2. CallsOK' /\ Cleared' /\ Fewer
    BY <1>1, <1>2, <2>1, CallReturns DEF CallsInv
  <2>3. QED
    BY <1>3, <2>2 DEF CallsInv
<1>5. CASE x.n + 1 # Len(x.todo)
  <2>1. call' = [call EXCEPT ![c] = y]
    BY <1>5 DEF PullUpdate, CallsInv, CallsOK
  <2>2. x.n \in 0 .. 2 /\ Len(x.todo) = 3
    BY <1>1, PullAt
  <2>3. x.n + 1 \in 0 .. 2
    BY <1>5, <2>2
  <2>4. CallOK(y) /\ Gone(y) = {} /\ MadeOf(y) = {}
    BY <1>1, <2>3, PullPc
  <2> HIDE DEF y
  <2>5. CallsOK' /\ Cleared' /\ Fewer
    BY <1>2, <2>1, <2>4, CallMoves DEF CallsInv
  <2>6. QED
    BY <1>3, <2>5 DEF CallsInv
<1>6. QED
  BY <1>4, <1>5

LEMMA TagListsOK ==
    ASSUME NEW l \in TagLists
    PROVE  Len(l) = 2 /\ l[1] \in Tags /\ l[2] \in Tags \cup {BadTag}
BY DEF TagLists

\* The records of a tag call: its image is found in the index, and then in
\* containerd.
LEMMA TagFound ==
    ASSUME NEW x, CallOK(x), x.pc = "resolveImage", NEW i \in Images
    PROVE  LET y == [x EXCEPT !.pc = "get", !.name = BadName, !.img = i]
           IN  CallOK(y) /\ Gone(y) = {} /\ MadeOf(y) = {}
<1> DEFINE y == [x EXCEPT !.pc = "get", !.name = BadName, !.img = i]
<1>1. x.op = "tag" /\ x.todo \in TagLists /\ x.n = 0 /\ ~x.ok /\ x.made = {}
  BY DEF CallOK, Pulls, Tagged, Removes, Mounts
<1>2. /\ Shape(y) /\ y.op = "tag" /\ y.pc = "get" /\ y.img = i /\ y.ok = x.ok
      /\ y.todo = x.todo /\ y.n = x.n /\ y.made = x.made
  BY <1>1 DEF CallOK, Shape, Fields
<1>3. Tagged(y)
  BY <1>1, <1>2 DEF Tagged
<1>4. QED
  BY <1>1, <1>2, <1>3 DEF CallOK, Pulls, Removes, Mounts, Gone, MadeOf

LEMMA TagGot ==
    ASSUME NEW x, CallOK(x), x.pc = "get", NEW i \in Images
    PROVE  LET y == [x EXCEPT !.pc = "create", !.img = i]
           IN  CallOK(y) /\ Gone(y) = {} /\ MadeOf(y) = {}
<1> DEFINE y == [x EXCEPT !.pc = "create", !.img = i]
<1>1. x.op = "tag" /\ x.todo \in TagLists /\ x.n = 0 /\ ~x.ok /\ x.made = {}
  BY DEF CallOK, Pulls, Tagged, Removes, Mounts
<1>2. /\ Shape(y) /\ y.op = "tag" /\ y.pc = "create" /\ y.img = i /\ y.ok = x.ok
      /\ y.todo = x.todo /\ y.n = x.n /\ y.made = x.made
  BY <1>1 DEF CallOK, Shape, Fields
<1>3. Tagged(y)
  BY <1>1, <1>2 DEF Tagged
<1>4. QED
  BY <1>1, <1>2, <1>3 DEF CallOK, Pulls, Removes, Mounts, Gone, MadeOf

\* The tag that a tag call is at.
LEMMA TagAt ==
    ASSUME NEW x, CallOK(x), x.pc = "create"
    PROVE  /\ x.op = "tag" /\ x.img \in Images /\ x.n \in {0, 1} /\ Len(x.todo) = 2
           /\ x.todo[x.n + 1] \in Tags \cup {BadTag}
<1>1. x.op = "tag" /\ x.img \in Images /\ x.n \in {0, 1} /\ x.todo \in TagLists
  BY DEF CallOK, Pulls, Tagged, Removes, Mounts
<1>2. Len(x.todo) = 2 /\ x.todo[1] \in Tags /\ x.todo[2] \in Tags \cup {BadTag}
  BY <1>1, TagListsOK
<1>3. QED
  BY <1>1, <1>2

\* One more tag is made: the call goes on, or it was the last and it returns.
LEMMA TagMade ==
    ASSUME NEW x, CallOK(x), x.pc = "create"
    PROVE  LET y == [x EXCEPT !.n = @ + 1, !.made = @ \cup {<<x.todo[x.n + 1], x.img>>}]
           IN  /\ y.n = x.n + 1 /\ y.op = "tag" /\ Gone(y) = {} /\ MadeOf(y) = {}
               /\ CallOK(IF x.n + 1 = 2 THEN Done(y, TRUE) ELSE y)
               /\ Gone(Done(y, TRUE)) = {} /\ MadeOf(Done(y, TRUE)) = {}
<1> DEFINE y == [x EXCEPT !.n = @ + 1, !.made = @ \cup {<<x.todo[x.n + 1], x.img>>}]
           z == Done(y, TRUE)
<1>1. x.op = "tag" /\ x.img \in Images /\ x.n \in {0, 1} /\ x.todo \in TagLists /\ ~x.ok
  BY DEF CallOK, Pulls, Tagged, Removes, Mounts
<1>2. /\ Shape(y) /\ y.op = "tag" /\ y.pc = "create" /\ y.img = x.img /\ y.ok = x.ok
      /\ y.todo = x.todo /\ y.n = x.n + 1 /\ y.made = x.made \cup {<<x.todo[x.n + 1], x.img>>}
  BY <1>1 DEF CallOK, Shape, Fields
<1>3. y.made = {<<y.todo[k], y.img>> : k \in 1 .. y.n}
  <2>1. x.made = {<<x.todo[k], x.img>> : k \in 1 .. x.n}
    BY <1>1 DEF CallOK, Tagged
  <2>2. 1 .. y.n = (1 .. x.n) \cup {x.n + 1}
    BY <1>1, <1>2
  <2>3. QED
    BY <1>2, <2>1, <2>2
<1> HIDE DEF y
<1>4. z = [y EXCEPT !.pc = "done", !.ok = TRUE, !.name = BadName]
  BY <1>2 DEF Done
<1>5. /\ Shape(z) /\ z.op = "tag" /\ z.pc = "done" /\ z.ok = TRUE /\ z.img = y.img
      /\ z.todo = y.todo /\ z.n = y.n /\ z.made = y.made
  BY <1>2, <1>4 DEF Shape, Fields
<1> HIDE DEF z
<1>6. CASE x.n + 1 = 2
  <2>1. Tagged(z)
    BY <1>1, <1>2, <1>3, <1>5, <1>6 DEF Tagged
  <2>2. CallOK(z)
    BY <1>5, <2>1 DEF CallOK, Pulls, Removes, Mounts
  <2>3. QED
    BY <1>2, <1>5, <1>6, <2>2 DEF Gone, MadeOf, y, z
<1>7. CASE x.n + 1 # 2
  <2>1. Tagged(y)
    BY <1>1, <1>2, <1>3, <1>7 DEF Tagged
  <2>2. CallOK(y)
    BY <1>1, <1>2, <2>1 DEF CallOK, Pulls, Removes, Mounts
  <2>3. QED
    BY <1>2, <1>5, <1>7, <2>2 DEF Gone, MadeOf, y, z
<1>8. QED
  BY <1>6, <1>7

LEMMA TagResolveKeeps ==
    ASSUME CallsInv, NEW c \in Clients, TagResolve(c)
    PROVE  CallsInv' /\ Fewer
<1> DEFINE x == call[c]
           i == Resolve(x.name)
           y == [x EXCEPT !.pc = "get", !.name = BadName, !.img = i]
<1>1. CallOK(x) /\ x.pc = "resolveImage" /\ UNCHANGED imageVars
  BY DEF TagResolve, CallsInv, CallsOK
<1>2. x.op = "tag" /\ x.name \in Refs
  BY <1>1, RefsOK DEF CallOK, Pulls, Tagged, Removes, Mounts
<1>3. CASE call' = Returned(c, FALSE)
  BY <1>1, <1>3, Fails
<1>4. CASE i # NoImage /\ call' = [call EXCEPT ![c].pc = "get", ![c].name = BadName, ![c].img = i]
  <2>1. i \in Images
    BY <1>2, <1>4, ResolveOK DEF CallsInv
  <2> HIDE DEF i
  <2>2. call' = [call EXCEPT ![c] = y]
    BY <1>4 DEF CallsInv, CallsOK
  <2>3. CallOK(y) /\ Gone(y) = {} /\ MadeOf(y) = {}
    BY <1>1, <2>1, TagFound
  <2> HIDE DEF y
  <2>4. QED
    BY <1>1, <2>2, <2>3, MovesOn
<1>5. QED
  BY <1>3, <1>4 DEF TagResolve

LEMMA TagGetKeeps ==
    ASSUME CallsInv, NEW c \in Clients, TagGet(c)
    PROVE  CallsInv' /\ Fewer
<1> DEFINE x == call[c]
           i == store[DigestRef(x.img)]
           y == [x EXCEPT !.pc = "create", !.img = i]
<1>1. CallOK(x) /\ x.pc = "get" /\ UNCHANGED imageVars
  BY DEF TagGet, CallsInv, CallsOK
<1>2. x.op = "tag" /\ x.img \in Images
  BY <1>1 DEF CallOK, Pulls, Tagged, Removes, Mounts
<1>3. CASE i = NoImage
  <2>1. call' = Returned(c, FALSE)
    BY <1>3 DEF TagGet
  <2>2. QED
    BY <1>1, <2>1, Fails
<1>4. CASE i # NoImage
  <2>1. i \in Images
    BY <1>2, <1>4, RefsOK DEF CallsInv, ImagesOK
  <2>2. call' = [call EXCEPT ![c].pc = "create", ![c].img = i]
    BY <1>4 DEF TagGet
  <2> HIDE DEF i
  <2>3. call' = [call EXCEPT ![c] = y]
    BY <2>2 DEF CallsInv, CallsOK
  <2>4. CallOK(y) /\ Gone(y) = {} /\ MadeOf(y) = {}
    BY <1>1, <2>1, TagGot
  <2> HIDE DEF y
  <2>5. QED
    BY <1>1, <2>3, <2>4, MovesOn
<1>5. QED
  BY <1>3, <1>4

LEMMA TagCreateKeeps ==
    ASSUME CallsInv, NEW c \in Clients, TagCreate(c)
    PROVE  CallsInv' /\ Fewer
<1> DEFINE x == call[c]
           t == x.todo[x.n + 1]
           made == [call EXCEPT ![c].n = @ + 1, ![c].made = @ \cup {<<t, x.img>>}]
           y == [x EXCEPT !.n = @ + 1, !.made = @ \cup {<<t, x.img>>}]
<1>1. CallOK(x) /\ x.pc = "create"
  BY DEF TagCreate, CallsInv, CallsOK
<1>2. /\ x.op = "tag" /\ x.img \in Images /\ x.n \in {0, 1} /\ Len(x.todo) = 2
      /\ t \in Tags \cup {BadTag}
  BY <1>1, TagAt
<1>3. CASE t = BadTag \/ store[t] # NoImage
  <2>1. call' = Returned(c, FALSE) /\ UNCHANGED imageVars
    BY <1>3 DEF TagCreate, imageVars
  <2>2. QED
    BY <2>1, Fails
<1>4. CASE ~(t = BadTag \/ store[t] # NoImage)
  <2>1. made = [call EXCEPT ![c] = y]
    BY DEF CallsInv, CallsOK
  <2>2. /\ y.n = x.n + 1 /\ y.op = "tag" /\ Gone(y) = {} /\ MadeOf(y) = {}
        /\ CallOK(IF x.n + 1 = 2 THEN Done(y, TRUE) ELSE y)
        /\ Gone(Done(y, TRUE)) = {} /\ MadeOf(Done(y, TRUE)) = {}
    BY <1>1, TagMade
  <2>3. t \in Refs /\ UNCHANGED <<index, fetched>>
    BY <1>2, <1>4, RefsOK DEF TagCreate
  <2>4. CASE x.n + 1 = 2
    <3>1. Set(t, x.img, [made EXCEPT ![c] = Done(@, TRUE)])
      BY <1>2, <1>4, <2>4 DEF TagCreate
    <3>2. [made EXCEPT ![c] = Done(@, TRUE)] = [call EXCEPT ![c] = Done(y, TRUE)]
      <4> HIDE DEF y
      <4>1. QED
        BY <2>1 DEF CallsInv, CallsOK
    <3>3. QED
      <4> HIDE DEF y, made, t
      <4>1. QED
        BY <1>2, <2>2, <2>3, <2>4, <3>1, <3>2, Writes
  <2>5. CASE x.n + 1 # 2
    <3>1. Set(t, x.img, made)
      BY <1>2, <1>4, <2>5 DEF TagCreate
    <3>2. QED
      <4> HIDE DEF y, made, t
      <4>1. QED
        BY <1>2, <2>1, <2>2, <2>3, <2>5, <3>1, Writes
  <2>6. QED
    BY <2>4, <2>5
<1>5. QED
  BY <1>3, <1>4

\* A removal is listed by its digest and goes on with the id.
LEMMA RmiListed ==
    ASSUME NEW x, CallOK(x), x.pc = "list", NEW q \in Refs
    PROVE  LET y == [x EXCEPT !.pc = "localResolve", !.name = q]
           IN  CallOK(y) /\ Gone(y) = {} /\ MadeOf(y) = {}
<1> DEFINE y == [x EXCEPT !.pc = "localResolve", !.name = q]
<1>1. x.op = "rmi" /\ x.saw = {} /\ x.refs = {} /\ x.n = 0 /\ ~x.ok
  BY DEF CallOK, Pulls, Tagged, Removes, Mounts
<1>2. /\ Shape(y) /\ y.op = "rmi" /\ y.pc = "localResolve" /\ y.name = q /\ y.ok = x.ok
      /\ y.n = x.n /\ y.refs = x.refs /\ y.saw = x.saw
  BY <1>1 DEF CallOK, Shape, Fields
<1>3. QED
  BY <1>1, <1>2 DEF CallOK, Pulls, Tagged, Removes, Mounts, Gone, MadeOf

\* A removal looks up the references of its image.
LEMMA RmiLooked ==
    ASSUME NEW x, CallOK(x), x.pc = "localResolve", NEW S, S \subseteq Refs
    PROVE  LET y == [x EXCEPT !.pc = "delete", !.name = BadName, !.refs = S, !.saw = S]
           IN  CallOK(y) /\ Gone(y) = {} /\ MadeOf(y) = {}
<1> DEFINE y == [x EXCEPT !.pc = "delete", !.name = BadName, !.refs = S, !.saw = S]
<1>1. x.op = "rmi" /\ x.n = 0 /\ ~x.ok
  BY DEF CallOK, Pulls, Tagged, Removes, Mounts
<1>2. /\ Shape(y) /\ y.op = "rmi" /\ y.pc = "delete" /\ y.ok = x.ok
      /\ y.n = x.n /\ y.refs = S /\ y.saw = S
  BY <1>1 DEF CallOK, Shape, Fields
<1>3. QED
  BY <1>1, <1>2 DEF CallOK, Pulls, Tagged, Removes, Mounts, Gone, MadeOf

\* A removal deletes one of them.
LEMMA RmiDeleted ==
    ASSUME NEW x, CallOK(x), x.pc = "delete", NEW r \in x.refs
    PROVE  LET y == [x EXCEPT !.pc = "fetched", !.todo = <<r>>]
           IN  /\ CallOK(y) /\ MadeOf(y) = {} /\ y.since = x.since /\ r \in Refs
               /\ Gone(y) = Gone(x) \cup {r}
<1> DEFINE y == [x EXCEPT !.pc = "fetched", !.todo = <<r>>]
<1>1. x.op = "rmi" /\ x.n = 0 /\ ~x.ok /\ x.refs \subseteq x.saw /\ x.saw \subseteq Refs
  BY DEF CallOK, Pulls, Tagged, Removes, Mounts
<1>2. /\ Shape(y) /\ y.op = "rmi" /\ y.pc = "fetched" /\ y.ok = x.ok /\ y.todo = <<r>>
      /\ y.n = x.n /\ y.refs = x.refs /\ y.saw = x.saw /\ y.since = x.since
  BY <1>1 DEF CallOK, Shape, Fields
<1>3. CallOK(y)
  BY <1>1, <1>2 DEF CallOK, Pulls, Tagged, Removes, Mounts
<1>4. Gone(x) = x.saw \ x.refs /\ Gone(y) = (y.saw \ y.refs) \cup {r}
  BY <1>1, <1>2 DEF Gone
<1>5. QED
  BY <1>1, <1>2, <1>3, <1>4 DEF MadeOf

\* A removal has brought the index up to date for the one it deleted.
LEMMA RmiUpdated ==
    ASSUME NEW x, CallOK(x), x.pc = "update", x.op = "rmi"
    PROVE  LET r == x.todo[1]
               y == [x EXCEPT !.pc = "delete", !.refs = @ \ {r}, !.todo = <<>>]
           IN  /\ CallOK(y) /\ MadeOf(y) = {} /\ y.since = x.since
               /\ Gone(y) = Gone(x)
               /\ x.refs = {r} => Gone(x) = x.saw
<1> DEFINE r == x.todo[1]
           y == [x EXCEPT !.pc = "delete", !.refs = @ \ {r}, !.todo = <<>>]
<1>1. x.n = 0 /\ ~x.ok /\ x.refs \subseteq x.saw /\ x.saw \subseteq Refs /\ r \in x.refs
  BY DEF CallOK, Removes
<1>2. /\ Shape(y) /\ y.op = "rmi" /\ y.pc = "delete" /\ y.ok = x.ok
      /\ y.n = x.n /\ y.refs = x.refs \ {r} /\ y.saw = x.saw /\ y.since = x.since
  BY <1>1 DEF CallOK, Shape, Fields
<1>3. CallOK(y)
  BY <1>1, <1>2 DEF CallOK, Pulls, Tagged, Removes, Mounts
<1>4. Gone(x) = (x.saw \ x.refs) \cup {r} /\ Gone(y) = y.saw \ y.refs
  BY <1>1, <1>2 DEF Gone
<1>5. QED
  BY <1>1, <1>2, <1>3, <1>4 DEF MadeOf

LEMMA RmiListKeeps ==
    ASSUME CallsInv, NEW c \in Clients, RmiList(c)
    PROVE  CallsInv' /\ Fewer
<1> DEFINE x == call[c]
           i == CHOOSE i \in Images : x.name = DigestRef(i)
           y == [x EXCEPT !.pc = "localResolve", !.name = IdRef(i)]
<1>1. CallOK(x) /\ x.pc = "list" /\ UNCHANGED imageVars
  BY DEF RmiList, CallsInv, CallsOK
<1>2. /\ x.op = "rmi" /\ x.saw = {}
      /\ \E j \in Images : x.name = DigestRef(j)
  BY <1>1 DEF CallOK, Pulls, Tagged, Removes, Mounts
<1>3. i \in Images /\ IdRef(i) \in Refs
  BY <1>2, RefsOK
<1>4. CASE call' = Returned(c, TRUE)
  <2>1. store' = store
    BY <1>1 DEF imageVars
  <2>2. CallsOK' /\ Cleared' /\ Fewer
    BY <1>2, <1>4, <2>1, CallReturns DEF CallsInv
  <2>3. QED
    BY <1>1, <2>2, ImagesSame DEF CallsInv
<1>5. CASE call' = [call EXCEPT ![c].pc = "localResolve", ![c].name = IdRef(i)]
  <2>1. CallOK(y) /\ Gone(y) = {} /\ MadeOf(y) = {}
    BY <1>1, <1>3, RmiListed
  <2> HIDE DEF i
  <2>2. call' = [call EXCEPT ![c] = y]
    BY <1>5 DEF CallsInv, CallsOK
  <2> HIDE DEF y
  <2>3. QED
    BY <1>1, <2>1, <2>2, MovesOn
<1>6. QED
  BY <1>4, <1>5 DEF RmiList

LEMMA RemoveResolveKeeps ==
    ASSUME CallsInv, NEW c \in Clients, RemoveResolve(c)
    PROVE  CallsInv' /\ Fewer
<1> DEFINE x == call[c]
           i == Resolve(x.name)
           S == References(i)
           y == [x EXCEPT !.pc = "delete", !.name = BadName, !.refs = S, !.saw = S]
<1>1. CallOK(x) /\ x.pc = "localResolve" /\ UNCHANGED imageVars
  BY DEF RemoveResolve, CallsInv, CallsOK
<1>2. x.op = "rmi" /\ x.saw = {}
  BY <1>1 DEF CallOK, Pulls, Tagged, Removes, Mounts
<1>3. CASE call' = Returned(c, TRUE)
  <2>1. store' = store
    BY <1>1 DEF imageVars
  <2>2. CallsOK' /\ Cleared' /\ Fewer
    BY <1>2, <1>3, <2>1, CallReturns DEF CallsInv
  <2>3. QED
    BY <1>1, <2>2, ImagesSame DEF CallsInv
<1>4. CASE call' = [call EXCEPT ![c].pc = "delete", ![c].name = BadName,
                                ![c].refs = S, ![c].saw = S]
  <2>1. S \subseteq Refs
    BY DEF References
  <2> HIDE DEF S
  <2>2. CallOK(y) /\ Gone(y) = {} /\ MadeOf(y) = {}
    BY <1>1, <2>1, RmiLooked
  <2>3. call' = [call EXCEPT ![c] = y]
    BY <1>4 DEF CallsInv, CallsOK
  <2> HIDE DEF y
  <2>4. QED
    BY <1>1, <2>2, <2>3, MovesOn
<1>5. QED
  BY <1>3, <1>4 DEF RemoveResolve

LEMMA RemoveDeleteKeeps ==
    ASSUME CallsInv, NEW c \in Clients, RemoveDelete(c)
    PROVE  CallsInv' /\ Fewer
<1> DEFINE x == call[c]
<1>1. CallOK(x) /\ x.pc = "delete" /\ Clear(x) /\ UNCHANGED <<index, fetched>>
  BY DEF RemoveDelete, CallsInv, CallsOK, Cleared
<1>2. CASE call' = Returned(c, FALSE) /\ UNCHANGED <<store, events, skipped>>
  <2>1. UNCHANGED imageVars
    BY <1>1, <1>2 DEF imageVars
  <2>2. QED
    BY <1>2, <2>1, Fails
<1>3. ASSUME NEW r \in x.refs, Delete(r),
             call' = [call EXCEPT ![c].pc = "fetched", ![c].todo = <<r>>]
      PROVE  CallsInv' /\ Fewer
  <2> DEFINE y == [x EXCEPT !.pc = "fetched", !.todo = <<r>>]
  <2>1. call' = [call EXCEPT ![c] = y]
    BY <1>3 DEF CallsInv, CallsOK
  <2>2. CallOK(y) /\ MadeOf(y) = {} /\ y.since = x.since /\ r \in Refs /\ Gone(y) = Gone(x) \cup {r}
    BY <1>1, RmiDeleted
  <2> HIDE DEF y
  <2>3. ImagesOK'
    <3>1. CASE store[r] = NoImage
      BY <1>1, <1>3, <3>1, ImagesSame DEF Delete, imageVars, CallsInv
    <3>2. CASE store[r] # NoImage
      BY <1>1, <1>3, <2>2, <3>2, ImagesChange DEF Delete, CallsInv
    <3>3. QED
      BY <3>1, <3>2
  <2>4. \A q \in Refs : store'[q] = IF q = r THEN NoImage ELSE store[q]
    BY <1>3, <2>2 DEF Delete, CallsInv, ImagesOK
  <2>5. Gone(x) \subseteq Refs
    BY <1>1, GoneIsSeen
  <2>6. \A q \in Gone(y) : store'[q] # NoImage => q \in y.since
    BY <1>1, <2>2, <2>4, <2>5 DEF Clear
  <2>7. CallsOK' /\ Cleared' /\ Fewer
    BY <2>1, <2>2, <2>4, <2>6, CallMoves DEF CallsInv
  <2>8. QED
    BY <2>3, <2>7 DEF CallsInv
<1>4. QED
  BY <1>2, <1>3 DEF RemoveDelete

LEMMA RemoveUpdateKeeps ==
    ASSUME CallsInv, NEW c \in Clients, RemoveUpdate(c)
    PROVE  CallsInv' /\ Fewer
<1> DEFINE x == call[c]
           r == x.todo[1]
           y == [x EXCEPT !.pc = "delete", !.refs = @ \ {r}, !.todo = <<>>]
<1>1. CallOK(x) /\ x.pc = "update" /\ x.op = "rmi" /\ Clear(x)
  BY DEF RemoveUpdate, CallsInv, CallsOK, Cleared
<1>2. Update(c) /\ UNCHANGED <<store, events, skipped>>
  BY DEF RemoveUpdate
<1>3. ImagesOK'
  BY <1>2, ImagesUpdate DEF CallsInv, Actors
<1>4. /\ CallOK(y) /\ MadeOf(y) = {} /\ y.since = x.since /\ Gone(y) = Gone(x)
      /\ x.refs = {r} => Gone(x) = x.saw
  BY <1>1, RmiUpdated
<1>5. CASE x.refs = {r}
  <2>1. call' = Returned(c, TRUE)
    BY <1>5 DEF RemoveUpdate
  <2>2. \A q \in x.saw : store[q] # NoImage => q \in x.since
    BY <1>1, <1>4, <1>5 DEF Clear
  <2>3. CallsOK' /\ Cleared' /\ Fewer
    BY <1>1, <1>2, <2>1, <2>2, CallReturns DEF CallsInv
  <2>4. QED
    BY <1>3, <2>3 DEF CallsInv
<1>6. CASE x.refs # {r}
  <2>1. call' = [call EXCEPT ![c] = y]
    BY <1>6 DEF RemoveUpdate, CallsInv, CallsOK
  <2> HIDE DEF y
  <2>2. \A q \in Gone(y) : store'[q] # NoImage => q \in y.since
    BY <1>1, <1>2, <1>4 DEF Clear
  <2>3. CallsOK' /\ Cleared' /\ Fewer
    BY <1>2, <1>4, <2>1, <2>2, CallMoves DEF CallsInv
  <2>4. QED
    BY <1>3, <2>3 DEF CallsInv
<1>7. QED
  BY <1>5, <1>6

\* A client makes a call: its record starts from an idle one.
LEMMA InvokeKeeps ==
    ASSUME CallsInv, NEW c \in Clients, Invoke(c)
    PROVE  CallsInv' /\ Fewer
<1>1. UNCHANGED imageVars
  BY DEF Invoke, BeginPull, BeginTag, BeginRmi, BeginRemoveVolume, BeginCreate, Begin,
         CreateNamed, CreateAnonymous, CreateVolume, RemoveContainer
<1>2. ASSUME NEW y, CallOK(y), Gone(y) = {}, MadeOf(y) = {}, call' = [call EXCEPT ![c] = y]
      PROVE  CallsInv' /\ Fewer
  BY <1>1, <1>2, MovesOn
<1>3. ASSUME NEW t \in Tags, BeginPull(c, t)
      PROVE  CallsInv' /\ Fewer
  <2> DEFINE y == [Idle EXCEPT !.op = "pull", !.pc = "fetch", !.name = t]
  <2>1. Shape(y) /\ y.op = "pull" /\ y.pc = "fetch" /\ y.name = t /\ y.n = 0 /\ y.ok = FALSE
    BY DEF Idle, Shape, Fields
  <2>2. call' = [call EXCEPT ![c] = y]
    BY <1>3 DEF BeginPull, Begin
  <2> HIDE DEF y
  <2>3. CallOK(y) /\ Gone(y) = {} /\ MadeOf(y) = {}
    <3>1. Pulls(y) /\ Tagged(y) /\ Removes(y) /\ Mounts(y)
      BY <2>1 DEF Pulls, Tagged, Removes, Mounts
    <3>2. QED
      BY <2>1, <3>1 DEF CallOK, Gone, MadeOf
  <2>4. QED
    BY <1>2, <2>2, <2>3
<1>4. ASSUME NEW image \in Tags, NEW tags \in TagLists, BeginTag(c, image, tags)
      PROVE  CallsInv' /\ Fewer
  <2> DEFINE y == [Idle EXCEPT !.op = "tag", !.pc = "resolveImage", !.name = image, !.todo = tags]
  <2>1. /\ Shape(y) /\ y.op = "tag" /\ y.pc = "resolveImage" /\ y.name = image /\ y.todo = tags
        /\ y.n = 0 /\ y.ok = FALSE /\ y.made = {}
    BY DEF Idle, Shape, Fields
  <2>2. call' = [call EXCEPT ![c] = y]
    BY <1>4 DEF BeginTag, Begin
  <2> HIDE DEF y
  <2>3. CallOK(y) /\ Gone(y) = {} /\ MadeOf(y) = {}
    <3>1. Pulls(y) /\ Tagged(y) /\ Removes(y) /\ Mounts(y)
      BY <2>1 DEF Pulls, Tagged, Removes, Mounts
    <3>2. QED
      BY <2>1, <3>1 DEF CallOK, Gone, MadeOf
  <2>4. QED
    BY <1>2, <2>2, <2>3
<1>5. ASSUME NEW r \in Tags \cup {DigestRef(i) : i \in Images}, BeginRmi(c, r)
      PROVE  CallsInv' /\ Fewer
  <2> DEFINE p == IF \E i \in Images : r = DigestRef(i) THEN "list" ELSE "localResolve"
             y == [Idle EXCEPT !.op = "rmi", !.name = r, !.pc = p]
  <2>1. /\ p \in {"list", "localResolve"}
        /\ p = "list" => \E i \in Images : r = DigestRef(i)
        /\ r \in Refs
    BY RefsOK
  <2>2. call' = [call EXCEPT ![c] = y]
    BY <1>5 DEF BeginRmi, Begin
  <2> HIDE DEF p
  <2>3. /\ Shape(y) /\ y.op = "rmi" /\ y.pc = p /\ y.name = r /\ y.refs = {} /\ y.saw = {}
        /\ y.n = 0 /\ y.ok = FALSE
    BY DEF Idle, Shape, Fields
  <2> HIDE DEF y
  <2>4. CallOK(y) /\ Gone(y) = {} /\ MadeOf(y) = {}
    BY <2>1, <2>3 DEF CallOK, Pulls, Tagged, Removes, Mounts, Gone, MadeOf
  <2>5. QED
    BY <1>2, <2>2, <2>4
<1>6. CASE call' = [call EXCEPT ![c] = Idle]
  BY <1>2, <1>6, IdleOK
<1>7. ASSUME NEW name, BeginRemoveVolume(c, name)
      PROVE  CallsInv' /\ Fewer
  <2> DEFINE y == [Idle EXCEPT !.op = "rmvol", !.pc = "stat", !.name = name]
  <2>1. Shape(y) /\ y.op = "rmvol" /\ y.pc = "stat" /\ y.ok = FALSE
    BY DEF Idle, Shape, Fields
  <2>2. call' = [call EXCEPT ![c] = y]
    BY <1>7 DEF BeginRemoveVolume, Begin
  <2> HIDE DEF y
  <2>3. CallOK(y) /\ Gone(y) = {} /\ MadeOf(y) = {}
    BY <2>1 DEF CallOK, Pulls, Tagged, Removes, Mounts, Gone, MadeOf
  <2>4. QED
    BY <1>2, <2>2, <2>3
<1>8. ASSUME NEW t \in Tags, BeginCreate(c, t)
      PROVE  CallsInv' /\ Fewer
  <2> DEFINE y == [Idle EXCEPT !.op = "create", !.pc = "setup", !.name = t]
  <2>1. /\ Shape(y) /\ y.op = "create" /\ y.pc = "setup" /\ y.name = t /\ y.n = 0
        /\ y.ok = FALSE /\ y.made = {}
    BY DEF Idle, Shape, Fields
  <2>2. call' = [call EXCEPT ![c] = y]
    BY <1>8 DEF BeginCreate, Begin
  <2> HIDE DEF y
  <2>3. CallOK(y) /\ Gone(y) = {} /\ MadeOf(y) = {}
    <3>1. Pulls(y) /\ Tagged(y) /\ Removes(y) /\ Mounts(y)
      BY <2>1 DEF Pulls, Tagged, Removes, Mounts
    <3>2. QED
      BY <2>1, <3>1 DEF CallOK, Gone, MadeOf
  <2>4. QED
    BY <1>2, <2>2, <2>3
<1>9. QED
  BY <1>3, <1>4, <1>5, <1>6, <1>7, <1>8
     DEF Invoke, CreateNamed, CreateAnonymous, CreateVolume, RemoveContainer

LEMMA SetupOK ==
    ASSUME NEW x, CallOK(x), x.pc = "setup", NEW v
    PROVE  LET y == [x EXCEPT !.n = @ + 1, !.made = @ \cup {v}]
           IN  CallOK(y) /\ Gone(y) = {} /\ MadeOf(y) = MadeOf(x) \cup {v}
<1> DEFINE y == [x EXCEPT !.n = @ + 1, !.made = @ \cup {v}]
<1>1. x.op = "create" /\ x.name \in Tags /\ x.n \in Nat /\ ~x.ok
  BY DEF CallOK, Pulls, Tagged, Removes, Mounts
<1>2. /\ Shape(y) /\ y.op = "create" /\ y.pc = "setup" /\ y.name = x.name /\ y.n = x.n + 1
      /\ y.ok = x.ok /\ y.made = x.made \cup {v}
  BY <1>1 DEF CallOK, Shape, Fields
<1>3. QED
  BY <1>1, <1>2 DEF CallOK, Pulls, Tagged, Removes, Mounts, Gone, MadeOf

\* A container's create resolves a mount: it has at most that volume more.
LEMMA SetupMoves ==
    ASSUME CallsInv, NEW c \in Clients, call[c].pc = "setup", NEW v,
           call' = [call EXCEPT ![c].n = @ + 1, ![c].made = @ \cup {v}], UNCHANGED imageVars
    PROVE  /\ CallsInv'
           /\ \A d \in Clients :
                 MadeOf(call'[d]) = IF d = c THEN MadeOf(call[d]) \cup {v} ELSE MadeOf(call[d])
<1> DEFINE x == call[c]
           y == [x EXCEPT !.n = @ + 1, !.made = @ \cup {v}]
<1>1. CallOK(x)
  BY DEF CallsInv, CallsOK
<1>2. call' = [call EXCEPT ![c] = y]
  BY DEF CallsInv, CallsOK
<1>3. CallOK(y) /\ Gone(y) = {} /\ MadeOf(y) = MadeOf(x) \cup {v}
  BY <1>1, SetupOK
<1> HIDE DEF y
<1>4. store' = store
  BY DEF imageVars
<1>5. CallsOK' /\ Cleared'
  BY <1>2, <1>3, <1>4, CallMoves DEF CallsInv
<1>6. \A d \in Clients : call'[d] = IF d = c THEN y ELSE call[d]
  BY <1>2 DEF CallsInv, CallsOK
<1>7. CallsInv'
  BY <1>5, ImagesSame DEF CallsInv
<1>8. ASSUME NEW d \in Clients
      PROVE  MadeOf(call'[d]) = IF d = c THEN MadeOf(call[d]) \cup {v} ELSE MadeOf(call[d])
  <2>1. CASE d = c
    <3>1. call'[d] = y
      BY <1>6, <2>1
    <3>2. QED
      BY <1>3, <2>1, <3>1
  <2>2. CASE d # c
    <3>1. call'[d] = call[d]
      BY <1>6, <2>2
    <3>2. QED
      BY <2>2, <3>1
  <2>3. QED
    BY <2>1, <2>2
<1>9. QED
  BY <1>7, <1>8

\* A call on volumes or containers returns.
LEMMA Succeeds ==
    ASSUME CallsInv, NEW c \in Clients, call[c].op \notin {"tag", "rmi"},
           call' = Returned(c, TRUE), UNCHANGED imageVars
    PROVE  CallsInv' /\ Fewer
<1>1. store' = store
  BY DEF imageVars
<1>2. CallsOK' /\ Cleared' /\ Fewer
  BY <1>1, CallReturns DEF CallsInv
<1>3. QED
  BY <1>2, ImagesSame DEF CallsInv

LEMMA StatOK ==
    ASSUME NEW x, CallOK(x), x.pc = "stat"
    PROVE  LET y == [x EXCEPT !.pc = "removeAll"]
           IN  CallOK(y) /\ Gone(y) = {} /\ MadeOf(y) = {}
<1> DEFINE y == [x EXCEPT !.pc = "removeAll"]
<1>1. x.op = "rmvol" /\ ~x.ok
  BY DEF CallOK, Pulls, Tagged, Removes, Mounts
<1>2. Shape(y) /\ y.op = "rmvol" /\ y.pc = "removeAll" /\ y.ok = x.ok
  BY <1>1 DEF CallOK, Shape, Fields
<1>3. QED
  BY <1>1, <1>2 DEF CallOK, Pulls, Tagged, Removes, Mounts, Gone, MadeOf

\* The host paths are made: the create goes on to add the container.
LEMMA AddsOK ==
    ASSUME NEW x, CallOK(x), x.pc = "setup"
    PROVE  LET y == [x EXCEPT !.pc = "add"]
           IN  CallOK(y) /\ Gone(y) = {} /\ MadeOf(y) = MadeOf(x)
<1> DEFINE y == [x EXCEPT !.pc = "add"]
<1>1. x.op = "create" /\ x.name \in Tags /\ x.n \in Nat /\ ~x.ok
  BY DEF CallOK, Pulls, Tagged, Removes, Mounts
<1>2. /\ Shape(y) /\ y.op = "create" /\ y.pc = "add" /\ y.name = x.name /\ y.n = x.n
      /\ y.ok = x.ok /\ y.made = x.made
  BY <1>1 DEF CallOK, Shape, Fields
<1>3. QED
  BY <1>1, <1>2 DEF CallOK, Pulls, Tagged, Removes, Mounts, Gone, MadeOf

LEMMA VolumeCallKeeps ==
    ASSUME CallsInv, NEW c \in Clients,
           RemoveVolumeStat(c) \/ RemoveAll(c) \/ RunCreate(c) \/ AddContainer(c)
    PROVE  CallsInv' /\ Fewer
<1> DEFINE x == call[c]
           y == [x EXCEPT !.pc = "removeAll"]
           z == [x EXCEPT !.pc = "add"]
<1>1. UNCHANGED imageVars /\ x.pc \in {"stat", "removeAll", "setup", "add"} /\ CallOK(x)
  BY DEF RemoveVolumeStat, RemoveAll, RunCreate, AddContainer, CallsInv, CallsOK
<1>2. x.op \notin {"tag", "rmi"}
  BY <1>1 DEF CallOK, Tagged, Removes
<1>3. CASE call' = Returned(c, FALSE)
  BY <1>1, <1>3, Fails
<1>4. CASE call' = Returned(c, TRUE)
  BY <1>1, <1>2, <1>4, Succeeds
<1>5. CASE x.pc = "stat" /\ call' = [call EXCEPT ![c].pc = "removeAll"]
  <2>1. CallOK(y) /\ Gone(y) = {} /\ MadeOf(y) = {}
    BY <1>1, <1>5, StatOK
  <2>2. call' = [call EXCEPT ![c] = y]
    BY <1>5 DEF CallsInv, CallsOK
  <2> HIDE DEF y
  <2>3. QED
    BY <1>1, <2>1, <2>2, MovesOn
<1>6. CASE RemoveVolumeStat(c)
  <2>1. CASE x.name = BadName
    BY <1>3, <1>6, <2>1 DEF RemoveVolumeStat
  <2>2. CASE x.name # BadName /\ x.name \in dirs
    BY <1>5, <1>6, <2>2 DEF RemoveVolumeStat
  <2>3. CASE x.name # BadName /\ x.name \notin dirs
    BY <1>4, <1>6, <2>3 DEF RemoveVolumeStat
  <2>4. QED
    BY <2>1, <2>2, <2>3
<1>7. CASE RemoveAll(c) \/ AddContainer(c)
  BY <1>3, <1>4, <1>7 DEF RemoveAll, AddContainer
<1>8. CASE RunCreate(c)
  <2>1. CASE call' = [call EXCEPT ![c].pc = "add"]
    <3>1. x.pc = "setup"
      BY <1>8 DEF RunCreate
    <3>2. CallOK(z) /\ Gone(z) = {} /\ MadeOf(z) = MadeOf(x)
      BY <1>1, <3>1, AddsOK
    <3>3. call' = [call EXCEPT ![c] = z]
      BY <2>1 DEF CallsInv, CallsOK
    <3> HIDE DEF z
    <3>4. QED
      BY <1>1, <3>2, <3>3, MovesOn
  <2>2. QED
    BY <1>3, <1>8, <2>1 DEF RunCreate
<1>9. QED
  BY <1>6, <1>7, <1>8

LEMMA SetupMountKeeps ==
    ASSUME CallsInv, NEW c \in Clients, SetupMount(c)
    PROVE  CallsInv'
<1>1. UNCHANGED imageVars /\ call[c].pc = "setup"
  BY DEF SetupMount
<1>2. CASE call' = Returned(c, FALSE)
  BY <1>1, <1>2, Fails
<1>3. ASSUME NEW v, call' = [call EXCEPT ![c].n = @ + 1, ![c].made = @ \cup {v}]
      PROVE  CallsInv'
  BY <1>1, <1>3, SetupMoves
<1>4. CASE \E v : call' = [call EXCEPT ![c].n = @ + 1, ![c].made = @ \cup {v}]
  BY <1>3, <1>4
<1>5. QED
  BY <1>2, <1>4 DEF SetupMount

\* Every step of a client; only the mounts of a container that is being
\* created give a call more volumes.
LEMMA ClientCalls ==
    ASSUME CallsInv, NEW c \in Clients, Invoke(c) \/ Step(c)
    PROVE  CallsInv' /\ (SetupMount(c) \/ Fewer)
BY InvokeKeeps, PullFetchKeeps, PullReferenceKeeps, PullMoveKeeps, UpdateFetchKeeps,
   PullUpdateKeeps, TagResolveKeeps, TagGetKeeps, TagCreateKeeps, RmiListKeeps,
   RemoveResolveKeeps, RemoveDeleteKeeps, RemoveUpdateKeeps, VolumeCallKeeps, SetupMountKeeps
   DEF Step

\* The steps that leave the calls alone.
LEMMA SameCalls ==
    ASSUME CallsInv, UNCHANGED <<call, store>>
    PROVE  CallsOK' /\ Cleared' /\ Fewer
BY DEF CallsInv, CallsOK, Cleared, Clear, Fewer

\* A restart fails the calls that were running.
LEMMA RestartCalls ==
    ASSUME CallsInv, Restart
    PROVE  CallsInv' /\ Fewer
<1>1. /\ store' = store /\ events' = {} /\ skipped' \subseteq Refs
      /\ index' = [r \in Refs |-> IF r \in skipped' THEN NoImage ELSE store[r]]
      /\ fetched' = [u \in Actors |-> <<>>]
      /\ call' = [c \in Clients |-> IF call[c].pc = "done" THEN call[c] ELSE Done(call[c], FALSE)]
  BY DEF Restart, Actors
<1>2. ASSUME NEW c \in Clients
      PROVE  /\ CallOK(call'[c]) /\ MadeOf(call'[c]) \subseteq MadeOf(call[c])
             /\ call'[c] = call[c] \/ Gone(call'[c]) = {}
  <2>1. CallOK(call[c])
    BY DEF CallsInv, CallsOK
  <2>2. CASE call[c].pc = "done"
    <3>1. call'[c] = call[c]
      BY <1>1, <2>2
    <3>2. QED
      BY <2>1, <3>1
  <2>3. CASE call[c].pc # "done"
    <3>1. call'[c] = Done(call[c], FALSE)
      BY <1>1, <2>3
    <3>2. QED
      BY <2>1, <3>1, DoneOK
  <2>4. QED
    BY <2>2, <2>3
<1>3. CallsOK'
  BY <1>1, <1>2 DEF CallsOK
<1>4. Cleared'
  BY <1>1, <1>2 DEF CallsInv, Cleared, Clear
<1>5. ImagesOK'
  BY <1>1 DEF CallsInv, ImagesOK
<1>6. Fewer
  BY <1>2 DEF Fewer
<1>7. QED
  BY <1>3, <1>4, <1>5, <1>6 DEF CallsInv

\* The steps of the monitor.
LEMMA MonitorCalls ==
    ASSUME CallsInv, (\E r \in Refs : HandleEvent(r)) \/ EventUpdate
    PROVE  CallsInv' /\ Fewer
<1>1. UNCHANGED <<call, store>>
  BY DEF HandleEvent, EventUpdate
<1>2. CASE \E r \in Refs : HandleEvent(r)
  <2>1. PICK r \in Refs : HandleEvent(r)
    BY <1>2
  <2>2. Fetch(Monitor, r) /\ UNCHANGED <<store, index, skipped>> /\ events' \subseteq events
    BY <2>1 DEF HandleEvent
  <2>3. ImagesOK'
    BY <2>2, ImagesFetch DEF CallsInv, Actors
  <2>4. QED
    BY <1>1, <2>3, SameCalls DEF CallsInv
<1>3. CASE EventUpdate
  <2>1. Update(Monitor) /\ UNCHANGED <<store, events, skipped>>
    BY <1>3 DEF EventUpdate
  <2>2. ImagesOK'
    BY <2>1, ImagesUpdate DEF CallsInv, Actors
  <2>3. QED
    BY <1>1, <2>2, SameCalls DEF CallsInv
<1>4. QED
  BY <1>2, <1>3

LEMMA CallsInit == Init => CallsInv
<1> SUFFICES ASSUME Init
             PROVE  CallsInv
  OBVIOUS
<1>1. /\ call = [c \in Clients |-> Idle] /\ index = store /\ events = {}
      /\ skipped = {} /\ fetched = [u \in Actors |-> <<>>]
  BY DEF Init, Actors
<1>2. store \in [Refs -> Images \cup {NoImage}]
  BY ImageAssumption DEF Init
<1>3. CallsOK /\ Cleared
  BY <1>1, IdleOK DEF CallsOK, Cleared, Clear
<1>4. QED
  BY <1>1, <1>2, <1>3 DEF CallsInv, ImagesOK

LEMMA CallsNext == CallsInv /\ [Next]_vars => CallsInv'
<1> SUFFICES ASSUME CallsInv, [Next]_vars
             PROVE  CallsInv'
  OBVIOUS
<1>1. CASE UNCHANGED vars
  <2>1. UNCHANGED <<call, store>> /\ UNCHANGED imageVars
    BY <1>1 DEF vars, imageVars
  <2>2. QED
    BY <2>1, SameCalls, ImagesSame DEF CallsInv
<1>2. QED
  BY <1>1, ClientCalls, MonitorCalls, RestartCalls DEF Next

\* Every tag a tag call made is of the one image it resolved; it made a prefix
\* of the list, and all of the list if it succeeded (TagImage).
THEOREM TagsTogether == Spec => []TaggedTogether
<1>1. CallsInv => TaggedTogether
  <2> SUFFICES ASSUME CallsInv, NEW c \in Clients, call[c].op = "tag"
               PROVE  /\ call[c].made = {<<call[c].todo[k], call[c].img>> : k \in 1 .. call[c].n}
                      /\ call[c].ok => call[c].n = Len(call[c].todo)
    BY DEF TaggedTogether
  <2>1. Tagged(call[c])
    BY DEF CallsInv, CallsOK, CallOK
  <2>2. Len(call[c].todo) = 2
    BY <2>1, TagListsOK DEF Tagged
  <2>3. QED
    BY <2>1, <2>2 DEF Tagged
<1>2. QED
  BY CallsInit, CallsNext, <1>1, PTL DEF Spec

\* A removal that succeeded left none of the references the image had, except
\* those that a pull or a tag wrote again since it looked (RemoveImage, rmi).
THEOREM RemovalIsWhole == Spec => []RemovedWhole
<1>1. CallsInv => RemovedWhole
  BY DEF CallsInv, Cleared, Clear, Gone, RemovedWhole
<1>2. QED
  BY CallsInit, CallsNext, <1>1, PTL DEF Spec

-----------------------------------------------------------------------------
(* The volumes.  VolumesKept is not inductive: a container that is being   *)
(* created already has its anonymous volumes, and it must share them       *)
(* neither with a container nor with another create under way (Apart); and *)
(* what it made and nobody removed is there (PathsOK).                     *)

Known == Names \cup 1 .. anonymous

\* Who mounts what: anonymous volumes have one owner, a container or a call.
Apart ==
    /\ \A c \in Clients : MadeOf(call[c]) \subseteq Known
    /\ \A k \in containers : k.mounts \subseteq Known
    /\ \A c, d \in Clients : c # d => MadeOf(call[c]) \cap MadeOf(call[d]) \subseteq Names
    /\ \A c \in Clients, k \in containers : MadeOf(call[c]) \cap k.mounts \subseteq Names
    /\ \A k, l \in containers : k # l => k.mounts \cap l.mounts \subseteq Names

\* A container is a record, and it lost what it mounts and is not there.
Entries == {"id", "by", "mounts", "lost"}
ContainersOK ==
    \A k \in containers : /\ k = [f \in Entries |-> k[f]]
                          /\ k.lost \subseteq k.mounts
                          /\ k.mounts \ dirs \subseteq k.lost

PathsOK ==
    paths = [c \in Clients |-> paths[c]] /\ \A c \in Clients : paths[c] \subseteq dirs

GrantedOnce == \A g, h \in granted : g[2] \in dirs /\ (g[2] = h[2] => g = h)

\* The inductive invariant of the volumes.
VolumesInv ==
    /\ anonymous \in Nat
    /\ dirs \subseteq Volumes
    /\ Apart
    /\ ContainersOK
    /\ PathsOK
    /\ GrantedOnce

LEMMA KnownGrows ==
    ASSUME anonymous \in Nat, anonymous' \in Nat, anonymous <= anonymous'
    PROVE  Known \subseteq Known' /\ Known \subseteq Volumes
BY DEF Known, Volumes

\* Directories are only made, and nobody mounts more than before.
LEMMA DirsGrow ==
    ASSUME VolumesInv, Fewer, dirs \subseteq dirs', dirs' \subseteq Volumes,
           containers' \subseteq containers, PathsOK',
           anonymous' \in Nat, anonymous <= anonymous', GrantedOnce'
    PROVE  VolumesInv'
<1>1. Known \subseteq Known'
  BY KnownGrows DEF VolumesInv
<1>2. Apart'
  <2>1. \A c \in Clients : MadeOf(call'[c]) \subseteq Known'
    BY <1>1 DEF Fewer, VolumesInv, Apart
  <2>2. \A k \in containers' : k.mounts \subseteq Known'
    BY <1>1 DEF VolumesInv, Apart
  <2>3. \A c, d \in Clients : c # d => MadeOf(call'[c]) \cap MadeOf(call'[d]) \subseteq Names
    BY DEF Fewer, VolumesInv, Apart
  <2>4. \A c \in Clients, k \in containers' : MadeOf(call'[c]) \cap k.mounts \subseteq Names
    BY DEF Fewer, VolumesInv, Apart
  <2>5. \A k, l \in containers' : k # l => k.mounts \cap l.mounts \subseteq Names
    BY DEF VolumesInv, Apart
  <2>6. QED
    BY <2>1, <2>2, <2>3, <2>4, <2>5 DEF Apart
<1>3. ContainersOK'
  BY DEF VolumesInv, ContainersOK
<1>4. QED
  BY <1>2, <1>3 DEF VolumesInv

LEMMA VolumesSame ==
    ASSUME VolumesInv, Fewer, UNCHANGED volumeVars
    PROVE  VolumesInv'
<1>1. /\ dirs' = dirs /\ containers' = containers /\ paths' = paths
      /\ granted' = granted /\ anonymous' = anonymous
  BY DEF volumeVars
<1>2. GrantedOnce' /\ PathsOK'
  BY <1>1 DEF VolumesInv, GrantedOnce, PathsOK
<1>3. anonymous <= anonymous'
  BY <1>1 DEF VolumesInv
<1>4. QED
  BY <1>1, <1>2, <1>3, DirsGrow DEF VolumesInv

\* os.Mkdir: a name that was handed out has a directory, so that it is not
\* handed out again.
LEMMA CreateVolumeKeeps ==
    ASSUME VolumesInv, Fewer, NEW c \in Clients, NEW name, CreateVolume(c, name),
           name # BadName => name \in Volumes,
           anonymous' \in Nat, anonymous <= anonymous'
    PROVE  VolumesInv'
<1>1. containers' = containers /\ paths' = paths
  BY DEF CreateVolume
<1>2. CASE name # BadName /\ name \notin dirs
  <2>1. dirs' = dirs \cup {name} /\ granted' = granted \cup {<<calls', name>>}
    BY <1>2 DEF CreateVolume, Mkdir
  <2>2. \A g \in granted : g[2] # name
    BY <1>2 DEF VolumesInv, GrantedOnce
  <2>3. GrantedOnce' /\ PathsOK'
    BY <1>1, <2>1, <2>2 DEF VolumesInv, GrantedOnce, PathsOK
  <2>4. QED
    BY <1>1, <1>2, <2>1, <2>3, DirsGrow DEF VolumesInv
<1>3. CASE ~(name # BadName /\ name \notin dirs)
  <2>1. dirs' = dirs /\ granted' = granted
    BY <1>3 DEF CreateVolume, Mkdir
  <2>2. GrantedOnce' /\ PathsOK'
    BY <1>1, <2>1 DEF VolumesInv, GrantedOnce, PathsOK
  <2>3. QED
    BY <1>1, <2>1, <2>2, DirsGrow DEF VolumesInv
<1>4. QED
  BY <1>2, <1>3

\* os.RemoveAll: the containers that mount the directory lose it.
LEMMA RemoveAllKeeps ==
    ASSUME VolumesInv, Fewer, NEW c \in Clients, RemoveAll(c)
    PROVE  VolumesInv'
<1> DEFINE name == call[c].name
           less(k) == [k EXCEPT !.lost = @ \cup ({name} \cap k.mounts)]
<1>1. /\ dirs' = dirs \ {name} /\ granted' = {g \in granted : g[2] # name}
      /\ containers' = {less(k) : k \in containers} /\ anonymous' = anonymous
      /\ paths' = [d \in Clients |-> paths[d] \ {name}]
  BY DEF RemoveAll
<1>2. ASSUME NEW k \in containers
      PROVE  /\ less(k) = [f \in Entries |-> less(k)[f]]
             /\ less(k).mounts = k.mounts
             /\ less(k).lost = k.lost \cup ({name} \cap k.mounts)
  <2>1. k = [f \in Entries |-> k[f]]
    BY DEF VolumesInv, ContainersOK
  <2> HIDE DEF name
  <2>2. QED
    BY <2>1 DEF Entries
<1> HIDE DEF name, less
<1>3. ContainersOK'
  <2> SUFFICES ASSUME NEW k \in containers
               PROVE  /\ less(k) = [f \in Entries |-> less(k)[f]]
                      /\ less(k).lost \subseteq less(k).mounts
                      /\ less(k).mounts \ dirs' \subseteq less(k).lost
    BY <1>1 DEF ContainersOK
  <2>1. k.lost \subseteq k.mounts /\ k.mounts \ dirs \subseteq k.lost
    BY DEF VolumesInv, ContainersOK
  <2>2. QED
    BY <1>1, <1>2, <2>1
<1>4. Known' = Known
  BY <1>1 DEF Known
<1>5. Apart'
  <2>1. \A d \in Clients : MadeOf(call'[d]) \subseteq Known'
    BY <1>4 DEF Fewer, VolumesInv, Apart
  <2>2. \A k \in containers' : \E j \in containers : k = less(j) /\ k.mounts = j.mounts
    BY <1>1, <1>2
  <2>3. \A k \in containers' : k.mounts \subseteq Known'
    BY <1>4, <2>2 DEF VolumesInv, Apart
  <2>4. \A a, b \in Clients : a # b => MadeOf(call'[a]) \cap MadeOf(call'[b]) \subseteq Names
    BY DEF Fewer, VolumesInv, Apart
  <2>5. \A d \in Clients, k \in containers' : MadeOf(call'[d]) \cap k.mounts \subseteq Names
    BY <2>2 DEF Fewer, VolumesInv, Apart
  <2>6. \A k, l \in containers' : k # l => k.mounts \cap l.mounts \subseteq Names
    <3> SUFFICES ASSUME NEW k \in containers', NEW l \in containers', k # l
                 PROVE  k.mounts \cap l.mounts \subseteq Names
      OBVIOUS
    <3>1. PICK i \in containers : k = less(i) /\ k.mounts = i.mounts
      BY <2>2
    <3>2. PICK j \in containers : l = less(j) /\ l.mounts = j.mounts
      BY <2>2
    <3>3. i # j
      BY <3>1, <3>2
    <3>4. QED
      BY <3>1, <3>2, <3>3 DEF VolumesInv, Apart
  <2>7. QED
    BY <2>1, <2>3, <2>4, <2>5, <2>6 DEF Apart
<1>6. GrantedOnce' /\ PathsOK'
  BY <1>1 DEF VolumesInv, GrantedOnce, PathsOK
<1>7. QED
  BY <1>1, <1>3, <1>5, <1>6 DEF VolumesInv

\* A create under way gets a volume to mount: a named one, or a new one.
LEMMA MountAdded ==
    ASSUME VolumesInv, NEW c \in Clients, NEW v \in Known',
           \A d \in Clients :
              MadeOf(call'[d]) = IF d = c THEN MadeOf(call[d]) \cup {v} ELSE MadeOf(call[d]),
           v \in Names \/ v \notin Known,
           dirs \subseteq dirs', dirs' \subseteq Volumes,
           containers' = containers, paths' = paths, granted' = granted,
           anonymous' \in Nat, anonymous <= anonymous'
    PROVE  VolumesInv'
<1>1. Known \subseteq Known'
  BY KnownGrows DEF VolumesInv
<1>2. Apart'
  <2>1. \A d \in Clients : MadeOf(call'[d]) \subseteq Known'
    BY <1>1 DEF VolumesInv, Apart
  <2>2. \A k \in containers' : k.mounts \subseteq Known'
    BY <1>1 DEF VolumesInv, Apart
  <2>3. \A a, b \in Clients : a # b => MadeOf(call'[a]) \cap MadeOf(call'[b]) \subseteq Names
    <3>1. \A d \in Clients : d # c => MadeOf(call'[d]) = MadeOf(call[d])
      OBVIOUS
    <3>2. MadeOf(call'[c]) = MadeOf(call[c]) \cup {v}
      OBVIOUS
    <3>3. \A d \in Clients : v \in MadeOf(call[d]) => v \in Names
      BY DEF VolumesInv, Apart
    <3>4. \A a, b \in Clients : a # b => MadeOf(call[a]) \cap MadeOf(call[b]) \subseteq Names
      BY DEF VolumesInv, Apart
    <3>5. \A d \in Clients : d # c => MadeOf(call'[c]) \cap MadeOf(call'[d]) \subseteq Names
      BY <3>1, <3>2, <3>3, <3>4
    <3>6. QED
      BY <3>1, <3>4, <3>5
  <2>4. \A d \in Clients, k \in containers' : MadeOf(call'[d]) \cap k.mounts \subseteq Names
    BY DEF VolumesInv, Apart
  <2>5. \A k, l \in containers' : k # l => k.mounts \cap l.mounts \subseteq Names
    BY DEF VolumesInv, Apart
  <2>6. QED
    BY <2>1, <2>2, <2>3, <2>4, <2>5 DEF Apart
<1>3. ContainersOK' /\ PathsOK' /\ GrantedOnce'
  BY DEF VolumesInv, ContainersOK, PathsOK, GrantedOnce
<1>4. QED
  BY <1>2, <1>3 DEF VolumesInv

LEMMA SetupVolumes ==
    ASSUME CallsInv, VolumesInv, NEW c \in Clients, SetupMount(c)
    PROVE  VolumesInv'
<1>1. /\ UNCHANGED imageVars /\ call[c].pc = "setup" /\ containers' = containers
      /\ paths' = paths /\ granted' = granted
  BY DEF SetupMount
<1>2. CASE call' = Returned(c, FALSE) /\ UNCHANGED <<dirs, anonymous>>
  <2>1. Fewer
    BY <1>1, <1>2, Fails
  <2>2. QED
    BY <1>1, <1>2, <2>1, VolumesSame DEF volumeVars
<1>3. ASSUME NEW v \in Names, UNCHANGED <<dirs, anonymous>>,
             call' = [call EXCEPT ![c].n = @ + 1, ![c].made = @ \cup {v}]
      PROVE  VolumesInv'
  <2>1. \A d \in Clients :
           MadeOf(call'[d]) = IF d = c THEN MadeOf(call[d]) \cup {v} ELSE MadeOf(call[d])
    BY <1>1, <1>3, SetupMoves
  <2>2. v \in Known' /\ anonymous' \in Nat /\ anonymous <= anonymous'
    BY <1>3 DEF Known, VolumesInv
  <2>3. QED
    BY <1>1, <1>3, <2>1, <2>2, MountAdded DEF VolumesInv
<1>4. ASSUME anonymous' = anonymous + 1, dirs' = dirs \cup {anonymous'},
             call' = [call EXCEPT ![c].n = @ + 1, ![c].made = @ \cup {anonymous'}]
      PROVE  VolumesInv'
  <2> DEFINE v == anonymous + 1
  <2>1. call' = [call EXCEPT ![c].n = @ + 1, ![c].made = @ \cup {v}]
    BY <1>4
  <2>2. /\ v \in Known' /\ v \in Volumes /\ (v \in Names \/ v \notin Known)
        /\ anonymous' \in Nat /\ anonymous <= anonymous'
    BY <1>4 DEF Known, VolumesInv, Volumes
  <2>3. dirs' = dirs \cup {v}
    BY <1>4
  <2> HIDE DEF v
  <2>4. \A d \in Clients :
           MadeOf(call'[d]) = IF d = c THEN MadeOf(call[d]) \cup {v} ELSE MadeOf(call[d])
    BY <1>1, <2>1, SetupMoves
  <2>5. QED
    BY <1>1, <2>2, <2>3, <2>4, MountAdded DEF VolumesInv
<1>5. QED
  BY <1>2, <1>3, <1>4 DEF SetupMount

\* The directories that are missing are made.
LEMMA RunVolumes ==
    ASSUME CallsInv, VolumesInv, NEW c \in Clients, RunCreate(c)
    PROVE  VolumesInv'
<1> DEFINE x == call[c]
<1>1. Fewer
  BY VolumeCallKeeps
<1>2. /\ CallOK(x) /\ x.pc = "setup" /\ granted' = granted /\ anonymous' = anonymous
      /\ containers' = containers
  BY DEF RunCreate, CallsInv, CallsOK
<1>3. x.op = "create" /\ MadeOf(x) = x.made
  BY <1>2 DEF CallOK, Pulls, Tagged, Removes, MadeOf
<1>4. x.made \subseteq Volumes
  BY <1>3 DEF VolumesInv, Apart, Known, Volumes
<1>5. \/ UNCHANGED <<dirs, paths>>
      \/ dirs' = dirs \cup x.made /\ paths' = [paths EXCEPT ![c] = x.made]
  BY DEF RunCreate
<1>6. dirs \subseteq dirs' /\ dirs' \subseteq Volumes
  BY <1>4, <1>5 DEF VolumesInv
<1>7. GrantedOnce' /\ PathsOK'
  BY <1>2, <1>5, <1>6 DEF VolumesInv, GrantedOnce, PathsOK
<1>8. anonymous' \in Nat /\ anonymous <= anonymous'
  BY <1>2 DEF VolumesInv
<1>9. QED
  BY <1>1, <1>2, <1>6, <1>7, <1>8, DirsGrow

\* The container takes over what its create had.
LEMMA AddVolumes ==
    ASSUME CallsInv, VolumesInv, NEW c \in Clients, AddContainer(c)
    PROVE  VolumesInv'
<1> DEFINE x == call[c]
           new == [id |-> calls, by |-> c, mounts |-> x.made, lost |-> x.made \ paths[c]]
<1>1. Fewer
  BY VolumeCallKeeps
<1>2. /\ CallOK(x) /\ x.pc = "add" /\ granted' = granted /\ anonymous' = anonymous
      /\ dirs' = dirs /\ paths' = [paths EXCEPT ![c] = {}]
  BY DEF AddContainer, CallsInv, CallsOK
<1>3. x.op = "create" /\ MadeOf(x) = x.made
  BY <1>2 DEF CallOK, Pulls, Tagged, Removes, MadeOf
<1>4. x.made \subseteq Known
  BY <1>3 DEF VolumesInv, Apart
<1>5. \/ UNCHANGED containers
      \/ call' = Returned(c, TRUE) /\ containers' = containers \cup {new}
  BY DEF AddContainer
<1>6. dirs \subseteq dirs' /\ dirs' \subseteq Volumes
  BY <1>2 DEF VolumesInv
<1>7. GrantedOnce' /\ PathsOK'
  BY <1>2 DEF VolumesInv, GrantedOnce, PathsOK
<1>8. CASE UNCHANGED containers
  <2>1. anonymous' \in Nat /\ anonymous <= anonymous'
    BY <1>2 DEF VolumesInv
  <2>2. QED
    BY <1>1, <1>6, <1>7, <1>8, <2>1, DirsGrow
<1>9. CASE call' = Returned(c, TRUE) /\ containers' = containers \cup {new}
  <2>1. MadeOf(call'[c]) = {}
    <3>1. call'[c] = Done(x, TRUE)
      BY <1>9 DEF Returned, CallsInv, CallsOK
    <3>2. QED
      BY <1>2, <1>3, <3>1, DoneOK
  <2>2. new.mounts = x.made /\ new.lost = x.made \ paths[c] /\ new = [f \in Entries |-> new[f]]
    BY DEF Entries
  <2> HIDE DEF new
  <2>3. Known' = Known
    BY <1>2 DEF Known
  <2>4. \A k \in containers : x.made \cap k.mounts \subseteq Names
    BY <1>3 DEF VolumesInv, Apart
  <2>5. \A d \in Clients : d # c => x.made \cap MadeOf(call'[d]) \subseteq Names
    BY <1>1, <1>3 DEF Fewer, VolumesInv, Apart
  <2>6. Apart'
    <3>1. \A d \in Clients : MadeOf(call'[d]) \subseteq Known'
      BY <1>1, <2>3 DEF Fewer, VolumesInv, Apart
    <3>2. \A k \in containers' : k.mounts \subseteq Known'
      BY <1>4, <1>9, <2>2, <2>3 DEF VolumesInv, Apart
    <3>3. \A a, b \in Clients : a # b => MadeOf(call'[a]) \cap MadeOf(call'[b]) \subseteq Names
      BY <1>1 DEF Fewer, VolumesInv, Apart
    <3>4. \A d \in Clients, k \in containers' : MadeOf(call'[d]) \cap k.mounts \subseteq Names
      <4> SUFFICES ASSUME NEW d \in Clients, NEW k \in containers'
                   PROVE  MadeOf(call'[d]) \cap k.mounts \subseteq Names
        OBVIOUS
      <4>1. CASE k \in containers
        BY <1>1, <4>1 DEF Fewer, VolumesInv, Apart
      <4>2. CASE k = new
        BY <2>1, <2>2, <2>5, <4>2
      <4>3. QED
        BY <1>9, <4>1, <4>2
    <3>5. \A k, l \in containers' : k # l => k.mounts \cap l.mounts \subseteq Names
      BY <1>9, <2>2, <2>4 DEF VolumesInv, Apart
    <3>6. QED
      BY <3>1, <3>2, <3>3, <3>4, <3>5 DEF Apart
  <2>7. ContainersOK'
    <3> SUFFICES ASSUME NEW k \in containers'
                 PROVE  /\ k = [f \in Entries |-> k[f]]
                        /\ k.lost \subseteq k.mounts
                        /\ k.mounts \ dirs' \subseteq k.lost
      BY DEF ContainersOK
    <3>1. CASE k \in containers
      BY <1>6, <3>1 DEF VolumesInv, ContainersOK
    <3>2. CASE k = new
      BY <1>2, <2>2, <3>2 DEF VolumesInv, PathsOK
    <3>3. QED
      BY <1>9, <3>1, <3>2
  <2>8. QED
    BY <1>2, <1>6, <1>7, <2>6, <2>7 DEF VolumesInv
<1>10. QED
  BY <1>5, <1>8, <1>9

LEMMA InvokeVolumes ==
    ASSUME CallsInv, VolumesInv, NEW c \in Clients, Invoke(c)
    PROVE  VolumesInv'
<1>1. Fewer
  BY InvokeKeeps
<1>2. CASE UNCHANGED volumeVars
  BY <1>1, <1>2, VolumesSame
<1>3. ASSUME NEW name \in Names \cup {BadName}, CreateVolume(c, name), UNCHANGED anonymous
      PROVE  VolumesInv'
  <2>1. (name # BadName => name \in Volumes) /\ anonymous' \in Nat /\ anonymous <= anonymous'
    BY <1>3 DEF Volumes, VolumesInv
  <2>2. QED
    BY <1>1, <1>3, <2>1, CreateVolumeKeeps
<1>4. CASE CreateAnonymous(c)
  <2> DEFINE v == anonymous + 1
  <2>1. CreateVolume(c, v)
    BY <1>4 DEF CreateAnonymous, CreateVolume, Mkdir
  <2>2. v \in Volumes /\ anonymous' \in Nat /\ anonymous <= anonymous'
    BY <1>4 DEF CreateAnonymous, Volumes, VolumesInv
  <2> HIDE DEF v
  <2>3. QED
    BY <1>1, <2>1, <2>2, CreateVolumeKeeps
<1>5. ASSUME NEW k \in containers, RemoveContainer(c, k)
      PROVE  VolumesInv'
  <2>1. /\ dirs' = dirs /\ paths' = paths /\ granted' = granted /\ anonymous' = anonymous
        /\ containers' \subseteq containers
    BY <1>5 DEF RemoveContainer
  <2>2. GrantedOnce' /\ PathsOK' /\ anonymous' \in Nat /\ anonymous <= anonymous'
    BY <2>1 DEF VolumesInv, GrantedOnce, PathsOK
  <2>3. QED
    BY <1>1, <2>1, <2>2, DirsGrow DEF VolumesInv
<1>6. QED
  BY <1>2, <1>3, <1>4, <1>5
     DEF Invoke, BeginPull, BeginTag, BeginRmi, BeginRemoveVolume, BeginCreate, Begin, CreateNamed

LEMMA VolumesInit == Init => VolumesInv
<1> SUFFICES ASSUME Init
             PROVE  VolumesInv
  OBVIOUS
<1>1. /\ dirs = {} /\ containers = {} /\ granted = {} /\ anonymous = 0
      /\ call = [c \in Clients |-> Idle] /\ paths = [c \in Clients |-> {}]
  BY DEF Init
<1>2. Apart
  BY <1>1, IdleOK DEF Apart
<1>3. QED
  BY <1>1, <1>2 DEF VolumesInv, ContainersOK, PathsOK, GrantedOnce

LEMMA VolumesNext == CallsInv /\ VolumesInv /\ [Next]_vars => VolumesInv'
<1> SUFFICES ASSUME CallsInv, VolumesInv, [Next]_vars
             PROVE  VolumesInv'
  OBVIOUS
<1>1. ASSUME NEW c \in Clients, Invoke(c)
      PROVE  VolumesInv'
  BY <1>1, InvokeVolumes
<1>2. ASSUME NEW c \in Clients, Step(c)
      PROVE  VolumesInv'
  <2>1. CASE SetupMount(c)
    BY <2>1, SetupVolumes
  <2>2. CASE RunCreate(c)
    BY <2>2, RunVolumes
  <2>3. CASE RemoveAll(c)
    BY <2>3, VolumeCallKeeps, RemoveAllKeeps
  <2>4. CASE AddContainer(c)
    BY <2>4, AddVolumes
  <2>5. CASE ~(SetupMount(c) \/ RunCreate(c) \/ RemoveAll(c) \/ AddContainer(c))
    <3>1. Fewer
      BY <1>2, <2>5, ClientCalls
    <3>2. UNCHANGED volumeVars
      BY <1>2, <2>5 DEF Step, PullFetch, PullReference, PullMove, UpdateFetch, PullUpdate,
                        TagResolve, TagGet, TagCreate, RmiList, RemoveResolve, RemoveDelete,
                        RemoveUpdate, RemoveVolumeStat
    <3>3. QED
      BY <3>1, <3>2, VolumesSame
  <2>6. QED
    BY <2>1, <2>2, <2>3, <2>4, <2>5
<1>3. CASE (\E r \in Refs : HandleEvent(r)) \/ EventUpdate
  <2>1. UNCHANGED volumeVars
    BY <1>3 DEF HandleEvent, EventUpdate
  <2>2. QED
    BY <1>3, <2>1, MonitorCalls, VolumesSame
<1>4. CASE Restart
  <2>1. UNCHANGED volumeVars
    BY <1>4 DEF Restart
  <2>2. QED
    BY <1>4, <2>1, RestartCalls, VolumesSame
<1>5. CASE UNCHANGED vars
  <2>1. UNCHANGED volumeVars /\ UNCHANGED <<call, store>>
    BY <1>5 DEF vars, imageVars
  <2>2. QED
    BY <2>1, SameCalls, VolumesSame
<1>6. QED
  BY <1>1, <1>2, <1>3, <1>4, <1>5 DEF Next

\* A volume is handed out once until it is removed, containers do not share
\* anonymous volumes, and what a container mounts is there unless it was
\* removed since its create made the missing paths (CreateVolume,
\* resolveMounts, RemoveVolume, the runtime's CreateContainer).
THEOREM VolumesStay == Spec => []VolumesKept
<1>1. VolumesInv => VolumesKept
  BY DEF VolumesInv, Apart, ContainersOK, GrantedOnce, VolumesKept
<1>2. QED
  BY CallsInit, CallsNext, VolumesInit, VolumesNext, <1>1, PTL DEF Spec

Counters == calls \in Nat /\ restarts \in Nat

LEMMA CountersNext == Counters /\ [Next]_vars => Counters'
<1> SUFFICES ASSUME Counters, [Next]_vars
             PROVE  Counters'
  OBVIOUS
<1>1. ASSUME NEW c \in Clients, Invoke(c)
      PROVE  calls' = calls + 1 /\ restarts' = restarts
  BY <1>1 DEF Invoke, BeginPull, BeginTag, BeginRmi, BeginRemoveVolume, BeginCreate, Begin,
              CreateNamed, CreateAnonymous, CreateVolume, RemoveContainer
<1>2. ASSUME NEW c \in Clients, Step(c)
      PROVE  calls' = calls /\ restarts' = restarts
  BY <1>2 DEF Step, PullFetch, PullReference, PullMove, UpdateFetch, PullUpdate, TagResolve,
              TagGet, TagCreate, RmiList, RemoveResolve, RemoveDelete, RemoveUpdate,
              RemoveVolumeStat, RemoveAll, SetupMount, RunCreate, AddContainer
<1>3. CASE Restart
  BY <1>3 DEF Restart, Counters
<1>4. CASE (\E r \in Refs : HandleEvent(r)) \/ EventUpdate \/ UNCHANGED vars
  BY <1>4 DEF HandleEvent, EventUpdate, vars, Counters
<1>5. QED
  BY <1>1, <1>2, <1>3, <1>4 DEF Next, Counters

\* Type correctness of the image and volume operations.
THEOREM StoreTypes == Spec => []TypeOK
<1>1. CallsInv /\ VolumesInv /\ Counters => TypeOK
  <2> SUFFICES ASSUME CallsInv, VolumesInv, Counters
               PROVE  TypeOK
    OBVIOUS
  <2>1. Known \subseteq Volumes
    BY DEF VolumesInv, Known, Volumes
  <2>2. \A k \in containers : k.mounts \subseteq Volumes /\ k.lost \subseteq k.mounts
    BY <2>1 DEF VolumesInv, Apart, ContainersOK
  <2>3. \A c \in Clients :
           call[c].pc \in Pcs /\ call[c].ok \in BOOLEAN /\ paths[c] \subseteq Volumes
    <3>1. \A c \in Clients : call[c].pc \in Pcs /\ call[c].ok \in BOOLEAN
      BY DEF CallsInv, CallsOK, CallOK, Pulls, Tagged, Removes, Mounts, Pcs
    <3>2. \A c \in Clients : paths[c] \subseteq Volumes
      BY DEF VolumesInv, PathsOK
    <3>3. QED
      BY <3>1, <3>2
  <2>4. QED
    BY <2>2, <2>3 DEF TypeOK, CallsInv, ImagesOK, VolumesInv, Counters
<1>2. Init => Counters
  BY DEF Init, Counters
<1>3. QED
  BY CallsInit, CallsNext, VolumesInit, VolumesNext, CountersNext, <1>1, <1>2, PTL DEF Spec
=============================================================================
