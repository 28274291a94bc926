---------------------------- MODULE SharedProcess ----------------------------
(***************************************************************************)
(* What the bridges of one process share.  Each bridge has a thread of its *)
(* own (ffi.rs: thread-affine), but Bridge::connect passes the socket name *)
(* through the environment of the process, NEXT_HANDLE is a static, and    *)
(* the shm files of all have their names, for a moment, in one directory.  *)
(***************************************************************************)
EXTENDS Naturals, FiniteSets

CONSTANTS
    Threads,     \* one for each bridge that runs at a time
    Nested,      \* sockets of nested compositors, as a caller names them
    Ambient,     \* what WAYLAND_DISPLAY is to begin with: the root compositor
    Unnamed,     \* the empty socket name, which leaves WAYLAND_DISPLAY as it is
    Bases,       \* the values of len % 977: where the names of a file begin
    Attempts,    \* 64: the names that anon_shm_file tries
    Left,        \* names that killed processes with the same id left behind
    MaxStarts,   \* starts, handles and files that are made (bounds of the model)
    MaxHandles,
    MaxFiles

Socket == Nested \union {Ambient}
Nobody == Unnamed
Name   == {b + a : b \in Bases, a \in 0..Attempts}
None   == 0
Stray  == MaxFiles + 1   \* what a name in Left names
File   == 1..Stray

ASSUME ProcessAssumption ==
    /\ Ambient \notin Nested /\ Unnamed \notin Nested /\ Unnamed # Ambient
    /\ Bases \subseteq Nat /\ Attempts \in Nat /\ Left \subseteq Name
    /\ MaxStarts \in Nat /\ MaxHandles \in Nat /\ MaxFiles \in Nat

VARIABLES
    env,          \* WAYLAND_DISPLAY
    next_handle,  \* NEXT_HANDLE
    given,        \* handles that some app has or has had
    dir,          \* name -> the file it names, or None
    litter,       \* names that nobody will remove any more
    files_made,   \* files created so far
    starts,       \* starts made so far
    pc,           \* where each thread is
    asked,        \* the socket_name its start was given
    peer,         \* the socket it has connected to
    alone,        \* whether no other thread has been in connect meanwhile
    handles,      \* the handles of its apps
    files,        \* the storage of its pools
    base,         \* anon_shm_file: the first name, and how many have been tried
    attempt,
    opened        \* the file it has just created, or None

connectVars == <<env, starts, asked, peer, alone>>
handleVars  == <<next_handle, given, handles>>
searchVars  == <<base, attempt>>
dirVars     == <<dir, litter, files_made>>
poolVars    == <<files, opened>>
fileVars    == <<searchVars, dirVars, poolVars>>
vars == <<pc, connectVars, handleVars, fileVars>>

Connecting == {"naming", "connecting", "handshake"}
Pc == {"idle", "running", "opening", "unlinking", "sizing"} \union Connecting

TypeOK ==
    /\ env \in Socket /\ starts \in 0..MaxStarts
    /\ next_handle \in 1..MaxHandles + 1 /\ given \subseteq 1..MaxHandles
    /\ dir \in [Name -> File \union {None}] /\ litter \subseteq Name
    /\ files_made \in 0..MaxFiles
    /\ pc \in [Threads -> Pc]
    /\ asked \in [Threads -> Nested \union {Unnamed}]
    /\ peer \in [Threads -> Socket \union {Nobody}] /\ alone \in [Threads -> BOOLEAN]
    /\ handles \in [Threads -> SUBSET (1..MaxHandles)]
    /\ files \in [Threads -> SUBSET File] /\ opened \in [Threads -> File \union {None}]
    /\ base \in [Threads -> Bases \union {0}] /\ attempt \in [Threads -> 0..Attempts]

Init ==
    /\ env = Ambient /\ starts = 0 /\ next_handle = 1 /\ given = {}
    /\ litter = Left /\ files_made = 0
    /\ dir = [n \in Name |-> IF n \in Left THEN Stray ELSE None]
    /\ pc = [t \in Threads |-> "idle"]
    /\ asked = [t \in Threads |-> Unnamed] /\ peer = [t \in Threads |-> Nobody]
    /\ alone = [t \in Threads |-> TRUE]
    /\ handles = [t \in Threads |-> {}]
    /\ files = [t \in Threads |-> {}] /\ opened = [t \in Threads |-> None]
    /\ base = [t \in Threads |-> 0] /\ attempt = [t \in Threads |-> 0]

Goto(t, place) == pc' = [pc EXCEPT ![t] = place]

-----------------------------------------------------------------------------
(* Bridge::connect.                                                         *)

\* anowaw_start is called.
Start(t) ==
    LET others == {u \in Threads \ {t} : pc[u] \in Connecting} IN
    /\ pc[t] = "idle" /\ starts < MaxStarts
    /\ starts' = starts + 1
    /\ \E socket_name \in Nested \union {Unnamed} : asked' = [asked EXCEPT ![t] = socket_name]
    /\ alone' = [u \in Threads |-> IF u = t THEN others = {} ELSE alone[u] /\ u \notin others]
    /\ Goto(t, "naming")
    /\ UNCHANGED <<env, peer, handleVars, fileVars>>

\* Faulty variant: a display that is already set is kept.
SetDisplayOnce(t) ==
    /\ pc[t] = "naming"
    /\ env' = IF asked[t] = Unnamed \/ env # Ambient THEN env ELSE asked[t]
    /\ Goto(t, "connecting")
    /\ UNCHANGED <<starts, asked, peer, alone, handleVars, fileVars>>

SetDisplay(t) ==
    /\ pc[t] = "naming"
    /\ env' = IF asked[t] = Unnamed THEN env ELSE asked[t]
    /\ Goto(t, "connecting")
    /\ UNCHANGED <<starts, asked, peer, alone, handleVars, fileVars>>

\* connect_to_env, which reads the variable again.
ConnectToEnv(t) ==
    /\ pc[t] = "connecting"
    /\ peer' = [peer EXCEPT ![t] = env]
    /\ Goto(t, "handshake")
    /\ UNCHANGED <<env, starts, asked, alone, handleVars, fileVars>>

\* The registry, the globals and the roundtrip.
Handshake(t) ==
    /\ pc[t] = "handshake"
    /\ Goto(t, "running")
    /\ UNCHANGED <<connectVars, handleVars, fileVars>>

\* A bridge is gone, and the environment stays as it is.
Disconnect(t) ==
    /\ peer' = [peer EXCEPT ![t] = Nobody]
    /\ asked' = [asked EXCEPT ![t] = Unnamed]
    /\ alone' = [alone EXCEPT ![t] = TRUE]
    /\ Goto(t, "idle")
    /\ UNCHANGED <<env, starts>>

\* Nobody listens, a global is missing, or the compositor goes away: null is returned.
StartFails(t) ==
    /\ pc[t] \in {"connecting", "handshake"}
    /\ Disconnect(t)
    /\ UNCHANGED <<handleVars, fileVars>>

\* anowaw_stop drops the bridge with its apps and their pools.
Stop(t) ==
    /\ pc[t] = "running"
    /\ Disconnect(t)
    /\ handles' = [handles EXCEPT ![t] = {}]
    /\ files' = [files EXCEPT ![t] = {}]
    /\ UNCHANGED <<next_handle, given, searchVars, dirVars, opened>>

-----------------------------------------------------------------------------
(* bridge_app and the numbering of apps.                                    *)

\* Faulty variant: each bridge counts its own apps.
HandleOfBridge(t) == Cardinality(handles[t]) + 1

\* NEXT_HANDLE.fetch_add(1), in one step whatever the other threads do.
FreshHandle(t) == next_handle

BridgeApp(t) ==
    /\ pc[t] = "running" /\ next_handle <= MaxHandles
    /\ handles' = [handles EXCEPT ![t] = @ \union {FreshHandle(t)}]
    /\ given' = given \union {FreshHandle(t)}
    /\ next_handle' = next_handle + 1
    /\ UNCHANGED <<pc, connectVars, fileVars>>

\* An app, which has one pool or none, gives up its slots.
DropSlots(t) ==
    \E old \in {{}} \union {{f} : f \in files[t]} : files' = [files EXCEPT ![t] = @ \ old]

CloseApp(t) ==
    /\ pc[t] = "running"
    /\ \E h \in handles[t] : handles' = [handles EXCEPT ![t] = @ \ {h}]
    /\ DropSlots(t) /\ Cardinality(files'[t]) <= Cardinality(handles'[t])
    /\ UNCHANGED <<pc, connectVars, next_handle, given, searchVars, dirVars, opened>>

-----------------------------------------------------------------------------
(* ensure_slots and anon_shm_file, for a pool of some length.               *)

NameOf(t) == base[t] + attempt[t]

EnsureSlots(t) ==
    /\ pc[t] = "running" /\ files_made < MaxFiles
    /\ DropSlots(t) /\ Cardinality(files'[t]) < Cardinality(handles[t])
    /\ \E b \in Bases : base' = [base EXCEPT ![t] = b]
    /\ Goto(t, "opening")
    /\ UNCHANGED <<attempt, connectVars, handleVars, dirVars, opened>>

\* Faulty variant: create instead of create_new, which opens a file that is there.
CreateOrOpen(t) ==
    /\ pc[t] = "opening" /\ attempt[t] < Attempts /\ files_made < MaxFiles
    /\ files_made' = files_made + 1
    /\ opened' = [opened EXCEPT ![t] =
                      IF dir[NameOf(t)] = None THEN files_made + 1 ELSE dir[NameOf(t)]]
    /\ dir' = [dir EXCEPT ![NameOf(t)] = opened'[t]]
    /\ Goto(t, "unlinking")
    /\ UNCHANGED <<connectVars, handleVars, searchVars, litter, files>>

CreateNew(t) ==
    /\ pc[t] = "opening" /\ attempt[t] < Attempts /\ files_made < MaxFiles
    /\ dir[NameOf(t)] = None
    /\ files_made' = files_made + 1
    /\ opened' = [opened EXCEPT ![t] = files_made + 1]
    /\ dir' = [dir EXCEPT ![NameOf(t)] = files_made + 1]
    /\ Goto(t, "unlinking")
    /\ UNCHANGED <<connectVars, handleVars, searchVars, litter, files>>

AlreadyExists(t) ==
    /\ pc[t] = "opening" /\ attempt[t] < Attempts
    /\ dir[NameOf(t)] # None
    /\ attempt' = [attempt EXCEPT ![t] = @ + 1]
    /\ UNCHANGED <<pc, base, connectVars, handleVars, dirVars, poolVars>>

\* The thread leaves anon_shm_file, and its locals are gone.
Return(t) ==
    /\ base' = [base EXCEPT ![t] = 0]
    /\ attempt' = [attempt EXCEPT ![t] = 0]
    /\ opened' = [opened EXCEPT ![t] = None]
    /\ Goto(t, "running")

\* The file cannot be created for another reason, or no attempt is left.
OpenFails(t) ==
    /\ pc[t] = "opening"
    /\ Return(t)
    /\ UNCHANGED <<connectVars, handleVars, dirVars, files>>

\* remove_file, whose result is ignored.
Unlink(t) ==
    /\ pc[t] = "unlinking"
    /\ \/ dir' = [dir EXCEPT ![NameOf(t)] = None] /\ UNCHANGED litter
       \/ litter' = litter \union {NameOf(t)} /\ UNCHANGED dir
    /\ Goto(t, "sizing")
    /\ UNCHANGED <<connectVars, handleVars, searchVars, files_made, poolVars>>

\* The file gets its length and is mapped into the new pool.
SetLen(t) ==
    /\ pc[t] = "sizing"
    /\ files' = [files EXCEPT ![t] = @ \union {opened[t]}]
    /\ Return(t)
    /\ UNCHANGED <<connectVars, handleVars, dirVars>>

\* Faulty variant: the length is set, and may be refused, while the file has its name.
SetLenFailsEarly(t) ==
    /\ pc[t] \in {"unlinking", "sizing"}
    /\ Return(t)
    /\ UNCHANGED <<connectVars, handleVars, dirVars, files>>

\* The length or the mapping is refused: the file is dropped.
SetLenFails(t) ==
    /\ pc[t] = "sizing"
    /\ Return(t)
    /\ UNCHANGED <<connectVars, handleVars, dirVars, files>>

-----------------------------------------------------------------------------

ThreadStep(t) ==
    \/ Start(t) \/ SetDisplay(t) \/ ConnectToEnv(t) \/ Handshake(t) \/ StartFails(t) \/ Stop(t)
    \/ BridgeApp(t) \/ CloseApp(t)
    \/ EnsureSlots(t) \/ CreateNew(t) \/ AlreadyExists(t) \/ OpenFails(t)
    \/ Unlink(t) \/ SetLen(t) \/ SetLenFails(t)

\* Nothing is started any more.
Finished ==
    /\ starts = MaxStarts /\ \A t \in Threads : pc[t] = "idle"
    /\ UNCHANGED vars

Next == (\E t \in Threads : ThreadStep(t)) \/ Finished

Spec == Init /\ [][Next]_vars

-----------------------------------------------------------------------------

\* A handle is given to one app, whichever bridges run side by side or one after the
\* other (surface.rs:48-49: process-unique, never reused within a process lifetime).
HandlesGivenOnce == [][\A t \in Threads : (handles'[t] \ handles[t]) \intersect given = {}]_vars

\* The storage a thread has, in its pools or just opened.
Storage(t) == files[t] \union ({opened[t]} \ {None})

\* No two pools of the process share storage, and none has that of a killed process,
\* although all look for names in the same range of one directory.
StorageApart ==
    /\ \A t \in Threads : opened[t] \notin files[t] /\ Stray \notin Storage(t)
    /\ \A t, u \in Threads : t # u => Storage(t) \intersect Storage(u) = {}

\* What a thread is about to unlink is the file it has made, and no other name stays in
\* the directory, whichever step of the creation fails (but for a failed unlink).
UnlinksItsOwn ==
    \A n \in Name \ litter :
        dir[n] # None <=> \E t \in Threads : /\ pc[t] = "unlinking" /\ NameOf(t) = n
                                             /\ opened[t] = dir[n]

\* A start that no other start overlaps connects to the compositor it was given, whatever
\* earlier starts and failures have left in the environment.
AloneReachesNamed ==
    \A t \in Threads : alone[t] /\ asked[t] # Unnamed => peer[t] \in {Nobody, asked[t]}

\* ffi.rs:38, "Connect to the nested Weston compositor on `socket_name`", of every start.
ReachesNamed ==
    \A t \in Threads : asked[t] # Unnamed => peer[t] \in {Nobody, asked[t]}
=============================================================================
