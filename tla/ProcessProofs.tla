---------------------------- MODULE ProcessProofs ----------------------------
(***************************************************************************)
(* Bridges of one process do not get into each other's way: for any number *)
(* of threads, starts, handles, files and names.                           *)
(***************************************************************************)
EXTENDS SharedProcess, TLAPS

Creating == {"unlinking", "sizing"}

\* The locals of anon_shm_file make sense as long as it runs.
Searching ==
    \A t \in Threads :
        /\ pc[t] \in Creating \union {"opening"} => base[t] \in Bases
        /\ pc[t] \in Creating => opened[t] # None

Typed == TypeOK /\ Searching

LEMMA NamesAreNames ==
    ASSUME Typed, NEW t \in Threads, pc[t] \in Creating \union {"opening"}
    PROVE  NameOf(t) \in Name
BY DEF Typed, TypeOK, Searching, NameOf, Name

LEMMA TypedInit == Init => Typed
<1> SUFFICES ASSUME Init PROVE Typed
  OBVIOUS
<1>1. TypeOK
  BY ProcessAssumption
     DEF Init, TypeOK, Socket, Nobody, Pc, Connecting, File, Stray, None
<1>2. Searching
  BY DEF Init, Searching, Creating
<1> QED BY <1>1, <1>2 DEF Typed

\* The steps of connect and stop leave the files that are being made alone.
LEMMA ConnectKeepsTyped ==
    ASSUME Typed, NEW t \in Threads,
           Start(t) \/ SetDisplay(t) \/ ConnectToEnv(t) \/ Handshake(t) \/ StartFails(t) \/ Stop(t)
    PROVE  Typed'
<1> USE ProcessAssumption
        DEF Typed, TypeOK, Searching, Creating, Goto, Pc, Connecting, Socket, Nobody,
            handleVars, searchVars, dirVars, poolVars, fileVars
<1>1. CASE Start(t)
  <2> DEFINE others == {u \in Threads \ {t} : pc[u] \in Connecting}
  <2>1. alone' \in [Threads -> BOOLEAN]
    <3>1. alone' = [u \in Threads |-> IF u = t THEN others = {} ELSE alone[u] /\ u \notin others]
      BY <1>1 DEF Start
    <3> QED BY <3>1, Zenon
  <2>2. asked' \in [Threads -> Nested \union {Unnamed}] /\ starts' \in 0..MaxStarts
    BY <1>1 DEF Start
  <2>3. pc' \in [Threads -> Pc] /\ Searching'
    BY <1>1 DEF Start
  <2>4. UNCHANGED <<env, peer, handleVars, fileVars>>
    BY <1>1 DEF Start
  <2> QED BY <2>1, <2>2, <2>3, <2>4
<1>2. CASE SetDisplay(t)
  BY <1>2 DEF SetDisplay
<1>3. CASE ConnectToEnv(t)
  BY <1>3 DEF ConnectToEnv
<1>4. CASE Handshake(t)
  BY <1>4 DEF Handshake, connectVars
<1>5. CASE StartFails(t)
  BY <1>5 DEF StartFails, Disconnect
<1>6. CASE Stop(t)
  BY <1>6 DEF Stop, Disconnect
<1> QED BY <1>1, <1>2, <1>3, <1>4, <1>5, <1>6

LEMMA AppsKeepTyped ==
    ASSUME Typed, NEW t \in Threads, BridgeApp(t) \/ CloseApp(t) \/ EnsureSlots(t)
    PROVE  Typed'
<1> USE ProcessAssumption
        DEF Typed, TypeOK, Searching, Creating, Goto, Pc,
            connectVars, handleVars, searchVars, dirVars, poolVars, fileVars
<1>1. CASE BridgeApp(t)
  BY <1>1 DEF BridgeApp, FreshHandle
<1>2. CASE CloseApp(t)
  BY <1>2 DEF CloseApp, DropSlots
<1>3. CASE EnsureSlots(t)
  BY <1>3 DEF EnsureSlots, DropSlots
<1> QED BY <1>1, <1>2, <1>3

LEMMA FilesKeepTyped ==
    ASSUME Typed, NEW t \in Threads,
           CreateNew(t) \/ AlreadyExists(t) \/ OpenFails(t) \/ Unlink(t) \/ SetLen(t) \/ SetLenFails(t)
    PROVE  Typed'
<1> USE ProcessAssumption
        DEF Typed, TypeOK, Searching, Creating, Goto, Pc, File, Stray, None,
            connectVars, handleVars, searchVars, dirVars, poolVars, fileVars
<1>1. CASE CreateNew(t)
  <2>1. files_made + 1 \in File /\ files_made + 1 # None /\ files_made' \in 0..MaxFiles
    BY <1>1 DEF CreateNew
  <2>2. dir' \in [Name -> File \union {None}]
    BY <1>1, <2>1 DEF CreateNew
  <2>3. opened' \in [Threads -> File \union {None}] /\ Searching'
    BY <1>1, <2>1 DEF CreateNew
  <2>4. pc' \in [Threads -> Pc]
    BY <1>1 DEF CreateNew
  <2> QED BY <1>1, <2>1, <2>2, <2>3, <2>4 DEF CreateNew
<1>2. CASE AlreadyExists(t)
  BY <1>2 DEF AlreadyExists
<1>3. CASE OpenFails(t)
  BY <1>3 DEF OpenFails, Return
<1>4. CASE Unlink(t)
  BY <1>4, NamesAreNames DEF Unlink
<1>5. CASE SetLen(t)
  BY <1>5 DEF SetLen, Return
<1>6. CASE SetLenFails(t)
  BY <1>6 DEF SetLenFails, Return
<1> QED BY <1>1, <1>2, <1>3, <1>4, <1>5, <1>6

LEMMA TypedNext == Typed /\ [Next]_vars => Typed'
<1> SUFFICES ASSUME Typed, [Next]_vars PROVE Typed'
  OBVIOUS
<1>1. CASE UNCHANGED vars
  BY <1>1 DEF Typed, TypeOK, Searching, vars, connectVars, handleVars, searchVars, dirVars,
              poolVars, fileVars
<1>2. CASE \E t \in Threads : ThreadStep(t)
  BY <1>2, ConnectKeepsTyped, AppsKeepTyped, FilesKeepTyped DEF ThreadStep
<1> QED BY <1>1, <1>2 DEF Next, Finished

LEMMA TypedHolds == Spec => []Typed
BY TypedInit, TypedNext, PTL DEF Spec

\* The state of the process is well-typed, however many names and files there are; the
\* search for a name ends in time.
THEOREM ProcessTypeCorrect == Spec => []TypeOK
<1>1. Typed => TypeOK
  BY DEF Typed
<1> QED BY <1>1, TypedHolds, PTL

-----------------------------------------------------------------------------
(* Handles.                                                                 *)

Counted == \A g \in given : g < next_handle

LEMMA CountedNext == Typed /\ Counted /\ [Next]_vars => Counted'
<1> SUFFICES ASSUME Typed, Counted, [Next]_vars PROVE Counted'
  OBVIOUS
<1>1. \/ UNCHANGED <<given, next_handle>>
      \/ given' = given \union {next_handle} /\ next_handle' = next_handle + 1
  BY DEF Next, Finished, vars, ThreadStep, Start, SetDisplay, ConnectToEnv, Handshake,
         StartFails, Stop, BridgeApp, FreshHandle, CloseApp, EnsureSlots, CreateNew,
         AlreadyExists, OpenFails, Unlink, SetLen, SetLenFails, handleVars
<1>2. given \subseteq Nat /\ next_handle \in Nat
  BY ProcessAssumption DEF Typed, TypeOK
<1> SUFFICES ASSUME NEW g \in given' PROVE g < next_handle'
  BY DEF Counted
<1>3. CASE g \in given
  BY <1>1, <1>2, <1>3 DEF Counted
<1> QED BY <1>1, <1>2, <1>3

LEMMA NewHandlesAreNew ==
    Typed /\ Counted /\ [Next]_vars
        => [\A t \in Threads : (handles'[t] \ handles[t]) \intersect given = {}]_vars
<1> SUFFICES ASSUME Typed, Counted, [Next]_vars, NEW u \in Threads
             PROVE  (handles'[u] \ handles[u]) \intersect given = {}
  OBVIOUS
<1>1. handles'[u] \subseteq handles[u] \union {next_handle}
  <2>1. CASE UNCHANGED handles
    BY <2>1
  <2>2. ASSUME NEW t \in Threads, Stop(t) \/ BridgeApp(t) \/ CloseApp(t)
        PROVE  handles'[u] \subseteq handles[u] \union {next_handle}
    BY <2>2 DEF Stop, BridgeApp, FreshHandle, CloseApp, Typed, TypeOK
  <2> QED BY <2>1, <2>2
          DEF Next, Finished, vars, ThreadStep, Start, SetDisplay, ConnectToEnv, Handshake,
              StartFails, EnsureSlots, CreateNew, AlreadyExists, OpenFails, Unlink, SetLen,
              SetLenFails, handleVars
<1>2. next_handle \notin given
  BY ProcessAssumption DEF Counted, Typed, TypeOK
<1> QED BY <1>1, <1>2

\* No app gets a handle that another app of the process has or has had, whichever threads
\* their bridges run on: handles are counted by one static, and every handle given out is
\* below the count.
THEOREM ProcessHandlesUnique == Spec => HandlesGivenOnce
<1>1. Init => Counted
  BY DEF Init, Counted
<1> QED BY <1>1, TypedHolds, CountedNext, NewHandlesAreNew, PTL DEF Spec, HandlesGivenOnce

-----------------------------------------------------------------------------
(* Files: storage is numbered as it is made, and stays with one thread.     *)

Made ==
    /\ files_made \in 0..MaxFiles
    /\ \A t \in Threads : Storage(t) \subseteq 1..files_made /\ opened[t] \notin files[t]

Apart == \A t, u \in Threads : t # u => Storage(t) \intersect Storage(u) = {}

\* The storage of no thread grows.
NothingNew ==
    /\ files_made' = files_made
    /\ \A t \in Threads : files'[t] \subseteq files[t] /\ opened'[t] \in {opened[t], None}

LEMMA NothingNewKeepsApart == Typed /\ Made /\ Apart /\ NothingNew => Made' /\ Apart'
<1> SUFFICES ASSUME Typed, Made, Apart, NothingNew PROVE Made' /\ Apart'
  OBVIOUS
<1>1. \A t \in Threads : Storage(t)' \subseteq Storage(t)
  BY DEF NothingNew, Storage
<1>2. \A t \in Threads : opened'[t] \notin files'[t]
  <2>1. \A t \in Threads : None \notin files[t]
    BY DEF Made, Storage, None, Typed, TypeOK, File
  <2> QED BY <2>1 DEF NothingNew, Made
<1>3. Made'
  BY <1>1, <1>2 DEF NothingNew, Made
<1>4. Apart'
  BY <1>1 DEF Apart
<1> QED BY <1>3, <1>4

LEMMA CreateNewKeepsApart ==
    ASSUME Typed, Made, Apart, NEW t \in Threads, CreateNew(t)
    PROVE  Made' /\ Apart'
<1> DEFINE new == files_made + 1
<1>1. new \notin 1..files_made /\ new \in 1..files_made' /\ files_made' \in 0..MaxFiles
      /\ 1..files_made \subseteq 1..files_made'
  BY ProcessAssumption DEF CreateNew, Typed, TypeOK
<1>2. \A u \in Threads : files'[u] = files[u]
  BY DEF CreateNew
<1>3. opened'[t] = new /\ \A u \in Threads \ {t} : opened'[u] = opened[u]
  BY DEF CreateNew, Typed, TypeOK
<1> HIDE DEF new
<1>4. Storage(t)' \subseteq Storage(t) \union {new}
  BY <1>2, <1>3 DEF Storage
<1>5. \A u \in Threads \ {t} : Storage(u)' = Storage(u)
  BY <1>2, <1>3 DEF Storage
<1>6. \A u \in Threads : opened'[u] \notin files'[u]
  BY <1>1, <1>2, <1>3 DEF Made, Storage
<1>7. \A u \in Threads : new \notin Storage(u)
  BY <1>1 DEF Made
<1>8. Made'
  BY <1>1, <1>4, <1>5, <1>6 DEF Made
<1>9. Apart'
  BY <1>4, <1>5, <1>7 DEF Apart
<1> QED BY <1>8, <1>9

LEMMA SetLenKeepsApart ==
    ASSUME Typed, Made, Apart, NEW t \in Threads, SetLen(t)
    PROVE  Made' /\ Apart'
<1>1. opened[t] # None /\ files'[t] = files[t] \union {opened[t]} /\ opened'[t] = None
  BY DEF SetLen, Return, Typed, TypeOK, Searching, Creating
<1>2. \A u \in Threads \ {t} : files'[u] = files[u] /\ opened'[u] = opened[u]
  BY DEF SetLen, Return, Typed, TypeOK
<1>3. \A u \in Threads : Storage(u)' = Storage(u)
  BY <1>1, <1>2 DEF Storage
<1>4. files_made' = files_made
  BY DEF SetLen, dirVars
<1>5. \A u \in Threads : opened'[u] \notin files'[u]
  BY <1>1, <1>2 DEF Made, Storage, None, Typed, TypeOK, File
<1>6. Made'
  BY <1>3, <1>4, <1>5 DEF Made
<1>7. Apart'
  BY <1>3 DEF Apart
<1> QED BY <1>6, <1>7

LEMMA ApartNext == Typed /\ Made /\ Apart /\ [Next]_vars => Made' /\ Apart'
<1> SUFFICES ASSUME Typed, Made, Apart, [Next]_vars PROVE Made' /\ Apart'
  OBVIOUS
<1>1. CASE UNCHANGED <<files_made, files, opened>>
  BY <1>1, NothingNewKeepsApart DEF NothingNew
<1>2. ASSUME NEW t \in Threads,
             Stop(t) \/ CloseApp(t) \/ EnsureSlots(t) \/ OpenFails(t) \/ SetLenFails(t)
      PROVE  NothingNew
  BY <1>2 DEF Stop, CloseApp, EnsureSlots, DropSlots, OpenFails, SetLenFails, Return, NothingNew,
              Typed, TypeOK, dirVars
<1>3. ASSUME NEW t \in Threads,
             \/ Start(t) \/ SetDisplay(t) \/ ConnectToEnv(t) \/ Handshake(t) \/ StartFails(t)
             \/ BridgeApp(t) \/ AlreadyExists(t) \/ Unlink(t)
      PROVE  UNCHANGED <<files_made, files, opened>>
  BY <1>3 DEF Start, SetDisplay, ConnectToEnv, Handshake, StartFails, BridgeApp, AlreadyExists,
              Unlink, fileVars, dirVars, poolVars
<1>4. CASE UNCHANGED vars
  BY <1>1, <1>4 DEF vars, fileVars, dirVars, poolVars
<1>5. CASE \E t \in Threads : ThreadStep(t)
  BY <1>1, <1>2, <1>3, <1>5, NothingNewKeepsApart, CreateNewKeepsApart, SetLenKeepsApart
     DEF ThreadStep
<1> QED BY <1>4, <1>5 DEF Next, Finished

LEMMA ApartHolds == Spec => [](Typed /\ Made /\ Apart)
<1>1. Init => Made /\ Apart
  BY ProcessAssumption DEF Init, Made, Apart, Storage, None
<1> QED BY <1>1, TypedHolds, ApartNext, PTL DEF Spec

\* No two pools of the process share a file and none is one that was there before: a file
\* is only used by the thread that has created it, since create_new refuses a name that
\* is taken.
THEOREM StorageIsApart == Spec => []StorageApart
<1>1. Typed /\ Made /\ Apart => StorageApart
  BY ProcessAssumption DEF Typed, TypeOK, Made, Apart, StorageApart, Stray
<1> QED BY <1>1, ApartHolds, PTL

-----------------------------------------------------------------------------
(* Names: one stays for the time between open and unlink.                   *)

Unlinking(t) == pc[t] = "unlinking"

LitterStays == \A n \in litter : dir[n] # None
OwnNames ==
    \A t \in Threads : Unlinking(t) => NameOf(t) \notin litter /\ dir[NameOf(t)] = opened[t]
NamesOwned ==
    \A n \in Name \ litter : dir[n] # None => \E t \in Threads : Unlinking(t) /\ NameOf(t) = n
DirInv == LitterStays /\ OwnNames /\ NamesOwned

\* The directory stays, and so does what the threads are about to unlink.
NoNameMoves ==
    /\ UNCHANGED <<dir, litter>>
    /\ \A t \in Threads :
          /\ Unlinking(t)' <=> Unlinking(t)
          /\ Unlinking(t) => NameOf(t)' = NameOf(t) /\ opened'[t] = opened[t]

LEMMA NoNameMovesKeepsDir == DirInv /\ NoNameMoves => DirInv'
<1> SUFFICES ASSUME DirInv, NoNameMoves PROVE DirInv'
  OBVIOUS
<1>1. LitterStays'
  BY DEF DirInv, LitterStays, NoNameMoves
<1>2. OwnNames'
  BY DEF DirInv, OwnNames, NoNameMoves
<1>3. NamesOwned'
  BY DEF DirInv, NamesOwned, NoNameMoves
<1> QED BY <1>1, <1>2, <1>3 DEF DirInv

LEMMA MostStepsMoveNoName ==
    ASSUME Typed, NEW t \in Threads, ThreadStep(t), ~ CreateNew(t), ~ Unlink(t)
    PROVE  NoNameMoves
<1> USE DEF NoNameMoves, Unlinking, NameOf, Typed, TypeOK, Goto,
            fileVars, searchVars, dirVars, poolVars
<1>1. CASE Start(t) \/ SetDisplay(t) \/ ConnectToEnv(t) \/ Handshake(t) \/ StartFails(t)
  BY <1>1 DEF Start, SetDisplay, ConnectToEnv, Handshake, StartFails, Disconnect
<1>2. CASE Stop(t) \/ BridgeApp(t) \/ CloseApp(t)
  BY <1>2 DEF Stop, Disconnect, BridgeApp, CloseApp
<1>3. CASE EnsureSlots(t) \/ AlreadyExists(t)
  BY <1>3 DEF EnsureSlots, AlreadyExists
<1>4. CASE OpenFails(t) \/ SetLen(t) \/ SetLenFails(t)
  BY <1>4 DEF OpenFails, SetLen, SetLenFails, Return
<1> QED BY <1>1, <1>2, <1>3, <1>4 DEF ThreadStep

LEMMA CreateNewKeepsDir ==
    ASSUME Typed, DirInv, NEW t \in Threads, CreateNew(t)
    PROVE  DirInv'
<1> DEFINE n == NameOf(t)
<1>1. n \in Name /\ n \notin litter /\ dir[n] = None
  BY NamesAreNames DEF CreateNew, Creating, DirInv, LitterStays
<1>2. /\ dir'[n] = files_made + 1 /\ files_made + 1 # None
      /\ \A m \in Name \ {n} : dir'[m] = dir[m]
      /\ UNCHANGED litter /\ \A u \in Threads : NameOf(u)' = NameOf(u)
      /\ opened'[t] = files_made + 1 /\ \A u \in Threads \ {t} : opened'[u] = opened[u]
      /\ ~ Unlinking(t) /\ Unlinking(t)'
      /\ \A u \in Threads \ {t} : Unlinking(u)' <=> Unlinking(u)
  BY <1>1 DEF CreateNew, Goto, Unlinking, NameOf, searchVars, Typed, TypeOK, None
<1>3. \A u \in Threads : Unlinking(u) => NameOf(u) \in Name \ {n}
  BY <1>1, NamesAreNames DEF DirInv, OwnNames, Unlinking, Typed, Searching, Creating
<1> HIDE DEF n
<1>4. LitterStays'
  BY <1>1, <1>2 DEF DirInv, LitterStays, Typed, TypeOK
<1>5. OwnNames'
  BY <1>1, <1>2, <1>3 DEF DirInv, OwnNames, n
<1>6. NamesOwned'
  BY <1>1, <1>2 DEF DirInv, NamesOwned, n
<1> QED BY <1>4, <1>5, <1>6 DEF DirInv

LEMMA UnlinkKeepsDir ==
    ASSUME Typed, Apart, DirInv, NEW t \in Threads, Unlink(t)
    PROVE  DirInv'
<1> DEFINE n == NameOf(t)
<1>1. Unlinking(t) /\ n \in Name \ litter /\ dir[n] = opened[t] /\ opened[t] # None
  BY NamesAreNames DEF Unlink, Unlinking, DirInv, OwnNames, Typed, Searching, Creating
<1>2. /\ ~ Unlinking(t)' /\ \A u \in Threads \ {t} : Unlinking(u)' <=> Unlinking(u)
      /\ \A u \in Threads : NameOf(u)' = NameOf(u) /\ opened'[u] = opened[u]
  BY DEF Unlink, Goto, Unlinking, NameOf, searchVars, poolVars, Typed, TypeOK
<1>3. \A u \in Threads \ {t} : Unlinking(u) => NameOf(u) \in Name \ {n}
  <2> SUFFICES ASSUME NEW u \in Threads \ {t}, Unlinking(u), NameOf(u) = n PROVE FALSE
    BY NamesAreNames DEF Unlinking, Creating
  <2>1. opened[u] = opened[t]
    BY <1>1 DEF DirInv, OwnNames
  <2> QED BY <1>1, <2>1 DEF Apart, Storage
<1>4. \/ /\ dir'[n] = None /\ \A m \in Name \ {n} : dir'[m] = dir[m]
         /\ UNCHANGED litter
      \/ litter' = litter \union {n} /\ UNCHANGED dir
  BY <1>1 DEF Unlink, Typed, TypeOK
<1> HIDE DEF n
<1>5. LitterStays'
  BY <1>1, <1>4 DEF DirInv, LitterStays, Typed, TypeOK
<1>6. OwnNames'
  BY <1>2, <1>3, <1>4 DEF DirInv, OwnNames
<1>7. NamesOwned'
  BY <1>1, <1>2, <1>4 DEF DirInv, NamesOwned, n
<1> QED BY <1>5, <1>6, <1>7 DEF DirInv

LEMMA DirNext == Typed /\ Apart /\ DirInv /\ [Next]_vars => DirInv'
<1> SUFFICES ASSUME Typed, Apart, DirInv, [Next]_vars PROVE DirInv'
  OBVIOUS
<1>1. CASE UNCHANGED vars
  BY <1>1 DEF vars, fileVars, searchVars, dirVars, poolVars, DirInv, LitterStays, OwnNames,
              NamesOwned, Unlinking, NameOf
<1>2. CASE \E t \in Threads : ThreadStep(t)
  BY <1>2, MostStepsMoveNoName, NoNameMovesKeepsDir, CreateNewKeepsDir, UnlinkKeepsDir
<1> QED BY <1>1, <1>2 DEF Next, Finished

\* A thread unlinks the file it has just made, and leaves no other name behind, in whatever
\* order threads search, fail and unlink: storage is apart, so that two threads never hold
\* one name.
THEOREM UnlinksAreSafe == Spec => []UnlinksItsOwn
<1>1. Init => DirInv
  BY ProcessAssumption DEF Init, DirInv, LitterStays, OwnNames, NamesOwned, Unlinking, Stray, None
<1>2. Typed /\ DirInv => UnlinksItsOwn
  BY DEF DirInv, OwnNames, NamesOwned, UnlinksItsOwn, Unlinking, Typed, Searching, Creating
<1> QED BY <1>1, <1>2, ApartHolds, DirNext, PTL DEF Spec

-----------------------------------------------------------------------------
(* The environment: a thread that is alone in connect finds its own name.   *)

\* While two threads are in connect, neither counts as alone.
AloneIsAlone ==
    \A t, u \in Threads : t # u /\ pc[t] \in Connecting /\ pc[u] \in Connecting => ~ alone[t]
NameStands ==
    \A t \in Threads : pc[t] = "connecting" /\ alone[t] /\ asked[t] # Unnamed => env = asked[t]
PeersLate == \A t \in Threads : pc[t] \in {"idle", "naming", "connecting"} => peer[t] = Nobody
EnvInv == AloneIsAlone /\ NameStands /\ PeersLate /\ AloneReachesNamed

LEMMA StartKeepsEnv ==
    ASSUME Typed, EnvInv, NEW t \in Threads, Start(t)
    PROVE  EnvInv'
<1> DEFINE others == {u \in Threads \ {t} : pc[u] \in Connecting}
<1>1. alone' = [u \in Threads |-> IF u = t THEN others = {} ELSE alone[u] /\ u \notin others]
  BY DEF Start
<1>2. /\ pc[t] = "idle" /\ pc'[t] = "naming" /\ \A u \in Threads \ {t} : pc'[u] = pc[u]
      /\ UNCHANGED <<env, peer>> /\ \A u \in Threads \ {t} : asked'[u] = asked[u]
  BY DEF Start, Goto, Typed, TypeOK
<1>3. \A u \in Threads \ {t} : (alone'[u] => alone[u]) /\ (pc[u] \in Connecting => ~ alone'[u])
  BY <1>1
<1>4. (\E u \in Threads \ {t} : pc[u] \in Connecting) => ~ alone'[t]
  BY <1>1
<1>5. AloneIsAlone'
  <2> SUFFICES ASSUME NEW u \in Threads, NEW v \in Threads, u # v,
                      pc'[u] \in Connecting, pc'[v] \in Connecting
               PROVE  ~ alone'[u]
    BY DEF AloneIsAlone
  <2>1. CASE u = t
    BY <1>2, <1>4, <2>1
  <2>2. CASE u # t
    BY <1>2, <1>3, <2>2
  <2> QED BY <2>1, <2>2
<1>6. NameStands'
  BY <1>2, <1>3 DEF EnvInv, NameStands
<1>7. PeersLate'
  BY <1>2 DEF EnvInv, PeersLate
<1>8. AloneReachesNamed'
  BY <1>2, <1>3, <1>7 DEF EnvInv, AloneReachesNamed, PeersLate
<1> QED BY <1>5, <1>6, <1>7, <1>8 DEF EnvInv

LEMMA SetDisplayKeepsEnv ==
    ASSUME Typed, EnvInv, NEW t \in Threads, SetDisplay(t)
    PROVE  EnvInv'
<1>1. /\ pc[t] = "naming" /\ pc'[t] = "connecting" /\ \A u \in Threads \ {t} : pc'[u] = pc[u]
      /\ UNCHANGED <<asked, peer, alone>>
      /\ asked[t] # Unnamed => env' = asked[t]
  BY DEF SetDisplay, Goto, Typed, TypeOK
<1>2. AloneIsAlone'
  BY <1>1 DEF EnvInv, AloneIsAlone, Connecting
<1>3. NameStands'
  BY <1>1 DEF EnvInv, AloneIsAlone, NameStands, Connecting
<1>4. PeersLate'
  BY <1>1 DEF EnvInv, PeersLate
<1>5. AloneReachesNamed'
  BY <1>1 DEF EnvInv, AloneReachesNamed
<1> QED BY <1>2, <1>3, <1>4, <1>5 DEF EnvInv

LEMMA ConnectKeepsEnv ==
    ASSUME Typed, EnvInv, NEW t \in Threads, ConnectToEnv(t) \/ Handshake(t)
    PROVE  EnvInv'
<1>1. /\ pc[t] \in {"connecting", "handshake"} /\ pc'[t] \in {"handshake", "running"}
      /\ \A u \in Threads \ {t} : pc'[u] = pc[u] /\ peer'[u] = peer[u]
      /\ UNCHANGED <<env, asked, alone>>
      /\ peer'[t] = peer[t] \/ (pc[t] = "connecting" /\ peer'[t] = env)
  BY DEF ConnectToEnv, Handshake, Goto, connectVars, Typed, TypeOK
<1>2. AloneIsAlone'
  BY <1>1 DEF EnvInv, AloneIsAlone, Connecting
<1>3. NameStands'
  BY <1>1 DEF EnvInv, NameStands
<1>4. PeersLate'
  BY <1>1 DEF EnvInv, PeersLate
<1>5. AloneReachesNamed'
  BY <1>1 DEF EnvInv, AloneReachesNamed, NameStands
<1> QED BY <1>2, <1>3, <1>4, <1>5 DEF EnvInv

LEMMA DisconnectKeepsEnv ==
    ASSUME Typed, EnvInv, NEW t \in Threads, Disconnect(t)
    PROVE  EnvInv'
<1>1. /\ pc'[t] = "idle" /\ peer'[t] = Nobody /\ asked'[t] = Unnamed /\ UNCHANGED env
      /\ \A u \in Threads \ {t} : /\ pc'[u] = pc[u] /\ peer'[u] = peer[u]
                                  /\ asked'[u] = asked[u] /\ alone'[u] = alone[u]
  BY DEF Disconnect, Goto, Typed, TypeOK
<1>2. AloneIsAlone'
  BY <1>1 DEF EnvInv, AloneIsAlone, Connecting
<1>3. NameStands'
  BY <1>1 DEF EnvInv, NameStands
<1>4. PeersLate'
  BY <1>1 DEF EnvInv, PeersLate
<1>5. AloneReachesNamed'
  BY <1>1 DEF EnvInv, AloneReachesNamed
<1> QED BY <1>2, <1>3, <1>4, <1>5 DEF EnvInv

\* What a running thread does with apps and files.
LEMMA WorkKeepsEnv ==
    ASSUME EnvInv, UNCHANGED connectVars,
           \A t \in Threads : \/ pc'[t] = pc[t]
                              \/ pc'[t] \notin Connecting \union {"idle"}
    PROVE  EnvInv'
BY DEF connectVars, EnvInv, AloneIsAlone, NameStands, PeersLate, AloneReachesNamed, Connecting

LEMMA EnvNext == Typed /\ EnvInv /\ [Next]_vars => EnvInv'
<1> SUFFICES ASSUME Typed, EnvInv, [Next]_vars PROVE EnvInv'
  OBVIOUS
<1>1. CASE UNCHANGED vars
  BY <1>1, WorkKeepsEnv DEF vars
<1>2. ASSUME NEW t \in Threads,
             \/ BridgeApp(t) \/ CloseApp(t) \/ EnsureSlots(t) \/ CreateNew(t) \/ AlreadyExists(t)
             \/ OpenFails(t) \/ Unlink(t) \/ SetLen(t) \/ SetLenFails(t)
      PROVE  EnvInv'
  BY <1>2, WorkKeepsEnv
     DEF BridgeApp, CloseApp, EnsureSlots, CreateNew, AlreadyExists, OpenFails, Unlink, SetLen,
         SetLenFails, Return, Goto, Connecting, Typed, TypeOK
<1>3. ASSUME NEW t \in Threads, StartFails(t) \/ Stop(t) PROVE EnvInv'
  BY <1>3, DisconnectKeepsEnv DEF StartFails, Stop
<1>4. CASE \E t \in Threads : ThreadStep(t)
  BY <1>2, <1>3, <1>4, StartKeepsEnv, SetDisplayKeepsEnv, ConnectKeepsEnv DEF ThreadStep
<1> QED BY <1>1, <1>4 DEF Next, Finished

\* Whatever names earlier starts have left in WAYLAND_DISPLAY, a start that has connect to
\* itself reaches the compositor it was given: it has set the name itself, and nobody else
\* sets it before the name is read.
THEOREM AloneIsServed == Spec => []AloneReachesNamed
<1>1. Init => EnvInv
  BY DEF Init, EnvInv, AloneIsAlone, NameStands, PeersLate, AloneReachesNamed, Connecting, Nobody
<1>2. EnvInv => AloneReachesNamed
  BY DEF EnvInv
<1> QED BY <1>1, <1>2, TypedHolds, EnvNext, PTL DEF Spec
=============================================================================
