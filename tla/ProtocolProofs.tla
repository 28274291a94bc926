--------------------------- MODULE ProtocolProofs ---------------------------
(***************************************************************************)
(* Proofs that a handle names one app of the process, ever, that the       *)
(* bridge never breaks the protocol, and that no configure, close or ping  *)
(* is forgotten: HandlesNeverReused, NoProtocolError, ConfigureComes,      *)
(* CloseNotLost and PingNotLost of BridgeSystem, for every value of the    *)
(* constants.                                                              *)
(***************************************************************************)
EXTENDS BufferProofs

\* Every handle in use or handed out is below the counter.
Numbered == \A h \in live \union known : h < next_handle

\* Which steps make an app, and which hand out a handle.
LEMMA HandleSteps ==
    ASSUME TypeInv, Next
    PROVE  \/ BridgeAppBody /\ UNCHANGED known
           \/ BridgeAppReturn /\ UNCHANGED live
           \/ live' \subseteq live /\ UNCHANGED <<next_handle, known>>
  <1>1. CASE Start \/ Stop
    BY <1>1 DEF Start, AnowawStart, Stop, AnowawStop, appVars, shimVars
  <1>2. CASE CompositorStep \/ Finished
    BY <1>2 DEF CompositorStep, Finished, vars, abiVars, coreVars, appVars, shimVars
  <1>3. CASE BridgeStep
    <2>1. CASE ~CoreStep
      BY <1>3, <2>1 DEF BridgeStep, AbiStep, CallBridgeApp, CallPushFrame, CallPollInput,
                        CallCloseRequested, CallCloseApp, CallDispatch, Call, appVars, shimVars
    <2>2. CASE PumpFlush \/ PumpFails \/ PumpRead \/ PumpDone
      BY <2>2 DEF PumpFlush, PumpFails, PumpRead, PumpDone, appVars, shimVars
    <2>3. CASE Deliver
      <3>1. CASE OnAppEvent
        BY <2>3, <3>1 DEF Deliver, OnAppEvent, OnConfigure, OnClose, OnRelease, OnPing,
                          OnDiscarded, appVars, shimVars
      <3>2. CASE UNCHANGED appVars
        BY <2>3, <3>2 DEF Deliver, appVars, shimVars
      <3> QED
        BY <2>3, <3>1, <3>2 DEF Deliver
    <2>4. CASE BridgeAppBody \/ BridgeAppReturn
      BY <2>4 DEF BridgeAppBody, BridgeAppReturn, appVars, shimVars
    <2>5. CASE PushRejected \/ PushNoPool \/ PushIntoNewPool \/ PushIntoPool \/ PushSkipped
      BY <2>5 DEF PushRejected, PushNoPool, PushIntoNewPool, PushIntoPool, PushSkipped,
                  appVars, shimVars
    <2>6. CASE PollInputBody \/ CloseRequestedBody \/ CloseAppBody \/ CloseUnknownBody
      BY <2>6 DEF PollInputBody, CloseRequestedBody, CloseAppBody, CloseUnknownBody,
                  appVars, shimVars
    <2> QED
      BY <2>1, <2>2, <2>3, <2>4, <2>5, <2>6 DEF CoreStep
  <1> QED
    BY <1>1, <1>2, <1>3 DEF Next

LEMMA InitNumbered == Init => Numbered
  BY DEF Init, CoreInit, NoApps, Numbered

LEMMA NextNumbered ==
    ASSUME TypeInv, Numbered, [Next]_vars
    PROVE  Numbered' /\ (live' \ live) \intersect known = {}
  <1>1. /\ next_handle \in Nat /\ live \subseteq Handle /\ known \subseteq Handle
        /\ \A h \in Handle : h \in Nat
    BY ConstantsTyped DEF TypeInv, TypeOK, SeatTypeOK, CoreTypeOK, Handle
  <1>2. CASE BridgeAppBody /\ UNCHANGED known
    <2>1. live' = live \union {next_handle} /\ next_handle' = next_handle + 1
      BY <1>2 DEF BridgeAppBody, FreshHandle
    <2> QED
      BY <1>1, <1>2, <2>1 DEF Numbered
  <1>3. CASE BridgeAppReturn /\ UNCHANGED live
    <2>1. known' = known \union {next_handle - 1} /\ next_handle' = next_handle
      BY <1>3 DEF BridgeAppReturn
    <2> QED
      BY <1>1, <1>3, <2>1 DEF Numbered
  <1>4. CASE live' \subseteq live /\ UNCHANGED <<next_handle, known>>
    BY <1>4 DEF Numbered
  <1>5. CASE UNCHANGED vars
    <2>1. live' = live /\ known' = known /\ next_handle' = next_handle
      BY <1>5 DEF vars, abiVars, coreVars, appVars, shimVars
    <2> QED
      BY <2>1 DEF Numbered
  <1> QED
    BY <1>2, <1>3, <1>4, <1>5, HandleSteps

\* A handle bridge_app has returned never names another app: core/src/bridge.rs numbers apps
\* with a counter of the process, which closing an app or stopping a bridge leaves alone.
THEOREM HandlesAreUnique == Spec => HandlesNeverReused
  <1>1. TypeInv /\ Numbered /\ [Next]_vars => Numbered'
    BY NextNumbered
  <1>2. TypeInv /\ Numbered /\ [Next]_vars => [(live' \ live) \intersect known = {}]_vars
    BY NextNumbered
  <1> QED
    BY <1>1, <1>2, InitNumbered, TypeInvariance, PTL DEF Spec, HandlesNeverReused

-----------------------------------------------------------------------------
(* What is on its way to the compositor about an app, and what it knows.    *)

Has(h, type) == Says(reqs, h, type)

\* The stage of a window's life a request belongs to.
Rank(type) ==
    IF type = "create" THEN 1
    ELSE IF type = "destroy_toplevel" THEN 3
    ELSE IF type = "destroy_xdg_surface" THEN 4
    ELSE IF type = "destroy_surface" THEN 5
    ELSE 2

Follows(t, u) == Rank(t) < Rank(u) \/ (Rank(t) = 2 /\ Rank(u) = 2)

\* The requests of one app come in the order of its window's life.
Ordered(seq) ==
    \A i, j \in DOMAIN seq :
        i < j /\ seq[i].handle = seq[j].handle /\ seq[i].handle \in Handle
            => Follows(seq[i].type, seq[j].type)

WindowType == {"create", "ack_configure",
               "destroy_toplevel", "destroy_xdg_surface", "destroy_surface"}

Named(seq) == \A i \in DOMAIN seq : seq[i].type \in WindowType => seq[i].handle \in Handle

\* Nothing has been said of the apps to come.
Unmade ==
    \A h \in Handle : h >= next_handle =>
        role[h] = "none" /\ \A i \in DOMAIN reqs : reqs[i].handle # h

\* A window is used, or destroyed, in a state of its role that the requests before will
\* have led to; a live one is not being destroyed.
Built ==
    \A h \in Handle :
        /\ h \in live =>
               /\ role[h] = "toplevel" \/ Has(h, "create")
               /\ ~Has(h, "destroy_toplevel")
               /\ ~Has(h, "destroy_xdg_surface")
               /\ ~Has(h, "destroy_surface")
        /\ Has(h, "create") => role[h] = "none"
        /\ Has(h, "frame") \/ Has(h, "destroy_toplevel")
               => role[h] = "toplevel" \/ Has(h, "create")
        /\ Has(h, "destroy_xdg_surface") =>
               role[h] = "xdg_surface" \/ Has(h, "destroy_toplevel")
        /\ Has(h, "destroy_surface") =>
               role[h] = "surface" \/ Has(h, "destroy_xdg_surface")

WindowInv == Named(reqs) /\ Unmade /\ Ordered(reqs) /\ Built

LEMMA OrderedConcat ==
    ASSUME NEW M, NEW seq \in Seq(M), NEW ms \in Seq(M), Ordered(seq), Ordered(ms),
           \A i \in DOMAIN seq, k \in DOMAIN ms :
               seq[i].handle = ms[k].handle /\ seq[i].handle \in Handle
                   => Follows(seq[i].type, ms[k].type)
    PROVE  Ordered(seq \o ms)
  <1> SUFFICES ASSUME NEW i \in DOMAIN (seq \o ms), NEW j \in DOMAIN (seq \o ms), i < j,
                      (seq \o ms)[i].handle = (seq \o ms)[j].handle,
                      (seq \o ms)[i].handle \in Handle
               PROVE  Follows((seq \o ms)[i].type, (seq \o ms)[j].type)
    BY DEF Ordered
  <1>1. /\ Len(seq) \in Nat /\ Len(ms) \in Nat
        /\ \A k \in DOMAIN seq : k \in 1..Len(seq)
        /\ \A k \in DOMAIN ms : k \in 1..Len(ms)
    OBVIOUS
  <1>2. CASE i \in DOMAIN seq /\ (seq \o ms)[i] = seq[i]
    <2>1. CASE j \in DOMAIN seq /\ (seq \o ms)[j] = seq[j]
      BY <1>2, <2>1 DEF Ordered
    <2>2. CASE \E k \in DOMAIN ms : j = Len(seq) + k /\ (seq \o ms)[j] = ms[k]
      BY <1>2, <2>2
    <2> QED
      BY <2>1, <2>2, ConcatFacts
  <1>3. CASE \E k \in DOMAIN ms : i = Len(seq) + k /\ (seq \o ms)[i] = ms[k]
    <2>1. PICK k \in DOMAIN ms : i = Len(seq) + k /\ (seq \o ms)[i] = ms[k]
      BY <1>3
    <2>2. PICK l \in DOMAIN ms : j = Len(seq) + l /\ (seq \o ms)[j] = ms[l]
      BY <1>1, <2>1, ConcatFacts
    <2>3. k < l
      BY <1>1, <2>1, <2>2
    <2> QED
      BY <2>1, <2>2, <2>3 DEF Ordered
  <1> QED
    BY <1>2, <1>3, ConcatFacts

LEMMA OrderedTail ==
    ASSUME NEW M, NEW seq \in Seq(M), seq # <<>>, Ordered(seq)
    PROVE  /\ Ordered(Tail(seq))
           /\ Head(seq).handle \in Handle => \A type :
                  Says(Tail(seq), Head(seq).handle, type) => Follows(Head(seq).type, type)
  <1>1. Ordered(Tail(seq))
    BY TailFacts DEF Ordered
  <1>2. ASSUME Head(seq).handle \in Handle, NEW i \in DOMAIN Tail(seq),
               Tail(seq)[i].handle = Head(seq).handle
        PROVE  Follows(Head(seq).type, Tail(seq)[i].type)
    <2>1. i + 1 \in DOMAIN seq /\ Tail(seq)[i] = seq[i + 1] /\ 1 < i + 1
      BY TailFacts
    <2> QED
      BY <1>2, <2>1, TailFacts DEF Ordered
  <1> QED
    BY <1>1, <1>2 DEF Says

LEMMA NamedConcat ==
    ASSUME NEW seq \in Seq(Request), NEW ms \in Seq(Request), Named(seq), Named(ms)
    PROVE  Named(seq \o ms)
  <1> SUFFICES ASSUME NEW i \in DOMAIN (seq \o ms), (seq \o ms)[i].type \in WindowType
               PROVE  (seq \o ms)[i].handle \in Handle
    BY DEF Named
  <1> QED
    BY ConcatFacts DEF Named

-----------------------------------------------------------------------------
(* The windows, as the bridge sends requests.                               *)

\* Requests that neither make nor destroy a window, and are about live apps.
Tame(ms) ==
    /\ Named(ms)
    /\ \A k \in DOMAIN ms : ms[k].handle \in Handle =>
           ms[k].handle \in live /\ Rank(ms[k].type) = 2

LEMMA TameWindows ==
    ASSUME TypeInv, Numbered, WindowInv, NEW ms \in Seq(Request), Tame(ms), reqs' = reqs \o ms,
           UNCHANGED <<role, live, next_handle>>
    PROVE  WindowInv'
  <1>1. reqs \in Seq(Request) /\ next_handle \in Nat /\ live \subseteq Handle
    BY ConstantsTyped DEF TypeInv, TypeOK, WireTypeOK, CoreTypeOK, SeatTypeOK
  <1>2. \A h \in Handle : \A type : Has(h, type)' <=> Has(h, type) \/ Says(ms, h, type)
    BY <1>1, SaysConcat DEF Has
  <1>3. \A h \in Handle : \A type : Says(ms, h, type) => h \in live /\ Rank(type) = 2
    BY DEF Tame, Says
  <1>4. Named(reqs)'
    BY <1>1, NamedConcat DEF WindowInv, Tame
  <1>5. Unmade'
    <2> SUFFICES ASSUME NEW h \in Handle, h >= next_handle
                 PROVE  \A i \in DOMAIN reqs' : reqs'[i].handle # h
      BY DEF Unmade, WindowInv
    <2>1. h \notin live
      BY <1>1 DEF Numbered, Handle
    <2>2. \A k \in DOMAIN ms : ms[k].handle # h
      BY <2>1 DEF Tame
    <2>3. \A i \in DOMAIN reqs : reqs[i].handle # h
      BY DEF WindowInv, Unmade
    <2> QED
      BY <1>1, <2>2, <2>3, ConcatFacts
  <1>6. Ordered(reqs)'
    <2>1. Ordered(ms)
      BY DEF Ordered, Tame, Follows
    <2>2. ASSUME NEW i \in DOMAIN reqs, NEW k \in DOMAIN ms,
                 reqs[i].handle = ms[k].handle, reqs[i].handle \in Handle
          PROVE  Follows(reqs[i].type, ms[k].type)
      <3>1. reqs[i].handle \in live /\ Rank(ms[k].type) = 2
        BY <2>2 DEF Tame
      <3>2. reqs[i].type \notin {"destroy_toplevel", "destroy_xdg_surface", "destroy_surface"}
        BY <2>2, <3>1 DEF WindowInv, Built, Has, Says
      <3> QED
        BY <3>1, <3>2 DEF Follows, Rank
    <2> QED
      BY <1>1, <2>1, <2>2, OrderedConcat DEF WindowInv
  <1>7. Built'
    <2> SUFFICES ASSUME NEW h \in Handle
                 PROVE  /\ h \in live =>
                               /\ role[h] = "toplevel" \/ Has(h, "create")'
                               /\ ~Has(h, "destroy_toplevel")'
                               /\ ~Has(h, "destroy_xdg_surface")'
                               /\ ~Has(h, "destroy_surface")'
                        /\ Has(h, "create")' => role[h] = "none"
                        /\ Has(h, "frame")' \/ Has(h, "destroy_toplevel")'
                               => role[h] = "toplevel" \/ Has(h, "create")'
                        /\ Has(h, "destroy_xdg_surface")' =>
                               role[h] = "xdg_surface" \/ Has(h, "destroy_toplevel")'
                        /\ Has(h, "destroy_surface")' =>
                               role[h] = "surface" \/ Has(h, "destroy_xdg_surface")'
      BY DEF Built
    <2>1. \A type \in {"create", "destroy_toplevel", "destroy_xdg_surface", "destroy_surface"} :
              Has(h, type)' <=> Has(h, type)
      BY <1>2, <1>3 DEF Rank
    <2>2. Has(h, "frame")' => Has(h, "frame") \/ h \in live
      BY <1>2, <1>3
    <2> QED
      BY <2>1, <2>2 DEF WindowInv, Built
  <1> QED
    BY <1>4, <1>5, <1>6, <1>7 DEF WindowInv

\* A new app is the first of its number to be spoken of.
LEMMA CreateWindows ==
    ASSUME TypeInv, Numbered, WindowInv, NEW h \in Handle, h = next_handle,
           reqs' = reqs \o <<Msg("create", h, None, 0, 0)>>,
           live' = live \union {h}, next_handle' = next_handle + 1, UNCHANGED role
    PROVE  WindowInv'
  <1> DEFINE ms == <<Msg("create", h, None, 0, 0)>>
  <1>1. reqs \in Seq(Request) /\ next_handle \in Nat /\ live \subseteq Handle
    BY ConstantsTyped DEF TypeInv, TypeOK, WireTypeOK, CoreTypeOK, SeatTypeOK
  <1>2. ms \in Seq(Request)
    BY OneRequest, ZeroTyped, ConstantsTyped DEF RequestType, BufferType, SeatType, Handle
  <1>3. /\ \A k \in DOMAIN ms : k = 1 /\ ms[k].type = "create" /\ ms[k].handle = h
        /\ 1 \in DOMAIN ms
    BY DEF Msg
  <1>4. reqs' = reqs \o ms
    OBVIOUS
  <1> HIDE DEF ms
  <1>5. \A g, type : Has(g, type)' <=> Has(g, type) \/ (g = h /\ type = "create")
    <2>1. \A g, type : Says(ms, g, type) <=> (g = h /\ type = "create")
      BY <1>3 DEF Says
    <2> QED
      BY <1>1, <1>2, <1>4, <2>1, SaysConcat DEF Has
  <1>6. \A type : ~Has(h, type)
    BY <1>1 DEF WindowInv, Unmade, Has, Says
  <1>7. role[h] = "none"
    BY <1>1 DEF WindowInv, Unmade
  <1>8. Named(reqs)'
    <2>1. Named(ms)
      BY <1>3 DEF Named
    <2> QED
      BY <1>1, <1>2, <1>4, <2>1, NamedConcat DEF WindowInv
  <1>9. Unmade'
    <2> SUFFICES ASSUME NEW g \in Handle, g >= next_handle + 1
                 PROVE  role[g] = "none" /\ \A i \in DOMAIN reqs' : reqs'[i].handle # g
      BY DEF Unmade
    <2>1. g # h /\ g >= next_handle
      BY <1>1 DEF Handle
    <2>2. role[g] = "none" /\ \A i \in DOMAIN reqs : reqs[i].handle # g
      BY <2>1 DEF WindowInv, Unmade
    <2> QED
      BY <1>1, <1>2, <1>3, <1>4, <2>1, <2>2, ConcatFacts
  <1>10. Ordered(reqs)'
    <2>1. Ordered(ms)
      BY <1>3 DEF Ordered
    <2>2. \A i \in DOMAIN reqs, k \in DOMAIN ms : reqs[i].handle # ms[k].handle
      BY <1>1, <1>3 DEF WindowInv, Unmade
    <2> QED
      BY <1>1, <1>2, <1>4, <2>1, <2>2, OrderedConcat DEF WindowInv
  <1>11. Built'
    BY <1>5, <1>6, <1>7 DEF WindowInv, Built
  <1> QED
    BY <1>8, <1>9, <1>10, <1>11 DEF WindowInv

\* What is said of a window at its end.
Ending(ms, h) ==
    /\ Ordered(ms)
    /\ \A k \in DOMAIN ms :
           /\ ms[k].handle = h
           /\ ms[k].type \in {"destroy_pool", "destroy_toplevel", "destroy_xdg_surface",
                              "destroy_surface"}
    /\ Says(ms, h, "destroy_toplevel") /\ Says(ms, h, "destroy_xdg_surface")

LEMMA CloseWindows ==
    ASSUME TypeInv, Numbered, WindowInv, NEW h \in live, NEW ms \in Seq(Request), Ending(ms, h),
           reqs' = reqs \o ms, live' = live \ {h}, UNCHANGED <<role, next_handle>>
    PROVE  WindowInv'
  <1>1. reqs \in Seq(Request) /\ next_handle \in Nat /\ live \subseteq Handle
    BY ConstantsTyped DEF TypeInv, TypeOK, WireTypeOK, CoreTypeOK, SeatTypeOK
  <1>2. \A g, type : Has(g, type)' <=> Has(g, type) \/ Says(ms, g, type)
    BY <1>1, SaysConcat DEF Has
  <1>3. \A g, type : Says(ms, g, type) => g = h /\ type # "create" /\ type # "frame"
    BY DEF Ending, Says
  <1>4. Named(reqs)'
    <2>1. Named(ms)
      BY <1>1 DEF Ending, Named
    <2> QED
      BY <1>1, <2>1, NamedConcat DEF WindowInv
  <1>5. Unmade'
    <2> SUFFICES ASSUME NEW g \in Handle, g >= next_handle
                 PROVE  role[g] = "none" /\ \A i \in DOMAIN reqs' : reqs'[i].handle # g
      BY DEF Unmade
    <2>1. g # h
      BY <1>1 DEF Numbered, Handle
    <2>2. role[g] = "none" /\ \A i \in DOMAIN reqs : reqs[i].handle # g
      BY DEF WindowInv, Unmade
    <2> QED
      BY <1>1, <2>1, <2>2, ConcatFacts DEF Ending
  <1>6. Ordered(reqs)'
    <2>1. ASSUME NEW i \in DOMAIN reqs, NEW k \in DOMAIN ms,
                 reqs[i].handle = ms[k].handle, reqs[i].handle \in Handle
          PROVE  Follows(reqs[i].type, ms[k].type)
      <3>1. reqs[i].handle = h
        BY <2>1 DEF Ending
      <3>2. reqs[i].type \notin {"destroy_toplevel", "destroy_xdg_surface", "destroy_surface"}
        BY <2>1, <3>1 DEF WindowInv, Built, Has, Says
      <3>3. Rank(reqs[i].type) \in {1, 2} /\ Rank(ms[k].type) \in {2, 3, 4, 5}
        BY <3>2 DEF Ending, Rank
      <3> QED
        BY <3>3 DEF Follows
    <2> QED
      BY <1>1, <2>1, OrderedConcat DEF WindowInv, Ending
  <1>7. Built'
    <2> SUFFICES ASSUME NEW g \in Handle
                 PROVE  /\ g \in live' =>
                               /\ role[g] = "toplevel" \/ Has(g, "create")'
                               /\ ~Has(g, "destroy_toplevel")'
                               /\ ~Has(g, "destroy_xdg_surface")'
                               /\ ~Has(g, "destroy_surface")'
                        /\ Has(g, "create")' => role[g] = "none"
                        /\ Has(g, "frame")' \/ Has(g, "destroy_toplevel")'
                               => role[g] = "toplevel" \/ Has(g, "create")'
                        /\ Has(g, "destroy_xdg_surface")' =>
                               role[g] = "xdg_surface" \/ Has(g, "destroy_toplevel")'
                        /\ Has(g, "destroy_surface")' =>
                               role[g] = "surface" \/ Has(g, "destroy_xdg_surface")'
      BY DEF Built
    <2>1. CASE g # h
      <3>1. \A type : Has(g, type)' <=> Has(g, type)
        BY <1>2, <1>3, <2>1
      <3> QED
        BY <2>1, <3>1 DEF WindowInv, Built
    <2>2. CASE g = h
      <3>1. /\ Has(g, "destroy_toplevel")' /\ Has(g, "destroy_xdg_surface")'
            /\ Has(g, "create")' <=> Has(g, "create")
        BY <1>2, <1>3, <2>2 DEF Ending
      <3> QED
        BY <2>2, <3>1 DEF WindowInv, Built
    <2> QED
      BY <2>1, <2>2
  <1> QED
    BY <1>4, <1>5, <1>6, <1>7 DEF WindowInv

-----------------------------------------------------------------------------
(* The windows, as the compositor takes requests.                           *)

\* The oldest request of a window finds the role it needs.
LEMMA OldestFindsRole ==
    ASSUME TypeInv, WindowInv, reqs # <<>>
    PROVE  LET m == Head(reqs) IN
           /\ m.type = "create" => m.handle \in Handle /\ role[m.handle] = "none"
           /\ m.type = "frame" => m.handle \in Handle /\ role[m.handle] = "toplevel"
           /\ m.type = "destroy_toplevel" => m.handle \in Handle /\ role[m.handle] = "toplevel"
           /\ m.type = "destroy_xdg_surface" =>
                  m.handle \in Handle /\ role[m.handle] = "xdg_surface"
           /\ m.type = "destroy_surface" => m.handle \in Handle /\ role[m.handle] = "surface"
  <1> DEFINE m == Head(reqs)
             h == m.handle
  <1>1. reqs \in Seq(Request)
    BY DEF TypeInv, TypeOK, WireTypeOK
  <1>2. 1 \in DOMAIN reqs /\ reqs[1] = m /\ m \in Request
    BY <1>1, TailFacts
  <1>3. Has(h, m.type)
    BY <1>2 DEF Has, Says
  <1>4. m.type \in WindowType \union {"frame"} => h \in Handle
    BY <1>2, RequestFields DEF WindowInv, Named, BufferType
  <1>5. \A type : h \in Handle /\ Has(h, type) => type = m.type \/ Follows(m.type, type)
    BY <1>1, SaysTail, OrderedTail DEF WindowInv, Has
  <1> HIDE DEF m
  <1>6. m.type \in {"frame", "destroy_toplevel"} /\ h \in Handle => ~Has(h, "create")
    BY <1>5 DEF Follows, Rank
  <1>7. m.type = "destroy_xdg_surface" /\ h \in Handle => ~Has(h, "destroy_toplevel")
    BY <1>5 DEF Follows, Rank
  <1>8. m.type = "destroy_surface" /\ h \in Handle => ~Has(h, "destroy_xdg_surface")
    BY <1>5 DEF Follows, Rank
  <1>9. \A type \in WindowType \union {"frame"} : m.type = type => Has(h, type) /\ h \in Handle
    BY <1>3, <1>4
  <1>10. /\ m.type = "create" => h \in Handle /\ role[h] = "none"
         /\ m.type = "frame" => h \in Handle /\ role[h] = "toplevel"
         /\ m.type = "destroy_toplevel" => h \in Handle /\ role[h] = "toplevel"
         /\ m.type = "destroy_xdg_surface" => h \in Handle /\ role[h] = "xdg_surface"
         /\ m.type = "destroy_surface" => h \in Handle /\ role[h] = "surface"
    BY <1>6, <1>7, <1>8, <1>9 DEF WindowType, WindowInv, Built
  <1> QED
    BY <1>10 DEF m

\* What the role of an app becomes.
RoleAfter(m) ==
    IF m.type = "create" THEN [role EXCEPT ![m.handle] = "toplevel"]
    ELSE IF m.type = "destroy_toplevel" THEN [role EXCEPT ![m.handle] = "xdg_surface"]
    ELSE IF m.type = "destroy_xdg_surface" THEN [role EXCEPT ![m.handle] = "surface"]
    ELSE IF m.type = "destroy_surface" THEN [role EXCEPT ![m.handle] = "none"]
    ELSE role

LEMMA TakeWindows ==
    ASSUME TypeInv, WindowInv, reqs # <<>>, reqs' = Tail(reqs), role' = RoleAfter(Head(reqs)),
           UNCHANGED <<live, next_handle>>
    PROVE  WindowInv'
  <1> DEFINE m == Head(reqs)
  <1>1. reqs \in Seq(Request) /\ role \in [Handle -> {"none", "surface", "xdg_surface", "toplevel"}]
    BY DEF TypeInv, TypeOK, WireTypeOK, WestonTypeOK
  <1>2. /\ 1 \in DOMAIN reqs /\ reqs[1] = m
        /\ \A i \in DOMAIN reqs' : i + 1 \in DOMAIN reqs /\ reqs'[i] = reqs[i + 1]
    BY <1>1, TailFacts
  <1>3. \A g, type : /\ Has(g, type)' => Has(g, type)
                     /\ Has(g, type) => Has(g, type)' \/ (m.type = type /\ m.handle = g)
    BY <1>1, SaysTail DEF Has
  <1>4. /\ Ordered(reqs)'
        /\ \A g \in Handle : \A type : g = m.handle /\ Has(g, type)' => Follows(m.type, type)
    <2>1. /\ Ordered(Tail(reqs))
          /\ m.handle \in Handle => \A type :
                 Says(Tail(reqs), m.handle, type) => Follows(m.type, type)
      BY <1>1, OrderedTail DEF WindowInv
    <2>2. Ordered(reqs)' <=> Ordered(Tail(reqs))
      BY DEF Ordered
    <2>3. \A g, type : Has(g, type)' <=> Says(Tail(reqs), g, type)
      BY DEF Has, Says
    <2> HIDE DEF m
    <2> QED
      BY <2>1, <2>2, <2>3
  <1>5. Named(reqs)'
    BY <1>2 DEF WindowInv, Named
  <1>6. /\ m.type = "create" => m.handle \in Handle /\ role[m.handle] = "none"
        /\ m.type = "frame" => m.handle \in Handle /\ role[m.handle] = "toplevel"
        /\ m.type = "destroy_toplevel" => m.handle \in Handle /\ role[m.handle] = "toplevel"
        /\ m.type = "destroy_xdg_surface" =>
               m.handle \in Handle /\ role[m.handle] = "xdg_surface"
        /\ m.type = "destroy_surface" => m.handle \in Handle /\ role[m.handle] = "surface"
    BY OldestFindsRole
  <1>7. Has(m.handle, m.type)
    BY <1>2 DEF Has, Says
  <1>8. role' = RoleAfter(m)
    OBVIOUS
  <1> HIDE DEF m
  <1>9. \A g \in Handle : g # m.handle => role'[g] = role[g]
    BY <1>1, <1>8 DEF RoleAfter
  <1>10. Unmade'
    <2> SUFFICES ASSUME NEW g \in Handle, g >= next_handle
                 PROVE  role'[g] = "none" /\ \A i \in DOMAIN reqs' : reqs'[i].handle # g
      BY DEF Unmade
    <2>1. role[g] = "none" /\ \A i \in DOMAIN reqs : reqs[i].handle # g
      BY DEF WindowInv, Unmade
    <2> QED
      BY <1>2, <1>9, <2>1
  <1>11. ASSUME NEW g \in Handle, g # m.handle
         PROVE  /\ \A type : Has(g, type)' <=> Has(g, type)
                /\ role'[g] = role[g]
    BY <1>3, <1>9, <1>11
  <1>12. ASSUME NEW g \in Handle, g = m.handle
         PROVE  /\ g \in live =>
                       /\ role'[g] = "toplevel" \/ Has(g, "create")'
                       /\ ~Has(g, "destroy_toplevel")'
                       /\ ~Has(g, "destroy_xdg_surface")'
                       /\ ~Has(g, "destroy_surface")'
                /\ Has(g, "create")' => role'[g] = "none"
                /\ Has(g, "frame")' \/ Has(g, "destroy_toplevel")'
                       => role'[g] = "toplevel" \/ Has(g, "create")'
                /\ Has(g, "destroy_xdg_surface")' =>
                       role'[g] = "xdg_surface" \/ Has(g, "destroy_toplevel")'
                /\ Has(g, "destroy_surface")' =>
                       role'[g] = "surface" \/ Has(g, "destroy_xdg_surface")'
    <2>1. \A type : Has(g, type)' => Follows(m.type, type)
      BY <1>4, <1>12
    <2>2. \A type : /\ Has(g, type)' => Has(g, type)
                    /\ Has(g, type) => Has(g, type)' \/ m.type = type
      BY <1>3, <1>12
    <2>3. /\ g \in live =>
                 /\ role[g] = "toplevel" \/ Has(g, "create")
                 /\ ~Has(g, "destroy_toplevel")
                 /\ ~Has(g, "destroy_xdg_surface")
                 /\ ~Has(g, "destroy_surface")
          /\ Has(g, "create") => role[g] = "none"
          /\ Has(g, "frame") \/ Has(g, "destroy_toplevel")
                 => role[g] = "toplevel" \/ Has(g, "create")
          /\ Has(g, "destroy_xdg_surface") =>
                 role[g] = "xdg_surface" \/ Has(g, "destroy_toplevel")
          /\ Has(g, "destroy_surface") =>
                 role[g] = "surface" \/ Has(g, "destroy_xdg_surface")
      BY DEF WindowInv, Built
    <2>4. CASE m.type = "create"
      <3>1. role'[g] = "toplevel" /\ role[g] = "none" /\ ~Has(g, "create")'
        BY <1>1, <1>6, <1>8, <1>12, <2>1, <2>4 DEF RoleAfter, Follows, Rank
      <3> QED
        BY <2>2, <2>3, <2>4, <3>1
    <2>5. CASE m.type = "destroy_toplevel"
      <3>1. /\ role'[g] = "xdg_surface" /\ role[g] = "toplevel" /\ ~Has(g, "create")'
            /\ ~Has(g, "frame")' /\ ~Has(g, "destroy_toplevel")'
        BY <1>1, <1>6, <1>8, <1>12, <2>1, <2>5 DEF RoleAfter, Follows, Rank
      <3>2. g \notin live
        BY <1>7, <1>12, <2>3, <2>5
      <3> QED
        BY <2>2, <2>3, <2>5, <3>1, <3>2
    <2>6. CASE m.type = "destroy_xdg_surface"
      <3>1. /\ role'[g] = "surface" /\ role[g] = "xdg_surface" /\ ~Has(g, "create")'
            /\ ~Has(g, "frame")' /\ ~Has(g, "destroy_toplevel")' /\ ~Has(g, "destroy_xdg_surface")'
        BY <1>1, <1>6, <1>8, <1>12, <2>1, <2>6 DEF RoleAfter, Follows, Rank
      <3>2. g \notin live
        BY <1>7, <1>12, <2>3, <2>6
      <3> QED
        BY <2>2, <2>3, <2>6, <3>1, <3>2
    <2>7. CASE m.type = "destroy_surface"
      <3>1. /\ ~Has(g, "create")' /\ ~Has(g, "frame")' /\ ~Has(g, "destroy_toplevel")'
            /\ ~Has(g, "destroy_xdg_surface")' /\ ~Has(g, "destroy_surface")'
        BY <2>1, <2>7 DEF Follows, Rank
      <3>2. g \notin live
        BY <1>7, <1>12, <2>3, <2>7
      <3> QED
        BY <3>1, <3>2
    <2>8. CASE Rank(m.type) = 2
      <3>1. role'[g] = role[g]
        BY <1>8, <2>8 DEF RoleAfter, Rank
      <3>2. \A type \in {"create", "destroy_toplevel", "destroy_xdg_surface", "destroy_surface"} :
                Has(g, type)' <=> Has(g, type)
        BY <2>2, <2>8 DEF Rank
      <3> QED
        BY <2>2, <2>3, <3>1, <3>2
    <2> QED
      BY <2>4, <2>5, <2>6, <2>7, <2>8 DEF Rank
  <1>13. Built'
    <2> SUFFICES ASSUME NEW g \in Handle
                 PROVE  /\ g \in live =>
                               /\ role'[g] = "toplevel" \/ Has(g, "create")'
                               /\ ~Has(g, "destroy_toplevel")'
                               /\ ~Has(g, "destroy_xdg_surface")'
                               /\ ~Has(g, "destroy_surface")'
                        /\ Has(g, "create")' => role'[g] = "none"
                        /\ Has(g, "frame")' \/ Has(g, "destroy_toplevel")'
                               => role'[g] = "toplevel" \/ Has(g, "create")'
                        /\ Has(g, "destroy_xdg_surface")' =>
                               role'[g] = "xdg_surface" \/ Has(g, "destroy_toplevel")'
                        /\ Has(g, "destroy_surface")' =>
                               role'[g] = "surface" \/ Has(g, "destroy_xdg_surface")'
      BY DEF Built
    <2> QED
      BY <1>11, <1>12 DEF WindowInv, Built
  <1> QED
    BY <1>4, <1>5, <1>10, <1>13 DEF WindowInv

-----------------------------------------------------------------------------
(* The frames: before each, its pool is made and a configure acknowledged.  *)

SamePool(m, n) == m.handle = n.handle /\ m.pool = n.pool

\* What the compositor will know, once it has taken the requests before the i-th.
Opens(seq, i, m) ==
    \/ <<m.handle, m.pool>> \in pools
    \/ \E j \in DOMAIN seq : j < i /\ seq[j].type = "create_pool" /\ SamePool(seq[j], m)

Greets(seq, i, m) ==
    \/ acked[m.handle] > 0
    \/ \E j \in DOMAIN seq :
           j < i /\ seq[j].type = "ack_configure" /\ seq[j].handle = m.handle

Closes(seq, i, m) ==
    \E j \in DOMAIN seq : j < i /\ seq[j].type = "destroy_pool" /\ SamePool(seq[j], m)

Ready(seq) ==
    \A i \in DOMAIN seq : seq[i].type = "frame" =>
        Opens(seq, i, seq[i]) /\ Greets(seq, i, seq[i]) /\ ~Closes(seq, i, seq[i])

\* The pool an app has is made, and an app that is configured is acknowledged, or will be.
Pooled ==
    \A h \in Handle : pool[h] # None =>
        \/ <<h, pool[h]>> \in pools
        \/ \E j \in DOMAIN reqs : /\ reqs[j].type = "create_pool"
                                  /\ reqs[j].handle = h /\ reqs[j].pool = pool[h]

Greeted == \A h \in configured : acked[h] > 0 \/ Has(h, "ack_configure")

PaintInv == Ready(reqs) /\ Pooled /\ Greeted

\* What comes later changes nothing for the requests before.
LEMMA LaterIsLater ==
    ASSUME NEW seq \in Seq(Request), NEW ms \in Seq(Request), NEW m,
           NEW i \in Nat, i <= Len(seq) + 1
    PROVE  /\ Opens(seq, i, m) => Opens(seq \o ms, i, m)
           /\ Greets(seq, i, m) => Greets(seq \o ms, i, m)
           /\ Closes(seq \o ms, i, m) => Closes(seq, i, m)
  <1>1. /\ \A j \in DOMAIN seq : j \in DOMAIN (seq \o ms) /\ (seq \o ms)[j] = seq[j]
        /\ \A j \in DOMAIN (seq \o ms) : j < i => j \in DOMAIN seq
    OBVIOUS
  <1>2. Opens(seq, i, m) => Opens(seq \o ms, i, m)
    BY <1>1 DEF Opens
  <1>3. Greets(seq, i, m) => Greets(seq \o ms, i, m)
    BY <1>1 DEF Greets
  <1>4. Closes(seq \o ms, i, m) => Closes(seq, i, m)
    BY <1>1 DEF Closes
  <1> QED
    BY <1>2, <1>3, <1>4

LEMMA ReadyConcat ==
    ASSUME NEW seq \in Seq(Request), NEW ms \in Seq(Request), Ready(seq),
           \A k \in DOMAIN ms : ms[k].type = "frame" =>
               /\ Opens(seq \o ms, Len(seq) + k, ms[k])
               /\ Greets(seq \o ms, Len(seq) + k, ms[k])
               /\ ~Closes(seq \o ms, Len(seq) + k, ms[k])
    PROVE  Ready(seq \o ms)
  <1> DEFINE all == seq \o ms
  <1>1. \A j \in DOMAIN seq : j \in Nat /\ j <= Len(seq) + 1
    OBVIOUS
  <1>2. ASSUME NEW j \in DOMAIN seq, seq[j].type = "frame"
        PROVE  /\ Opens(all, j, seq[j]) /\ Greets(all, j, seq[j]) /\ ~Closes(all, j, seq[j])
    BY <1>1, <1>2, LaterIsLater DEF Ready
  <1>3. \A j \in DOMAIN all :
            \/ j \in DOMAIN seq /\ all[j] = seq[j]
            \/ \E k \in DOMAIN ms : j = Len(seq) + k /\ all[j] = ms[k]
    BY ConcatFacts
  <1>4. \A k \in DOMAIN ms : ms[k].type = "frame" =>
            /\ Opens(all, Len(seq) + k, ms[k]) /\ Greets(all, Len(seq) + k, ms[k])
            /\ ~Closes(all, Len(seq) + k, ms[k])
    OBVIOUS
  <1> HIDE DEF all
  <1>5. Ready(all)
    BY <1>2, <1>3, <1>4 DEF Ready
  <1> QED
    BY <1>5 DEF all

\* Requests that show nothing.
LEMMA QuietReady ==
    ASSUME NEW seq \in Seq(Request), NEW ms \in Seq(Request), Ready(seq), Quiet(ms, "frame")
    PROVE  Ready(seq \o ms)
  BY ReadyConcat DEF Quiet

\* One frame more.
LEMMA FrameReady ==
    ASSUME NEW seq \in Seq(Request), NEW m \in Request, Ready(seq),
           Opens(seq, Len(seq) + 1, m), Greets(seq, Len(seq) + 1, m),
           ~Closes(seq, Len(seq) + 1, m)
    PROVE  Ready(seq \o <<m>>)
  <1> DEFINE ms == <<m>>
  <1>1. ms \in Seq(Request) /\ Len(seq) \in Nat /\ \A k \in DOMAIN ms : k = 1 /\ ms[k] = m
    OBVIOUS
  <1> HIDE DEF ms
  <1>2. /\ Opens(seq \o ms, Len(seq) + 1, m) /\ Greets(seq \o ms, Len(seq) + 1, m)
        /\ ~Closes(seq \o ms, Len(seq) + 1, m)
    BY <1>1, LaterIsLater
  <1>3. Ready(seq \o ms)
    BY <1>1, <1>2, ReadyConcat
  <1> QED
    BY <1>3 DEF ms

\* What the compositor knows, after a request.
PoolsAfter(m) ==
    IF m.type = "create_pool" THEN pools \union {<<m.handle, m.pool>>}
    ELSE IF m.type = "destroy_pool" THEN pools \ {<<m.handle, m.pool>>}
    ELSE pools

AckedAfter(m) ==
    IF m.type = "ack_configure" THEN [acked EXCEPT ![m.handle] = m.serial] ELSE acked

\* The oldest frame is shown.
LEMMA OldestIsReady ==
    ASSUME TypeInv, WindowInv, PaintInv, reqs # <<>>, Head(reqs).type = "frame"
    PROVE  FrameAllowed(Head(reqs))
  <1>1. reqs \in Seq(Request)
    BY DEF TypeInv, TypeOK, WireTypeOK
  <1>2. 1 \in DOMAIN reqs /\ reqs[1] = Head(reqs) /\ \A j \in DOMAIN reqs : ~(j < 1)
    BY <1>1
  <1>3. Opens(reqs, 1, Head(reqs)) /\ Greets(reqs, 1, Head(reqs))
    BY <1>2 DEF PaintInv, Ready
  <1>4. <<Head(reqs).handle, Head(reqs).pool>> \in pools /\ acked[Head(reqs).handle] > 0
    BY <1>2, <1>3 DEF Opens, Greets
  <1> QED
    BY <1>4, OldestFindsRole DEF FrameAllowed

LEMMA TakePaint ==
    ASSUME TypeInv, OwnInv, PaintInv, reqs # <<>>, reqs' = Tail(reqs),
           pools' = PoolsAfter(Head(reqs)), acked' = AckedAfter(Head(reqs)),
           Head(reqs).type = "ack_configure" =>
               Head(reqs).handle \in Handle /\ Head(reqs).serial > 0,
           UNCHANGED <<pool, configured>>
    PROVE  PaintInv'
  <1> DEFINE m == Head(reqs)
  <1>1. /\ reqs \in Seq(Request) /\ acked \in [Handle -> 0..MaxSerial] /\ configured \subseteq Handle
        /\ pool \in [Handle -> 0..MaxPools]
    BY DEF TypeInv, TypeOK, WireTypeOK, WestonTypeOK, CoreTypeOK, SeatTypeOK
  <1>2. /\ \A i \in DOMAIN reqs' :
               i \in Nat /\ i > 0 /\ i + 1 \in DOMAIN reqs /\ reqs'[i] = reqs[i + 1]
        /\ \A i \in DOMAIN reqs : i \in Nat /\
               (i = 1 \/ (i - 1 \in DOMAIN reqs' /\ reqs'[i - 1] = reqs[i]))
        /\ 1 \in DOMAIN reqs /\ reqs[1] = m
    BY <1>1, TailFacts
  <1>3. /\ pools' = PoolsAfter(m) /\ acked' = AckedAfter(m)
        /\ m.type = "ack_configure" => m.handle \in Handle /\ m.serial > 0
    OBVIOUS
  <1>4. m.type = "destroy_pool" => Tok(m) \in Of(reqs, "destroy_pool")
    BY <1>2 DEF Of
  <1> HIDE DEF m
  <1>5. \A h \in Handle : /\ acked[h] > 0 => acked'[h] > 0
                          /\ m.type = "ack_configure" /\ m.handle = h => acked'[h] > 0
    BY <1>1, <1>3 DEF AckedAfter
  <1>6. ASSUME NEW i \in DOMAIN reqs', reqs'[i].type = "frame"
        PROVE  /\ Opens(reqs, i, reqs[i])' /\ Greets(reqs, i, reqs[i])'
               /\ ~Closes(reqs, i, reqs[i])'
    <2>0. PICK f : f = reqs[i + 1]
      OBVIOUS
    <2>1. /\ i \in Nat /\ i > 0 /\ i + 1 \in DOMAIN reqs
          /\ reqs'[i] = f /\ reqs[i + 1] = f /\ f.type = "frame"
      BY <1>2, <1>6, <2>0
    <2>2. f.handle \in Handle
      BY <1>1, <2>1, RequestFields DEF BufferType
    <2>3. Opens(reqs, i + 1, f) /\ Greets(reqs, i + 1, f) /\ ~Closes(reqs, i + 1, f)
      BY <2>1 DEF PaintInv, Ready
    <2>4. /\ \A j \in DOMAIN reqs : j < i + 1 =>
                 j = 1 \/ (j - 1 \in DOMAIN reqs' /\ j - 1 < i /\ reqs'[j - 1] = reqs[j])
          /\ \A j \in DOMAIN reqs' : j < i =>
                 j + 1 \in DOMAIN reqs /\ j + 1 < i + 1 /\ reqs'[j] = reqs[j + 1]
          /\ 1 < i + 1
      BY <1>2, <2>1
    <2>5. Opens(reqs, i, f)'
      <3>1. CASE <<f.handle, f.pool>> \in pools
        <4>1. ~(m.type = "destroy_pool" /\ SamePool(m, f))
          BY <1>2, <2>3, <2>4 DEF Closes
        <4>2. <<f.handle, f.pool>> \in pools'
          BY <1>3, <3>1, <4>1 DEF PoolsAfter, SamePool
        <4> QED
          BY <4>2 DEF Opens
      <3>2. ASSUME NEW j \in DOMAIN reqs, j < i + 1, reqs[j].type = "create_pool",
                   SamePool(reqs[j], f)
            PROVE  Opens(reqs, i, f)'
        <4>1. CASE j = 1
          BY <1>2, <1>3, <3>2, <4>1 DEF Opens, PoolsAfter, SamePool
        <4>2. CASE j - 1 \in DOMAIN reqs' /\ j - 1 < i /\ reqs'[j - 1] = reqs[j]
          BY <3>2, <4>2 DEF Opens, SamePool
        <4> QED
          BY <2>4, <3>2, <4>1, <4>2
      <3> QED
        BY <2>3, <3>1, <3>2 DEF Opens
    <2>6. Greets(reqs, i, f)'
      <3>1. CASE acked[f.handle] > 0
        BY <1>5, <2>2, <3>1 DEF Greets
      <3>2. ASSUME NEW j \in DOMAIN reqs, j < i + 1, reqs[j].type = "ack_configure",
                   reqs[j].handle = f.handle
            PROVE  Greets(reqs, i, f)'
        <4>1. CASE j = 1
          BY <1>2, <1>5, <2>2, <3>2, <4>1 DEF Greets
        <4>2. CASE j - 1 \in DOMAIN reqs' /\ j - 1 < i /\ reqs'[j - 1] = reqs[j]
          BY <3>2, <4>2 DEF Greets
        <4> QED
          BY <2>4, <3>2, <4>1, <4>2
      <3> QED
        BY <2>3, <3>1, <3>2 DEF Greets
    <2>7. ~Closes(reqs, i, f)'
      <3> SUFFICES ASSUME NEW j \in DOMAIN reqs', j < i, reqs'[j].type = "destroy_pool",
                          SamePool(reqs'[j], f)
                   PROVE  Closes(reqs, i + 1, f)
        BY <2>3 DEF Closes, SamePool
      <3> QED
        BY <2>4 DEF Closes, SamePool
    <2> QED
      BY <2>1, <2>5, <2>6, <2>7
  <1>7. Ready(reqs)'
    BY <1>6 DEF Ready
  <1>8. Pooled'
    <2> SUFFICES ASSUME NEW h \in Handle, pool[h] # None
                 PROVE  \/ <<h, pool[h]>> \in pools'
                        \/ \E j \in DOMAIN reqs' :
                               /\ reqs'[j].type = "create_pool"
                               /\ reqs'[j].handle = h /\ reqs'[j].pool = pool[h]
      BY DEF Pooled
    <2>1. CASE <<h, pool[h]>> \in pools
      <3>1. ~(m.type = "destroy_pool" /\ m.handle = h /\ m.pool = pool[h])
        BY <1>4 DEF OwnInv, DestroysOld, Tok
      <3> QED
        BY <1>3, <2>1, <3>1 DEF PoolsAfter
    <2>2. ASSUME NEW j \in DOMAIN reqs, reqs[j].type = "create_pool", reqs[j].handle = h,
                 reqs[j].pool = pool[h]
          PROVE  \/ <<h, pool[h]>> \in pools'
                 \/ j - 1 \in DOMAIN reqs' /\ reqs'[j - 1] = reqs[j]
      BY <1>2, <1>3, <2>2 DEF PoolsAfter
    <2> QED
      BY <2>1, <2>2 DEF PaintInv, Pooled
  <1>9. Greeted'
    <2> SUFFICES ASSUME NEW h \in configured PROVE acked'[h] > 0 \/ Has(h, "ack_configure")'
      BY DEF Greeted
    <2>1. h \in Handle
      BY <1>1
    <2>2. CASE acked[h] > 0
      BY <1>5, <2>1, <2>2
    <2>3. ASSUME NEW j \in DOMAIN reqs, reqs[j].type = "ack_configure", reqs[j].handle = h
          PROVE  acked'[h] > 0 \/ Has(h, "ack_configure")'
      <3>1. CASE j = 1
        BY <1>2, <1>5, <2>1, <2>3, <3>1
      <3>2. CASE j - 1 \in DOMAIN reqs' /\ reqs'[j - 1] = reqs[j]
        BY <2>3, <3>2 DEF Has, Says
      <3> QED
        BY <1>2, <3>1, <3>2
    <2> QED
      BY <2>2, <2>3 DEF PaintInv, Greeted, Has, Says
  <1> QED
    BY <1>7, <1>8, <1>9 DEF PaintInv

-----------------------------------------------------------------------------
(* The serials: each configure is acknowledged once, in its turn.           *)

\* The serials of the messages of one type that name one app rise.
Rising(seq, type) ==
    \A i, j \in DOMAIN seq :
        /\ i < j
        /\ seq[i].type = type /\ seq[j].type = type
        /\ seq[i].handle = seq[j].handle
        => seq[i].serial < seq[j].serial

\* Of that type, the one sequence has only what the other has, and rises.
Draws(new, old, type) ==
    /\ Rising(new, type)
    /\ \A i \in DOMAIN new : new[i].type = type => \E j \in DOMAIN old : old[j] = new[i]

AcksDue ==
    \A i \in DOMAIN reqs : reqs[i].type = "ack_configure" =>
        /\ reqs[i].handle \in Handle
        /\ reqs[i].serial \in acked[reqs[i].handle] + 1..sent[reqs[i].handle]

ConfiguresDue ==
    \A i \in DOMAIN evs : evs[i].type = "configure" =>
        /\ evs[i].handle \in Handle
        /\ evs[i].serial \in acked[evs[i].handle] + 1..sent[evs[i].handle]

\* A configure is younger than the acknowledgements on their way.
AcksBefore ==
    \A i \in DOMAIN reqs, j \in DOMAIN evs :
        /\ reqs[i].type = "ack_configure" /\ evs[j].type = "configure"
        /\ reqs[i].handle = evs[j].handle
        => reqs[i].serial < evs[j].serial

\* What is dispatched is dispatched to an app that is there.
Addressed == \A i \in 1..read : evs[i].type = "configure" => evs[i].handle \in live

SerialInv ==
    /\ \A h \in Handle : acked[h] <= sent[h]
    /\ Rising(reqs, "ack_configure") /\ AcksDue
    /\ Rising(evs, "configure") /\ ConfiguresDue
    /\ AcksBefore

LEMMA TailDraws ==
    ASSUME NEW M, NEW seq \in Seq(M), seq # <<>>, NEW type, Rising(seq, type)
    PROVE  /\ Draws(Tail(seq), seq, type)
           /\ \A i \in DOMAIN Tail(seq) :
                  /\ Head(seq).type = type /\ Tail(seq)[i].type = type
                  /\ Head(seq).handle = Tail(seq)[i].handle
                  => Head(seq).serial < Tail(seq)[i].serial
  <1> DEFINE rest == Tail(seq)
  <1>1. /\ \A i \in DOMAIN rest : i \in Nat /\ i + 1 \in DOMAIN seq /\ rest[i] = seq[i + 1] /\ 1 < i + 1
        /\ 1 \in DOMAIN seq /\ seq[1] = Head(seq)
    BY TailFacts
  <1> HIDE DEF rest
  <1>2. \A i, j \in DOMAIN rest : i < j => i + 1 < j + 1
    BY <1>1
  <1>3. Rising(rest, type)
    BY <1>1, <1>2 DEF Rising
  <1>4. \A i \in DOMAIN rest :
            /\ Head(seq).type = type /\ rest[i].type = type
            /\ Head(seq).handle = rest[i].handle
            => Head(seq).serial < rest[i].serial
    BY <1>1 DEF Rising
  <1>5. Draws(rest, seq, type)
    BY <1>1, <1>3 DEF Draws
  <1> QED
    BY <1>4, <1>5 DEF rest

LEMMA QuietDraws ==
    ASSUME NEW M, NEW seq \in Seq(M), NEW ms \in Seq(M), NEW type,
           Rising(seq, type), Quiet(ms, type)
    PROVE  Draws(seq \o ms, seq, type)
  <1> DEFINE all == seq \o ms
  <1>1. \A i \in DOMAIN all : all[i].type = type => i \in DOMAIN seq /\ all[i] = seq[i]
    BY ConcatFacts DEF Quiet
  <1> HIDE DEF all
  <1>2. Draws(all, seq, type)
    BY <1>1 DEF Draws, Rising
  <1> QED
    BY <1>2 DEF all

\* One more, with the highest serial.
LEMMA RisingMore ==
    ASSUME NEW M, NEW seq \in Seq(M), NEW m \in M, NEW type, Rising(seq, type),
           \A i \in DOMAIN seq :
               seq[i].type = type /\ seq[i].handle = m.handle => seq[i].serial < m.serial
    PROVE  Rising(seq \o <<m>>, type)
  <1> DEFINE all == seq \o <<m>>
  <1>1. /\ \A i \in DOMAIN all : (i \in DOMAIN seq /\ all[i] = seq[i]) \/ (i = Len(seq) + 1 /\ all[i] = m)
        /\ \A i \in DOMAIN seq : i < Len(seq) + 1
        /\ ~(Len(seq) + 1 < Len(seq) + 1)
        /\ \A i \in DOMAIN seq : ~(Len(seq) + 1 < i)
    OBVIOUS
  <1> HIDE DEF all
  <1>2. Rising(all, type)
    BY <1>1 DEF Rising
  <1> QED
    BY <1>2 DEF all

LEMMA Joined ==
    ASSUME NEW M, NEW seq \in Seq(M), NEW m \in M
    PROVE  \A i \in DOMAIN (seq \o <<m>>) :
               (i \in DOMAIN seq /\ (seq \o <<m>>)[i] = seq[i]) \/ (seq \o <<m>>)[i] = m
  OBVIOUS

\* Nothing new is said of serials.
LEMMA KeepSerials ==
    ASSUME SerialInv, Draws(reqs', reqs, "ack_configure"), Draws(evs', evs, "configure"),
           UNCHANGED <<acked, sent>>
    PROVE  SerialInv'
  <1>1. AcksDue'
    BY DEF SerialInv, AcksDue, Draws
  <1>2. ConfiguresDue'
    BY DEF SerialInv, ConfiguresDue, Draws
  <1>3. AcksBefore'
    BY DEF SerialInv, AcksBefore, Draws
  <1> QED
    BY <1>1, <1>2, <1>3 DEF SerialInv, Draws

\* A configure is dispatched and answered.
LEMMA AnswerSerials ==
    ASSUME TypeInv, SerialInv, evs # <<>>, evs' = Tail(evs), Head(evs).type = "configure",
           reqs' = reqs \o <<Msg("ack_configure", Head(evs).handle, None, 0, Head(evs).serial)>>,
           UNCHANGED <<acked, sent>>
    PROVE  SerialInv'
  <1> DEFINE e == Head(evs)
             a == Msg("ack_configure", e.handle, None, 0, e.serial)
  <1>1. reqs \in Seq(Request) /\ evs \in Seq(Event)
    BY DEF TypeInv, TypeOK, WireTypeOK
  <1>2. /\ 1 \in DOMAIN evs /\ evs[1] = e /\ e \in Event
        /\ \A i \in DOMAIN evs' : i + 1 \in DOMAIN evs /\ evs'[i] = evs[i + 1]
    BY <1>1, TailFacts
  <1>3. e.handle \in 0..MaxApps /\ e.serial \in 0..MaxSerial
    BY <1>2, EventFields
  <1>4. a \in Request
    BY <1>3, MsgTyped, ZeroTyped DEF RequestType, BufferType, SeatType, Request
  <1>5. a.type = "ack_configure" /\ a.handle = e.handle /\ a.serial = e.serial
    BY DEF Msg
  <1>6. /\ e.handle \in Handle /\ e.serial \in acked[e.handle] + 1..sent[e.handle]
        /\ \A i \in DOMAIN reqs : reqs[i].type = "ack_configure" /\ reqs[i].handle = e.handle
               => reqs[i].serial < e.serial
    BY <1>2 DEF SerialInv, ConfiguresDue, AcksBefore
  <1>7. /\ Draws(evs', evs, "configure")
        /\ \A i \in DOMAIN evs' : evs'[i].type = "configure" /\ evs'[i].handle = e.handle
               => e.serial < evs'[i].serial
    <2>1. /\ Draws(Tail(evs), evs, "configure")
          /\ \A i \in DOMAIN Tail(evs) :
                 Tail(evs)[i].type = "configure" /\ Tail(evs)[i].handle = e.handle
                     => e.serial < Tail(evs)[i].serial
      BY <1>1, TailDraws DEF SerialInv
    <2> QED
      BY <2>1
  <1>8. reqs' = reqs \o <<a>>
    OBVIOUS
  <1> HIDE DEF a, e
  <1>9. Rising(reqs, "ack_configure")'
    <2>1. Rising(reqs \o <<a>>, "ack_configure")
      BY <1>1, <1>4, <1>5, <1>6, RisingMore DEF SerialInv
    <2> QED
      BY <1>8, <2>1 DEF Rising
  <1>10. \A i \in DOMAIN reqs' : (i \in DOMAIN reqs /\ reqs'[i] = reqs[i]) \/ reqs'[i] = a
    BY <1>1, <1>4, <1>8, Joined
  <1>11. AcksDue'
    BY <1>5, <1>6, <1>10 DEF SerialInv, AcksDue
  <1>12. ConfiguresDue'
    BY <1>7 DEF SerialInv, ConfiguresDue, Draws
  <1>13. AcksBefore'
    <2> SUFFICES ASSUME NEW i \in DOMAIN reqs', NEW j \in DOMAIN evs',
                        reqs'[i].type = "ack_configure", evs'[j].type = "configure",
                        reqs'[i].handle = evs'[j].handle
                 PROVE  reqs'[i].serial < evs'[j].serial
      BY DEF AcksBefore
    <2>1. CASE i \in DOMAIN reqs /\ reqs'[i] = reqs[i]
      BY <1>2, <2>1 DEF SerialInv, AcksBefore
    <2>2. CASE reqs'[i] = a
      BY <1>5, <1>7, <2>2
    <2> QED
      BY <1>10, <2>1, <2>2
  <1> QED
    BY <1>7, <1>9, <1>11, <1>12, <1>13 DEF SerialInv, Draws

\* A configure is sent.
LEMMA SendSerials ==
    ASSUME TypeInv, SerialInv, NEW h \in Handle, sent[h] < MaxSerial,
           evs' = evs \o <<Msg("configure", h, None, 0, sent[h] + 1)>>,
           sent' = [sent EXCEPT ![h] = @ + 1], UNCHANGED <<reqs, acked>>
    PROVE  SerialInv'
  <1> DEFINE c == Msg("configure", h, None, 0, sent[h] + 1)
  <1>1. /\ evs \in Seq(Event) /\ MaxSerial \in Nat
        /\ sent \in [Handle -> 0..MaxSerial] /\ acked \in [Handle -> 0..MaxSerial]
    BY ConstantsTyped DEF TypeInv, TypeOK, WireTypeOK, WestonTypeOK
  <1>2. c \in Event
    <2>1. sent[h] + 1 \in 0..MaxSerial /\ h \in 0..MaxApps
      BY <1>1, ConstantsTyped DEF Handle
    <2> QED
      BY <2>1, MsgTyped, ZeroTyped DEF EventType, BufferType, SeatType, Event
  <1>3. c.type = "configure" /\ c.handle = h /\ c.serial = sent[h] + 1
    BY DEF Msg
  <1>4. evs' = evs \o <<c>>
    OBVIOUS
  <1> HIDE DEF c
  <1>5. /\ \A g \in Handle : /\ sent[g] \in Nat /\ acked[g] \in Nat /\ acked[g] <= sent[g]
                             /\ sent'[g] = sent[g] \/ (g = h /\ sent'[g] = sent[g] + 1)
        /\ sent'[h] = sent[h] + 1
    BY <1>1 DEF SerialInv
  <1>6. \A i \in DOMAIN evs' : (i \in DOMAIN evs /\ evs'[i] = evs[i]) \/ evs'[i] = c
    BY <1>1, <1>2, <1>4, Joined
  <1>7. \A i \in DOMAIN evs : evs[i].type = "configure" =>
            /\ evs[i].handle \in Handle
            /\ evs[i].serial \in acked[evs[i].handle] + 1..sent[evs[i].handle]
    BY DEF SerialInv, ConfiguresDue
  <1>8. Rising(evs, "configure")'
    <2>1. \A i \in DOMAIN evs : evs[i].type = "configure" /\ evs[i].handle = c.handle
              => evs[i].serial < c.serial
      BY <1>3, <1>5, <1>7
    <2>2. Rising(evs \o <<c>>, "configure")
      BY <1>1, <1>2, <2>1, RisingMore DEF SerialInv
    <2> QED
      BY <1>4, <2>2 DEF Rising
  <1>9. ConfiguresDue'
    <2> SUFFICES ASSUME NEW i \in DOMAIN evs', evs'[i].type = "configure"
                 PROVE  /\ evs'[i].handle \in Handle
                        /\ evs'[i].serial \in acked[evs'[i].handle] + 1..sent'[evs'[i].handle]
      BY DEF ConfiguresDue
    <2>1. CASE i \in DOMAIN evs /\ evs'[i] = evs[i]
      BY <1>5, <1>7, <2>1
    <2>2. CASE evs'[i] = c
      BY <1>3, <1>5, <2>2
    <2> QED
      BY <1>6, <2>1, <2>2
  <1>10. \A i \in DOMAIN reqs : reqs[i].type = "ack_configure" /\ reqs[i].handle \in Handle =>
             /\ reqs[i].handle \in Handle
        /\ reqs[i].serial \in acked[reqs[i].handle] + 1..sent[reqs[i].handle]
    BY DEF SerialInv, AcksDue
  <1>11. AcksBefore'
    <2> SUFFICES ASSUME NEW i \in DOMAIN reqs, NEW j \in DOMAIN evs',
                        reqs[i].type = "ack_configure", evs'[j].type = "configure",
                        reqs[i].handle = evs'[j].handle
                 PROVE  reqs[i].serial < evs'[j].serial
      BY DEF AcksBefore
    <2>1. CASE j \in DOMAIN evs /\ evs'[j] = evs[j]
      BY <2>1 DEF SerialInv, AcksBefore
    <2>2. CASE evs'[j] = c
      BY <1>3, <1>5, <1>10, <2>2
    <2> QED
      BY <1>6, <2>1, <2>2
  <1>12. AcksDue'
    <2> SUFFICES ASSUME NEW i \in DOMAIN reqs, reqs[i].type = "ack_configure"
                 PROVE  /\ reqs[i].handle \in Handle
                        /\ reqs[i].serial \in acked[reqs[i].handle] + 1..sent'[reqs[i].handle]
      BY DEF AcksDue
    <2> QED
      BY <1>5 DEF SerialInv, AcksDue
  <1>13. (\A g \in Handle : acked[g] <= sent[g])' /\ Rising(reqs, "ack_configure")'
    BY <1>5 DEF SerialInv, Rising
  <1> QED
    BY <1>8, <1>9, <1>11, <1>12, <1>13 DEF SerialInv

\* The oldest acknowledgement is due.
LEMMA OldestIsDue ==
    ASSUME TypeInv, SerialInv, reqs # <<>>, Head(reqs).type = "ack_configure"
    PROVE  /\ Head(reqs).handle \in Handle
           /\ Head(reqs).serial \in acked[Head(reqs).handle] + 1..sent[Head(reqs).handle]
           /\ Head(reqs).serial > 0
  <1>1. /\ reqs \in Seq(Request) /\ acked \in [Handle -> 0..MaxSerial]
        /\ sent \in [Handle -> 0..MaxSerial] /\ MaxSerial \in Nat
    BY ConstantsTyped DEF TypeInv, TypeOK, WireTypeOK, WestonTypeOK
  <1>2. 1 \in DOMAIN reqs /\ reqs[1] = Head(reqs)
    BY <1>1
  <1>3. /\ Head(reqs).handle \in Handle
        /\ Head(reqs).serial \in acked[Head(reqs).handle] + 1..sent[Head(reqs).handle]
    BY <1>2 DEF SerialInv, AcksDue
  <1> QED
    BY <1>1, <1>3

\* The oldest request is taken.
LEMMA TakeSerials ==
    ASSUME TypeInv, SerialInv, reqs # <<>>, reqs' = Tail(reqs), acked' = AckedAfter(Head(reqs)),
           Draws(evs', evs, "configure"), UNCHANGED sent
    PROVE  SerialInv'
  <1> DEFINE m == Head(reqs)
  <1>1. /\ reqs \in Seq(Request) /\ acked \in [Handle -> 0..MaxSerial]
        /\ sent \in [Handle -> 0..MaxSerial] /\ MaxSerial \in Nat
    BY ConstantsTyped DEF TypeInv, TypeOK, WireTypeOK, WestonTypeOK
  <1>2. 1 \in DOMAIN reqs /\ reqs[1] = m
    BY <1>1
  <1>3. /\ Draws(reqs', reqs, "ack_configure")
        /\ m.type = "ack_configure" => \A i \in DOMAIN reqs' :
               reqs'[i].type = "ack_configure" /\ reqs'[i].handle = m.handle
                   => m.serial < reqs'[i].serial
    <2>1. /\ Draws(Tail(reqs), reqs, "ack_configure")
          /\ \A i \in DOMAIN Tail(reqs) :
                 /\ m.type = "ack_configure" /\ Tail(reqs)[i].type = "ack_configure"
                 /\ m.handle = Tail(reqs)[i].handle
                 => m.serial < Tail(reqs)[i].serial
      BY <1>1, TailDraws DEF SerialInv
    <2> QED
      BY <2>1
  <1>4. /\ m.type = "ack_configure" => /\ m.handle \in Handle
                                       /\ m.serial \in acked[m.handle] + 1..sent[m.handle]
        /\ acked' = AckedAfter(m)
    BY OldestIsDue
  <1> HIDE DEF m
  <1>5. CASE m.type # "ack_configure"
    <2>1. UNCHANGED acked
      BY <1>4, <1>5 DEF AckedAfter
    <2> QED
      BY <1>3, <2>1, KeepSerials
  <1>6. CASE m.type = "ack_configure"
    <2>1. \A g \in Handle : /\ g # m.handle => acked'[g] = acked[g]
                            /\ g = m.handle => acked'[g] = m.serial
                            /\ acked[g] \in Nat /\ sent[g] \in Nat
      BY <1>1, <1>4, <1>6 DEF AckedAfter
    <2>2. \A g \in Handle : acked'[g] <= sent[g]
      BY <1>4, <1>6, <2>1 DEF SerialInv
    <2>3. AcksDue'
      <3> SUFFICES ASSUME NEW i \in DOMAIN reqs', reqs'[i].type = "ack_configure"
                   PROVE  /\ reqs'[i].handle \in Handle
                          /\ reqs'[i].serial \in acked'[reqs'[i].handle] + 1..sent[reqs'[i].handle]
        BY DEF AcksDue
      <3>1. /\ reqs'[i].handle \in Handle
            /\ reqs'[i].serial \in acked[reqs'[i].handle] + 1..sent[reqs'[i].handle]
        BY <1>3 DEF Draws, SerialInv, AcksDue
      <3>2. reqs'[i].handle = m.handle => m.serial < reqs'[i].serial
        BY <1>3, <1>6
      <3> QED
        BY <1>4, <1>6, <2>1, <3>1, <3>2
    <2>4. ConfiguresDue'
      <3> SUFFICES ASSUME NEW i \in DOMAIN evs', evs'[i].type = "configure"
                   PROVE  /\ evs'[i].handle \in Handle
                          /\ evs'[i].serial \in acked'[evs'[i].handle] + 1..sent[evs'[i].handle]
        BY DEF ConfiguresDue
      <3>1. PICK j \in DOMAIN evs : evs[j] = evs'[i]
        BY DEF Draws
      <3>2. /\ evs'[i].handle \in Handle
            /\ evs'[i].serial \in acked[evs'[i].handle] + 1..sent[evs'[i].handle]
        BY <3>1 DEF SerialInv, ConfiguresDue
      <3>3. evs'[i].handle = m.handle => m.serial < evs'[i].serial
        BY <1>2, <1>6, <3>1 DEF SerialInv, AcksBefore
      <3> QED
        BY <1>4, <1>6, <2>1, <3>2, <3>3
    <2>5. AcksBefore'
      BY <1>3 DEF SerialInv, AcksBefore, Draws
    <2> QED
      BY <1>3, <2>2, <2>3, <2>4, <2>5 DEF SerialInv, Draws
  <1> QED
    BY <1>5, <1>6

-----------------------------------------------------------------------------
(* The invariant, while the connection is up.                               *)

Polite == WindowInv /\ PaintInv /\ SerialInv /\ Addressed

\* A step of the compositor that takes nothing, or one of the bridge that says nothing.
LEMMA Silent ==
    ASSUME Polite, UNCHANGED <<reqs, live, next_handle, pool, configured,
                               role, pools, acked, sent>>,
           Draws(evs', evs, "configure"), Addressed'
    PROVE  Polite'
  <1>1. WindowInv'
    BY DEF Polite, WindowInv, Named, Unmade, Ordered, Built, Has, Says
  <1>2. PaintInv'
    BY DEF Polite, PaintInv, Ready, Pooled, Greeted, Opens, Greets, Closes, Has, Says
  <1>3. SerialInv'
    <2>1. Draws(reqs', reqs, "ack_configure")
      BY DEF Polite, SerialInv, Draws
    <2> QED
      BY <2>1, KeepSerials DEF Polite
  <1> QED
    BY <1>1, <1>2, <1>3 DEF Polite

LEMMA SameDraws ==
    ASSUME Polite, UNCHANGED <<evs, read, live>>
    PROVE  Draws(evs', evs, "configure") /\ Addressed'
  BY DEF Polite, SerialInv, Draws, Addressed

\* The oldest event is taken from the queue.
LEMMA DropDraws ==
    ASSUME TypeInv, Polite, DropEvent, UNCHANGED live
    PROVE  /\ Draws(evs', evs, "configure") /\ Addressed'
           /\ evs # <<>> /\ NextEvent \in Event
           /\ NextEvent.type = "configure" => NextEvent.handle \in live
  <1>1. evs \in Seq(Event) /\ read \in 1..Len(evs) /\ evs # <<>>
    BY DEF TypeInv, TypeOK, WireTypeOK, DropEvent
  <1>2. evs' = Tail(evs) /\ read' = read - 1
    BY DEF DropEvent
  <1>3. \A i \in 1..read' : i + 1 \in 1..read /\ evs'[i] = evs[i + 1]
    BY <1>1, <1>2
  <1>4. Addressed'
    BY <1>3 DEF Polite, Addressed
  <1>5. 1 \in 1..read /\ NextEvent = evs[1] /\ NextEvent \in Event
    BY <1>1 DEF NextEvent
  <1>6. NextEvent.type = "configure" => NextEvent.handle \in live
    BY <1>5 DEF Polite, Addressed
  <1>7. Draws(evs', evs, "configure")
    BY <1>1, <1>2, TailDraws DEF Polite, SerialInv
  <1> QED
    BY <1>1, <1>4, <1>5, <1>6, <1>7

\* What is in the socket is read.
LEMMA ReadDraws ==
    ASSUME TypeInv, Polite, PumpRead, conn' = "up"
    PROVE  /\ Draws(evs', evs, "configure") /\ Addressed'
           /\ UNCHANGED reqs /\ conn = "up"
  <1> DEFINE kept == {i \in DOMAIN evs : ObjectLives(evs[i])}
  <1>1. /\ evs' = [i \in DOMAIN evs |-> IF i <= read \/ i \in kept THEN evs[i] ELSE Discarded]
        /\ read' = Len(evs)
        /\ UNCHANGED <<reqs, flushed, conn>>
    BY DEF PumpRead, ReadEvents, Lose
  <1>2. evs \in Seq(Event) /\ read \in 0..Len(evs) /\ UNCHANGED live
    BY DEF TypeInv, TypeOK, WireTypeOK, PumpRead, appVars
  <1>3. Discarded.type # "configure"
    BY DEF Discarded, Msg
  <1>4. DOMAIN evs' = DOMAIN evs
    BY <1>1
  <1>5. \A i \in DOMAIN evs :
            evs'[i].type = "configure" => evs'[i] = evs[i] /\ (i <= read \/ i \in kept)
    BY <1>1, <1>3
  <1>6. Draws(evs', evs, "configure")
    BY <1>4, <1>5 DEF Draws, Rising, Polite, SerialInv
  <1>7. Addressed'
    <2> SUFFICES ASSUME NEW i \in 1..read', evs'[i].type = "configure"
                 PROVE  evs[i].handle \in live /\ evs'[i] = evs[i]
      BY <1>2 DEF Addressed
    <2>1. i \in DOMAIN evs /\ evs'[i] = evs[i] /\ (i <= read \/ i \in kept)
      BY <1>1, <1>2, <1>5
    <2>2. CASE i <= read
      BY <1>2, <2>1, <2>2 DEF Polite, Addressed
    <2>3. CASE i \in kept
      BY <2>1, <2>3 DEF ObjectLives
    <2> QED
      BY <2>1, <2>2, <2>3
  <1> QED
    BY <1>1, <1>6, <1>7

-----------------------------------------------------------------------------
(* The bridge speaks.                                                       *)

\* What the compositor knows of the apps.
Knowledge == <<role, pools, acked, sent>>

\* A pool that an app gets is made by the requests that go with it.
MakesPools(ms) ==
    \A h \in Handle : \/ pool'[h] \in {pool[h], None}
                      \/ \E k \in DOMAIN ms : /\ ms[k].type = "create_pool"
                                              /\ ms[k].handle = h /\ ms[k].pool = pool'[h]

LEMMA PooledMore ==
    ASSUME TypeInv, Polite, NEW ms \in Seq(Request), reqs' = reqs \o ms, UNCHANGED pools, MakesPools(ms)
    PROVE  Pooled'
  <1>1. reqs \in Seq(Request)
    BY DEF TypeInv, TypeOK, WireTypeOK
  <1>2. /\ \A i \in DOMAIN reqs : i \in DOMAIN reqs' /\ reqs'[i] = reqs[i]
        /\ \A k \in DOMAIN ms : Len(reqs) + k \in DOMAIN reqs' /\ reqs'[Len(reqs) + k] = ms[k]
    BY <1>1, ConcatFacts
  <1>3. ASSUME NEW h \in Handle, pool'[h] # None
        PROVE  \/ <<h, pool'[h]>> \in pools'
               \/ \E j \in DOMAIN reqs' : /\ reqs'[j].type = "create_pool"
                                          /\ reqs'[j].handle = h /\ reqs'[j].pool = pool'[h]
    <2>1. CASE pool'[h] = pool[h]
      <3>1. \/ <<h, pool[h]>> \in pools
            \/ \E j \in DOMAIN reqs : /\ reqs[j].type = "create_pool"
                                      /\ reqs[j].handle = h /\ reqs[j].pool = pool[h]
        BY <1>3, <2>1 DEF Polite, PaintInv, Pooled
      <3> QED
        BY <1>2, <2>1, <3>1, Zenon
    <2>2. ASSUME NEW k \in DOMAIN ms, ms[k].type = "create_pool", ms[k].handle = h,
                 ms[k].pool = pool'[h]
          PROVE  \E j \in DOMAIN reqs' : /\ reqs'[j].type = "create_pool"
                                         /\ reqs'[j].handle = h /\ reqs'[j].pool = pool'[h]
      <3> DEFINE j == Len(reqs) + k
      <3>1. j \in DOMAIN reqs' /\ reqs'[j] = ms[k]
        BY <1>2
      <3> HIDE DEF j
      <3> QED
        BY <2>2, <3>1
    <2> QED
      BY <1>3, <2>1, <2>2 DEF MakesPools
  <1> QED
    BY <1>3, Zenon DEF Pooled

LEMMA GreetedMore ==
    ASSUME TypeInv, Polite, NEW ms \in Seq(Request), reqs' = reqs \o ms, UNCHANGED acked,
           \A h \in configured' : h \in configured \/ Says(ms, h, "ack_configure")
    PROVE  Greeted'
  <1>1. reqs \in Seq(Request)
    BY DEF TypeInv, TypeOK, WireTypeOK
  <1>2. \A h : Has(h, "ack_configure")' <=>
                   Has(h, "ack_configure") \/ Says(ms, h, "ack_configure")
    BY <1>1, SaysConcat DEF Has
  <1> QED
    BY <1>2 DEF Polite, PaintInv, Greeted

LEMMA ReadyPrime ==
    ASSUME NEW seq, reqs' = seq, Ready(seq), UNCHANGED <<pools, acked>>
    PROVE  Ready(reqs)'
  BY DEF Ready, Opens, Greets, Closes

\* Neither frames nor acknowledgements, when the windows stay in order.
LEMMA QuietPolite ==
    ASSUME TypeInv, Polite, NEW ms \in Seq(Request), reqs' = reqs \o ms, WindowInv',
           Quiet(ms, "frame"), Quiet(ms, "ack_configure"),
           UNCHANGED Knowledge, configured' \subseteq configured,
           \A h \in Handle : pool'[h] \in {pool[h], None},
           Draws(evs', evs, "configure"), Addressed'
    PROVE  Polite'
  <1>1. reqs \in Seq(Request) /\ UNCHANGED <<role, pools, acked, sent>>
    BY DEF TypeInv, TypeOK, WireTypeOK, Knowledge
  <1>2. Ready(reqs)'
    BY <1>1, QuietReady, ReadyPrime DEF Polite, PaintInv
  <1>3. Pooled' /\ Greeted'
    BY <1>1, PooledMore, GreetedMore DEF MakesPools
  <1>4. SerialInv'
    BY <1>1, QuietDraws, KeepSerials DEF Polite, SerialInv
  <1> QED
    BY <1>2, <1>3, <1>4 DEF Polite, PaintInv

\* Requests that are about no app.
Distant(ms) == \A k \in DOMAIN ms : ms[k].handle = None /\ Rank(ms[k].type) = 2
                                    /\ ms[k].type \notin {"frame", "ack_configure"}

LEMMA DistantPolite ==
    ASSUME TypeInv, Numbered, Polite, NEW ms \in Seq(Request), reqs' = reqs \o ms, Distant(ms),
           UNCHANGED Knowledge, UNCHANGED <<live, next_handle, pool, configured>>,
           Draws(evs', evs, "configure"), Addressed'
    PROVE  Polite'
  <1>1. None \notin Handle
    BY ConstantsTyped DEF None, Handle
  <1>2. Tame(ms)
    BY <1>1 DEF Tame, Distant, Named, WindowType, Rank
  <1>3. WindowInv'
    BY <1>2, TameWindows DEF Polite, Knowledge
  <1>4. Quiet(ms, "frame") /\ Quiet(ms, "ack_configure")
    BY DEF Distant, Quiet
  <1> QED
    BY <1>3, <1>4, QuietPolite

LEMMA CapabilitiesDistant ==
    ASSUME TypeInv, OnCapabilities
    PROVE  \E ms \in Seq(Request) : Distant(ms) /\ Emit(ms)
  <1> DEFINE k == GetDevice(NextEvent.serial, "keyboard", "get_keyboard")
             p == GetDevice(NextEvent.serial, "pointer", "get_pointer")
             t == GetDevice(NextEvent.serial, "touch", "get_touch")
  <1>1. k \in Seq(Request) /\ p \in Seq(Request) /\ t \in Seq(Request)
    <2>1. NextEvent.serial \in Seat
      BY DropTyped, EventFields DEF OnCapabilities, TypeInv, TypeOK, SeatType
    <2> QED
      BY <2>1, GetDeviceTyped
  <1>2. Distant(k) /\ Distant(p) /\ Distant(t)
    <2>1. ASSUME NEW s, NEW d, NEW type \in {"get_keyboard", "get_pointer", "get_touch"}
          PROVE  Distant(GetDevice(s, d, type))
      <3>1. /\ Msg(type, None, None, 0, s).type = type
            /\ Msg(type, None, None, 0, s).handle = None
        BY DEF Msg
      <3>2. \A m : m.type = type /\ m.handle = None => Distant(<<m>>)
        BY DEF Distant, Rank
      <3>3. Distant(<<>>)
        BY DEF Distant
      <3> QED
        BY <3>1, <3>2, <3>3 DEF GetDevice
    <2> QED
      BY <2>1
  <1>3. Emit(k \o p \o t)
    BY DEF OnCapabilities
  <1> HIDE DEF k, p, t
  <1>4. \A a, b \in Seq(Request) : Distant(a) /\ Distant(b) => a \o b \in Seq(Request) /\ Distant(a \o b)
    <2> SUFFICES ASSUME NEW a \in Seq(Request), NEW b \in Seq(Request), Distant(a), Distant(b)
                 PROVE  a \o b \in Seq(Request) /\ Distant(a \o b)
      OBVIOUS
    <2>1. a \o b \in Seq(Request)
      OBVIOUS
    <2>2. \A i \in DOMAIN (a \o b) :
              (i \in DOMAIN a /\ (a \o b)[i] = a[i]) \/ \E j \in DOMAIN b : (a \o b)[i] = b[j]
      BY ConcatFacts
    <2>3. Distant(a \o b)
      BY <2>2 DEF Distant
    <2> QED
      BY <2>1, <2>3
  <1>5. k \o p \in Seq(Request) /\ Distant(k \o p)
    BY <1>1, <1>2, <1>4
  <1>6. (k \o p) \o t \in Seq(Request) /\ Distant((k \o p) \o t)
    BY <1>1, <1>2, <1>4, <1>5
  <1> QED
    BY <1>3, <1>6

\* A configure is dispatched to an app that is there, and acknowledged.
LEMMA ConfigurePolite ==
    ASSUME TypeInv, Numbered, Polite, OnConfigure, conn = "up", UNCHANGED Knowledge,
           UNCHANGED next_handle
    PROVE  Polite'
  <1> DEFINE e == NextEvent
             a == Msg("ack_configure", e.handle, None, 0, e.serial)
             ms == <<a>>
  <1>1. /\ DropEvent /\ e.type = "configure" /\ reqs' = reqs \o ms
        /\ UNCHANGED <<live, pool, role, pools, acked, sent>>
        /\ configured' = configured \union ({e.handle} \intersect live)
    BY DEF OnConfigure, Emit, Knowledge
  <1>2. /\ Draws(evs', evs, "configure") /\ Addressed' /\ evs # <<>>
        /\ e \in Event /\ e.handle \in live
    BY <1>1, DropDraws
  <1>3. /\ reqs \in Seq(Request) /\ live \subseteq Handle
    BY DEF TypeInv, TypeOK, WireTypeOK, SeatTypeOK
  <1>4. e.handle \in 0..MaxApps /\ e.serial \in 0..MaxSerial
    BY <1>2, EventFields
  <1>5. ms \in Seq(Request)
    BY <1>4, OneRequest, ZeroTyped DEF RequestType, BufferType, SeatType
  <1>6. \A k \in DOMAIN ms : ms[k].type = "ack_configure" /\ ms[k].handle = e.handle
    BY DEF Msg
  <1>7. SerialInv'
    <2>1. evs' = Tail(evs)
      BY <1>1 DEF DropEvent
    <2> QED
      BY <1>1, <1>2, <2>1, AnswerSerials DEF Polite, NextEvent
  <1>8. 1 \in DOMAIN ms
    OBVIOUS
  <1> HIDE DEF ms, e
  <1>9. WindowInv'
    <2>1. Tame(ms)
      BY <1>2, <1>3, <1>6 DEF Tame, Named, Rank
    <2> QED
      BY <1>1, <1>5, <2>1, TameWindows DEF Polite
  <1>10. Ready(reqs)'
    <2>1. Quiet(ms, "frame")
      BY <1>6 DEF Quiet
    <2> QED
      BY <1>1, <1>3, <1>5, <2>1, QuietReady, ReadyPrime DEF Polite, PaintInv
  <1>11. Pooled' /\ Greeted'
    <2>1. Says(ms, e.handle, "ack_configure")
      BY <1>6, <1>8 DEF Says
    <2> QED
      BY <1>1, <1>5, <2>1, PooledMore, GreetedMore DEF MakesPools
  <1> QED
    BY <1>2, <1>7, <1>9, <1>10, <1>11 DEF Polite, PaintInv

LEMMA DeliverPolite ==
    ASSUME TypeInv, Numbered, Polite, Deliver, conn = "up", UNCHANGED Knowledge
    PROVE  Polite'
  <1> DEFINE e == NextEvent
  <1>1. CASE OnConfigure
    BY <1>1, ConfigurePolite DEF Deliver
  <1>2. CASE ~OnConfigure
    <2>1. DropEvent /\ UNCHANGED <<live, pool, next_handle>>
      BY DeliverFacts DEF Deliver
    <2>2. UNCHANGED configured
      BY <1>2 DEF Deliver, OnAppEvent, OnClose, OnRelease, OnPing, OnDiscarded, appVars
    <2>3. Draws(evs', evs, "configure") /\ Addressed' /\ e \in Event
      BY <2>1, DropDraws
    <2>4. CASE OnCapabilities \/ OnPing \/ OnGlobal
      <3>1. CASE OnCapabilities
        <4>1. PICK ms \in Seq(Request) : Distant(ms) /\ Emit(ms)
          BY <3>1, CapabilitiesDistant
        <4> QED
          BY <2>1, <2>2, <2>3, <4>1, DistantPolite DEF Emit
      <3>2. CASE OnPing
        <4>1. e.serial \in 0..MaxSerial
          BY <2>3, EventFields
        <4>2. <<Msg("pong", None, None, 0, e.serial)>> \in Seq(Request)
          BY <4>1, OneRequest, ZeroTyped DEF RequestType, BufferType, SeatType
        <4>3. Distant(<<Msg("pong", None, None, 0, e.serial)>>)
          BY DEF Distant, Msg, Rank
        <4>4. reqs' = reqs \o <<Msg("pong", None, None, 0, e.serial)>>
          BY <3>2 DEF OnPing, Emit
        <4> QED
          BY <2>1, <2>2, <2>3, <4>2, <4>3, <4>4, DistantPolite
      <3>3. CASE OnGlobal
        <4>0. e.serial \in Seat
          BY <2>3, <3>3, EventFields DEF OnGlobal, SeatType
        <4>1. <<Msg("bind_seat", None, None, 0, e.serial)>> \in Seq(Request)
          BY <4>0, SeatNumber, OneRequest, ZeroTyped DEF RequestType, BufferType, SeatType
        <4>2. Distant(<<Msg("bind_seat", None, None, 0, e.serial)>>)
          BY DEF Distant, Msg, Rank
        <4>3. reqs' = reqs \o <<Msg("bind_seat", None, None, 0, e.serial)>>
          BY <3>3 DEF OnGlobal, Emit
        <4> QED
          BY <2>1, <2>2, <2>3, <4>1, <4>2, <4>3, DistantPolite
      <3> QED
        BY <2>4, <3>1, <3>2, <3>3
    <2>5. CASE ~(OnCapabilities \/ OnPing \/ OnGlobal)
      <3>1. UNCHANGED reqs
        BY <1>2, <2>5 DEF Deliver, OnAppEvent, OnClose, OnRelease, OnDiscarded, OnSeatEvent,
           OnKeyboardEnter, OnKeyboardLeave, OnKeyboardInput, OnPointerEnter, OnPointerLeave,
           OnPointerInput, OnTouchDown, OnTouchInput, OnTouchCancel
      <3> QED
        BY <2>1, <2>2, <2>3, <3>1, Silent DEF Knowledge
    <2> QED
      BY <2>4, <2>5
  <1> QED
    BY <1>1, <1>2

-----------------------------------------------------------------------------
(* The bodies.                                                              *)

LEMMA NoneRead ==
    ASSUME TypeInv, todo # <<>>, Head(todo) # "deliver", UNCHANGED read
    PROVE  Addressed'
  <1>1. read' = 0
    BY ConstantsTyped DEF TypeInv, TypeOK, ScriptInv, QueueDrained, At, WireTypeOK
  <1> QED
    BY <1>1 DEF Addressed

LEMMA EvsStay ==
    ASSUME Polite, UNCHANGED evs
    PROVE  Draws(evs', evs, "configure")
  BY DEF Polite, SerialInv, Draws

\* Requests about the pool of one live app, which keep the windows in order.
LEMMA PoolWindows ==
    ASSUME TypeInv, Numbered, Polite, NEW h \in live, NEW ms \in Seq(Request), reqs' = reqs \o ms,
           \A k \in DOMAIN ms : /\ ms[k].handle = h
                                /\ ms[k].type \in {"create_pool", "frame", "destroy_pool"},
           UNCHANGED <<role, live, next_handle>>
    PROVE  WindowInv'
  <1>1. Tame(ms)
    BY DEF Tame, Named, WindowType, Rank
  <1> QED
    BY <1>1, TameWindows DEF Polite

LEMMA BridgeAppPolite ==
    ASSUME TypeInv, Numbered, Polite, BridgeAppBody, conn = "up", UNCHANGED Knowledge
    PROVE  Polite'
  <1> DEFINE ms == <<Msg("create", next_handle, None, 0, 0)>>
  <1>1. todo # <<>> /\ Head(todo) = "bridge_app" /\ next_handle \in Handle
    <2>1. todo \in Seq(Step) /\ todo # <<>> /\ Head(todo) = "bridge_app"
      BY DEF BridgeAppBody, At, TypeInv, TypeOK, CoreTypeOK
    <2>2. 1 \in DOMAIN todo /\ todo[1] = "bridge_app"
      BY <2>1
    <2> QED
      BY <2>1, <2>2, ConstantsTyped
         DEF TypeInv, TypeOK, CoreTypeOK, ScriptInv, RoomLeft, Handle
  <1>2. /\ reqs' = reqs \o ms /\ live' = live \union {next_handle}
        /\ next_handle' = next_handle + 1
        /\ UNCHANGED <<evs, read, configured, pool, role, pools, acked, sent>>
    BY DEF BridgeAppBody, Emit, FreshHandle, Knowledge
  <1>3. ms \in Seq(Request)
    BY <1>1, OneRequest, ZeroTyped, ConstantsTyped DEF RequestType, BufferType, SeatType, Handle
  <1>4. WindowInv'
    BY <1>1, <1>2, CreateWindows DEF Polite
  <1>5. Quiet(ms, "frame") /\ Quiet(ms, "ack_configure")
    BY DEF Quiet, Msg
  <1>6. Addressed' /\ Draws(evs', evs, "configure")
    BY <1>1, <1>2, NoneRead, EvsStay
  <1> HIDE DEF ms
  <1> QED
    BY <1>2, <1>3, <1>4, <1>5, <1>6, QuietPolite

LEMMA PushNoPoolPolite ==
    ASSUME TypeInv, Numbered, Polite, PushNoPool, conn = "up", UNCHANGED Knowledge
    PROVE  Polite'
  <1> DEFINE h == call.handle
             ms == DestroySlots(h)
  <1>1. h \in Handle /\ h \in live /\ todo # <<>> /\ Head(todo) = "push_frame"
    BY AcceptedCall DEF PushNoPool, TypeInv, TypeOK, LoopInv
  <1>2. /\ reqs' = reqs \o ms /\ pool' = [pool EXCEPT ![h] = None]
        /\ UNCHANGED <<evs, read, live, next_handle, configured, role, pools, acked, sent>>
    BY DEF PushNoPool, Emit, Knowledge
  <1>3. ms \in Seq(Request)
    BY <1>1, DestroySlotsTyped DEF TypeInv, TypeOK
  <1>4. \A k \in DOMAIN ms : ms[k].handle = h /\ ms[k].type = "destroy_pool"
    BY DestroySlotsNames
  <1> HIDE DEF ms, h
  <1>5. WindowInv'
    BY <1>1, <1>2, <1>3, <1>4, PoolWindows
  <1>6. Quiet(ms, "frame") /\ Quiet(ms, "ack_configure")
    BY <1>4 DEF Quiet
  <1>7. Addressed' /\ Draws(evs', evs, "configure")
    BY <1>1, <1>2, NoneRead, EvsStay
  <1>8. \A g \in Handle : pool'[g] \in {pool[g], None}
    BY <1>2, Numbers
  <1> QED
    BY <1>2, <1>3, <1>5, <1>6, <1>7, <1>8, QuietPolite

\* Requests that leave the pool of an app known, with frames behind what they need.
LEMMA PoolPolite ==
    ASSUME TypeInv, Numbered, Polite, NEW h \in live,
           NEW ms \in Seq(Request), reqs' = reqs \o ms, Ready(reqs)',
           \A k \in DOMAIN ms : /\ ms[k].handle = h
                                /\ ms[k].type \in {"create_pool", "frame", "destroy_pool"},
           MakesPools(ms),
           UNCHANGED <<evs, live, next_handle, configured>>, UNCHANGED Knowledge, Addressed'
    PROVE  Polite'
  <1>1. reqs \in Seq(Request) /\ UNCHANGED <<role, pools, acked, sent>>
    BY DEF TypeInv, TypeOK, WireTypeOK, Knowledge
  <1>2. WindowInv'
    BY <1>1, PoolWindows
  <1>3. Greeted' /\ Pooled'
    BY <1>1, GreetedMore, PooledMore
  <1>4. SerialInv'
    <2>1. Quiet(ms, "ack_configure")
      BY DEF Quiet
    <2> QED
      BY <1>1, <2>1, QuietDraws, EvsStay, KeepSerials DEF Polite, SerialInv
  <1> QED
    BY <1>2, <1>3, <1>4 DEF Polite, PaintInv

LEMMA GreetsAtEnd ==
    ASSUME NEW seq \in Seq(Request), NEW f,
           acked[f.handle] > 0 \/ Says(seq, f.handle, "ack_configure")
    PROVE  Greets(seq, Len(seq) + 1, f)
  <1>1. \A j \in DOMAIN seq : j < Len(seq) + 1
    OBVIOUS
  <1> QED
    BY <1>1 DEF Greets, Says

LEMMA Regroup ==
    \A a, b \in Seq(Request), c, d \in Request :
        /\ a \o (b \o <<c, d>>) = (a \o (b \o <<c>>)) \o <<d>>
        /\ b \o <<c, d>> \in Seq(Request) /\ b \o <<c>> \in Seq(Request)
  <1> TAKE a, b \in Seq(Request), c, d \in Request
  <1>1. <<c>> \in Seq(Request) /\ <<d>> \in Seq(Request)
    OBVIOUS
  <1>2. b \o <<c, d>> = (b \o <<c>>) \o <<d>>
    <2>1. b \o (<<c>> \o <<d>>) = (b \o <<c>>) \o <<d>>
      BY <1>1, ConcatAssociative
    <2> QED
      BY <2>1, Pair
  <1> DEFINE e == <<c>>
             g == <<d>>
             be == b \o e
  <1>3. be \in Seq(Request) /\ e \in Seq(Request) /\ g \in Seq(Request)
    BY <1>1, ConcatProperties
  <1>4. b \o <<c, d>> = be \o g
    BY <1>2, Zenon
  <1> HIDE DEF be, e, g
  <1>5. be \o g \in Seq(Request)
    BY <1>3, ConcatProperties
  <1>6. a \o (be \o g) = (a \o be) \o g
    <2>1. \A x, y, z \in Seq(Request) : (x \o y) \o z = x \o (y \o z)
      BY ConcatAssociative
    <2> QED
      BY <1>3, <2>1, Zenon
  <1> QED
    BY <1>3, <1>4, <1>5, <1>6, Zenon DEF be, e, g

LEMMA PushIntoPoolPolite ==
    ASSUME TypeInv, OwnInv, Numbered, Polite, PushIntoPool, conn = "up", UNCHANGED Knowledge
    PROVE  Polite'
  <1> DEFINE h == call.handle
             p == pool[h]
  <1>1. /\ h \in Handle /\ h \in live /\ h \in configured /\ todo # <<>>
        /\ Head(todo) = "push_frame" /\ p # None /\ p \in Pool
    <2>1. h \in Handle /\ h \in live /\ todo # <<>> /\ Head(todo) = "push_frame"
      BY AcceptedCall DEF PushIntoPool, TypeInv, TypeOK, LoopInv
    <2>2. p # None /\ h \in configured
      BY DEF PushIntoPool, PushAccepted, NeedsNew
    <2> QED
      BY <2>1, <2>2, ConstantsTyped DEF TypeInv, TypeOK, CoreTypeOK, Pool, None
  <1>2. PICK s \in Slot : Emit(<<Frame(h, p, s)>>)
    BY DEF PushIntoPool
  <1> DEFINE f == Frame(h, p, s)
  <1>3. /\ UNCHANGED <<evs, read, live, next_handle, configured, pool, pools, acked>>
        /\ reqs' = reqs \o <<f>> /\ reqs \in Seq(Request)
    BY <1>2 DEF PushIntoPool, Emit, TypeInv, TypeOK, WireTypeOK, Knowledge
  <1>4. f.type = "frame" /\ f.handle = h /\ f.pool = p
    BY DEF Frame, Msg
  <1>5. f \in Request /\ <<f>> \in Seq(Request)
    <2>1. h \in 0..MaxApps /\ p \in 0..MaxPools
      BY <1>1, ConstantsTyped DEF Handle, Pool
    <2>2. f \in Request
      BY <1>1, <2>1, MsgTyped, ZeroTyped DEF Frame, RequestType, SeatType, Request
    <2> QED
      BY <2>2
  <1> HIDE DEF f
  <1>6. Opens(reqs, Len(reqs) + 1, f)
    <2>1. \A j \in DOMAIN reqs : j < Len(reqs) + 1
      BY <1>3
    <2> QED
      BY <1>1, <1>4, <2>1 DEF Opens, Polite, PaintInv, Pooled, SamePool
  <1>7. ~Closes(reqs, Len(reqs) + 1, f)
    <2> SUFFICES ASSUME NEW i \in DOMAIN reqs, reqs[i].type = "destroy_pool", SamePool(reqs[i], f)
                 PROVE  FALSE
      BY DEF Closes
    <2>1. Tok(reqs[i]) \in Of(reqs, "destroy_pool")
      BY DEF Of
    <2>2. Tok(reqs[i]).handle = h /\ Tok(reqs[i]).pool = p
      BY <1>4 DEF Tok, SamePool
    <2> QED
      BY <2>1, <2>2 DEF OwnInv, DestroysOld
  <1>8. Addressed'
    BY <1>1, <1>3, NoneRead
  <1>9. Ready(reqs)'
    <2>1. Greets(reqs, Len(reqs) + 1, f)
      BY <1>1, <1>3, <1>4, GreetsAtEnd DEF Polite, PaintInv, Greeted, Has
    <2>2. Ready(reqs \o <<f>>)
      BY <1>3, <1>5, <1>6, <1>7, <2>1, FrameReady DEF Polite, PaintInv
    <2> QED
      BY <1>3, <2>2, ReadyPrime
  <1>10. \A k \in DOMAIN <<f>> : <<f>>[k] = f
    OBVIOUS
  <1> QED
    BY <1>1, <1>3, <1>4, <1>5, <1>8, <1>9, <1>10, PoolPolite DEF MakesPools

LEMMA PushIntoNewPoolPolite ==
    ASSUME TypeInv, TokenInv, OwnInv, Numbered, Polite, PushIntoNewPool, conn = "up",
           UNCHANGED Knowledge
    PROVE  Polite'
  <1> DEFINE h == call.handle
             p == pools_made + 1
             f == Frame(h, p, 0)
             c == Msg("create_pool", h, p, 0, 0)
             ds == DestroySlots(h)
             ms == ds \o <<c>>
             seq == reqs \o ms
             said == ds \o <<c, f>>
  <1>1. /\ h \in Handle /\ h \in live /\ h \in configured /\ todo # <<>>
        /\ Head(todo) = "push_frame" /\ pools_made < MaxPools /\ pools_made \in Nat
    BY AcceptedCall, ConstantsTyped
       DEF PushIntoNewPool, PushAccepted, TypeInv, TypeOK, CoreTypeOK, LoopInv
  <1>2. p \in Pool /\ 0 \in Slot /\ h \in 0..MaxApps /\ p \in 0..MaxPools
    BY <1>1, ZeroTyped, ConstantsTyped DEF Pool, Handle
  <1>3. reqs \in Seq(Request) /\ ds \in Seq(Request) /\ c \in Request /\ f \in Request
    <2>1. c \in Request /\ f \in Request
      BY <1>1, <1>2, MsgTyped, ZeroTyped DEF Frame, RequestType, SeatType, Request
    <2> QED
      BY <1>1, <2>1, DestroySlotsTyped DEF TypeInv, TypeOK, WireTypeOK
  <1>4. /\ \A k \in DOMAIN ds : ds[k].type = "destroy_pool" /\ ds[k].handle = h /\ ds[k].pool # p
        /\ c.type = "create_pool" /\ c.handle = h /\ c.pool = p
        /\ f.type = "frame" /\ f.handle = h /\ f.pool = p
    <2>1. pool[h] <= pools_made /\ pool[h] \in Nat
      BY <1>1, Numbers DEF TokenInv, PoolsMade
    <2>2. pool[h] # p
      BY <1>1, <2>1
    <2> QED
      BY <2>2, DestroySlotsNames DEF Msg, Frame
  <1>5. /\ UNCHANGED <<evs, read, live, next_handle, configured, pools, acked>>
        /\ pool' = [pool EXCEPT ![h] = p]
        /\ reqs' = reqs \o said
    BY DEF PushIntoNewPool, Emit, Knowledge
  <1> HIDE DEF h, f, c, ds
  <1>6. reqs' = seq \o <<f>> /\ ms \in Seq(Request) /\ said \in Seq(Request)
    <2>1. /\ reqs \o (ds \o <<c, f>>) = (reqs \o (ds \o <<c>>)) \o <<f>>
          /\ ds \o <<c, f>> \in Seq(Request) /\ ds \o <<c>> \in Seq(Request)
      BY <1>3, Regroup, Zenon
    <2> QED
      BY <1>5, <2>1, Zenon
  <1>7. /\ \A k \in DOMAIN ms : (k \in DOMAIN ds /\ ms[k] = ds[k]) \/ ms[k] = c
        /\ Len(ds) + 1 \in DOMAIN ms /\ ms[Len(ds) + 1] = c
        /\ \A k \in DOMAIN said : (k \in DOMAIN ds /\ said[k] = ds[k]) \/ said[k] \in {c, f}
        /\ Len(ds) + 1 \in DOMAIN said /\ said[Len(ds) + 1] = c
    BY <1>3
  <1> HIDE DEF ms, said
  <1>8. seq \in Seq(Request)
    BY <1>3, <1>6
  <1>9. /\ \A j \in DOMAIN seq : (j \in DOMAIN reqs /\ seq[j] = reqs[j])
                                 \/ \E k \in DOMAIN ms : seq[j] = ms[k]
        /\ \A k \in DOMAIN ms : Len(reqs) + k \in DOMAIN seq /\ seq[Len(reqs) + k] = ms[k]
        /\ \A j \in DOMAIN seq : j < Len(seq) + 1
    <2>1. \A j \in DOMAIN seq : j < Len(seq) + 1
      BY <1>8
    <2>2. \A j \in DOMAIN seq : (j \in DOMAIN reqs /\ seq[j] = reqs[j])
                                 \/ \E k \in DOMAIN ms : seq[j] = ms[k]
      BY <1>3, <1>6, ConcatFacts
    <2>3. \A k \in DOMAIN ms : Len(reqs) + k \in DOMAIN seq /\ seq[Len(reqs) + k] = ms[k]
      BY <1>3, <1>6, ConcatFacts
    <2> QED
      BY <2>1, <2>2, <2>3, Zenon
  <1>10. Quiet(ms, "frame")
    BY <1>4, <1>7 DEF Quiet
  <1>11. Ready(seq)
    BY <1>3, <1>6, <1>10, QuietReady DEF Polite, PaintInv
  <1>12. Greets(seq, Len(seq) + 1, f)
    <2>1. acked[h] > 0 \/ Says(reqs, h, "ack_configure")
      BY <1>1 DEF Polite, PaintInv, Greeted, Has
    <2>2. Says(reqs, h, "ack_configure") => Says(seq, h, "ack_configure")
      BY <1>3, <1>6, SaysConcat
    <2> HIDE DEF seq
    <2> QED
      BY <1>4, <1>8, <2>1, <2>2, GreetsAtEnd
  <1> HIDE DEF seq
  <1>13. PICK j \in DOMAIN seq : seq[j] = c /\ j < Len(seq) + 1
    BY <1>7, <1>9
  <1>14. Opens(seq, Len(seq) + 1, f)
    BY <1>4, <1>13 DEF Opens, SamePool
  <1>15. ~Closes(seq, Len(seq) + 1, f)
    <2> SUFFICES ASSUME NEW i \in DOMAIN seq, seq[i].type = "destroy_pool", SamePool(seq[i], f)
                 PROVE  FALSE
      BY DEF Closes
    <2>1. CASE i \in DOMAIN reqs /\ seq[i] = reqs[i]
      <3>1. Tok(reqs[i]) \in Of(reqs, "destroy_pool") /\ Tok(reqs[i]).pool = reqs[i].pool
        BY <2>1 DEF Of, Tok
      <3>2. reqs[i].pool <= pools_made
        BY <3>1 DEF OwnInv, DestroysOld
      <3> QED
        BY <1>1, <1>4, <2>1, <3>2 DEF SamePool
    <2>2. ASSUME NEW k \in DOMAIN ms, seq[i] = ms[k]
          PROVE  FALSE
      BY <1>4, <1>7, <2>2 DEF SamePool
    <2> QED
      BY <1>9, <2>1, <2>2
  <1>16. Ready(reqs)'
    <2>1. Ready(seq \o <<f>>)
      BY <1>3, <1>8, <1>11, <1>12, <1>14, <1>15, FrameReady
    <2> QED
      BY <1>5, <1>6, <2>1, ReadyPrime
  <1>17. \A k \in DOMAIN said : /\ said[k].handle = h
                                /\ said[k].type \in {"create_pool", "frame", "destroy_pool"}
    BY <1>4, <1>7
  <1>18. MakesPools(said)
    <2>1. \A g \in Handle : pool'[g] = pool[g] \/ (g = h /\ pool'[g] = p)
      BY <1>5, Numbers
    <2>2. \E k \in DOMAIN said : said[k] = c
      BY <1>7
    <2> HIDE DEF p
    <2> QED
      BY <1>4, <2>1, <2>2 DEF MakesPools
  <1>19. Addressed'
    BY <1>1, <1>5, NoneRead
  <1> HIDE DEF p
  <1>20. /\ said \in Seq(Request) /\ reqs' = reqs \o said
         /\ UNCHANGED <<evs, live, next_handle, configured>>
    BY <1>5, <1>6
  <1> QED
    BY <1>1, <1>16, <1>17, <1>18, <1>19, <1>20, PoolPolite

LEMMA DestroyEntryEnds ==
    ASSUME TypeInv, NEW h \in Handle
    PROVE  /\ DestroyEntry(h) \in Seq(Request) /\ Ending(DestroyEntry(h), h)
           /\ Quiet(DestroyEntry(h), "frame") /\ Quiet(DestroyEntry(h), "ack_configure")
  <1> DEFINE ds == DestroySlots(h)
             w == <<Msg("destroy_toplevel", h, None, 0, 0),
                    Msg("destroy_xdg_surface", h, None, 0, 0),
                    Msg("destroy_surface", h, None, 0, 0)>>
             ms == ds \o w
  <1>1. ds \in Seq(Request) /\ \A k \in DOMAIN ds : ds[k].handle = h /\ ds[k].type = "destroy_pool"
    BY DestroySlotsTyped, DestroySlotsNames DEF TypeInv, TypeOK
  <1>2. w \in Seq(Request)
    <2>1. \A type \in {"destroy_toplevel", "destroy_xdg_surface", "destroy_surface"} :
              Msg(type, h, None, 0, 0) \in Request
      <3>1. h \in 0..MaxApps
        BY ConstantsTyped DEF Handle
      <3>2. ASSUME NEW type \in RequestType \ (BufferType \union SeatType)
            PROVE  Msg(type, h, None, 0, 0) \in Request
        BY <3>1, <3>2, MsgTyped, ZeroTyped DEF Request
      <3> QED
        BY <3>2 DEF RequestType, BufferType, SeatType
    <2> QED
      BY <2>1
  <1>3. /\ DOMAIN w = 1..3 /\ \A k \in 1..3 : w[k].handle = h
        /\ w[1].type = "destroy_toplevel" /\ w[2].type = "destroy_xdg_surface"
        /\ w[3].type = "destroy_surface"
    BY DEF Msg
  <1> HIDE DEF ds, w
  <1>4. Ordered(ms)
    <2>1. Ordered(ds)
      BY <1>1 DEF Ordered, Follows, Rank
    <2>2. Ordered(w)
      <3>1. \A i, j \in 1..3 : i < j => (i = 1 /\ j \in {2, 3}) \/ (i = 2 /\ j = 3)
        OBVIOUS
      <3> QED
        BY <1>3, <3>1 DEF Ordered, Follows, Rank
    <2>3. \A i \in DOMAIN ds, k \in DOMAIN w : Follows(ds[i].type, w[k].type)
      BY <1>1, <1>3 DEF Follows, Rank
    <2> QED
      BY <1>1, <1>2, <2>1, <2>2, <2>3, OrderedConcat
  <1>5. /\ ms \in Seq(Request)
        /\ \A k \in DOMAIN ms : (\E i \in DOMAIN ds : ms[k] = ds[i]) \/ \E i \in DOMAIN w : ms[k] = w[i]
    <2>1. ms \in Seq(Request)
      BY <1>1, <1>2, ConcatProperties
    <2>2. \A k \in DOMAIN ms :
              \/ k \in DOMAIN ds /\ ms[k] = ds[k]
              \/ \E i \in DOMAIN w : k = Len(ds) + i /\ ms[k] = w[i]
      BY <1>1, <1>2, ConcatFacts
    <2> QED
      BY <2>1, <2>2
  <1>6. Says(ms, h, "destroy_toplevel") /\ Says(ms, h, "destroy_xdg_surface")
    <2>1. Says(w, h, "destroy_toplevel") /\ Says(w, h, "destroy_xdg_surface")
      BY <1>3 DEF Says
    <2> QED
      BY <1>1, <1>2, <2>1, SaysConcat
  <1> HIDE DEF ms
  <1>7. \A k \in DOMAIN ms :
            /\ ms[k].handle = h
            /\ ms[k].type \in {"destroy_pool", "destroy_toplevel", "destroy_xdg_surface",
                               "destroy_surface"}
    BY <1>1, <1>3, <1>5
  <1>8. Quiet(ms, "frame") /\ Quiet(ms, "ack_configure")
    BY <1>7 DEF Quiet
  <1>9. ms \in Seq(Request) /\ Ending(ms, h)
    BY <1>4, <1>5, <1>6, <1>7 DEF Ending
  <1>10. ms = DestroyEntry(h)
    BY DEF ms, ds, w, DestroyEntry
  <1> QED
    BY <1>8, <1>9, <1>10

LEMMA CloseAppPolite ==
    ASSUME TypeInv, Numbered, Polite, CloseAppBody, conn = "up", UNCHANGED Knowledge
    PROVE  Polite'
  <1> DEFINE h == call.handle
             ms == DestroyEntry(h)
  <1>1. h \in Handle /\ h \in live /\ todo # <<>> /\ Head(todo) = "close_app"
    BY DEF CloseAppBody, At, TypeInv, TypeOK, SeatTypeOK
  <1>2. /\ reqs' = reqs \o ms /\ pool' = [pool EXCEPT ![h] = None]
        /\ live' = live \ {h} /\ configured' \subseteq configured
        /\ UNCHANGED <<evs, read, next_handle, role, pools, acked, sent>>
    BY DEF CloseAppBody, Emit, Knowledge
  <1>3. /\ ms \in Seq(Request) /\ Ending(ms, h)
        /\ Quiet(ms, "frame") /\ Quiet(ms, "ack_configure")
    BY <1>1, DestroyEntryEnds
  <1> HIDE DEF ms, h
  <1>4. WindowInv'
    BY <1>1, <1>2, <1>3, CloseWindows DEF Polite
  <1>5. Addressed' /\ Draws(evs', evs, "configure")
    BY <1>1, <1>2, NoneRead, EvsStay
  <1>6. \A g \in Handle : pool'[g] \in {pool[g], None}
    BY <1>2, Numbers
  <1> QED
    BY <1>2, <1>3, <1>4, <1>5, <1>6, QuietPolite

LEMMA CoreStepPolite ==
    ASSUME TypeInv, TokenInv, OwnInv, Numbered, Polite, CoreStep, conn = "up", conn' = "up",
           UNCHANGED Knowledge
    PROVE  Polite'
  <1>1. CASE PumpFlush \/ PumpFails \/ PumpDone \/ BridgeAppReturn \/ PushRejected \/ PushSkipped
             \/ PollInputBody \/ CloseRequestedBody \/ CloseUnknownBody
    <2>1. UNCHANGED <<reqs, evs, read, live, next_handle, pool, configured>>
      BY <1>1 DEF PumpFlush, PumpFails, PumpDone, FlushOk, FlushErr, Lose, BridgeAppReturn,
                  PushRejected, PushSkipped, PollInputBody, CloseRequestedBody,
                  CloseUnknownBody, wireVars, appVars
    <2> QED
      BY <2>1, SameDraws, Silent DEF Knowledge
  <1>2. CASE PumpRead
    <2>1. UNCHANGED <<live, next_handle, pool, configured>>
      BY <1>2 DEF PumpRead, appVars
    <2> QED
      BY <1>2, <2>1, ReadDraws, Silent DEF Knowledge
  <1> QED
    BY <1>1, <1>2, DeliverPolite, BridgeAppPolite, PushNoPoolPolite, PushIntoNewPoolPolite,
       PushIntoPoolPolite, CloseAppPolite
       DEF CoreStep

-----------------------------------------------------------------------------
(* The compositor.                                                          *)

\* Whatever the oldest request is, the compositor takes it for what it is.
LEMMA AcceptIs ==
    ASSUME TypeInv, Polite, Accept
    PROVE  /\ reqs # <<>> /\ reqs' = Tail(reqs)
           /\ role' = RoleAfter(Head(reqs)) /\ pools' = PoolsAfter(Head(reqs))
           /\ acked' = AckedAfter(Head(reqs))
           /\ UNCHANGED <<sent, violated, conn, read>>
           /\ \/ UNCHANGED evs
              \/ \E s \in Seat : evs' = evs \o <<Msg("capabilities", None, None, 0, s)>>
  <1>1. /\ reqs # <<>> /\ reqs' = Tail(reqs) /\ conn = "up"
    BY DEF Accept, TakeRequest, TypeInv, TypeOK, WireTypeOK
  <1>2. /\ Head(reqs).type = "frame" => FrameAllowed(Head(reqs))
        /\ Head(reqs).type = "ack_configure" =>
               Head(reqs).serial \in acked[Head(reqs).handle] + 1..sent[Head(reqs).handle]
        /\ Head(reqs).type = "destroy_toplevel" => role[Head(reqs).handle] = "toplevel"
        /\ Head(reqs).type = "destroy_xdg_surface" => role[Head(reqs).handle] = "xdg_surface"
        /\ Head(reqs).type = "destroy_surface" => role[Head(reqs).handle] = "surface"
    BY <1>1, OldestIsReady, OldestIsDue, OldestFindsRole DEF Polite
  <1> USE DEF Oldest
  <1>3. CASE AcceptCreate
    BY <1>1, <1>3 DEF AcceptCreate, RoleAfter, PoolsAfter, AckedAfter
  <1>4. CASE AcceptCreatePool
    BY <1>1, <1>4 DEF AcceptCreatePool, RoleAfter, PoolsAfter, AckedAfter
  <1>5. CASE AcceptFrame
    BY <1>1, <1>2, <1>5 DEF AcceptFrame, ProtocolError, RoleAfter, PoolsAfter, AckedAfter
  <1>6. CASE AcceptDestroyPool
    BY <1>1, <1>6 DEF AcceptDestroyPool, RoleAfter, PoolsAfter, AckedAfter
  <1>7. CASE AcceptDestroyWindow
    BY <1>1, <1>2, <1>7 DEF AcceptDestroyWindow, AcceptDestroy, ProtocolError, RoleAfter,
                            PoolsAfter, AckedAfter
  <1>8. CASE AcceptAck
    BY <1>1, <1>2, <1>8 DEF AcceptAck, ProtocolError, RoleAfter, PoolsAfter, AckedAfter
  <1>9. CASE AcceptPong
    BY <1>1, <1>9 DEF AcceptPong, RoleAfter, PoolsAfter, AckedAfter
  <1>10. CASE AcceptBindSeat
    <2>1. Oldest.serial \in Seat
      BY <1>10, BindReplyTyped DEF TypeInv, TypeOK
    <2> QED
      BY <1>1, <1>10, <2>1 DEF AcceptBindSeat, SendEvents, RoleAfter, PoolsAfter, AckedAfter
  <1>11. CASE AcceptGetDevice
    BY <1>1, <1>11 DEF AcceptGetDevice, RoleAfter, PoolsAfter, AckedAfter
  <1> QED
    BY <1>3, <1>4, <1>5, <1>6, <1>7, <1>8, <1>9, <1>10, <1>11 DEF Accept

\* Events that configure no window.
LEMMA SentDraws ==
    ASSUME TypeInv, Polite, NEW ms \in Seq(Event), Quiet(ms, "configure"), evs' = evs \o ms,
           UNCHANGED <<read, live>>
    PROVE  Draws(evs', evs, "configure") /\ Addressed'
  <1>1. evs \in Seq(Event) /\ read \in 0..Len(evs)
    BY DEF TypeInv, TypeOK, WireTypeOK
  <1>2. Draws(evs', evs, "configure")
    BY <1>1, QuietDraws DEF Polite, SerialInv
  <1>3. \A i \in 1..read : evs'[i] = evs[i]
    BY <1>1, ConcatFacts
  <1> QED
    BY <1>2, <1>3 DEF Polite, Addressed

LEMMA AcceptPolite ==
    ASSUME TypeInv, OwnInv, Polite, Accept, UNCHANGED <<live, next_handle, pool, configured>>
    PROVE  Polite' /\ UNCHANGED violated
  <1>1. /\ reqs # <<>> /\ reqs' = Tail(reqs)
        /\ role' = RoleAfter(Head(reqs)) /\ pools' = PoolsAfter(Head(reqs))
        /\ acked' = AckedAfter(Head(reqs)) /\ UNCHANGED <<sent, violated, conn, read>>
    BY AcceptIs
  <1>2. Draws(evs', evs, "configure") /\ Addressed'
    <2>1. CASE UNCHANGED evs
      BY <1>1, <2>1, SameDraws
    <2>2. ASSUME NEW s \in Seat, evs' = evs \o <<Msg("capabilities", None, None, 0, s)>>
          PROVE  Draws(evs', evs, "configure") /\ Addressed'
      <3>1. /\ <<Msg("capabilities", None, None, 0, s)>> \in Seq(Event)
            /\ Quiet(<<Msg("capabilities", None, None, 0, s)>>, "configure")
        BY SeatNumber, OneEvent, ZeroTyped DEF EventType, BufferType, SeatType, Quiet, Msg
      <3> QED
        BY <1>1, <2>2, <3>1, SentDraws
    <2> QED
      BY <2>1, <2>2, AcceptIs
  <1>3. WindowInv'
    BY <1>1, TakeWindows DEF Polite
  <1>4. PaintInv'
    BY <1>1, OldestIsDue, TakePaint DEF Polite
  <1>5. SerialInv'
    BY <1>1, <1>2, TakeSerials DEF Polite
  <1> QED
    BY <1>1, <1>2, <1>3, <1>4, <1>5 DEF Polite

LEMMA SendConfigurePolite ==
    ASSUME TypeInv, Polite, NEW h \in Handle, SendConfigure(h),
           UNCHANGED <<live, next_handle, pool, configured>>
    PROVE  Polite'
  <1> DEFINE ms == <<Msg("configure", h, None, 0, sent[h] + 1)>>
  <1>1. /\ evs' = evs \o ms /\ sent' = [sent EXCEPT ![h] = @ + 1]
        /\ UNCHANGED <<reqs, read, role, pools, acked>>
    BY DEF SendConfigure, SendEvents
  <1>2. sent[h] < MaxSerial /\ sent[h] + 1 \in 0..MaxSerial
    BY ConstantsTyped DEF SendConfigure, TypeInv, TypeOK, WestonTypeOK
  <1>3. SerialInv'
    BY <1>1, <1>2, SendSerials DEF Polite
  <1>4. ms \in Seq(Event)
    BY <1>2, OneEvent, ZeroTyped, ConstantsTyped DEF EventType, BufferType, SeatType, Handle
  <1> HIDE DEF ms
  <1>5. Addressed'
    <2>1. evs \in Seq(Event) /\ read \in 0..Len(evs)
      BY DEF TypeInv, TypeOK, WireTypeOK
    <2>2. \A i \in 1..read : evs'[i] = evs[i]
      BY <1>1, <1>4, <2>1, ConcatFacts
    <2> QED
      BY <1>1, <2>2 DEF Polite, Addressed
  <1>6. WindowInv'
    BY <1>1 DEF Polite, WindowInv, Named, Unmade, Ordered, Built, Has, Says
  <1>7. PaintInv'
    BY <1>1 DEF Polite, PaintInv, Ready, Pooled, Greeted, Opens, Greets, Closes, Has, Says
  <1> QED
    BY <1>3, <1>5, <1>6, <1>7 DEF Polite

LEMMA OtherEventPolite ==
    ASSUME TypeInv, Polite, conn = "up", UNCHANGED <<live, next_handle, pool, configured>>,
           \/ SeatTraffic \/ SendPing
           \/ \E h \in Handle : SendClose(h)
           \/ \E b \in held : Release(b)
    PROVE  Polite' /\ UNCHANGED violated
  <1>1. UNCHANGED <<violated, role, pools, acked, sent>>
    BY SeatTrafficKeeps DEF SendPing, SendClose, Release
  <1>2. \E ms \in Seq(Event) : Quiet(ms, "configure") /\ SendEvents(ms) /\ UNCHANGED <<reqs, read>>
    <2>1. CASE SeatTraffic
      <3>1. \A ms \in Seq(SeatEvent) : ms \in Seq(Event) /\ Quiet(ms, "configure")
        BY DEF SeatEvent, Quiet
      <3> QED
        BY <2>1, <3>1, SeatTyped DEF SendsForSeat, TypeInv, TypeOK
    <2>2. CASE SendPing
      <3>1. pings + 1 \in 0..MaxSerial
        BY <2>2, ConstantsTyped DEF SendPing, TypeInv, TypeOK, WestonTypeOK
      <3>2. /\ <<Msg("ping", None, None, 0, pings + 1)>> \in Seq(Event)
            /\ Quiet(<<Msg("ping", None, None, 0, pings + 1)>>, "configure")
        BY <3>1, OneEvent, ZeroTyped DEF EventType, BufferType, SeatType, Quiet, Msg
      <3> QED
        BY <2>2, <3>2 DEF SendPing
    <2>3. ASSUME NEW h \in Handle, SendClose(h)
          PROVE  \E ms \in Seq(Event) :
                     Quiet(ms, "configure") /\ SendEvents(ms) /\ UNCHANGED <<reqs, read>>
      <3>1. /\ <<Msg("close", h, None, 0, 0)>> \in Seq(Event)
            /\ Quiet(<<Msg("close", h, None, 0, 0)>>, "configure")
        BY OneEvent, ZeroTyped, ConstantsTyped DEF EventType, BufferType, SeatType, Quiet, Msg, Handle
      <3> QED
        BY <2>3, <3>1 DEF SendClose
    <2>4. ASSUME NEW b \in held, Release(b)
          PROVE  \E ms \in Seq(Event) :
                     Quiet(ms, "configure") /\ SendEvents(ms) /\ UNCHANGED <<reqs, read>>
      <3>1. b.handle \in Handle /\ b.pool \in Pool /\ b.slot \in Slot
        BY DEF TypeInv, TypeOK, WestonTypeOK, Token
      <3>2. /\ <<Msg("release", b.handle, b.pool, b.slot, 0)>> \in Seq(Event)
            /\ Quiet(<<Msg("release", b.handle, b.pool, b.slot, 0)>>, "configure")
        BY <3>1, OneEvent, ZeroTyped, ConstantsTyped DEF EventType, SeatType, Quiet, Msg, Handle, Pool
      <3> QED
        BY <2>4, <3>2 DEF Release
    <2> QED
      BY <2>1, <2>2, <2>3, <2>4
  <1>3. PICK ms \in Seq(Event) : Quiet(ms, "configure") /\ SendEvents(ms) /\ UNCHANGED <<reqs, read>>
    BY <1>2
  <1>4. Draws(evs', evs, "configure") /\ Addressed'
    BY <1>3, SentDraws DEF SendEvents
  <1> QED
    BY <1>1, <1>3, <1>4, Silent

-----------------------------------------------------------------------------
(* The composed system.                                                     *)

ProtocolInv == ~violated /\ (conn = "up" => Polite)

\* A bridge that starts finds a compositor that knows nothing of it.
LEMMA StartPolite ==
    ASSUME TypeInv, Idle, Start
    PROVE  Polite'
  <1> DEFINE n == seats
  <1>1. AnowawStart(n)
    BY DEF Start
  <1>2. /\ bridge = "null" /\ reqs' = <<>> /\ read' = n
        /\ evs' = [i \in 1..n |-> Msg("capabilities", None, None, 0, i)]
        /\ UNCHANGED <<live, configured, pool, role, pools, acked, sent>>
    BY <1>1 DEF Start, AnowawStart, appVars, ClientConnects
  <1>3. /\ live = {} /\ configured = {} /\ pool = [h \in Handle |-> None]
        /\ role = [h \in Handle |-> "none"]
        /\ sent = [h \in Handle |-> 0] /\ acked = [h \in Handle |-> 0]
    BY <1>2 DEF Idle, NoApps, NoClient
  <1>4. DOMAIN reqs' = {}
    BY <1>2
  <1>5. \A i \in DOMAIN evs' : evs'[i].type # "configure"
    BY <1>2 DEF Msg
  <1>6. WindowInv'
    BY <1>2, <1>3, <1>4 DEF WindowInv, Named, Unmade, Ordered, Built, Has, Says
  <1>7. PaintInv'
    BY <1>2, <1>3, <1>4 DEF PaintInv, Ready, Pooled, Greeted
  <1>8. SerialInv'
    <2>1. Rising(reqs, "ack_configure")' /\ AcksDue'
      BY <1>4 DEF Rising, AcksDue
    <2>2. Rising(evs, "configure")' /\ ConfiguresDue' /\ AcksBefore'
      BY <1>5 DEF Rising, ConfiguresDue, AcksBefore
    <2>3. \A h \in Handle : acked'[h] <= sent'[h]
      BY <1>2, <1>3
    <2> QED
      BY <2>1, <2>2, <2>3 DEF SerialInv
  <1>9. Addressed'
    <2>1. \A i \in 1..read' : i \in DOMAIN evs'
      BY <1>2
    <2> QED
      BY <1>5, <2>1 DEF Addressed
  <1> QED
    BY <1>6, <1>7, <1>8, <1>9 DEF Polite

LEMMA WestonStepPolite ==
    ASSUME TypeInv, OwnInv, ProtocolInv, WestonStep,
           UNCHANGED <<live, next_handle, pool, configured>>
    PROVE  ProtocolInv'
  <1>1. CASE Crash
    BY <1>1 DEF Crash, PeerGone, ProtocolInv, clientVars
  <1>2. CASE SeatAppears /\ conn # "up"
    BY <1>2 DEF SeatAppears, ProtocolInv, clientVars
  <1>3. CASE ~Crash /\ ~(SeatAppears /\ conn # "up")
    <2>1. conn = "up"
      BY <1>3 DEF WestonStep, Accept, SendConfigure, SendClose, Release, SendPing, SeatActs,
                  SeatAnnounces, MoveFocus, DeviceInput, TouchDown, TouchUp, TouchCancel, SeatStep
    <2>2. CASE \E h \in Handle : SendConfigure(h)
      <3>1. PICK h \in Handle : SendConfigure(h)
        BY <2>2
      <3>2. UNCHANGED violated
        BY <3>1 DEF SendConfigure
      <3>3. Polite'
        BY <2>1, <3>1, SendConfigurePolite DEF ProtocolInv
      <3> QED
        BY <3>2, <3>3 DEF ProtocolInv
    <2> QED
      BY <1>3, <2>1, <2>2, AcceptPolite, OtherEventPolite
         DEF ProtocolInv, WestonStep, SeatTraffic
  <1> QED
    BY <1>1, <1>2, <1>3

LEMMA NextPolite ==
    ASSUME LendingInv, Numbered, ProtocolInv, [Next]_vars
    PROVE  ProtocolInv'
  <1>0. TypeInv /\ TokenInv /\ OwnInv /\ Idle
    BY DEF LendingInv
  <1>1. CASE Start
    <2>1. UNCHANGED violated
      BY <1>1 DEF Start, ClientConnects
    <2> QED
      BY <1>0, <1>1, <2>1, StartPolite DEF ProtocolInv
  <1>2. CASE Stop
    BY <1>2 DEF Stop, AnowawStop, ClientGone, ProtocolInv
  <1>3. CASE CompositorStep
    <2>1. WestonStep /\ UNCHANGED <<live, next_handle, pool, configured>>
      BY <1>3 DEF CompositorStep, abiVars, coreVars, appVars
    <2> QED
      BY <1>0, <2>1, WestonStepPolite
  <1>4. ASSUME UNCHANGED <<reqs, evs, read, conn, live, next_handle, pool, configured,
                           violated, role, pools, acked, sent>>
        PROVE  ProtocolInv'
    BY <1>4, SameDraws, Silent DEF ProtocolInv
  <1>5. CASE BridgeStep
    <2>1. AbiStep /\ UNCHANGED <<violated, role, pools, acked, sent>> /\ UNCHANGED Knowledge
      BY <1>5 DEF BridgeStep, westonVars, clientVars, Knowledge
    <2>2. CASE CoreStep
      <3>1. conn' = "up" => conn = "up"
        BY <2>2 DEF CoreStep, PumpFlush, PumpFails, PumpRead, PumpDone, FlushOk, FlushErr, ReadEvents,
           Lose, Deliver, OnAppEvent, OnConfigure, OnClose, OnRelease, OnPing, OnDiscarded,
           OnSeatEvent, OnCapabilities, OnGlobal, OnKeyboardEnter, OnKeyboardLeave,
           OnKeyboardInput, OnPointerEnter, OnPointerLeave, OnPointerInput, OnTouchDown,
           OnTouchInput, OnTouchCancel, BridgeAppBody, BridgeAppReturn, PushRejected,
           PushNoPool, PushIntoNewPool, PushIntoPool, PushSkipped, PollInputBody,
           CloseRequestedBody, CloseAppBody, CloseUnknownBody, wireVars
      <3> QED
        BY <1>0, <2>1, <2>2, <3>1, CoreStepPolite DEF ProtocolInv
    <2>3. CASE ~CoreStep
      <3>1. UNCHANGED wireVars /\ UNCHANGED appVars /\ UNCHANGED next_handle
        BY <2>1, <2>3 DEF AbiStep, CallBridgeApp, CallPushFrame, CallPollInput,
                          CallCloseRequested, CallCloseApp, CallDispatch, Call
      <3> QED
        BY <1>4, <2>1, <3>1 DEF wireVars, appVars
    <2> QED
      BY <2>2, <2>3
  <1>6. CASE UNCHANGED vars
    BY <1>4, <1>6 DEF vars, wireVars, abiVars, coreVars, appVars, westonVars, clientVars
  <1> QED
    BY <1>1, <1>2, <1>3, <1>5, <1>6 DEF Next, Finished

LEMMA ProtocolInvariance == Spec => []ProtocolInv
  <1>1. Init => ProtocolInv
    BY DEF Init, WireInit, WestonInit, NoClient, ProtocolInv
  <1>2. Spec => []Numbered
    BY InitNumbered, NextNumbered, TypeInvariance, PTL DEF Spec
  <1>3. LendingInv /\ Numbered /\ ProtocolInv /\ [Next]_vars => ProtocolInv'
    BY NextPolite
  <1> QED
    BY <1>1, <1>2, <1>3, LendingInvariance, PTL DEF Spec

\* The bridge never breaks the protocol: a frame is sent only behind the creation of its
\* pool and an acknowledged configure, a serial is acknowledged once and in its turn, and
\* the objects of a window are destroyed from the outermost role inwards
\* (core/src/bridge.rs, the handlers and push_frame; core/src/surface.rs, AppEntry::destroy).
THEOREM ProtocolIsKept == Spec => []NoProtocolError
  <1>1. ProtocolInv => NoProtocolError
    BY DEF ProtocolInv, NoProtocolError
  <1> QED
    BY <1>1, ProtocolInvariance, PTL

-----------------------------------------------------------------------------
(* What an app is owed is on its way.                                       *)

LEMMA SaysKeepsLive ==
    ASSUME NEW h \in live, NEW type \in {"configure", "close"},
           KeepsLive(evs', evs), Says(evs, h, type)
    PROVE  Says(evs', h, type)
  BY DEF KeepsLive, ObjectLives, Says

\* What a step of the bridge does to the apps there are.
LEMMA AppsStep ==
    ASSUME TypeInv, BridgeStep
    PROVE  /\ UNCHANGED westonVars
           /\ configured \intersect live' \subseteq configured'
           /\ close_requested \intersect live' \subseteq close_requested'
           /\ live' \subseteq live \/ BridgeAppBody
  <1>1. CASE ~CoreStep
    BY <1>1, CallsAreSilent DEF BridgeStep, appVars
  <1>2. CASE \/ PumpFlush \/ PumpFails \/ PumpRead \/ PumpDone \/ BridgeAppReturn \/ PushRejected
             \/ PushSkipped \/ PollInputBody \/ CloseRequestedBody \/ CloseUnknownBody
    BY <1>2 DEF BridgeStep, PumpFlush, PumpFails, PumpRead, PumpDone, BridgeAppReturn, PushRejected,
                PushSkipped, PollInputBody, CloseRequestedBody, CloseUnknownBody, appVars
  <1>3. CASE BridgeAppBody \/ PushNoPool \/ PushIntoNewPool \/ PushIntoPool \/ CloseAppBody
    BY <1>3 DEF BridgeStep, BridgeAppBody, PushNoPool, PushIntoNewPool, PushIntoPool, CloseAppBody
  <1>4. CASE Deliver
    BY <1>4 DEF BridgeStep, Deliver, OnAppEvent, OnConfigure, OnClose, OnRelease, OnPing,
                OnDiscarded, appVars
  <1> QED
    BY <1>1, <1>2, <1>3, <1>4 DEF CoreStep

\* Handles are given out in turn.
LEMMA CounterStep ==
    ASSUME TypeInv, [Next]_vars
    PROVE  next_handle' >= next_handle
  <1>1. next_handle \in Nat
    BY ConstantsTyped DEF TypeInv, TypeOK, CoreTypeOK
  <1> QED
    BY <1>1, HandleSteps DEF BridgeAppBody, BridgeAppReturn, vars, abiVars, coreVars

\* The new app, and the request that makes its window.
LEMMA BridgeAppIs ==
    ASSUME TypeInv, conn = "up", BridgeAppBody
    PROVE  /\ live' = live \union {next_handle} /\ next_handle \in Handle
           /\ Says(reqs', next_handle, "create")
  <1>1. reqs \in Seq(Request)
    BY DEF TypeInv, TypeOK, WireTypeOK
  <1>2. next_handle \in Handle
    <2>1. 1 \in DOMAIN todo /\ todo[1] = "bridge_app"
      BY DEF BridgeAppBody, At, TypeInv, TypeOK, CoreTypeOK
    <2> QED
      BY <2>1, ConstantsTyped DEF TypeInv, TypeOK, CoreTypeOK, ScriptInv, RoomLeft, Handle
  <1> DEFINE ms == <<Msg("create", next_handle, None, 0, 0)>>
  <1>3. ms \in Seq(Request)
    BY <1>2, OneRequest, ZeroTyped, ConstantsTyped DEF RequestType, BufferType, SeatType, Handle
  <1>4. reqs' = reqs \o ms /\ live' = live \union {next_handle}
    BY DEF BridgeAppBody, FreshHandle, Emit
  <1>5. Says(ms, next_handle, "create")
    <2>1. 1 \in DOMAIN ms /\ ms[1].type = "create" /\ ms[1].handle = next_handle
      BY DEF Msg
    <2> QED
      BY <2>1 DEF Says
  <1> HIDE DEF ms
  <1> QED
    BY <1>1, <1>2, <1>3, <1>4, <1>5, SaysConcat

\* The user closes only windows that are there.
ClosingThere == \A h \in closing : h < next_handle

LEMMA ClosingSteps ==
    ASSUME TypeInv, [Next]_vars
    PROVE  \/ UNCHANGED closing
           \/ closing' = {}
           \/ \E h \in Handle : CompositorStep /\ SendClose(h)
  <1>1. CASE UNCHANGED vars \/ Start \/ BridgeStep \/ Finished
    BY <1>1 DEF Start, ClientConnects, BridgeStep, Finished, vars, westonVars, clientVars
  <1>2. CASE Stop
    BY <1>2 DEF Stop, ClientGone
  <1>3. CASE CompositorStep
    <2>1. CASE Accept
      BY <2>1 DEF Accept, AcceptCreate, AcceptCreatePool, AcceptFrame, AcceptDestroyPool,
         AcceptDestroyWindow, AcceptDestroy, AcceptAck, AcceptPong, AcceptBindSeat,
         AcceptGetDevice, ProtocolError
    <2>2. CASE ~Accept
      BY <1>3, <2>2, SeatTrafficKeeps DEF CompositorStep, WestonStep, SeatTraffic, SendConfigure,
         Release, SendPing, Crash, clientVars
    <2> QED
      BY <2>1, <2>2
  <1> QED
    BY <1>1, <1>2, <1>3 DEF Next

LEMMA NextClosingThere ==
    ASSUME LendingInv, ProtocolInv, ClosingThere, [Next]_vars
    PROVE  ClosingThere'
  <1>0. TypeInv /\ next_handle' >= next_handle
    BY CounterStep DEF LendingInv
  <1>1. next_handle \in Nat /\ closing \subseteq Handle /\ \A h \in Handle : h \in Nat
    BY <1>0, ConstantsTyped DEF TypeInv, TypeOK, CoreTypeOK, WestonTypeOK, Handle
  <1>2. next_handle' \in Nat
    BY <1>0, NextTyped, ConstantsTyped DEF TypeInv, TypeOK, CoreTypeOK
  <1>3. CASE UNCHANGED closing \/ closing' = {}
    BY <1>0, <1>1, <1>2, <1>3 DEF ClosingThere
  <1>4. ASSUME NEW h \in Handle, SendClose(h)
        PROVE  ClosingThere'
    <2>1. closing' = closing \union {h} /\ role[h] = "toplevel" /\ conn = "up"
      BY <1>4 DEF SendClose
    <2>2. h < next_handle
      BY <1>1, <2>1 DEF ProtocolInv, Polite, WindowInv, Unmade
    <2> QED
      BY <1>0, <1>1, <1>2, <2>1, <2>2 DEF ClosingThere
  <1> QED
    BY <1>0, <1>3, <1>4, ClosingSteps

\* A close that is dispatched is recorded.
LEMMA CloseIsRecorded ==
    ASSUME TypeInv, Deliver, NextEvent.type = "close", NextEvent.handle \in live
    PROVE  NextEvent.handle \in close_requested'
  <1>1. OnClose
    BY DEF Deliver, OnAppEvent, OnConfigure, OnRelease, OnPing, OnDiscarded, OnSeatEvent,
           OnCapabilities, OnGlobal, OnKeyboardEnter, OnKeyboardLeave, OnKeyboardInput,
           OnPointerEnter, OnPointerLeave, OnPointerInput, OnTouchDown, OnTouchInput, OnTouchCancel
  <1> QED
    BY <1>1 DEF OnClose

LEMMA NextCloseNotLost ==
    ASSUME LendingInv, ClosingThere, CloseNotLost, [Next]_vars
    PROVE  CloseNotLost'
  <1> SUFFICES ASSUME conn' = "up", NEW h \in closing' \intersect live'
               PROVE  h \in close_requested' \/ Says(evs', h, "close")
    BY DEF CloseNotLost
  <1>1. TypeInv /\ Idle /\ evs \in Seq(Event) /\ next_handle \in Nat
    BY ConstantsTyped DEF LendingInv, TypeInv, TypeOK, WireTypeOK, CoreTypeOK
  <1>2. CASE Start
    BY <1>1, <1>2 DEF Start, AnowawStart, Idle, NoApps, appVars
  <1>4. CASE conn = "up" /\ h \in closing
    <2>1. h \in live
      <3>1. live' \subseteq live \/ BridgeAppBody
        BY <1>1, <1>4, AppsStep, UpSteps
           DEF CompositorStep, abiVars, coreVars, appVars, vars
      <3>2. ASSUME BridgeAppBody PROVE h \in live
        <4>1. h # next_handle
          BY <1>1, <1>4 DEF ClosingThere
        <4> QED
          BY <1>1, <1>4, <3>2, <4>1, BridgeAppIs
      <3> QED
        BY <3>1, <3>2
    <2>2. close_requested \intersect live' \subseteq close_requested'
      BY <1>1, <1>4, AppsStep, UpSteps DEF CompositorStep, abiVars, coreVars, appVars, vars
    <2>3. CASE h \in close_requested
      BY <2>2, <2>3
    <2>4. CASE Says(evs, h, "close")
      <3>1. CASE KeepsLive(evs', evs)
        BY <2>1, <2>4, <3>1, SaysKeepsLive
      <3>2. CASE Deliver /\ evs # <<>> /\ evs' = Tail(evs)
        <4>1. Says(evs', h, "close") \/ (NextEvent.type = "close" /\ NextEvent.handle = h)
          BY <1>1, <2>4, <3>2, SaysTail DEF NextEvent
        <4> QED
          BY <1>1, <2>1, <3>2, <4>1, CloseIsRecorded
      <3> QED
        BY <1>1, <1>4, <3>1, <3>2, EventsArrive
    <2> QED
      BY <1>4, <2>1, <2>3, <2>4 DEF CloseNotLost
  <1>5. ASSUME SendClose(h)
        PROVE  Says(evs', h, "close")
    <2> DEFINE ms == <<Msg("close", h, None, 0, 0)>>
    <2>1. h \in 0..MaxApps
      BY <1>1, NextTyped, ConstantsTyped DEF TypeInv, TypeOK, SeatTypeOK, Handle
    <2>2. ms \in Seq(Event) /\ evs' = evs \o ms
      BY <1>5, <2>1, OneEvent, ZeroTyped DEF EventType, BufferType, SeatType, SendClose, SendEvents
    <2>3. Says(ms, h, "close")
      <3>1. 1 \in DOMAIN ms /\ ms[1].type = "close" /\ ms[1].handle = h
        BY DEF Msg
      <3> QED
        BY <3>1 DEF Says
    <2> HIDE DEF ms
    <2> QED
      BY <1>1, <2>2, <2>3, SaysConcat
  <1>6. CASE conn = "up" /\ h \notin closing
    <2>1. \E g \in Handle : SendClose(g)
      BY <1>1, <1>6, ClosingSteps
    <2> QED
      BY <1>5, <1>6, <2>1 DEF SendClose
  <1> QED
    BY <1>2, <1>4, <1>6, ComesUp

\* The compositor has configured no window that is still to be made.
Unsent == \A h \in Handle :
    role[h] = "none" /\ (h \in live \/ h >= next_handle) => sent[h] = 0

\* A step of the compositor that takes no request.
LEMMA SentSteps ==
    ASSUME WestonStep, ~Accept
    PROVE  /\ UNCHANGED <<role, reqs>>
           /\ UNCHANGED sent \/ \E h \in Handle : SendConfigure(h)
  BY SeatTrafficKeeps
     DEF WestonStep, SeatTraffic, SendConfigure, SendClose, Release, SendPing, Crash, clientVars

\* What a request does to the window of one app.
LEMMA RoleAfterIs ==
    ASSUME TypeInv, NEW m, NEW h \in Handle
    PROVE  /\ m.type \notin WindowType => RoleAfter(m)[h] = role[h]
           /\ m.handle # h => RoleAfter(m)[h] = role[h]
           /\ m.type = "ack_configure" => RoleAfter(m)[h] = role[h]
           /\ m.type = "create" /\ m.handle = h => RoleAfter(m)[h] = "toplevel"
  BY DEF TypeInv, TypeOK, WestonTypeOK, RoleAfter, WindowType

\* No request on its way undoes the window of a live app, or names an app to come.
LEMMA OldestSpares ==
    ASSUME TypeInv, WindowInv, reqs # <<>>, NEW h \in Handle, h \in live \/ h >= next_handle
    PROVE  Head(reqs).handle = h =>
               /\ Head(reqs).type \notin {"destroy_toplevel", "destroy_xdg_surface", "destroy_surface"}
               /\ h \in live \/ h < next_handle
  <1>1. reqs \in Seq(Request)
    BY DEF TypeInv, TypeOK, WireTypeOK
  <1>2. 1 \in DOMAIN reqs /\ reqs[1] = Head(reqs)
    BY <1>1
  <1>3. Head(reqs).handle = h => Has(h, Head(reqs).type)
    BY <1>2 DEF Has, Says
  <1>4. Head(reqs).handle = h => ~(h >= next_handle)
    BY <1>2 DEF WindowInv, Unmade
  <1>5. h \in live => ~Has(h, "destroy_toplevel") /\ ~Has(h, "destroy_xdg_surface")
                      /\ ~Has(h, "destroy_surface")
    BY DEF WindowInv, Built
  <1> QED
    BY <1>3, <1>4, <1>5

LEMMA NextUnsent ==
    ASSUME LendingInv, ProtocolInv, conn = "up" => Unsent, [Next]_vars, conn' = "up"
    PROVE  Unsent'
  <1> SUFFICES ASSUME NEW h \in Handle, role'[h] = "none", h \in live' \/ h >= next_handle'
               PROVE  sent'[h] = 0
    BY DEF Unsent
  <1>1. TypeInv /\ Idle
    BY DEF LendingInv
  <1>2. CASE Start
    <2>1. bridge = "null" /\ UNCHANGED sent
      BY <1>2 DEF Start, AnowawStart, ClientConnects
    <2>2. sent = [g \in Handle |-> 0]
      BY <1>1, <2>1 DEF Idle, NoClient
    <2> QED
      BY <2>1, <2>2
  <1>3. CASE conn = "up"
    <2>1. next_handle \in Nat /\ h \in Nat /\ next_handle' \in Nat
      <3>1. h \in Nat
        BY ConstantsTyped DEF Handle
      <3>2. next_handle \in Nat
        BY <1>1, ConstantsTyped DEF TypeInv, TypeOK, CoreTypeOK
      <3>3. TypeInv'
        BY <1>1, NextTyped
      <3>4. next_handle' \in Nat
        BY <3>3, ConstantsTyped DEF TypeInv, TypeOK, CoreTypeOK
      <3> QED
        BY <3>1, <3>2, <3>4
    <2>2. h \in live \/ h >= next_handle
      <3>1. next_handle' >= next_handle
        BY <1>1, CounterStep
      <3>2. CASE h \in live'
        <4>1. live' \subseteq live \/ BridgeAppBody
          BY <1>1, <1>3, AppsStep, UpSteps DEF CompositorStep, abiVars, coreVars, appVars, vars
        <4> QED
          BY <1>1, <1>3, <2>1, <3>2, <4>1, BridgeAppIs
      <3>3. CASE h >= next_handle'
        BY <2>1, <3>1, <3>3
      <3> QED
        BY <3>2, <3>3
    <2>3. role[h] = "none" => sent[h] = 0
      BY <1>3, <2>2 DEF Unsent
    <2>4. CASE CompositorStep /\ Accept
      <3>1. reqs # <<>> /\ role' = RoleAfter(Head(reqs)) /\ UNCHANGED sent
        BY <1>1, <1>3, <2>4, AcceptIs DEF ProtocolInv
      <3>2. Head(reqs).handle = h => Head(reqs).type \notin
                {"destroy_toplevel", "destroy_xdg_surface", "destroy_surface"}
        BY <1>1, <1>3, <2>2, <3>1, OldestSpares DEF ProtocolInv, Polite
      <3>3. role[h] = "none"
        BY <1>1, <3>1, <3>2, RoleAfterIs DEF WindowType
      <3> QED
        BY <2>3, <3>1, <3>3
    <2>5. CASE CompositorStep /\ ~Accept
      <3>1. ASSUME NEW g \in Handle, SendConfigure(g)
            PROVE  role[h] = "none" => sent'[h] = sent[h]
        BY <3>1 DEF SendConfigure, TypeInv, TypeOK, WestonTypeOK
      <3> QED
        BY <2>3, <2>5, <3>1, SentSteps DEF CompositorStep
    <2>6. CASE BridgeStep \/ UNCHANGED vars
      BY <2>3, <2>6 DEF BridgeStep, vars, westonVars, clientVars
    <2> QED
      BY <1>1, <1>3, <2>4, <2>5, <2>6, UpSteps
  <1> QED
    BY <1>2, <1>3, ComesUp

\* A configure that is dispatched makes its app ready for frames.
LEMMA ConfigureIsSet ==
    ASSUME TypeInv, Deliver, NextEvent.type = "configure", NextEvent.handle \in live
    PROVE  NextEvent.handle \in configured'
  <1>1. OnConfigure
    BY DEF Deliver, OnAppEvent, OnClose, OnRelease, OnPing, OnDiscarded, OnSeatEvent,
           OnCapabilities, OnGlobal, OnKeyboardEnter, OnKeyboardLeave, OnKeyboardInput,
           OnPointerEnter, OnPointerLeave, OnPointerInput, OnTouchDown, OnTouchInput, OnTouchCancel
  <1> QED
    BY <1>1 DEF OnConfigure

LEMMA NextConfigureComes ==
    ASSUME LendingInv, ProtocolInv, conn = "up" => Unsent, ConfigureComes, [Next]_vars
    PROVE  ConfigureComes'
  <1> SUFFICES ASSUME conn' = "up", NEW h \in live' \ configured'
               PROVE  \/ Says(reqs', h, "create")
                      \/ role'[h] = "toplevel" /\ sent'[h] = 0
                      \/ Says(evs', h, "configure")
    BY DEF ConfigureComes
  <1>1. TypeInv /\ Idle
    BY DEF LendingInv
  <1>2. CASE Start
    BY <1>1, <1>2 DEF Start, AnowawStart, Idle, NoApps, appVars
  <1>3. CASE conn = "up" /\ BridgeAppBody /\ h \notin live
    BY <1>1, <1>3, BridgeAppIs
  <1>4. CASE conn = "up" /\ h \in live
    <2>1. h \in Handle /\ evs \in Seq(Event) /\ reqs \in Seq(Request)
      BY <1>1, <1>4 DEF TypeInv, TypeOK, SeatTypeOK, WireTypeOK
    <2>2. h \notin configured
      BY <1>1, <1>4, AppsStep, UpSteps DEF CompositorStep, abiVars, coreVars, appVars, vars
    <2>3. CASE Says(evs, h, "configure")
      <3>1. CASE KeepsLive(evs', evs)
        BY <1>4, <2>3, <3>1, SaysKeepsLive
      <3>2. CASE Deliver /\ evs # <<>> /\ evs' = Tail(evs)
        <4>1. Says(evs', h, "configure") \/ (NextEvent.type = "configure" /\ NextEvent.handle = h)
          BY <2>1, <2>3, <3>2, SaysTail DEF NextEvent
        <4> QED
          BY <1>1, <1>4, <3>2, <4>1, ConfigureIsSet
      <3> QED
        BY <1>1, <1>4, <3>1, <3>2, EventsArrive
    <2>4. CASE CompositorStep /\ Accept
      <3>1. /\ reqs # <<>> /\ reqs' = Tail(reqs) /\ role' = RoleAfter(Head(reqs))
            /\ UNCHANGED sent /\ WindowInv
        BY <1>1, <1>4, <2>4, AcceptIs DEF ProtocolInv, Polite
      <3>2. Head(reqs).handle = h => Head(reqs).type \notin
                {"destroy_toplevel", "destroy_xdg_surface", "destroy_surface"}
        BY <1>1, <1>4, <2>1, <3>1, OldestSpares
      <3>3. CASE Says(reqs, h, "create")
        <4>1. Says(reqs', h, "create") \/ (Head(reqs).type = "create" /\ Head(reqs).handle = h)
          BY <2>1, <3>1, <3>3, SaysTail
        <4>2. role[h] = "none" /\ sent[h] = 0
          BY <1>4, <2>1, <3>1, <3>3 DEF WindowInv, Built, Has, Unsent
        <4> QED
          BY <1>1, <2>1, <3>1, <4>1, <4>2, RoleAfterIs
      <3>4. CASE role[h] = "toplevel" /\ sent[h] = 0
        BY <1>1, <2>1, <3>1, <3>2, <3>4, RoleAfterIs DEF WindowType
      <3> QED
        BY <1>4, <2>2, <2>3, <3>3, <3>4 DEF ConfigureComes
    <2>5. CASE CompositorStep /\ ~Accept
      <3>1. WestonStep /\ UNCHANGED <<role, reqs>>
        BY <2>5, SentSteps DEF CompositorStep
      <3>2. ASSUME SendConfigure(h)
            PROVE  Says(evs', h, "configure")
        <4> DEFINE ms == <<Msg("configure", h, None, 0, sent[h] + 1)>>
        <4>1. sent[h] + 1 \in 0..MaxSerial
          BY <1>1, <2>1, <3>2, ConstantsTyped DEF SendConfigure, TypeInv, TypeOK, WestonTypeOK
        <4>2. ms \in Seq(Event) /\ evs' = evs \o ms
          BY <1>4, <2>1, <3>2, <4>1, OneEvent, ZeroTyped, ConstantsTyped
             DEF EventType, BufferType, SeatType, SendConfigure, SendEvents, Handle
        <4>3. Says(ms, h, "configure")
          <5>1. 1 \in DOMAIN ms /\ ms[1].type = "configure" /\ ms[1].handle = h
            BY DEF Msg
          <5> QED
            BY <5>1 DEF Says
        <4> HIDE DEF ms
        <4> QED
          BY <2>1, <4>2, <4>3, SaysConcat
      <3>3. ASSUME ~SendConfigure(h) PROVE sent'[h] = sent[h]
        <4>1. ASSUME NEW g \in Handle, SendConfigure(g), g # h PROVE sent'[h] = sent[h]
          BY <1>1, <2>1, <4>1 DEF SendConfigure, TypeInv, TypeOK, WestonTypeOK
        <4> QED
          BY <2>5, <3>1, <3>3, <4>1, SentSteps
      <3> QED
        BY <1>4, <2>2, <2>3, <3>1, <3>2, <3>3 DEF ConfigureComes
    <2>6. CASE BridgeStep \/ UNCHANGED vars
      <3>1. UNCHANGED <<role, sent>>
        BY <2>6 DEF BridgeStep, vars, westonVars, clientVars
      <3>2. CASE Says(reqs, h, "create") /\ Keeps(reqs', reqs)
        BY <3>2, SaysKeeps
      <3>3. CASE CompositorStep /\ Accept
        BY <2>4, <3>3
      <3> QED
        BY <1>1, <1>4, <2>2, <2>3, <3>1, <3>2, <3>3, RequestsArrive DEF ConfigureComes
    <2> QED
      BY <1>1, <1>4, <2>4, <2>5, <2>6, UpSteps
  <1>5. CASE conn = "up" /\ h \notin live /\ ~BridgeAppBody
    BY <1>1, <1>5, AppsStep, UpSteps DEF CompositorStep, abiVars, coreVars, appVars, vars
  <1> QED
    BY <1>2, <1>3, <1>4, <1>5, ComesUp

\* A window the user has closed is not forgotten: its close is on its way until the handler
\* of core/src/bridge.rs has set the flag that anowaw_close_requested reads, whatever other
\* apps, frames and calls come between.
THEOREM ClosesAreKept == Spec => []CloseNotLost
  <1>1. Init => ClosingThere /\ CloseNotLost
    BY DEF Init, WestonInit, NoClient, WireInit, ClosingThere, CloseNotLost
  <1>2. LendingInv /\ ProtocolInv /\ ClosingThere /\ [Next]_vars => ClosingThere'
    BY NextClosingThere
  <1>3. LendingInv /\ ClosingThere /\ CloseNotLost /\ [Next]_vars => CloseNotLost'
    BY NextCloseNotLost
  <1> QED
    BY <1>1, <1>2, <1>3, LendingInvariance, ProtocolInvariance, PTL DEF Spec

\* An app whose frames are rejected because it is not configured has its first configure to
\* come: its window is being made, or the compositor has it and has configured nothing yet, or
\* a configure is on its way (core/src/bridge.rs, bridge_app, push_frame and the handler).
THEOREM ConfiguresCome == Spec => []ConfigureComes
  <1> DEFINE Clean == conn = "up" => Unsent
  <1>1. Init => Clean /\ ConfigureComes
    BY DEF Init, WireInit, ConfigureComes
  <1>2. LendingInv /\ ProtocolInv /\ Clean /\ [Next]_vars => Clean'
    BY NextUnsent
  <1>3. LendingInv /\ ProtocolInv /\ Clean /\ ConfigureComes /\ [Next]_vars => ConfigureComes'
    BY NextConfigureComes
  <1> HIDE DEF Clean
  <1> QED
    BY <1>1, <1>2, <1>3, LendingInvariance, ProtocolInvariance, PTL DEF Spec

-----------------------------------------------------------------------------
(* Each ping is answered once.                                              *)

\* Of that type, the one sequence has what the other has, in its order.
Retains(new, old, type) ==
    /\ Draws(new, old, type)
    /\ \A i \in DOMAIN old : old[i].type = type => \E j \in DOMAIN new : new[j] = old[i]

PingsDue == \A i \in DOMAIN evs : evs[i].type = "ping" =>
                evs[i].handle = None /\ evs[i].serial \in pongs + 1..pings

PongsDue == \A i \in DOMAIN reqs : reqs[i].type = "pong" =>
                reqs[i].handle = None /\ reqs[i].serial \in pongs + 1..pings

\* A ping is younger than the answers on their way.
PongsBefore == \A i \in DOMAIN reqs, j \in DOMAIN evs :
    reqs[i].type = "pong" /\ evs[j].type = "ping" => reqs[i].serial < evs[j].serial

\* No ping is lost.
AllAnswered == \A n \in pongs + 1..pings : Counts(evs, n, "ping") \/ Counts(reqs, n, "pong")

PingInv ==
    /\ pongs <= pings
    /\ Rising(evs, "ping") /\ PingsDue
    /\ Rising(reqs, "pong") /\ PongsDue
    /\ PongsBefore /\ AllAnswered

LEMMA PingTypes ==
    ASSUME TypeInv
    PROVE  /\ reqs \in Seq(Request) /\ evs \in Seq(Event)
           /\ pings \in Nat /\ pongs \in Nat /\ pings \in 0..MaxSerial /\ MaxSerial \in Nat
  BY ConstantsTyped DEF TypeInv, TypeOK, WireTypeOK, WestonTypeOK

LEMMA PingInvIsEnough ==
    ASSUME TypeInv, conn = "up" => PingInv
    PROVE  PingNotLost
  <1> SUFFICES ASSUME conn = "up"
               PROVE  /\ pongs <= pings
                      /\ \A n \in 1..pings :
                             n > pongs <=> Counts(evs, n, "ping") \/ Counts(reqs, n, "pong")
                      /\ \A n \in 1..pings : ~(Counts(evs, n, "ping") /\ Counts(reqs, n, "pong"))
    BY DEF PingNotLost
  <1>1. PingInv
    OBVIOUS
  <1>2. ASSUME NEW n \in 1..pings, n > pongs
        PROVE  Counts(evs, n, "ping") \/ Counts(reqs, n, "pong")
    <2>1. n \in pongs + 1..pings
      BY <1>2, PingTypes
    <2> QED
      BY <1>1, <2>1 DEF PingInv, AllAnswered
  <1>3. ASSUME NEW n \in 1..pings, Counts(evs, n, "ping") \/ Counts(reqs, n, "pong")
        PROVE  n > pongs
    <2>1. n \in pongs + 1..pings
      BY <1>1, <1>3 DEF PingInv, PingsDue, PongsDue, Counts
    <2> QED
      BY <2>1, PingTypes
  <1>4. ASSUME NEW n \in 1..pings, Counts(evs, n, "ping"), Counts(reqs, n, "pong")
        PROVE  FALSE
    <2>1. n < n
      BY <1>1, <1>4 DEF PingInv, PongsBefore, Counts
    <2> QED
      BY <2>1
  <1> QED
    BY <1>1, <1>2, <1>3, <1>4 DEF PingInv

LEMMA RetainsSame ==
    ASSUME NEW seq, NEW type, Rising(seq, type)
    PROVE  Retains(seq, seq, type)
  BY DEF Retains, Draws

LEMMA RetainsMore ==
    ASSUME NEW M, NEW seq \in Seq(M), NEW ms \in Seq(M), NEW type,
           Rising(seq, type), Quiet(ms, type)
    PROVE  Retains(seq \o ms, seq, type)
  BY QuietDraws, ConcatFacts DEF Retains

LEMMA RetainsTail ==
    ASSUME NEW M, NEW seq \in Seq(M), seq # <<>>, NEW type,
           Rising(seq, type), Head(seq).type # type
    PROVE  Retains(Tail(seq), seq, type)
  BY TailDraws, TailLeaves DEF Retains

LEMMA KeepPings ==
    ASSUME PingInv, UNCHANGED <<pings, pongs>>,
           Retains(evs', evs, "ping"), Retains(reqs', reqs, "pong")
    PROVE  PingInv'
  <1>1. PingsDue' /\ PongsDue' /\ PongsBefore'
    BY DEF PingInv, PingsDue, PongsDue, PongsBefore, Retains, Draws
  <1>2. \A n : Counts(evs, n, "ping") => Counts(evs', n, "ping")
    BY DEF Retains, Counts
  <1>3. \A n : Counts(reqs, n, "pong") => Counts(reqs', n, "pong")
    BY DEF Retains, Counts
  <1>4. AllAnswered'
    BY <1>2, <1>3 DEF PingInv, AllAnswered
  <1> QED
    BY <1>1, <1>4 DEF PingInv, Retains, Draws

\* The compositor sends the next ping.
LEMMA SendPings ==
    ASSUME TypeInv, PingInv, SendPing
    PROVE  PingInv'
  <1> DEFINE m == Msg("ping", None, None, 0, pings + 1)
  <1>1. /\ reqs \in Seq(Request) /\ evs \in Seq(Event) /\ pings \in Nat /\ pongs \in Nat
        /\ m \in Event /\ m.type = "ping" /\ m.handle = None /\ m.serial = pings + 1
    <2>1. pings + 1 \in 0..MaxSerial
      BY ConstantsTyped DEF SendPing, TypeInv, TypeOK, WestonTypeOK
    <2>2. m \in Event
      BY <2>1, MsgTyped, ZeroTyped DEF Event, EventType, BufferType, SeatType
    <2> QED
      BY <2>2, PingTypes DEF Msg
  <1>2. evs' = evs \o <<m>> /\ pings' = pings + 1 /\ UNCHANGED <<pongs, reqs>>
    BY DEF SendPing, SendEvents
  <1> HIDE DEF m
  <1>3. \A i \in DOMAIN evs' : (\E j \in DOMAIN evs : evs[j] = evs'[i]) \/ evs'[i] = m
    BY <1>1, <1>2
  <1>4. /\ \A i \in DOMAIN evs : \E j \in DOMAIN evs' : evs'[j] = evs[i]
        /\ \E j \in DOMAIN evs' : evs'[j] = m
    <2>1. /\ Keeps(evs \o <<m>>, evs)
          /\ \E j \in DOMAIN (evs \o <<m>>) : (evs \o <<m>>)[j] = m
      BY <1>1, <1>2, OneMore
    <2> QED
      BY <1>1, <1>2, <2>1 DEF Keeps
  <1>5. /\ \A i \in DOMAIN evs : evs[i].type = "ping" => evs[i].serial < m.serial
        /\ \A i \in DOMAIN reqs : reqs[i].type = "pong" => reqs[i].serial < m.serial
    BY <1>1 DEF PingInv, PingsDue, PongsDue
  <1>6. Rising(evs', "ping") /\ Rising(reqs', "pong")
    BY <1>1, <1>2, <1>5, RisingMore DEF PingInv
  <1>7. pongs + 1..pings \subseteq pongs' + 1..pings' /\ m.serial \in pongs' + 1..pings'
    BY <1>1, <1>2 DEF PingInv
  <1>8. PingsDue'
    BY <1>1, <1>3, <1>7 DEF PingInv, PingsDue
  <1>9. PongsDue'
    BY <1>2, <1>7 DEF PingInv, PongsDue
  <1>10. PongsBefore'
    BY <1>2, <1>3, <1>5 DEF PingInv, PongsBefore
  <1>11. AllAnswered'
    <2> SUFFICES ASSUME NEW n \in pongs' + 1..pings'
                 PROVE  Counts(evs', n, "ping") \/ Counts(reqs', n, "pong")
      BY DEF AllAnswered
    <2>1. n \in pongs + 1..pings \/ n = m.serial
      BY <1>1, <1>2
    <2>2. Counts(evs', m.serial, "ping")
      BY <1>1, <1>4 DEF Counts
    <2>3. Counts(evs, n, "ping") => Counts(evs', n, "ping")
      BY <1>4 DEF Counts
    <2>4. Counts(reqs, n, "pong") => Counts(reqs', n, "pong")
      BY <1>2 DEF Counts
    <2> QED
      BY <2>1, <2>2, <2>3, <2>4 DEF PingInv, AllAnswered
  <1>12. pongs' <= pings'
    BY <1>1, <1>2 DEF PingInv
  <1> QED
    BY <1>6, <1>8, <1>9, <1>10, <1>11, <1>12 DEF PingInv

\* The bridge answers the oldest ping.
LEMMA AnswerPings ==
    ASSUME TypeInv, PingInv, evs # <<>>, Head(evs).type = "ping", evs' = Tail(evs),
           reqs' = reqs \o <<Msg("pong", None, None, 0, Head(evs).serial)>>,
           UNCHANGED <<pings, pongs>>
    PROVE  PingInv'
  <1> DEFINE e == Head(evs)
             m == Msg("pong", None, None, 0, e.serial)
  <1>1. /\ reqs \in Seq(Request) /\ evs \in Seq(Event) /\ pings \in Nat /\ pongs \in Nat
        /\ 1 \in DOMAIN evs /\ evs[1] = e /\ e \in Event
    BY PingTypes
  <1>2. m \in Request /\ m.type = "pong" /\ m.handle = None /\ m.serial = e.serial
    <2>1. e.serial \in 0..MaxSerial
      BY <1>1, EventFields
    <2>2. m \in Request
      BY <2>1, MsgTyped, ZeroTyped DEF Request, RequestType, BufferType, SeatType
    <2> QED
      BY <2>2 DEF Msg
  <1>3. /\ Draws(evs', evs, "ping")
        /\ \A i \in DOMAIN evs' : evs'[i].type = "ping" => e.serial < evs'[i].serial
    <2>1. /\ Draws(Tail(evs), evs, "ping")
          /\ \A i \in DOMAIN Tail(evs) :
                 /\ e.type = "ping" /\ Tail(evs)[i].type = "ping"
                 /\ e.handle = Tail(evs)[i].handle
                 => e.serial < Tail(evs)[i].serial
      BY <1>1, TailDraws DEF PingInv
    <2>2. e.handle = None /\ \A i \in DOMAIN evs' : evs'[i].type = "ping" => evs'[i].handle = None
      BY <1>1, <2>1 DEF Draws, PingInv, PingsDue
    <2> QED
      BY <2>1, <2>2
  <1>4. \A i \in DOMAIN evs : evs[i] = e \/ \E j \in DOMAIN evs' : evs'[j] = evs[i]
    BY <1>1, TailLeaves
  <1>5. reqs' = reqs \o <<m>> /\ e.type = "ping" /\ UNCHANGED <<pings, pongs>>
    OBVIOUS
  <1> HIDE DEF e, m
  <1>6. \A i \in DOMAIN reqs' : (\E j \in DOMAIN reqs : reqs[j] = reqs'[i]) \/ reqs'[i] = m
    BY <1>1, <1>2, <1>5
  <1>7. /\ \A i \in DOMAIN reqs : \E j \in DOMAIN reqs' : reqs'[j] = reqs[i]
        /\ \E j \in DOMAIN reqs' : reqs'[j] = m
    <2>1. /\ Keeps(reqs \o <<m>>, reqs)
          /\ \E j \in DOMAIN (reqs \o <<m>>) : (reqs \o <<m>>)[j] = m
      BY <1>1, <1>2, OneMore
    <2> QED
      BY <1>1, <1>2, <1>5, <2>1 DEF Keeps
  <1>8. \A i \in DOMAIN reqs : reqs[i].type = "pong" => reqs[i].serial < m.serial
    BY <1>1, <1>2, <1>5 DEF PingInv, PongsBefore
  <1>9. Rising(evs', "ping") /\ Rising(reqs', "pong")
    BY <1>1, <1>2, <1>3, <1>5, <1>8, RisingMore DEF PingInv, Draws
  <1>10. PingsDue'
    BY <1>3, <1>5 DEF PingInv, PingsDue, Draws
  <1>11. PongsDue'
    <2>1. m.serial \in pongs + 1..pings
      BY <1>1, <1>2, <1>5 DEF PingInv, PingsDue
    <2> QED
      BY <1>2, <1>5, <1>6, <2>1 DEF PingInv, PongsDue
  <1>12. PongsBefore'
    BY <1>2, <1>3, <1>5, <1>6 DEF PingInv, PongsBefore, Draws
  <1>13. AllAnswered'
    <2>1. \A n : Counts(evs, n, "ping") => Counts(evs', n, "ping") \/ n = m.serial
      BY <1>2, <1>4 DEF Counts
    <2>2. \A n : Counts(reqs, n, "pong") => Counts(reqs', n, "pong")
      BY <1>7 DEF Counts
    <2>3. Counts(reqs', m.serial, "pong")
      BY <1>2, <1>7 DEF Counts
    <2> QED
      BY <1>5, <2>1, <2>2, <2>3 DEF PingInv, AllAnswered
  <1> QED
    BY <1>5, <1>9, <1>10, <1>11, <1>12, <1>13 DEF PingInv

\* The compositor takes the oldest answer.
LEMMA TakePongs ==
    ASSUME TypeInv, PingInv, reqs # <<>>, Head(reqs).type = "pong", reqs' = Tail(reqs),
           pongs' = pongs + 1, UNCHANGED <<evs, pings>>
    PROVE  PingInv'
  <1> DEFINE m == Head(reqs)
  <1>1. /\ reqs \in Seq(Request) /\ evs \in Seq(Event) /\ pings \in Nat /\ pongs \in Nat
        /\ 1 \in DOMAIN reqs /\ reqs[1] = m
    BY PingTypes
  <1>2. /\ Draws(reqs', reqs, "pong")
        /\ \A i \in DOMAIN reqs' : reqs'[i].type = "pong" => m.serial < reqs'[i].serial
    <2>1. /\ Draws(Tail(reqs), reqs, "pong")
          /\ \A i \in DOMAIN Tail(reqs) :
                 /\ m.type = "pong" /\ Tail(reqs)[i].type = "pong"
                 /\ m.handle = Tail(reqs)[i].handle
                 => m.serial < Tail(reqs)[i].serial
      BY <1>1, TailDraws DEF PingInv
    <2>2. m.handle = None /\ \A i \in DOMAIN reqs' : reqs'[i].type = "pong" => reqs'[i].handle = None
      BY <1>1, <2>1 DEF Draws, PingInv, PongsDue
    <2> QED
      BY <2>1, <2>2
  <1>3. \A i \in DOMAIN reqs : reqs[i] = m \/ \E j \in DOMAIN reqs' : reqs'[j] = reqs[i]
    BY <1>1, TailLeaves
  <1>4. m.type = "pong" /\ pongs' = pongs + 1 /\ UNCHANGED <<evs, pings>>
    OBVIOUS
  <1> HIDE DEF m
  <1>5. m.serial \in pongs + 1..pings
    BY <1>1, <1>4 DEF PingInv, PongsDue
  <1>6. m.serial = pongs + 1
    <2>1. pongs + 1 \in pongs + 1..pings
      BY <1>1, <1>5
    <2>2. ~Counts(evs, pongs + 1, "ping")
      <3>1. \A j \in DOMAIN evs : evs[j].type = "ping" => m.serial < evs[j].serial
        BY <1>1, <1>4 DEF PingInv, PongsBefore
      <3>2. ~(m.serial < pongs + 1)
        BY <1>1, <1>5
      <3> QED
        BY <3>1, <3>2 DEF Counts
    <2>3. PICK i \in DOMAIN reqs : reqs[i].type = "pong" /\ reqs[i].serial = pongs + 1
      BY <2>1, <2>2 DEF PingInv, AllAnswered, Counts
    <2>4. reqs[i] = m \/ m.serial < pongs + 1
      BY <1>2, <1>3, <2>3
    <2> QED
      BY <1>1, <1>5, <2>3, <2>4
  <1>7. PingsDue'
    <2> SUFFICES ASSUME NEW i \in DOMAIN evs, evs[i].type = "ping"
                 PROVE  evs[i].handle = None /\ evs[i].serial \in pongs' + 1..pings
      BY <1>4 DEF PingsDue
    <2>1. evs[i].handle = None /\ evs[i].serial \in pongs + 1..pings
      BY DEF PingInv, PingsDue
    <2>2. m.serial < evs[i].serial
      BY <1>1, <1>4 DEF PingInv, PongsBefore
    <2> QED
      BY <1>1, <1>4, <1>6, <2>1, <2>2
  <1>8. PongsDue'
    <2> SUFFICES ASSUME NEW i \in DOMAIN reqs', reqs'[i].type = "pong"
                 PROVE  reqs'[i].handle = None /\ reqs'[i].serial \in pongs' + 1..pings
      BY <1>4 DEF PongsDue
    <2>1. reqs'[i].handle = None /\ reqs'[i].serial \in pongs + 1..pings
      BY <1>2 DEF PingInv, PongsDue, Draws
    <2>2. m.serial < reqs'[i].serial
      BY <1>2
    <2> QED
      BY <1>1, <1>4, <1>6, <2>1, <2>2
  <1>9. PongsBefore'
    BY <1>2, <1>4 DEF PingInv, PongsBefore, Draws
  <1>10. AllAnswered'
    <2> SUFFICES ASSUME NEW n \in pongs' + 1..pings
                 PROVE  Counts(evs, n, "ping") \/ Counts(reqs', n, "pong")
      BY <1>4 DEF AllAnswered
    <2>1. n \in pongs + 1..pings /\ n # m.serial
      BY <1>1, <1>4, <1>6
    <2>2. Counts(reqs, n, "pong") => Counts(reqs', n, "pong")
      BY <1>3, <2>1 DEF Counts
    <2> QED
      BY <2>1, <2>2 DEF PingInv, AllAnswered
  <1>11. pongs' <= pings'
    BY <1>1, <1>4, <1>5, <1>6
  <1> QED
    BY <1>2, <1>4, <1>7, <1>8, <1>9, <1>10, <1>11 DEF PingInv, Draws

\* What the bridge says when it dispatches an event.
LEMMA DeliverPongs ==
    ASSUME TypeInv, Deliver, conn = "up"
    PROVE  IF NextEvent.type = "ping"
           THEN reqs' = reqs \o <<Msg("pong", None, None, 0, NextEvent.serial)>>
           ELSE UNCHANGED reqs \/ \E ms \in Seq(Request) : Quiet(ms, "pong") /\ reqs' = reqs \o ms
  <1>1. CASE OnPing
    BY <1>1 DEF OnPing, Emit
  <1>2. CASE OnCapabilities
    <2>1. NextEvent.type # "ping"
      BY <1>2 DEF OnCapabilities
    <2> QED
      BY <1>2, <2>1, CapabilitiesQuiet DEF Asks, Emit
  <1>3. CASE OnConfigure \/ OnGlobal
    <2>1. /\ NextEvent.handle \in 0..MaxApps /\ NextEvent.serial \in 0..MaxSerial
          /\ OnGlobal => NextEvent.serial \in Seat
      BY DropTyped, EventFields, DeliverFacts DEF TypeInv, TypeOK, OnGlobal, SeatType
    <2>2. /\ <<Msg("ack_configure", NextEvent.handle, None, 0, NextEvent.serial)>> \in Seq(Request)
          /\ OnGlobal => <<Msg("bind_seat", None, None, 0, NextEvent.serial)>> \in Seq(Request)
      BY <2>1, OneRequest, ZeroTyped DEF RequestType, BufferType, SeatType
    <2>3. /\ Quiet(<<Msg("ack_configure", NextEvent.handle, None, 0, NextEvent.serial)>>, "pong")
          /\ Quiet(<<Msg("bind_seat", None, None, 0, NextEvent.serial)>>, "pong")
      BY DEF Quiet, Msg
    <2>4. NextEvent.type # "ping"
      BY <1>3 DEF OnConfigure, OnGlobal
    <2> QED
      BY <1>3, <2>2, <2>3, <2>4 DEF OnConfigure, OnGlobal, Emit
  <1>4. CASE ~(OnCapabilities \/ OnConfigure \/ OnPing \/ OnGlobal)
    BY <1>4 DEF Deliver, OnAppEvent, OnClose, OnRelease, OnDiscarded, OnSeatEvent,
       OnKeyboardEnter, OnKeyboardLeave, OnKeyboardInput, OnPointerEnter, OnPointerLeave,
       OnPointerInput, OnTouchDown, OnTouchInput, OnTouchCancel
  <1> QED
    BY <1>1, <1>2, <1>3, <1>4

LEMMA DeliverPings ==
    ASSUME TypeInv, PingInv, Deliver, conn = "up", UNCHANGED <<pings, pongs>>
    PROVE  PingInv'
  <1>1. /\ reqs \in Seq(Request) /\ evs \in Seq(Event)
        /\ evs # <<>> /\ evs' = Tail(evs) /\ NextEvent = Head(evs)
    BY DeliverFacts DEF DropEvent, NextEvent, TypeInv, TypeOK, WireTypeOK
  <1>2. CASE NextEvent.type = "ping"
    <2>1. reqs' = reqs \o <<Msg("pong", None, None, 0, NextEvent.serial)>>
      BY <1>2, DeliverPongs
    <2> QED
      BY <1>1, <1>2, <2>1, AnswerPings
  <1>3. CASE NextEvent.type # "ping"
    <2>1. Retains(evs', evs, "ping")
      BY <1>1, <1>3, RetainsTail DEF PingInv
    <2>2. UNCHANGED reqs \/ \E ms \in Seq(Request) : Quiet(ms, "pong") /\ reqs' = reqs \o ms
      BY <1>3, DeliverPongs
    <2>3. Retains(reqs', reqs, "pong")
      BY <1>1, <2>2, RetainsSame, RetainsMore DEF PingInv
    <2> QED
      BY <2>1, <2>3, KeepPings
  <1> QED
    BY <1>2, <1>3

LEMMA ReadPings ==
    ASSUME TypeInv, PingInv, PumpRead, conn' = "up", UNCHANGED <<pings, pongs>>
    PROVE  PingInv'
  <1> DEFINE kept == {i \in DOMAIN evs : ObjectLives(evs[i])}
  <1>1. /\ evs' = [i \in DOMAIN evs |-> IF i <= read \/ i \in kept THEN evs[i] ELSE Discarded]
        /\ UNCHANGED reqs
    BY DEF PumpRead, ReadEvents, Lose
  <1>2. Discarded.type # "ping"
    BY DEF Discarded, Msg
  <1>3. \A i \in DOMAIN evs : evs[i].type = "ping" => i \in kept
    BY DEF ObjectLives
  <1>4. DOMAIN evs' = DOMAIN evs
    BY <1>1
  <1>5. \A i \in DOMAIN evs : /\ evs'[i].type = "ping" => evs'[i] = evs[i]
                              /\ evs[i].type = "ping" => evs'[i] = evs[i]
    BY <1>1, <1>2, <1>3
  <1>6. Retains(evs', evs, "ping")
    BY <1>4, <1>5 DEF Retains, Draws, Rising, PingInv
  <1>7. Retains(reqs', reqs, "pong")
    BY <1>1, RetainsSame DEF PingInv
  <1> QED
    BY <1>6, <1>7, KeepPings

\* The compositor takes another request.
LEMMA AcceptPings ==
    ASSUME TypeInv, PingInv, Accept, conn' = "up"
    PROVE  PingInv'
  <1>1. /\ reqs \in Seq(Request) /\ evs \in Seq(Event) /\ conn = "up"
        /\ reqs # <<>> /\ reqs' = Tail(reqs)
    BY DEF Accept, TakeRequest, TypeInv, TypeOK, WireTypeOK
  <1>2. CASE AcceptPong
    BY <1>1, <1>2, TakePongs DEF AcceptPong, Oldest
  <1>3. CASE ~AcceptPong
    <2>1. /\ Head(reqs).type # "pong" /\ UNCHANGED <<pings, pongs>>
          /\ \/ UNCHANGED evs
             \/ \E s \in Seat : evs' = evs \o <<Msg("capabilities", None, None, 0, s)>>
      <3>1. AcceptBindSeat => Oldest.serial \in Seat
        BY BindReplyTyped DEF TypeInv, TypeOK
      <3> QED
        BY <1>1, <1>3, <3>1 DEF Accept, AcceptCreate, AcceptCreatePool, AcceptFrame,
           AcceptDestroyPool, AcceptDestroyWindow, AcceptDestroy, AcceptAck, AcceptBindSeat,
           AcceptGetDevice, ProtocolError, PeerGone, SendEvents, Oldest
    <2>2. Retains(reqs', reqs, "pong")
      BY <1>1, <2>1, RetainsTail DEF PingInv
    <2>3. \A s \in Seat : /\ <<Msg("capabilities", None, None, 0, s)>> \in Seq(Event)
                         /\ Quiet(<<Msg("capabilities", None, None, 0, s)>>, "ping")
      BY SeatNumber, OneEvent, ZeroTyped DEF EventType, BufferType, SeatType, Quiet, Msg
    <2>4. Retains(evs', evs, "ping")
      BY <1>1, <2>1, <2>3, RetainsSame, RetainsMore DEF PingInv
    <2> QED
      BY <2>1, <2>2, <2>4, KeepPings
  <1> QED
    BY <1>2, <1>3

\* The compositor speaks of something else.
LEMMA OtherPings ==
    ASSUME TypeInv, PingInv, conn = "up",
           \/ SeatTraffic
           \/ \E h \in Handle : SendConfigure(h) \/ SendClose(h)
           \/ \E b \in held : Release(b)
    PROVE  PingInv'
  <1>1. UNCHANGED <<pings, pongs, reqs>>
    BY SeatTrafficKeeps DEF SendConfigure, SendClose, Release
  <1>2. reqs \in Seq(Request) /\ evs \in Seq(Event)
    BY PingTypes
  <1>3. \E ms \in Seq(Event) : Quiet(ms, "ping") /\ evs' = evs \o ms
    <2>1. CASE SeatTraffic
      <3>1. \A ms \in Seq(SeatEvent) : ms \in Seq(Event) /\ Quiet(ms, "ping")
        BY DEF SeatEvent, Quiet
      <3> QED
        BY <2>1, <3>1, SeatTyped DEF SendsForSeat, SendEvents, TypeInv, TypeOK
    <2>2. ASSUME NEW h \in Handle, SendConfigure(h) \/ SendClose(h)
          PROVE  \E ms \in Seq(Event) : Quiet(ms, "ping") /\ evs' = evs \o ms
      <3>1. sent[h] + 1 \in 0..MaxSerial \/ SendClose(h)
        BY <2>2, ConstantsTyped DEF SendConfigure, TypeInv, TypeOK, WestonTypeOK
      <3>2. h \in 0..MaxApps
        BY ConstantsTyped DEF Handle
      <3>3. \A n \in 0..MaxSerial : /\ <<Msg("configure", h, None, 0, n)>> \in Seq(Event)
                                    /\ Quiet(<<Msg("configure", h, None, 0, n)>>, "ping")
        BY <3>2, OneEvent, ZeroTyped DEF EventType, BufferType, SeatType, Quiet, Msg
      <3>4. /\ <<Msg("close", h, None, 0, 0)>> \in Seq(Event)
            /\ Quiet(<<Msg("close", h, None, 0, 0)>>, "ping")
        BY <3>2, OneEvent, ZeroTyped DEF EventType, BufferType, SeatType, Quiet, Msg
      <3> QED
        BY <2>2, <3>1, <3>3, <3>4 DEF SendConfigure, SendClose, SendEvents
    <2>3. ASSUME NEW b \in held, Release(b)
          PROVE  \E ms \in Seq(Event) : Quiet(ms, "ping") /\ evs' = evs \o ms
      <3>1. b.handle \in Handle /\ b.pool \in Pool /\ b.slot \in Slot
        BY DEF TypeInv, TypeOK, WestonTypeOK, Token
      <3>2. /\ <<Msg("release", b.handle, b.pool, b.slot, 0)>> \in Seq(Event)
            /\ Quiet(<<Msg("release", b.handle, b.pool, b.slot, 0)>>, "ping")
        BY <3>1, OneEvent, ZeroTyped, ConstantsTyped DEF EventType, SeatType, Quiet, Msg, Handle, Pool
      <3> QED
        BY <2>3, <3>2 DEF Release, SendEvents
    <2> QED
      BY <2>1, <2>2, <2>3
  <1>4. Retains(evs', evs, "ping")
    BY <1>2, <1>3, RetainsMore DEF PingInv
  <1>5. Retains(reqs', reqs, "pong")
    BY <1>1, RetainsSame DEF PingInv
  <1> QED
    BY <1>1, <1>4, <1>5, KeepPings

LEMMA NextPings ==
    ASSUME TypeInv, Idle, conn = "up" => PingInv, [Next]_vars, conn' = "up"
    PROVE  PingInv'
  <1>1. CASE Start
    <2> DEFINE n == seats
    <2>1. AnowawStart(n)
      BY <1>1 DEF Start
    <2>2. /\ reqs' = <<>> /\ pings' = 0 /\ pongs' = 0
          /\ evs' = [i \in 1..n |-> Msg("capabilities", None, None, 0, i)]
      BY <1>1, <2>1 DEF Start, AnowawStart, Idle, NoClient, ClientConnects
    <2>3. DOMAIN reqs' = {} /\ \A i \in DOMAIN evs' : evs'[i].type # "ping"
      BY <2>2 DEF Msg
    <2>4. /\ Rising(evs', "ping") /\ Rising(reqs', "pong")
          /\ PingsDue' /\ PongsDue' /\ PongsBefore'
      BY <2>3 DEF Rising, PingsDue, PongsDue, PongsBefore
    <2>5. pongs' <= pings' /\ AllAnswered'
      BY <2>2 DEF AllAnswered
    <2> QED
      BY <2>4, <2>5 DEF PingInv
  <1>2. CASE conn = "up" /\ CompositorStep
    <2>1. CASE Crash
      BY <1>2, <2>1 DEF Crash, PeerGone
    <2> QED
      BY <1>2, <2>1, AcceptPings, SendPings, OtherPings
         DEF CompositorStep, WestonStep, SeatTraffic
  <1>3. CASE conn = "up" /\ (BridgeStep \/ UNCHANGED vars)
    <2>1. UNCHANGED <<pings, pongs>> /\ reqs \in Seq(Request) /\ evs \in Seq(Event)
      BY <1>3, PingTypes DEF BridgeStep, vars, westonVars, clientVars
    <2>2. ASSUME UNCHANGED evs,
                 UNCHANGED reqs \/ \E ms \in Seq(Request) : Unprompted(ms) /\ Emit(ms)
          PROVE  PingInv'
      <3>1. \A ms \in Seq(Request) : Unprompted(ms) => Quiet(ms, "pong")
        BY DEF Unprompted, AnswerType, Quiet
      <3>2. Retains(reqs', reqs, "pong")
        BY <1>3, <2>1, <2>2, <3>1, RetainsSame, RetainsMore DEF PingInv, Emit
      <3>3. Retains(evs', evs, "ping")
        BY <1>3, <2>2, RetainsSame DEF PingInv
      <3> QED
        BY <1>3, <2>1, <3>2, <3>3, KeepPings
    <2>3. CASE Deliver
      BY <1>3, <2>1, <2>3, DeliverPings
    <2>4. CASE PumpRead
      BY <1>3, <2>1, <2>4, ReadPings
    <2>5. CASE CoreStep /\ ~PumpRead /\ ~PollInputBody /\ ~Deliver
      BY <2>2, <2>5, CoreSays DEF Lose
    <2>6. CASE PollInputBody \/ UNCHANGED vars \/ (BridgeStep /\ ~CoreStep)
      BY <2>2, <2>6, CallsAreSilent DEF PollInputBody, vars, wireVars
    <2> QED
      BY <1>3, <2>3, <2>4, <2>5, <2>6
  <1> QED
    BY <1>1, <1>2, <1>3, ComesUp, UpSteps

\* Whatever else the bridge does, the pings it has not answered are those on their way, each
\* once, as the ping or as its pong (core/src/bridge.rs, the handler of xdg_wm_base.ping):
\* none is lost in a pump that fails or in a queue that is read twice.
THEOREM PingsAreAnswered == Spec => []PingNotLost
  <1> DEFINE Answering == conn = "up" => PingInv
  <1>1. Init => Answering
    BY DEF Init, WireInit
  <1>2. LendingInv /\ Answering /\ [Next]_vars => Answering'
    BY NextPings DEF LendingInv
  <1>3. LendingInv /\ Answering => PingNotLost
    BY PingInvIsEnough DEF LendingInv
  <1> HIDE DEF Answering
  <1> QED
    BY <1>1, <1>2, <1>3, LendingInvariance, PTL DEF Spec
=============================================================================
