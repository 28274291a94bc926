---------------------------- MODULE BufferProofs ----------------------------
(***************************************************************************)
(* Proofs that no buffer is in use twice and none is lost: SlotSafety,     *)
(* ExclusiveUse, NoStaleRelease, NoSlotLeak and the refinement             *)
(* LendsBuffers of BridgeSystem, for every value of the constants; and     *)
(* NeverStarved, for any number of slots from two on.  The last sections   *)
(* say what each step does to the messages on their way.                   *)
(***************************************************************************)
EXTENDS BridgeProofs, FiniteSetTheorems

-----------------------------------------------------------------------------
(* The buffers a sequence of messages names in messages of one type.        *)

Of(seq, type) == {Tok(seq[i]) : i \in {j \in DOMAIN seq : seq[j].type = type}}

\* No two of them name the same buffer.
Once(seq, type) ==
    \A i, j \in DOMAIN seq :
        seq[i].type = type /\ seq[j].type = type /\ Tok(seq[i]) = Tok(seq[j]) => i = j

Quiet(ms, type) == \A i \in DOMAIN ms : ms[i].type # type

LEMMA TailOf ==
    ASSUME NEW M, NEW seq \in Seq(M), seq # <<>>, NEW type, Once(seq, type)
    PROVE  /\ Of(Tail(seq), type) \subseteq Of(seq, type)
           /\ Once(Tail(seq), type)
           /\ Head(seq).type = type =>
                  Tok(Head(seq)) \in Of(seq, type) \ Of(Tail(seq), type)
  <1>1. \A i \in DOMAIN Tail(seq) :
            i \in Nat /\ i > 0 /\ i + 1 \in DOMAIN seq /\ Tail(seq)[i] = seq[i + 1]
    OBVIOUS
  <1>2. 1 \in DOMAIN seq /\ Head(seq) = seq[1]
    OBVIOUS
  <1>3. Of(Tail(seq), type) \subseteq Of(seq, type)
    BY <1>1 DEF Of
  <1>4. Once(Tail(seq), type)
    <2> SUFFICES ASSUME NEW i \in DOMAIN Tail(seq), NEW j \in DOMAIN Tail(seq),
                        Tail(seq)[i].type = type, Tail(seq)[j].type = type,
                        Tok(Tail(seq)[i]) = Tok(Tail(seq)[j])
                 PROVE  i = j
      BY DEF Once
    <2>1. i + 1 = j + 1
      BY <1>1 DEF Once
    <2> QED
      BY <1>1, <2>1
  <1>5. ASSUME Head(seq).type = type
        PROVE  Tok(Head(seq)) \in Of(seq, type) /\ Tok(Head(seq)) \notin Of(Tail(seq), type)
    <2>1. Tok(Head(seq)) \in Of(seq, type)
      BY <1>2, <1>5 DEF Of
    <2>2. ASSUME NEW i \in DOMAIN Tail(seq), Tail(seq)[i].type = type
          PROVE  Tok(Tail(seq)[i]) # Tok(Head(seq))
      BY <1>1, <1>2, <1>5, <2>2 DEF Once
    <2> QED
      BY <2>1, <2>2 DEF Of
  <1> QED
    BY <1>3, <1>4, <1>5

LEMMA ConcatFacts ==
    ASSUME NEW M, NEW seq \in Seq(M), NEW ms \in Seq(M)
    PROVE  /\ \A i \in DOMAIN seq : i \in DOMAIN (seq \o ms) /\ (seq \o ms)[i] = seq[i]
           /\ \A k \in DOMAIN ms :
                  Len(seq) + k \in DOMAIN (seq \o ms) /\ (seq \o ms)[Len(seq) + k] = ms[k]
           /\ \A i \in DOMAIN (seq \o ms) :
                  \/ i \in DOMAIN seq /\ (seq \o ms)[i] = seq[i]
                  \/ \E k \in DOMAIN ms : i = Len(seq) + k /\ (seq \o ms)[i] = ms[k]
  <1>1. Len(seq \o ms) = Len(seq) + Len(ms) /\ Len(seq) \in Nat /\ Len(ms) \in Nat
    OBVIOUS
  <1>2. \A i \in 1..Len(seq) + Len(ms) :
            (seq \o ms)[i] = IF i <= Len(seq) THEN seq[i] ELSE ms[i - Len(seq)]
    OBVIOUS
  <1>3. ASSUME NEW i \in DOMAIN (seq \o ms)
        PROVE  \/ i \in DOMAIN seq /\ (seq \o ms)[i] = seq[i]
               \/ \E k \in DOMAIN ms : i = Len(seq) + k /\ (seq \o ms)[i] = ms[k]
    <2>1. CASE i <= Len(seq)
      BY <1>1, <1>2, <2>1
    <2>2. CASE i > Len(seq)
      <3>1. i - Len(seq) \in DOMAIN ms /\ i = Len(seq) + (i - Len(seq))
        BY <1>1, <2>2
      <3> QED
        BY <1>1, <1>2, <2>2, <3>1
    <2> QED
      BY <1>1, <2>1, <2>2
  <1> QED
    BY <1>1, <1>2, <1>3

LEMMA Pair ==
    ASSUME NEW M, NEW c \in M, NEW d \in M
    PROVE  <<c, d>> = <<c>> \o <<d>>
  <1>1. <<c>> \in Seq(M) /\ <<d>> \in Seq(M) /\ <<c, d>> \in Seq(M)
    OBVIOUS
  <1>2. /\ Len(<<c>>) = 1 /\ Len(<<d>>) = 1 /\ Len(<<c, d>>) = 2
        /\ <<c>>[1] = c /\ <<d>>[1] = d /\ <<c, d>>[1] = c /\ <<c, d>>[2] = d
    OBVIOUS
  <1> DEFINE s == <<c>> \o <<d>>
  <1>3. s \in Seq(M) /\ Len(s) = 2 /\ s[1] = c /\ s[2] = d
    BY <1>1, <1>2, ConcatProperties
  <1> HIDE DEF s
  <1>4. s = <<c, d>>
    BY <1>1, <1>2, <1>3, SeqEqual
  <1> QED
    BY <1>4 DEF s

\* Messages of other types leave them as they are.
LEMMA QuietConcat ==
    ASSUME NEW M, NEW seq \in Seq(M), NEW ms \in Seq(M), NEW type, Quiet(ms, type)
    PROVE  /\ Of(seq \o ms, type) = Of(seq, type)
           /\ Once(seq, type) => Once(seq \o ms, type)
           /\ Quiet(seq, type) => Quiet(seq \o ms, type)
  <1>1. \A i \in DOMAIN (seq \o ms) :
            (seq \o ms)[i].type = type => i \in DOMAIN seq /\ (seq \o ms)[i] = seq[i]
    BY ConcatFacts DEF Quiet
  <1>2. \A i \in DOMAIN seq : i \in DOMAIN (seq \o ms) /\ (seq \o ms)[i] = seq[i]
    BY ConcatFacts
  <1> HIDE DEF Tok
  <1> QED
    BY <1>1, <1>2 DEF Of, Once, Quiet

\* One message more names one buffer more.
LEMMA SingleConcat ==
    ASSUME NEW M, NEW seq \in Seq(M), NEW ms \in Seq(M), NEW type,
           NEW n \in DOMAIN ms, \A i \in DOMAIN ms : ms[i].type = type <=> i = n
    PROVE  /\ Of(seq \o ms, type) = Of(seq, type) \union {Tok(ms[n])}
           /\ Once(seq, type) /\ Tok(ms[n]) \notin Of(seq, type) => Once(seq \o ms, type)
  <1>1. \A i \in DOMAIN (seq \o ms) :
            (seq \o ms)[i].type = type =>
                \/ i \in DOMAIN seq /\ (seq \o ms)[i] = seq[i]
                \/ i = Len(seq) + n /\ (seq \o ms)[i] = ms[n]
    BY ConcatFacts
  <1>2. \A i \in DOMAIN seq : i \in DOMAIN (seq \o ms) /\ (seq \o ms)[i] = seq[i]
    BY ConcatFacts
  <1>3. /\ Len(seq) + n \in DOMAIN (seq \o ms) /\ (seq \o ms)[Len(seq) + n] = ms[n]
        /\ ms[n].type = type
    BY ConcatFacts
  <1>4. Of(seq \o ms, type) = Of(seq, type) \union {Tok(ms[n])}
    <2> HIDE DEF Tok
    <2>1. Of(seq \o ms, type) \subseteq Of(seq, type) \union {Tok(ms[n])}
      BY <1>1 DEF Of
    <2>2. Of(seq, type) \subseteq Of(seq \o ms, type)
      BY <1>2 DEF Of
    <2>3. Tok(ms[n]) \in Of(seq \o ms, type)
      BY <1>3 DEF Of
    <2> QED
      BY <2>1, <2>2, <2>3
  <1>5. ASSUME Once(seq, type), Tok(ms[n]) \notin Of(seq, type)
        PROVE  Once(seq \o ms, type)
    <2>1. \A i \in DOMAIN seq : seq[i].type = type => Tok(seq[i]) # Tok(ms[n])
      BY <1>5 DEF Of
    <2> QED
      BY <1>1, <1>5, <2>1 DEF Once
  <1> QED
    BY <1>4, <1>5

-----------------------------------------------------------------------------
(* The invariant.  A buffer in use belongs to a pool that has been made, and *)
(* if its app still has that pool, its slot is busy.                         *)

PoolsMade == /\ \A h \in Handle : pool[h] <= pools_made
             /\ \A b \in InUse : b.pool <= pools_made

Taken == \A b \in InUse : pool[b.handle] = b.pool => b.slot \in busy[b.handle]

\* What is in the event queue cannot be dropped any more: it is of the current pool.
Fresh == \A i \in 1..read : evs[i].type = "release" =>
             evs[i].handle \in live /\ pool[evs[i].handle] = evs[i].pool

UsedOnce == /\ Once(reqs, "frame") /\ Once(evs, "release")
            /\ Of(reqs, "frame") \intersect held = {}
            /\ Of(evs, "release") \intersect (held \union Of(reqs, "frame")) = {}

TokenInv == PoolsMade /\ Taken /\ Fresh /\ UsedOnce

LEMMA UsedOnceIsExclusive == UsedOnce <=> ExclusiveUse
  BY DEF UsedOnce, ExclusiveUse, Once, Of, FrameTokens, ReleaseTokens

LEMMA InUseIs == /\ InUse = Of(reqs, "frame") \union held \union Of(evs, "release")
                 /\ InUse' = Of(reqs', "frame") \union held' \union Of(evs', "release")
  BY DEF InUse, FrameTokens, ReleaseTokens, Of

LEMMA MessageTokens ==
    /\ \A m \in Request : m.type = "frame" => Tok(m) \in Token
    /\ \A m \in Event : m.type = "release" => Tok(m) \in Token
  BY RequestFields, EventFields DEF Tok, Token, BufferType

LEMMA InUseTyped == TypeInv => InUse \subseteq Token
  <1> SUFFICES ASSUME TypeInv PROVE InUse \subseteq Token
    OBVIOUS
  <1>1. reqs \in Seq(Request) /\ evs \in Seq(Event) /\ held \subseteq Token
    BY DEF TypeInv, TypeOK, WireTypeOK, WestonTypeOK
  <1>2. Of(reqs, "frame") \subseteq Token /\ Of(evs, "release") \subseteq Token
    BY <1>1, MessageTokens DEF Of
  <1> QED
    BY <1>1, <1>2, InUseIs

\* A step that takes no buffer into use, and frees no slot of a pool that stays.
LEMMA NoNewUse ==
    ASSUME TypeInv, TokenInv, pools_made' = pools_made,
           Of(reqs', "frame") \subseteq Of(reqs, "frame"), Once(reqs', "frame"),
           held' \subseteq held,
           Of(evs', "release") \subseteq Of(evs, "release"), Once(evs', "release"),
           \A h \in Handle : pool'[h] # None => pool'[h] = pool[h] /\ busy[h] \subseteq busy'[h],
           \A h \in Handle : pool'[h] <= pools_made,
           Fresh'
    PROVE  TokenInv'
  <1>1. InUse' \subseteq InUse
    BY InUseIs
  <1>2. \A b \in InUse : b.handle \in Handle /\ b.pool # None
    BY InUseTyped, ConstantsTyped DEF Token, Pool, None
  <1>3. PoolsMade'
    BY <1>1 DEF TokenInv, PoolsMade
  <1>4. Taken'
    BY <1>1, <1>2 DEF TokenInv, Taken
  <1>5. UsedOnce'
    BY DEF TokenInv, UsedOnce
  <1> QED
    BY <1>3, <1>4, <1>5 DEF TokenInv

LEMMA SameWire ==
    ASSUME TokenInv, UNCHANGED <<reqs, evs>>
    PROVE  /\ Of(reqs', "frame") = Of(reqs, "frame") /\ Once(reqs', "frame")
           /\ Of(evs', "release") = Of(evs, "release") /\ Once(evs', "release")
  BY DEF TokenInv, UsedOnce

LEMMA QuietEmit ==
    ASSUME TypeInv, TokenInv, NEW ms \in Seq(Request), Quiet(ms, "frame"), Emit(ms)
    PROVE  Of(reqs', "frame") \subseteq Of(reqs, "frame") /\ Once(reqs', "frame")
  <1>1. reqs \in Seq(Request)
    BY DEF TypeInv, TypeOK, WireTypeOK
  <1>2. Once(reqs, "frame")
    BY DEF TokenInv, UsedOnce
  <1> QED
    BY <1>1, <1>2, QuietConcat DEF Emit

LEMMA QuietSend ==
    ASSUME TypeInv, TokenInv, NEW ms \in Seq(Event), Quiet(ms, "release"), SendEvents(ms)
    PROVE  Of(evs', "release") \subseteq Of(evs, "release") /\ Once(evs', "release")
  <1>1. evs \in Seq(Event)
    BY DEF TypeInv, TypeOK, WireTypeOK
  <1>2. Once(evs, "release")
    BY DEF TokenInv, UsedOnce
  <1> QED
    BY <1>1, <1>2, QuietConcat DEF SendEvents

\* What is sent goes behind the event queue.
LEMMA SendKeepsFresh ==
    ASSUME TypeInv, TokenInv, NEW ms \in Seq(Event), SendEvents(ms), UNCHANGED <<read, live, pool>>
    PROVE  Fresh'
  <1>1. evs \in Seq(Event) /\ read \in 0..Len(evs)
    BY DEF TypeInv, TypeOK, WireTypeOK
  <1>2. \A i \in 1..read : evs'[i] = evs[i]
    BY <1>1, ConcatFacts DEF SendEvents
  <1> QED
    BY <1>2 DEF TokenInv, Fresh

LEMMA DropFacts ==
    ASSUME TypeInv, TokenInv, DropEvent, UNCHANGED <<live, pool>>
    PROVE  /\ Of(evs', "release") \subseteq Of(evs, "release") /\ Once(evs', "release")
           /\ Fresh' /\ NextEvent \in Event /\ evs # <<>>
           /\ NextEvent.type = "release" =>
                  /\ Tok(NextEvent) \in Of(evs, "release") \ Of(evs', "release")
                  /\ NextEvent.handle \in live /\ pool[NextEvent.handle] = NextEvent.pool
  <1>1. evs \in Seq(Event) /\ read \in 1..Len(evs) /\ evs # <<>>
    BY DEF TypeInv, TypeOK, WireTypeOK, DropEvent
  <1>2. evs' = Tail(evs) /\ read' = read - 1 /\ Once(evs, "release")
    BY DEF DropEvent, TokenInv, UsedOnce
  <1>3. \A i \in 1..read' : i + 1 \in 1..read /\ evs'[i] = evs[i + 1]
    BY <1>1, <1>2
  <1>4. Fresh'
    BY <1>3 DEF TokenInv, Fresh
  <1>5. 1 \in 1..read /\ NextEvent = evs[1] /\ NextEvent \in Event
    BY <1>1 DEF NextEvent
  <1>6. NextEvent.type = "release" =>
            NextEvent.handle \in live /\ pool[NextEvent.handle] = NextEvent.pool
    BY <1>5 DEF TokenInv, Fresh
  <1> QED
    BY <1>1, <1>2, <1>4, <1>5, <1>6, TailOf DEF NextEvent

-----------------------------------------------------------------------------
(* The pump.                                                                *)

\* A step that leaves the apps alone, with what it does to the wire.
LEMMA NoAppChange ==
    ASSUME TypeInv, TokenInv, UNCHANGED <<pool, busy, pools_made>>,
           Of(reqs', "frame") \subseteq Of(reqs, "frame"), Once(reqs', "frame"),
           held' \subseteq held,
           Of(evs', "release") \subseteq Of(evs, "release"), Once(evs', "release"),
           Fresh'
    PROVE  TokenInv'
  BY NoNewUse DEF TokenInv, PoolsMade

LEMMA LoseFacts ==
    ASSUME Lose
    PROVE  /\ Of(reqs', "frame") = {} /\ Once(reqs', "frame")
           /\ Of(evs', "release") = {} /\ Once(evs', "release") /\ Fresh'
  BY DEF Lose, Of, Once, Fresh

LEMMA ReadFacts ==
    ASSUME TypeInv, TokenInv, PumpRead
    PROVE  /\ Of(reqs', "frame") \subseteq Of(reqs, "frame") /\ Once(reqs', "frame")
           /\ Of(evs', "release") \subseteq Of(evs, "release") /\ Once(evs', "release")
           /\ Fresh'
  <1> DEFINE kept == {i \in DOMAIN evs : ObjectLives(evs[i])}
  <1>1. CASE Lose
    BY <1>1, LoseFacts
  <1>2. CASE /\ evs' = [i \in DOMAIN evs |->
                            IF i <= read \/ i \in kept THEN evs[i] ELSE Discarded]
             /\ read' = Len(evs)
             /\ UNCHANGED <<reqs, flushed, conn>>
    <2>1. evs \in Seq(Event) /\ read \in 0..Len(evs) /\ UNCHANGED <<live, pool>>
      BY DEF TypeInv, TypeOK, WireTypeOK, PumpRead, appVars
    <2>2. Discarded.type # "release"
      BY DEF Discarded, Msg
    <2>3. DOMAIN evs' = DOMAIN evs
      BY <1>2
    <2>4. \A i \in DOMAIN evs :
              evs'[i].type = "release" => evs'[i] = evs[i] /\ (i <= read \/ i \in kept)
      BY <1>2, <2>2
    <2>5. Of(evs', "release") \subseteq Of(evs, "release")
      BY <2>3, <2>4 DEF Of
    <2>6. Once(evs', "release")
      BY <2>3, <2>4 DEF Once, TokenInv, UsedOnce
    <2>7. Fresh'
      <3> SUFFICES ASSUME NEW i \in 1..read', evs'[i].type = "release"
                   PROVE  evs[i].handle \in live /\ pool[evs[i].handle] = evs[i].pool
                          /\ evs'[i] = evs[i]
        BY <2>1 DEF Fresh
      <3>1. i \in DOMAIN evs /\ evs'[i] = evs[i]
        BY <1>2, <2>1, <2>4
      <3>2. CASE i <= read
        BY <2>1, <3>1, <3>2 DEF TokenInv, Fresh
      <3>3. CASE i \in kept
        BY <3>1, <3>3 DEF ObjectLives
      <3> QED
        BY <2>4, <3>1, <3>2, <3>3
    <2> QED
      BY <1>2, <2>5, <2>6, <2>7 DEF TokenInv, UsedOnce
  <1> QED
    BY <1>1, <1>2 DEF PumpRead, ReadEvents

LEMMA PumpKeepsTokens ==
    ASSUME TypeInv, TokenInv, PumpFlush \/ PumpFails \/ PumpRead \/ PumpDone, UNCHANGED held
    PROVE  TokenInv'
  <1>1. UNCHANGED <<live, pool, busy, pools_made>>
    BY DEF PumpFlush, PumpFails, PumpRead, PumpDone, appVars
  <1>2. CASE PumpRead
    BY <1>1, <1>2, ReadFacts, NoAppChange
  <1>3. CASE Lose
    BY <1>1, <1>3, LoseFacts, NoAppChange
  <1>4. CASE UNCHANGED <<reqs, evs, read>>
    <2>1. Fresh'
      BY <1>1, <1>4 DEF TokenInv, Fresh
    <2> QED
      BY <1>1, <1>4, <2>1, SameWire, NoAppChange
  <1> QED
    BY <1>2, <1>3, <1>4
       DEF PumpFlush, PumpFails, PumpDone, FlushOk, FlushErr, wireVars

\* Neither a frame nor the end of a pool.
Calm(ms) == Quiet(ms, "frame") /\ Quiet(ms, "destroy_pool")

LEMMA QuietTwo ==
    ASSUME NEW a \in Seq(Request), NEW b \in Seq(Request), NEW type,
           Quiet(a, type), Quiet(b, type)
    PROVE  a \o b \in Seq(Request) /\ Quiet(a \o b, type)
  BY QuietConcat

\* Nor a pong.
Asks(ms) == Calm(ms) /\ Quiet(ms, "pong")

LEMMA CapabilitiesQuiet ==
    ASSUME TypeInv, OnCapabilities
    PROVE  \E ms \in Seq(Request) : Asks(ms) /\ Emit(ms)
  <1> DEFINE k == GetDevice(NextEvent.serial, "keyboard", "get_keyboard")
             p == GetDevice(NextEvent.serial, "pointer", "get_pointer")
             t == GetDevice(NextEvent.serial, "touch", "get_touch")
  <1>1. k \in Seq(Request) /\ p \in Seq(Request) /\ t \in Seq(Request)
    <2>1. NextEvent.serial \in Seat
      BY DropTyped, EventFields DEF OnCapabilities, TypeInv, TypeOK, SeatType
    <2> QED
      BY <2>1, GetDeviceTyped
  <1>2. Asks(k) /\ Asks(p) /\ Asks(t)
    <2>1. ASSUME NEW s, NEW d, NEW type \in {"get_keyboard", "get_pointer", "get_touch"}
          PROVE  Asks(GetDevice(s, d, type))
      <3>1. Msg(type, None, None, 0, s).type \notin {"frame", "destroy_pool", "pong"}
        BY DEF Msg
      <3>2. \A m : m.type \notin {"frame", "destroy_pool", "pong"} => Asks(<<m>>)
        BY DEF Asks, Calm, Quiet
      <3>3. Asks(<<>>)
        BY DEF Asks, Calm, Quiet
      <3> QED
        BY <3>1, <3>2, <3>3 DEF GetDevice
    <2> QED
      BY <2>1
  <1>3. Emit(k \o p \o t)
    BY DEF OnCapabilities
  <1> HIDE DEF k, p, t
  <1>4. Asks(k \o p) /\ k \o p \in Seq(Request)
    BY <1>1, <1>2, QuietTwo DEF Asks, Calm
  <1>5. Asks(k \o p \o t) /\ k \o p \o t \in Seq(Request)
    <2> DEFINE kp == k \o p
    <2>1. Asks(kp) /\ kp \in Seq(Request)
      BY <1>4
    <2> HIDE DEF kp
    <2>2. Asks(kp \o t) /\ kp \o t \in Seq(Request)
      BY <1>1, <1>2, <2>1, QuietTwo DEF Asks, Calm
    <2> QED
      BY <2>2 DEF kp
  <1> QED
    BY <1>3, <1>5

\* Whatever a handler emits, it is neither a frame nor the end of a pool.
LEMMA DeliverFacts ==
    ASSUME TypeInv, Deliver
    PROVE  /\ DropEvent /\ UNCHANGED <<live, pool, pools_made, conn>>
           /\ \/ UNCHANGED reqs
              \/ \E ms \in Seq(Request) : Calm(ms) /\ Emit(ms)
           /\ \/ NextEvent.type # "release" /\ UNCHANGED busy
              \/ NextEvent.type = "release"
                 /\ busy' = FreeSlot(NextEvent.handle, NextEvent.slot)
  <1>0. CASE OnCapabilities
    BY <1>0, CapabilitiesQuiet DEF Asks, Deliver, OnAppEvent, OnCapabilities, OnSeatEvent, OnConfigure, OnClose,
       OnRelease, OnPing, OnDiscarded, appVars
  <1> DEFINE e == NextEvent
  <1>1. CASE OnConfigure \/ OnPing \/ OnGlobal
    <2>0. DropEvent
      BY <1>1 DEF OnConfigure, OnPing, OnGlobal
    <2>1. /\ e.handle \in 0..MaxApps /\ e.serial \in 0..MaxSerial
          /\ e.type = "global" => e.serial \in Seat
      BY <2>0, DropTyped, EventFields DEF TypeInv, TypeOK, SeatType
    <2>2. /\ <<Msg("ack_configure", e.handle, None, 0, e.serial)>> \in Seq(Request)
          /\ <<Msg("pong", None, None, 0, e.serial)>> \in Seq(Request)
          /\ e.type = "global" => <<Msg("bind_seat", None, None, 0, e.serial)>> \in Seq(Request)
      BY <2>1, OneRequest, ZeroTyped DEF RequestType, BufferType, SeatType
    <2>3. /\ Calm(<<Msg("ack_configure", e.handle, None, 0, e.serial)>>)
          /\ Calm(<<Msg("pong", None, None, 0, e.serial)>>)
          /\ Calm(<<Msg("bind_seat", None, None, 0, e.serial)>>)
      BY DEF Calm, Quiet, Msg
    <2>4. \E ms \in Seq(Request) : Calm(ms) /\ Emit(ms)
      BY <1>1, <2>2, <2>3 DEF OnConfigure, OnPing, OnGlobal
    <2>5. UNCHANGED <<live, pool, pools_made, busy, conn>> /\ e.type # "release"
      BY <1>1 DEF Deliver, OnConfigure, OnPing, OnGlobal, OnAppEvent, OnClose, OnRelease,
                  OnDiscarded, appVars
    <2> QED
      BY <2>0, <2>4, <2>5
  <1>2. CASE ~(OnCapabilities \/ OnConfigure \/ OnPing \/ OnGlobal)
    BY <1>2 DEF Deliver, OnAppEvent, OnClose, OnRelease, OnDiscarded, appVars, OnSeatEvent,
       OnKeyboardEnter, OnKeyboardLeave, OnKeyboardInput, OnPointerEnter, OnPointerLeave,
       OnPointerInput, OnTouchDown, OnTouchInput, OnTouchCancel
  <1> QED
    BY <1>0, <1>1, <1>2

LEMMA DeliverKeepsTokens ==
    ASSUME TypeInv, TokenInv, Deliver, UNCHANGED held
    PROVE  TokenInv'
  <1> DEFINE e == NextEvent
  <1>1. /\ DropEvent /\ UNCHANGED <<live, pool, pools_made>>
        /\ Of(reqs', "frame") \subseteq Of(reqs, "frame") /\ Once(reqs', "frame")
    BY DeliverFacts, QuietEmit, SameWire DEF TokenInv, UsedOnce, Calm
  <1>2. /\ Of(evs', "release") \subseteq Of(evs, "release") /\ Once(evs', "release") /\ Fresh'
        /\ e \in Event
        /\ e.type = "release" =>
               /\ Tok(e) \in Of(evs, "release") \ Of(evs', "release")
               /\ e.handle \in live /\ pool[e.handle] = e.pool
    BY <1>1, DropFacts
  <1>3. CASE UNCHANGED busy
    BY <1>1, <1>2, <1>3, NoAppChange
  <1>4. CASE e.type = "release" /\ busy' = FreeSlot(e.handle, e.slot)
    <2>1. InUse' \subseteq InUse /\ Tok(e) \notin InUse'
      BY <1>1, <1>2, <1>4, InUseIs DEF TokenInv, UsedOnce
    <2>2. \A b \in InUse : b = [handle |-> b.handle, pool |-> b.pool, slot |-> b.slot]
                           /\ b.handle \in Handle
      BY InUseTyped DEF Token
    <2>3. PoolsMade'
      BY <1>1, <2>1 DEF TokenInv, PoolsMade
    <2>4. ASSUME NEW b \in InUse', pool'[b.handle] = b.pool
          PROVE  b.slot \in busy'[b.handle]
      <3>1. b \in InUse /\ b.slot \in busy[b.handle] /\ b # Tok(e)
        BY <1>1, <2>1, <2>4 DEF TokenInv, Taken
      <3>2. b.handle = e.handle => b.slot # e.slot
        BY <1>1, <1>2, <1>4, <2>2, <2>4, <3>1 DEF Tok
      <3>3. busy \in [Handle -> SUBSET Slot]
        BY DEF TypeInv, TypeOK, CoreTypeOK
      <3> QED
        BY <1>4, <2>2, <3>1, <3>2, <3>3 DEF FreeSlot
    <2>5. Taken'
      BY <2>4 DEF Taken
    <2>6. UsedOnce'
      BY <1>1, <1>2 DEF TokenInv, UsedOnce
    <2> QED
      BY <1>2, <2>3, <2>5, <2>6 DEF TokenInv
  <1> QED
    BY <1>3, <1>4, DeliverFacts

-----------------------------------------------------------------------------
(* The bodies.                                                              *)

\* When a body runs, nothing is in the event queue, so no release can be stale.
LEMMA NothingRead ==
    ASSUME TypeInv, todo # <<>>, Head(todo) # "deliver", UNCHANGED read
    PROVE  Fresh'
  <1>1. read' = 0
    BY ConstantsTyped DEF TypeInv, TypeOK, ScriptInv, QueueDrained, At, WireTypeOK
  <1> QED
    BY <1>1 DEF Fresh

LEMMA DestroySlotsQuiet ==
    ASSUME NEW h
    PROVE  Quiet(DestroySlots(h), "frame")
  <1>1. Msg("destroy_pool", h, pool[h], 0, 0).type # "frame"
    BY DEF Msg
  <1>2. \A m : m.type # "frame" => Quiet(<<m>>, "frame")
    BY DEF Quiet
  <1>3. Quiet(<<>>, "frame")
    BY DEF Quiet
  <1> QED
    BY <1>1, <1>2, <1>3 DEF DestroySlots

LEMMA DestroyEntryQuiet ==
    ASSUME TypeInv, NEW h \in Handle
    PROVE  DestroyEntry(h) \in Seq(Request) /\ Quiet(DestroyEntry(h), "frame")
  <1> DEFINE ms == <<Msg("destroy_toplevel", h, None, 0, 0),
                     Msg("destroy_xdg_surface", h, None, 0, 0),
                     Msg("destroy_surface", h, None, 0, 0)>>
  <1>1. \A type \in {"destroy_toplevel", "destroy_xdg_surface", "destroy_surface"} :
            Msg(type, h, None, 0, 0) \in Request /\ Msg(type, h, None, 0, 0).type # "frame"
    <2>1. h \in 0..MaxApps
      BY ConstantsTyped DEF Handle
    <2>2. ASSUME NEW type \in {"destroy_toplevel", "destroy_xdg_surface", "destroy_surface"}
          PROVE  Msg(type, h, None, 0, 0) \in Request /\ Msg(type, h, None, 0, 0).type # "frame"
      <3>1. type \in RequestType /\ type \notin BufferType /\ type \notin SeatType
        BY <2>2 DEF RequestType, BufferType, SeatType
      <3>2. Msg(type, h, None, 0, 0) \in Request
        BY <2>1, <3>1, MsgTyped, ZeroTyped DEF Request
      <3> QED
        BY <2>2, <3>2 DEF Msg
    <2> QED
      BY <2>2
  <1>2. ms \in Seq(Request) /\ Quiet(ms, "frame")
    BY <1>1 DEF Quiet
  <1>3. DestroySlots(h) \in Seq(Request) /\ Quiet(DestroySlots(h), "frame")
    BY DestroySlotsTyped, DestroySlotsQuiet DEF TypeInv, TypeOK
  <1> HIDE DEF ms
  <1>4. DestroySlots(h) \o ms \in Seq(Request) /\ Quiet(DestroySlots(h) \o ms, "frame")
    BY <1>2, <1>3, QuietTwo
  <1> QED
    BY <1>4 DEF DestroyEntry, ms

\* A pool that goes takes its slots with it.
LEMMA PoolGone ==
    ASSUME TypeInv, TokenInv, NEW h \in Handle, NEW ms \in Seq(Request), Quiet(ms, "frame"),
           Emit(ms), UNCHANGED <<evs, held, pools_made>>, Fresh',
           pool' = [pool EXCEPT ![h] = None], busy' = [busy EXCEPT ![h] = {}]
    PROVE  TokenInv'
  <1>1. /\ pool \in [Handle -> 0..MaxPools] /\ busy \in [Handle -> SUBSET Slot]
        /\ pools_made \in Nat
    BY ConstantsTyped DEF TypeInv, TypeOK, CoreTypeOK
  <1>2. \A g \in Handle :
            /\ pool'[g] # None => pool'[g] = pool[g] /\ busy[g] \subseteq busy'[g]
            /\ pool'[g] <= pools_made
    BY <1>1 DEF TokenInv, PoolsMade, None
  <1>3. Of(reqs', "frame") \subseteq Of(reqs, "frame") /\ Once(reqs', "frame")
    BY QuietEmit
  <1>4. Of(evs', "release") \subseteq Of(evs, "release") /\ Once(evs', "release")
    BY DEF TokenInv, UsedOnce
  <1> QED
    BY <1>2, <1>3, <1>4, NoNewUse

LEMMA PushNoPoolKeepsTokens ==
    ASSUME TypeInv, TokenInv, PushNoPool, UNCHANGED held
    PROVE  TokenInv'
  <1> DEFINE h == call.handle
  <1>1. h \in Handle /\ todo # <<>> /\ Head(todo) = "push_frame"
    BY AcceptedCall DEF PushNoPool, TypeInv, TypeOK, LoopInv
  <1>2. DestroySlots(h) \in Seq(Request) /\ Quiet(DestroySlots(h), "frame")
    BY <1>1, DestroySlotsTyped, DestroySlotsQuiet DEF TypeInv, TypeOK
  <1>3. Fresh'
    BY <1>1, NothingRead DEF PushNoPool
  <1> QED
    BY <1>1, <1>2, <1>3, PoolGone DEF PushNoPool

LEMMA CloseAppKeepsTokens ==
    ASSUME TypeInv, TokenInv, CloseAppBody, UNCHANGED held
    PROVE  TokenInv'
  <1> DEFINE h == call.handle
  <1>1. h \in Handle /\ todo # <<>> /\ Head(todo) = "close_app"
    BY DEF CloseAppBody, At, TypeInv, TypeOK, SeatTypeOK
  <1>2. DestroyEntry(h) \in Seq(Request) /\ Quiet(DestroyEntry(h), "frame")
    BY <1>1, DestroyEntryQuiet
  <1>3. Fresh'
    BY <1>1, NothingRead DEF CloseAppBody
  <1> QED
    BY <1>1, <1>2, <1>3, PoolGone DEF CloseAppBody

\* A new frame shows a buffer that is not in use and whose slot becomes busy.
LEMMA NewUse ==
    ASSUME TypeInv, TokenInv, NEW b \in Token, b \notin InUse,
           Of(reqs', "frame") \subseteq Of(reqs, "frame") \union {b}, Once(reqs', "frame"),
           UNCHANGED <<evs, held>>, pools_made' >= pools_made, pools_made' \in Nat,
           \A h \in Handle : pool'[h] <= pools_made', b.pool <= pools_made',
           b.slot \in busy'[b.handle],
           \A h \in Handle : \/ pool'[h] = pool[h] /\ busy[h] \subseteq busy'[h]
                             \/ pool'[h] > pools_made,
           Fresh'
    PROVE  TokenInv'
  <1>1. InUse' \subseteq InUse \union {b}
    BY InUseIs
  <1>2. \A t \in InUse : /\ t \in Token /\ t.handle \in Handle /\ t.pool \in Nat
                         /\ t.pool <= pools_made /\ pools_made \in Nat
    BY InUseTyped, ConstantsTyped
       DEF Token, Pool, TokenInv, PoolsMade, TypeInv, TypeOK, CoreTypeOK
  <1>3. PoolsMade'
    BY <1>1, <1>2 DEF PoolsMade
  <1>4. ASSUME NEW t \in InUse', pool'[t.handle] = t.pool
        PROVE  t.slot \in busy'[t.handle]
    <2>1. CASE t = b
      BY <2>1
    <2>2. CASE t \in InUse
      <3>1. pool'[t.handle] = pool[t.handle] /\ busy[t.handle] \subseteq busy'[t.handle]
        BY <1>2, <1>4, <2>2
      <3> QED
        BY <1>4, <2>2, <3>1 DEF TokenInv, Taken
    <2> QED
      BY <1>1, <2>1, <2>2
  <1>5. Taken'
    BY <1>4 DEF Taken
  <1>6. UsedOnce'
    BY InUseIs DEF TokenInv, UsedOnce
  <1> QED
    BY <1>3, <1>5, <1>6 DEF TokenInv

\* What a sequence of requests that ends in a frame brings into use.
LEMMA EmitFrame ==
    ASSUME TypeInv, TokenInv, NEW h \in Handle, NEW p \in Pool, NEW s \in Slot,
           NEW ms \in Seq(Request), Quiet(ms, "frame"),
           Emit(ms \o <<Frame(h, p, s)>>),
           [handle |-> h, pool |-> p, slot |-> s] \notin InUse
    PROVE  /\ Of(reqs', "frame") \subseteq
                  Of(reqs, "frame") \union {[handle |-> h, pool |-> p, slot |-> s]}
           /\ Once(reqs', "frame")
  <1> DEFINE f == <<Frame(h, p, s)>>
             b == [handle |-> h, pool |-> p, slot |-> s]
  <1>1. reqs \in Seq(Request) /\ f \in Seq(Request) /\ Once(reqs, "frame")
    BY FrameTyped DEF TypeInv, TypeOK, WireTypeOK, TokenInv, UsedOnce
  <1>2. /\ reqs \o ms \in Seq(Request)
        /\ Of(reqs \o ms, "frame") = Of(reqs, "frame") /\ Once(reqs \o ms, "frame")
    BY <1>1, QuietConcat
  <1>3. b \notin Of(reqs, "frame")
    BY InUseIs
  <1>4. /\ 1 \in DOMAIN f /\ Tok(f[1]) = b
        /\ \A i \in DOMAIN f : f[i].type = "frame" <=> i = 1
    BY DEF Frame, Msg, Tok
  <1> HIDE DEF f, b
  <1>5. /\ Of((reqs \o ms) \o f, "frame") = Of(reqs \o ms, "frame") \union {b}
        /\ Once((reqs \o ms) \o f, "frame")
    <2> DEFINE before == reqs \o ms
    <2>1. before \in Seq(Request) /\ Once(before, "frame") /\ b \notin Of(before, "frame")
      BY <1>2, <1>3
    <2> HIDE DEF before
    <2>2. /\ Of(before \o f, "frame") = Of(before, "frame") \union {Tok(f[1])}
          /\ Once(before \o f, "frame")
      BY <1>1, <1>4, <2>1, SingleConcat
    <2> QED
      BY <1>4, <2>2 DEF before
  <1>6. reqs \o (ms \o f) = (reqs \o ms) \o f
    BY <1>1, ConcatAssociative
  <1>7. reqs' = reqs \/ reqs' = (reqs \o ms) \o f
    BY <1>6 DEF Emit, f
  <1> QED
    BY <1>1, <1>2, <1>5, <1>7 DEF b

LEMMA PushIntoNewPoolKeepsTokens ==
    ASSUME TypeInv, TokenInv, PushIntoNewPool, UNCHANGED held
    PROVE  TokenInv'
  <1> DEFINE h == call.handle
             p == pools_made + 1
             b == [handle |-> h, pool |-> p, slot |-> 0]
             ms == DestroySlots(h) \o <<Msg("create_pool", h, p, 0, 0)>>
  <1>1. /\ h \in Handle /\ todo # <<>> /\ Head(todo) = "push_frame" /\ pools_made < MaxPools
        /\ pools_made \in Nat
    BY AcceptedCall, ConstantsTyped
       DEF PushIntoNewPool, TypeInv, TypeOK, CoreTypeOK, LoopInv
  <1>2. p \in Pool /\ 0 \in Slot /\ b \in Token
    BY <1>1, ZeroTyped, ConstantsTyped DEF Pool, Token
  <1>3. b \notin InUse
    BY <1>1 DEF TokenInv, PoolsMade
  <1>4. <<Msg("create_pool", h, p, 0, 0)>> \in Seq(Request)
    <2>1. h \in 0..MaxApps /\ p \in 0..MaxPools
      BY <1>1, <1>2, ConstantsTyped DEF Handle, Pool
    <2> QED
      BY <1>1, <1>2, <2>1, OneRequest, ZeroTyped DEF RequestType, SeatType
  <1>5. ms \in Seq(Request) /\ Quiet(ms, "frame")
    <2>1. DestroySlots(h) \in Seq(Request) /\ Quiet(DestroySlots(h), "frame")
      BY <1>1, DestroySlotsTyped, DestroySlotsQuiet DEF TypeInv, TypeOK
    <2>2. Quiet(<<Msg("create_pool", h, p, 0, 0)>>, "frame")
      BY DEF Quiet, Msg
    <2> QED
      BY <1>4, <2>1, <2>2, QuietTwo
  <1>6. Emit(ms \o <<Frame(h, p, 0)>>)
    <2>1. /\ DestroySlots(h) \in Seq(Request) /\ <<Frame(h, p, 0)>> \in Seq(Request)
          /\ <<Msg("create_pool", h, p, 0, 0), Frame(h, p, 0)>>
                = <<Msg("create_pool", h, p, 0, 0)>> \o <<Frame(h, p, 0)>>
      BY <1>1, <1>2, DestroySlotsTyped, FrameTyped DEF TypeInv, TypeOK
    <2>2. DestroySlots(h) \o <<Msg("create_pool", h, p, 0, 0), Frame(h, p, 0)>>
            = ms \o <<Frame(h, p, 0)>>
      BY <1>4, <2>1, ConcatAssociative
    <2> QED
      BY <2>2 DEF PushIntoNewPool
  <1> HIDE DEF ms
  <1>7. /\ Of(reqs', "frame") \subseteq Of(reqs, "frame") \union {b}
        /\ Once(reqs', "frame")
    BY <1>1, <1>2, <1>3, <1>5, <1>6, EmitFrame
  <1>8. Fresh'
    BY <1>1, NothingRead DEF PushIntoNewPool
  <1>9. /\ pool \in [Handle -> 0..MaxPools] /\ busy \in [Handle -> SUBSET Slot]
        /\ pool' = [pool EXCEPT ![h] = p] /\ busy' = [busy EXCEPT ![h] = {0}]
        /\ pools_made' = p /\ evs' = evs
    BY DEF PushIntoNewPool, TypeInv, TypeOK, CoreTypeOK
  <1>10. /\ \A g \in Handle : pool'[g] <= pools_made'
         /\ \A g \in Handle : \/ pool'[g] = pool[g] /\ busy[g] \subseteq busy'[g]
                              \/ pool'[g] > pools_made
    BY <1>1, <1>9, ConstantsTyped DEF TokenInv, PoolsMade
  <1>11. b.slot \in busy'[b.handle] /\ b.pool <= pools_made'
    BY <1>1, <1>9
  <1>12. pools_made' >= pools_made /\ pools_made' \in Nat
    BY <1>1, <1>9
  <1> HIDE DEF b
  <1> QED
    BY <1>2, <1>3, <1>7, <1>8, <1>9, <1>10, <1>11, <1>12, NewUse

LEMMA PushIntoPoolKeepsTokens ==
    ASSUME TypeInv, TokenInv, PushIntoPool, UNCHANGED held
    PROVE  TokenInv'
  <1> DEFINE h == call.handle
             p == pool[h]
  <1>1. /\ h \in Handle /\ todo # <<>> /\ Head(todo) = "push_frame" /\ p \in Pool
        /\ pools_made \in Nat /\ UNCHANGED <<pool, pools_made, evs>>
    <2>1. h \in Handle /\ todo # <<>> /\ Head(todo) = "push_frame"
      BY AcceptedCall DEF PushIntoPool, TypeInv, TypeOK, LoopInv
    <2> QED
      BY <2>1, ConstantsTyped
         DEF PushIntoPool, NeedsNew, TypeInv, TypeOK, CoreTypeOK, Pool, None
  <1>2. PICK s \in Slot : /\ s \notin busy[h]
                          /\ busy' = [busy EXCEPT ![h] = @ \union {s}]
                          /\ Emit(<<Frame(h, p, s)>>)
    BY DEF PushIntoPool, FirstFree
  <1> DEFINE b == [handle |-> h, pool |-> p, slot |-> s]
  <1>3. b \in Token /\ b \notin InUse
    BY <1>1, <1>2 DEF Token, TokenInv, Taken
  <1>4. /\ Of(reqs', "frame") \subseteq Of(reqs, "frame") \union {b}
        /\ Once(reqs', "frame")
    <2>1. <<>> \in Seq(Request) /\ Quiet(<<>>, "frame")
      BY DEF Quiet
    <2>2. <<>> \o <<Frame(h, p, s)>> = <<Frame(h, p, s)>>
      OBVIOUS
    <2>3. Emit(<<>> \o <<Frame(h, p, s)>>)
      BY <1>2, <2>2
    <2> QED
      BY <1>1, <1>3, <2>1, <2>3, EmitFrame
  <1>5. Fresh'
    BY <1>1, NothingRead DEF PushIntoPool
  <1>6. /\ \A g \in Handle : pool'[g] <= pools_made' /\ busy[g] \subseteq busy'[g]
        /\ b.slot \in busy'[b.handle] /\ b.pool <= pools_made'
    BY <1>1, <1>2 DEF TypeInv, TypeOK, CoreTypeOK, TokenInv, PoolsMade
  <1> HIDE DEF b
  <1> QED
    BY <1>1, <1>3, <1>4, <1>5, <1>6, NewUse

\* The other steps of a call change neither what is on its way nor the pools.
LEMMA OtherStepKeepsTokens ==
    ASSUME TypeInv, TokenInv, UNCHANGED held,
           \/ PushRejected \/ PushSkipped \/ PollInputBody \/ CloseRequestedBody
           \/ CloseUnknownBody \/ BridgeAppReturn
    PROVE  TokenInv'
  <1>1. UNCHANGED wireVars /\ UNCHANGED appVars
    BY DEF PushRejected, PushSkipped, PollInputBody, CloseRequestedBody, CloseUnknownBody,
           BridgeAppReturn
  <1>2. UNCHANGED <<reqs, evs, read, live, pool, busy, pools_made>>
    BY <1>1 DEF wireVars, appVars
  <1>3. Fresh'
    BY <1>2 DEF TokenInv, Fresh
  <1> QED
    BY <1>2, <1>3, SameWire, NoAppChange

LEMMA BridgeAppKeepsTokens ==
    ASSUME TypeInv, TokenInv, BridgeAppBody, UNCHANGED held
    PROVE  TokenInv'
  <1> DEFINE ms == <<Msg("create", FreshHandle, None, 0, 0)>>
  <1>1. todo \in Seq(Step) /\ todo # <<>> /\ Head(todo) = "bridge_app"
    BY DEF BridgeAppBody, At, TypeInv, TypeOK, CoreTypeOK
  <1>2. FreshHandle \in 0..MaxApps
    <2>1. 1 \in DOMAIN todo /\ todo[1] = "bridge_app"
      BY <1>1
    <2> QED
      BY <2>1, ConstantsTyped
         DEF TypeInv, TypeOK, CoreTypeOK, ScriptInv, RoomLeft, FreshHandle
  <1>3. ms \in Seq(Request)
    BY <1>2, OneRequest, ZeroTyped DEF RequestType, BufferType, SeatType
  <1>4. Quiet(ms, "frame") /\ Emit(ms)
    BY DEF BridgeAppBody, Quiet, Msg
  <1>5. Fresh'
    BY <1>1, NothingRead DEF BridgeAppBody
  <1> HIDE DEF ms
  <1>6. Of(reqs', "frame") \subseteq Of(reqs, "frame") /\ Once(reqs', "frame")
    BY <1>3, <1>4, QuietEmit
  <1>7. UNCHANGED <<evs, pool, busy, pools_made>>
    BY DEF BridgeAppBody
  <1> QED
    BY <1>5, <1>6, <1>7, NoAppChange DEF TokenInv, UsedOnce

LEMMA CoreStepKeepsTokens ==
    ASSUME TypeInv, TokenInv, CoreStep, UNCHANGED held
    PROVE  TokenInv'
  BY PumpKeepsTokens, DeliverKeepsTokens, BridgeAppKeepsTokens, PushNoPoolKeepsTokens,
     PushIntoNewPoolKeepsTokens, PushIntoPoolKeepsTokens, CloseAppKeepsTokens,
     OtherStepKeepsTokens
     DEF CoreStep

-----------------------------------------------------------------------------
(* The compositor.                                                          *)

\* A buffer in use goes from one place to another.
LEMMA UseMoves ==
    ASSUME TypeInv, TokenInv, UNCHANGED <<pool, busy, pools_made>>,
           InUse' \subseteq InUse, UsedOnce', Fresh'
    PROVE  TokenInv'
  BY DEF TokenInv, PoolsMade, Taken

LEMMA AcceptKeepsTokens ==
    ASSUME TypeInv, TokenInv, Accept, UNCHANGED <<pool, busy, pools_made, live>>
    PROVE  TokenInv'
  <1> DEFINE m == Oldest
  <1>1. /\ Of(reqs', "frame") \subseteq Of(reqs, "frame") /\ Once(reqs', "frame")
        /\ m.type = "frame" => Tok(m) \in Of(reqs, "frame") \ Of(reqs', "frame")
    <2>1. reqs \in Seq(Request) /\ reqs # <<>> /\ reqs' = Tail(reqs) /\ Once(reqs, "frame")
      BY DEF Accept, TakeRequest, TypeInv, TypeOK, WireTypeOK, TokenInv, UsedOnce
    <2> QED
      BY <2>1, TailOf DEF Oldest
  <1>2. UNCHANGED read
    BY AcceptTyped DEF TypeInv, TypeOK
  <1>3. CASE AcceptBindSeat
    <2>1. UNCHANGED held /\ SendEvents(<<Msg("capabilities", None, None, 0, m.serial)>>)
      BY <1>3 DEF AcceptBindSeat, westonVars, clientVars
    <2>2. /\ <<Msg("capabilities", None, None, 0, m.serial)>> \in Seq(Event)
          /\ Quiet(<<Msg("capabilities", None, None, 0, m.serial)>>, "release")
      BY <1>3, BindReplyTyped DEF TypeInv, TypeOK, Quiet, Msg
    <2>3. Of(evs', "release") \subseteq Of(evs, "release") /\ Once(evs', "release") /\ Fresh'
      BY <1>2, <2>1, <2>2, QuietSend, SendKeepsFresh
    <2> QED
      BY <1>1, <2>1, <2>3, NoAppChange
  <1>4. CASE ~AcceptBindSeat
    <2>1. UNCHANGED evs /\ Fresh'
      <3>1. UNCHANGED evs
        BY <1>4 DEF Accept, AcceptCreate, AcceptCreatePool, AcceptFrame, AcceptDestroyPool,
                    AcceptDestroyWindow, AcceptDestroy, AcceptAck, AcceptPong,
                    AcceptGetDevice, ProtocolError
      <3> QED
        BY <1>2, <3>1 DEF TokenInv, Fresh
    <2>2. CASE held' \subseteq held
      BY <1>1, <2>1, <2>2, NoAppChange DEF TokenInv, UsedOnce
    <2>3. CASE m.type = "frame" /\ held' = held \union {Tok(m)}
      <3>1. InUse' \subseteq InUse
        BY <1>1, <2>1, <2>3, InUseIs
      <3>2. UsedOnce'
        BY <1>1, <2>1, <2>3 DEF TokenInv, UsedOnce
      <3> QED
        BY <2>1, <3>1, <3>2, UseMoves
    <2>4. held' \subseteq held \/ (m.type = "frame" /\ held' = held \union {Tok(m)})
      BY <1>4 DEF Accept, AcceptCreate, AcceptCreatePool, AcceptFrame, AcceptDestroyPool,
                  AcceptDestroyWindow, AcceptDestroy, AcceptAck, AcceptPong,
                  AcceptGetDevice, ProtocolError
    <2> QED
      BY <2>2, <2>3, <2>4
  <1> QED
    BY <1>3, <1>4

LEMMA ReleaseKeepsTokens ==
    ASSUME TypeInv, TokenInv, NEW b \in held, Release(b),
           UNCHANGED <<pool, busy, pools_made, live>>
    PROVE  TokenInv'
  <1> DEFINE ms == <<Msg("release", b.handle, b.pool, b.slot, 0)>>
  <1>1. /\ b.handle \in Handle /\ b.pool \in Pool /\ b.slot \in Slot
        /\ b = [handle |-> b.handle, pool |-> b.pool, slot |-> b.slot]
    BY DEF TypeInv, TypeOK, WestonTypeOK, Token
  <1>2. ms \in Seq(Event)
    BY <1>1, OneEvent, ZeroTyped, ConstantsTyped DEF EventType, SeatType, Handle, Pool
  <1>3. /\ 1 \in DOMAIN ms /\ Tok(ms[1]) = b
        /\ \A i \in DOMAIN ms : ms[i].type = "release" <=> i = 1
    BY <1>1 DEF Msg, Tok
  <1>4. /\ SendEvents(ms) /\ held' = held \ {b} /\ UNCHANGED <<reqs, read>> /\ conn = "up"
    BY DEF Release
  <1>5. /\ evs \in Seq(Event) /\ Once(evs, "release") /\ b \notin Of(evs, "release")
        /\ b \notin Of(reqs, "frame")
    BY DEF TypeInv, TypeOK, WireTypeOK, TokenInv, UsedOnce
  <1> HIDE DEF ms
  <1>6. Of(evs', "release") = Of(evs, "release") \union {b} /\ Once(evs', "release")
    BY <1>2, <1>3, <1>4, <1>5, SingleConcat DEF SendEvents
  <1>7. InUse' \subseteq InUse
    BY <1>4, <1>6, InUseIs
  <1>8. UsedOnce'
    BY <1>4, <1>5, <1>6 DEF TokenInv, UsedOnce
  <1>9. Fresh'
    BY <1>2, <1>4, SendKeepsFresh
  <1> QED
    BY <1>7, <1>8, <1>9, UseMoves

\* What the compositor says of windows and seats names no buffer.
LEMMA OtherEventKeepsTokens ==
    ASSUME TypeInv, TokenInv, SendsQuietly, UNCHANGED <<pool, busy, pools_made, live>>
    PROVE  TokenInv'
  <1>1. PICK ms \in Seq(QuietEvent) : SendEvents(ms) /\ UNCHANGED <<reqs, read, held>>
    BY DEF SendsQuietly
  <1>2. ms \in Seq(Event) /\ Quiet(ms, "release")
    BY DEF QuietEvent, Quiet
  <1>3. Of(evs', "release") \subseteq Of(evs, "release") /\ Once(evs', "release") /\ Fresh'
    BY <1>1, <1>2, QuietSend, SendKeepsFresh
  <1> QED
    BY <1>1, <1>3, NoAppChange DEF TokenInv, UsedOnce

LEMMA WindowEventsQuiet ==
    ASSUME TypeInv, SendPing \/ \E h \in Handle : SendConfigure(h) \/ SendClose(h)
    PROVE  SendsQuietly
  <1>1. ASSUME NEW type \in {"configure", "close", "ping"}, NEW h \in 0..MaxApps,
               NEW n \in 0..MaxSerial
        PROVE  <<Msg(type, h, None, 0, n)>> \in Seq(QuietEvent)
    <2>1. Msg(type, h, None, 0, n) \in QuietEvent
      BY MsgTyped, ZeroTyped DEF QuietEvent, Event, EventType, BufferType, SeatType, Msg
    <2> QED
      BY <2>1
  <1>2. CASE SendPing
    <2>1. pings + 1 \in 0..MaxSerial
      BY <1>2, ConstantsTyped DEF SendPing, TypeInv, TypeOK, WestonTypeOK
    <2> QED
      BY <1>1, <1>2, <2>1, ZeroTyped DEF SendPing, SendsQuietly
  <1>3. ASSUME NEW h \in Handle, SendConfigure(h) PROVE SendsQuietly
    <2>1. sent[h] + 1 \in 0..MaxSerial /\ h \in 0..MaxApps
      BY <1>3, ConstantsTyped DEF SendConfigure, TypeInv, TypeOK, WestonTypeOK, Handle
    <2> QED
      BY <1>1, <1>3, <2>1 DEF SendConfigure, SendsQuietly
  <1>4. ASSUME NEW h \in Handle, SendClose(h) PROVE SendsQuietly
    <2>1. h \in 0..MaxApps
      BY ConstantsTyped DEF Handle
    <2> QED
      BY <1>1, <1>4, <2>1, ZeroTyped DEF SendClose, SendsQuietly
  <1> QED
    BY <1>2, <1>3, <1>4

LEMMA WestonStepKeepsTokens ==
    ASSUME TypeInv, TokenInv, WestonStep, UNCHANGED <<pool, busy, pools_made, live>>
    PROVE  TokenInv'
  <1>1. CASE SeatTraffic
    BY <1>1, SeatTyped, SeatIsQuiet, OtherEventKeepsTokens DEF TypeInv, TypeOK
  <1>2. CASE Crash
    <2>1. UNCHANGED <<reqs, evs, read, held>>
      BY <1>2 DEF Crash, clientVars
    <2>2. Fresh'
      BY <2>1 DEF TokenInv, Fresh
    <2> QED
      BY <2>1, <2>2, SameWire, NoAppChange
  <1> QED
    BY <1>1, <1>2, AcceptKeepsTokens, ReleaseKeepsTokens, WindowEventsQuiet,
       OtherEventKeepsTokens
       DEF WestonStep, SeatTraffic

-----------------------------------------------------------------------------
(* The composed system.                                                     *)

LEMMA InitTokens == Init => TokenInv
  <1> SUFFICES ASSUME Init PROVE TokenInv
    OBVIOUS
  <1>1. /\ reqs = <<>> /\ evs = <<>> /\ read = 0 /\ held = {} /\ pools_made = 0
        /\ pool = [h \in Handle |-> None]
    BY DEF Init, WireInit, CoreInit, NoApps, WestonInit, NoClient
  <1>2. InUse = {}
    BY <1>1, InUseIs DEF Of
  <1> QED
    BY <1>1, <1>2 DEF TokenInv, PoolsMade, Taken, Fresh, UsedOnce, Of, Once, None

LEMMA StartStopKeepTokens ==
    ASSUME TypeInv, TokenInv, Start \/ Stop
    PROVE  TokenInv'
  <1>0. pools_made' = pools_made /\ pools_made \in Nat
    BY ConstantsTyped DEF Start, AnowawStart, Stop, AnowawStop, appVars, TypeInv, TypeOK, CoreTypeOK
  <1>1. CASE Start
    <2> DEFINE n == seats
    <2>1. AnowawStart(n)
      BY <1>1 DEF Start
    <2>2. /\ Of(reqs', "frame") = {} /\ Once(reqs', "frame")
          /\ UNCHANGED <<pool, busy, live, held>>
      BY <1>1, <2>1 DEF Start, AnowawStart, appVars, Of, Once, ClientConnects
    <2>3. /\ evs' = [i \in 1..n |-> Msg("capabilities", None, None, 0, i)] /\ read' = n
          /\ \A i \in 1..n : Msg("capabilities", None, None, 0, i).type # "release"
      BY <2>1 DEF AnowawStart, Msg
    <2>4. Of(evs', "release") = {} /\ Once(evs', "release") /\ Fresh'
      BY <2>3 DEF Of, Once, Fresh
    <2> QED
      BY <1>0, <2>2, <2>4, NoAppChange
  <1>2. CASE Stop
    <2>1. /\ reqs' = <<>> /\ evs' = <<>> /\ read' = 0 /\ held' = {}
          /\ pool' = [h \in Handle |-> None]
      BY <1>2 DEF Stop, AnowawStop, ClientGone
    <2>2. InUse' = {}
      BY <2>1, InUseIs DEF Of
    <2> QED
      BY <1>0, <2>1, <2>2 DEF TokenInv, PoolsMade, Taken, Fresh, UsedOnce, Of, Once, None
  <1> QED
    BY <1>1, <1>2

LEMMA NextTokens == TypeInv /\ TokenInv /\ [Next]_vars => TokenInv'
  <1> SUFFICES ASSUME TypeInv, TokenInv, [Next]_vars PROVE TokenInv'
    OBVIOUS
  <1>1. ASSUME UNCHANGED <<reqs, evs, read, held, live, pool, busy, pools_made>>
        PROVE  TokenInv'
    <2>1. Fresh'
      BY <1>1 DEF TokenInv, Fresh
    <2> QED
      BY <1>1, <2>1, SameWire, NoAppChange
  <1>2. CASE BridgeStep
    <2>1. AbiStep /\ UNCHANGED held
      BY <1>2 DEF BridgeStep, westonVars, clientVars
    <2>2. CASE CoreStep
      BY <2>1, <2>2, CoreStepKeepsTokens
    <2>3. CASE ~CoreStep
      <3>1. UNCHANGED wireVars /\ UNCHANGED appVars
        BY <2>1, <2>3 DEF AbiStep, CallBridgeApp, CallPushFrame, CallPollInput,
                          CallCloseRequested, CallCloseApp, CallDispatch, Call
      <3> QED
        BY <1>1, <2>1, <3>1 DEF wireVars, appVars
    <2> QED
      BY <2>2, <2>3
  <1>3. CASE CompositorStep
    <2>1. WestonStep /\ UNCHANGED <<pool, busy, pools_made, live>>
      BY <1>3 DEF CompositorStep, abiVars, coreVars, appVars
    <2> QED
      BY <2>1, WestonStepKeepsTokens
  <1>4. CASE UNCHANGED vars
    BY <1>1, <1>4 DEF vars, wireVars, abiVars, coreVars, appVars, westonVars, clientVars
  <1> QED
    BY <1>2, <1>3, <1>4, StartStopKeepTokens DEF Next, Finished

\* The inductive invariant holds of every behaviour.
THEOREM TokenInvariance == Spec => [](TypeInv /\ TokenInv)
  <1>1. Init => TypeInv /\ TokenInv
    BY InitTyped, InitTokens
  <1>2. TypeInv /\ TokenInv /\ [Next]_vars => TypeInv' /\ TokenInv'
    BY NextTyped, NextTokens
  <1> QED
    BY <1>1, <1>2, PTL DEF Spec

\* A slot push_frame may write into (core/src/surface.rs, first_free) is in no frame on its
\* way, not with the compositor and not about to be released.
THEOREM SlotsAreSafe == Spec => []SlotSafety
  <1>1. TypeInv /\ TokenInv => SlotSafety
    <2> SUFFICES ASSUME TypeInv, TokenInv, NEW h \in live, NEW s \in Slot \ busy[h]
                 PROVE  Buffer(h, s) \notin InUse
      BY DEF SlotSafety
    <2> QED
      BY DEF TokenInv, Taken, Buffer
  <1> QED
    BY <1>1, TokenInvariance, PTL

\* A buffer is used once at a time (core/src/bridge.rs, push_frame and wl_buffer.release).
THEOREM UseIsExclusive == Spec => []ExclusiveUse
  <1>1. TypeInv /\ TokenInv => ExclusiveUse
    BY UsedOnceIsExclusive DEF TokenInv
  <1> QED
    BY <1>1, TokenInvariance, PTL

\* A release that is dispatched frees a busy slot of the pool it was sent for, although the
\* handler (core/src/bridge.rs, wl_buffer.release) knows only the handle and the slot.
THEOREM ReleasesAreFresh == Spec => []NoStaleRelease
  <1>1. TypeInv /\ TokenInv => NoStaleRelease
    <2> SUFFICES ASSUME TypeInv, TokenInv, NEW i \in 1..read, evs[i].type = "release"
                 PROVE  /\ evs[i].handle \in live
                        /\ pool[evs[i].handle] = evs[i].pool
                        /\ evs[i].slot \in busy[evs[i].handle]
      BY DEF NoStaleRelease
    <2>1. evs[i].handle \in live /\ pool[evs[i].handle] = evs[i].pool
      BY DEF TokenInv, Fresh
    <2>2. i \in DOMAIN evs
      BY DEF TypeInv, TypeOK, WireTypeOK
    <2>3. Tok(evs[i]) \in InUse
      BY <2>2, InUseIs DEF Of
    <2> QED
      BY <2>1, <2>3 DEF TokenInv, Taken, Tok
  <1> QED
    BY <1>1, TokenInvariance, PTL

-----------------------------------------------------------------------------
(* Steps, seen from the buffers.  No slot is lost and no dead buffer comes   *)
(* back because only a free slot, or one of a new pool, is put to use, and   *)
(* because a use ends only with the slot or with the pool.                   *)

\* An app that is not there has no pool.
Unbuilt == \A h \in Handle \ live : pool[h] = None /\ busy[h] = {}

\* A pool that is being destroyed is no app's any more.
DestroysOld ==
    \A b \in Of(reqs, "destroy_pool") : b.pool # pool[b.handle] /\ b.pool <= pools_made

OwnInv == Unbuilt /\ DestroysOld

\* A busy slot that nothing will free.
Lost(h, s) == s \in busy[h] /\ Buffer(h, s) \notin InUse

Moves ==
    /\ pools_made' >= pools_made
    /\ \A b \in InUse' \ InUse : b.pool > pools_made \/ Writable(b)
    /\ \A b \in Token : Writable(b)' => Writable(b) \/ b \in InUse \/ b.pool > pools_made
    /\ conn' = "up" => \A h \in Handle, s \in Slot : Lost(h, s)' => conn = "up" /\ Lost(h, s)

LEMMA EmitQuiet ==
    ASSUME TypeInv, NEW ms \in Seq(Request), NEW type, Quiet(ms, type), Emit(ms)
    PROVE  Of(reqs', type) = Of(reqs, type)
  <1>1. reqs \in Seq(Request)
    BY DEF TypeInv, TypeOK, WireTypeOK
  <1> QED
    BY <1>1, QuietConcat DEF Emit

\* What the head does not name is still named behind it.
LEMMA TailKeeps ==
    ASSUME NEW M, NEW seq \in Seq(M), seq # <<>>, NEW type
    PROVE  /\ Of(Tail(seq), type) \subseteq Of(seq, type)
           /\ Of(seq, type) \subseteq Of(Tail(seq), type) \union {Tok(Head(seq))}
           /\ Head(seq).type # type => Of(seq, type) \subseteq Of(Tail(seq), type)
  <1>1. /\ \A i \in DOMAIN Tail(seq) : i + 1 \in DOMAIN seq /\ Tail(seq)[i] = seq[i + 1]
        /\ \A k \in DOMAIN seq : k > 1 => k - 1 \in DOMAIN Tail(seq) /\ Tail(seq)[k - 1] = seq[k]
        /\ \A k \in DOMAIN seq : k > 1 \/ k = 1
        /\ Head(seq) = seq[1]
    OBVIOUS
  <1>2. Of(Tail(seq), type) \subseteq Of(seq, type)
    BY <1>1 DEF Of
  <1>3. ASSUME NEW k \in DOMAIN seq, seq[k].type = type
        PROVE  Tok(seq[k]) \in Of(Tail(seq), type) \/ (seq[k] = Head(seq))
    BY <1>1, <1>3 DEF Of
  <1> QED
    BY <1>2, <1>3 DEF Of

LEMMA Numbers ==
    ASSUME TypeInv
    PROVE  /\ pools_made \in Nat
           /\ pool \in [Handle -> 0..MaxPools] /\ busy \in [Handle -> SUBSET Slot]
           /\ \A b \in Token : /\ b.handle \in Handle /\ b.pool \in Nat /\ b.pool # None
                               /\ b.slot \in Slot
                               /\ b = [handle |-> b.handle, pool |-> b.pool, slot |-> b.slot]
  BY ConstantsTyped DEF TypeInv, TypeOK, CoreTypeOK, Token, Pool, None

LEMMA Destroyed ==
    ASSUME TypeInv
    PROVE  \A b \in Of(reqs, "destroy_pool") : b.handle \in Handle /\ b.pool \in Pool
  <1>1. reqs \in Seq(Request)
    BY DEF TypeInv, TypeOK, WireTypeOK
  <1> QED
    BY <1>1, RequestFields DEF Of, Tok, BufferType

\* A step that leaves the apps alone.
LEMMA Undisturbed ==
    ASSUME TypeInv, OwnInv, UNCHANGED <<live, pool, busy, pools_made>>,
           Of(reqs', "destroy_pool") \subseteq Of(reqs, "destroy_pool"),
           InUse' \subseteq InUse,
           conn' = "up" =>
               /\ conn = "up"
               /\ \A h \in Handle : \A s \in busy[h] : Buffer(h, s) \in InUse => Buffer(h, s) \in InUse'
    PROVE  OwnInv' /\ Moves
  <1>1. OwnInv'
    BY DEF OwnInv, Unbuilt, DestroysOld
  <1>2. \A b : Writable(b)' <=> Writable(b)
    BY DEF Writable
  <1>3. \A h, s : Buffer(h, s)' = Buffer(h, s)
    BY DEF Buffer
  <1>4. conn' = "up" => \A h \in Handle, s \in Slot : Lost(h, s)' => conn = "up" /\ Lost(h, s)
    BY <1>3 DEF Lost
  <1>5. pools_made' >= pools_made
    BY Numbers
  <1> QED
    BY <1>1, <1>2, <1>4, <1>5 DEF Moves

LEMMA PumpMoves ==
    ASSUME TypeInv, TokenInv, OwnInv, PumpFlush \/ PumpFails \/ PumpRead \/ PumpDone, UNCHANGED held
    PROVE  OwnInv' /\ Moves
  <1>1. UNCHANGED <<live, pool, busy, pools_made>>
    BY DEF PumpFlush, PumpFails, PumpRead, PumpDone, appVars
  <1>2. CASE Lose
    <2>1. /\ Of(reqs', "frame") = {} /\ Of(evs', "release") = {} /\ Of(reqs', "destroy_pool") = {}
          /\ conn' # "up"
      BY <1>2 DEF Lose, Of
    <2> QED
      BY <1>1, <2>1, InUseIs, Undisturbed
  <1>3. CASE UNCHANGED <<reqs, evs, conn>>
    BY <1>1, <1>3, InUseIs, Undisturbed
  <1>4. CASE PumpRead /\ ~Lose
    <2> DEFINE kept == {i \in DOMAIN evs : ObjectLives(evs[i])}
    <2>1. /\ evs' = [i \in DOMAIN evs |->
                        IF i <= read \/ i \in kept THEN evs[i] ELSE Discarded]
          /\ UNCHANGED <<reqs, conn>>
      BY <1>4 DEF PumpRead, ReadEvents
    <2>2. Of(evs', "release") \subseteq Of(evs, "release")
      BY <1>4, ReadFacts
    <2>3. ASSUME NEW h \in Handle, NEW s \in busy[h], Buffer(h, s) \in Of(evs, "release")
          PROVE  Buffer(h, s) \in Of(evs', "release")
      <3>1. PICK i \in DOMAIN evs : evs[i].type = "release" /\ Tok(evs[i]) = Buffer(h, s)
        BY <2>3 DEF Of
      <3>2. evs[i].handle = h /\ evs[i].pool = pool[h]
        BY <3>1 DEF Tok, Buffer
      <3>3. h \in live
        BY <2>3 DEF OwnInv, Unbuilt
      <3>4. i \in kept
        BY <3>1, <3>2, <3>3 DEF ObjectLives
      <3>5. i \in DOMAIN evs' /\ evs'[i] = evs[i]
        BY <2>1, <3>4
      <3> QED
        BY <3>1, <3>5 DEF Of
    <2>4. \A h \in Handle : \A s \in busy[h] : Buffer(h, s) \in InUse => Buffer(h, s) \in InUse'
      BY <2>1, <2>3, InUseIs
    <2> QED
      BY <1>1, <2>1, <2>2, <2>4, InUseIs, Undisturbed
  <1> QED
    BY <1>2, <1>3, <1>4 DEF PumpFlush, PumpFails, PumpDone, FlushOk, FlushErr, wireVars

LEMMA DeliverMoves ==
    ASSUME TypeInv, TokenInv, OwnInv, Deliver, UNCHANGED held
    PROVE  OwnInv' /\ Moves
  <1> DEFINE e == NextEvent
  <1>1. /\ DropEvent /\ UNCHANGED <<live, pool, pools_made, conn>>
        /\ Of(reqs', "frame") = Of(reqs, "frame")
        /\ Of(reqs', "destroy_pool") = Of(reqs, "destroy_pool")
    BY DeliverFacts, EmitQuiet DEF Calm
  <1>2. evs \in Seq(Event) /\ evs # <<>> /\ evs' = Tail(evs) /\ e = Head(evs)
    BY <1>1, DropFacts DEF DropEvent, NextEvent, TypeInv, TypeOK, WireTypeOK
  <1>3. /\ Of(evs', "release") \subseteq Of(evs, "release")
        /\ Of(evs, "release") \subseteq Of(evs', "release") \union {Tok(e)}
        /\ e.type # "release" => Of(evs, "release") \subseteq Of(evs', "release")
    BY <1>2, TailKeeps
  <1>4. CASE e.type # "release" /\ UNCHANGED busy
    BY <1>1, <1>3, <1>4, InUseIs, Undisturbed
  <1>5. CASE e.type = "release" /\ busy' = FreeSlot(e.handle, e.slot)
    <2>1. e.handle \in live /\ pool[e.handle] = e.pool /\ Tok(e) \in Of(evs, "release")
      BY <1>1, <1>5, DropFacts
    <2>2. Tok(e) \in Token /\ e.handle \in Handle
      BY <2>1, InUseTyped, InUseIs DEF TypeInv, TypeOK, SeatTypeOK
    <2>3. e.pool # None
      BY <2>2, Numbers DEF Tok
    <2>4. busy' = [busy EXCEPT ![e.handle] = @ \ {e.slot}]
      BY <1>5, <2>1, <2>3 DEF FreeSlot
    <2>5. /\ \A h \in Handle : busy'[h] \subseteq busy[h]
          /\ e.slot \notin busy'[e.handle]
          /\ \A h \in Handle : \A s \in busy[h] \ busy'[h] : h = e.handle /\ s = e.slot
      BY <2>2, <2>4, Numbers
    <2>6. OwnInv'
      <3>1. Unbuilt'
        BY <1>1, <2>5 DEF OwnInv, Unbuilt
      <3>2. DestroysOld'
        BY <1>1 DEF OwnInv, DestroysOld
      <3> QED
        BY <3>1, <3>2 DEF OwnInv
    <2>7. InUse' \subseteq InUse /\ InUse \subseteq InUse' \union {Tok(e)}
      BY <1>1, <1>3, InUseIs
    <2>8. ASSUME NEW b \in Token, Writable(b)', ~Writable(b) PROVE b \in InUse
      <3>1. b.slot \in busy[b.handle] \ busy'[b.handle] /\ pool[b.handle] = b.pool
        BY <1>1, <2>8 DEF Writable
      <3>2. b.handle = e.handle /\ b.slot = e.slot
        BY <2>5, <3>1, Numbers
      <3>3. b = Tok(e)
        BY <2>1, <3>1, <3>2, Numbers DEF Tok
      <3> QED
        BY <2>1, <3>3, InUseIs
    <2>9. ASSUME NEW h \in Handle, NEW s \in Slot, Lost(h, s)' PROVE Lost(h, s)
      <3>1. s \in busy'[h] /\ s \in busy[h] /\ Buffer(h, s) \notin InUse'
        BY <1>1, <2>5, <2>9 DEF Lost, Buffer
      <3>2. Buffer(h, s) # Tok(e)
        BY <2>5, <3>1 DEF Buffer, Tok
      <3> QED
        BY <2>7, <3>1, <3>2 DEF Lost
    <2>10. pools_made' >= pools_made
      BY <1>1, Numbers
    <2> QED
      BY <1>1, <2>6, <2>7, <2>8, <2>9, <2>10 DEF Moves
  <1> QED
    BY <1>4, <1>5, DeliverFacts

\* A pool goes, and its app perhaps with it.
LEMMA PoolGoneMoves ==
    ASSUME TypeInv, TokenInv, OwnInv, NEW h \in Handle, UNCHANGED <<evs, held, pools_made, conn>>,
           Of(reqs', "frame") = Of(reqs, "frame"),
           \A b \in Of(reqs', "destroy_pool") :
               b \in Of(reqs, "destroy_pool") \/ (b.handle = h /\ b.pool = pool[h] /\ pool[h] # None),
           live' \in {live, live \ {h}},
           pool' = [pool EXCEPT ![h] = None], busy' = [busy EXCEPT ![h] = {}]
    PROVE  OwnInv' /\ Moves
  <1>1. /\ \A g \in Handle : g # h => pool'[g] = pool[g] /\ busy'[g] = busy[g]
        /\ pool'[h] = None /\ busy'[h] = {}
    BY Numbers
  <1>2. Unbuilt'
    BY <1>1 DEF OwnInv, Unbuilt
  <1>3. DestroysOld'
    <2> SUFFICES ASSUME NEW b \in Of(reqs', "destroy_pool")
                 PROVE  b.pool # pool'[b.handle] /\ b.pool <= pools_made
      BY DEF DestroysOld
    <2>1. CASE b \in Of(reqs, "destroy_pool")
      <3>1. b.handle \in Handle /\ b.pool # None
        BY <2>1, Destroyed, ConstantsTyped DEF Pool, None
      <3> QED
        BY <1>1, <2>1, <3>1 DEF OwnInv, DestroysOld
    <2>2. CASE b.handle = h /\ b.pool = pool[h] /\ pool[h] # None
      BY <1>1, <2>2 DEF TokenInv, PoolsMade
    <2> QED
      BY <2>1, <2>2
  <1>4. InUse' = InUse
    BY InUseIs
  <1>5. \A b \in Token : Writable(b)' => Writable(b)
    BY <1>1, Numbers DEF Writable
  <1>6. \A g \in Handle, s \in Slot : Lost(g, s)' => Lost(g, s)
    BY <1>1, <1>4 DEF Lost, Buffer
  <1>7. pools_made' >= pools_made
    BY Numbers
  <1> QED
    BY <1>2, <1>3, <1>4, <1>5, <1>6, <1>7 DEF OwnInv, Moves

\* The only pool DestroySlots can name is the app's own.
LEMMA DestroySlotsNames ==
    ASSUME NEW h
    PROVE  \A i \in DOMAIN DestroySlots(h) :
               /\ DestroySlots(h)[i].type = "destroy_pool" /\ pool[h] # None
               /\ DestroySlots(h)[i].handle = h /\ DestroySlots(h)[i].pool = pool[h]
  BY DEF DestroySlots, Msg

LEMMA EmitDestroys ==
    ASSUME TypeInv, NEW h \in Handle, NEW ms \in Seq(Request), Emit(DestroySlots(h) \o ms),
           Quiet(ms, "destroy_pool")
    PROVE  \A b \in Of(reqs', "destroy_pool") :
               b \in Of(reqs, "destroy_pool") \/ (b.handle = h /\ b.pool = pool[h] /\ pool[h] # None)
  <1> DEFINE ds == DestroySlots(h)
  <1>1. reqs \in Seq(Request) /\ ds \in Seq(Request)
    BY DestroySlotsTyped DEF TypeInv, TypeOK, WireTypeOK
  <1>2. \A i \in DOMAIN ds : pool[h] # None /\ ds[i].handle = h /\ ds[i].pool = pool[h]
    BY DestroySlotsNames
  <1> HIDE DEF ds
  <1>3. ds \o ms \in Seq(Request) /\ reqs \o ds \in Seq(Request)
    BY <1>1
  <1>4. reqs \o (ds \o ms) = (reqs \o ds) \o ms
    BY <1>1, ConcatAssociative
  <1>5. Of((reqs \o ds) \o ms, "destroy_pool") = Of(reqs \o ds, "destroy_pool")
    BY <1>3, QuietConcat
  <1>6. \A b \in Of(reqs \o ds, "destroy_pool") :
            b \in Of(reqs, "destroy_pool") \/ (b.handle = h /\ b.pool = pool[h] /\ pool[h] # None)
    <2> SUFFICES ASSUME NEW i \in DOMAIN (reqs \o ds), (reqs \o ds)[i].type = "destroy_pool"
                 PROVE  \/ Tok((reqs \o ds)[i]) \in Of(reqs, "destroy_pool")
                        \/ /\ Tok((reqs \o ds)[i]).handle = h
                           /\ Tok((reqs \o ds)[i]).pool = pool[h] /\ pool[h] # None
      BY DEF Of
    <2>1. CASE i \in DOMAIN reqs /\ (reqs \o ds)[i] = reqs[i]
      BY <2>1 DEF Of
    <2>2. CASE \E k \in DOMAIN ds : (reqs \o ds)[i] = ds[k]
      BY <1>2, <2>2 DEF Tok
    <2> QED
      BY <1>1, <2>1, <2>2, ConcatFacts
  <1>7. reqs' \in {reqs, (reqs \o ds) \o ms}
    BY <1>4 DEF Emit, ds
  <1> QED
    BY <1>5, <1>6, <1>7

LEMMA PushNoPoolMoves ==
    ASSUME TypeInv, TokenInv, OwnInv, PushNoPool, UNCHANGED held
    PROVE  OwnInv' /\ Moves
  <1> DEFINE h == call.handle
  <1>1. h \in Handle
    BY AcceptedCall DEF PushNoPool, TypeInv, TypeOK, LoopInv
  <1>2. DestroySlots(h) \in Seq(Request) /\ Quiet(DestroySlots(h), "frame")
    BY <1>1, DestroySlotsTyped, DestroySlotsQuiet DEF TypeInv, TypeOK
  <1>3. Of(reqs', "frame") = Of(reqs, "frame")
    BY <1>2, EmitQuiet DEF PushNoPool
  <1>4. Emit(DestroySlots(h) \o <<>>)
    BY <1>2, ConcatEmptySeq DEF PushNoPool
  <1>5. <<>> \in Seq(Request) /\ Quiet(<<>>, "destroy_pool")
    BY DEF Quiet
  <1>6. \A b \in Of(reqs', "destroy_pool") :
            b \in Of(reqs, "destroy_pool") \/ (b.handle = h /\ b.pool = pool[h] /\ pool[h] # None)
    BY <1>1, <1>4, <1>5, EmitDestroys
  <1>7. /\ UNCHANGED <<evs, pools_made, conn>> /\ live' \in {live, live \ {h}}
        /\ pool' = [pool EXCEPT ![h] = None] /\ busy' = [busy EXCEPT ![h] = {}]
    BY DEF PushNoPool
  <1> QED
    BY <1>1, <1>3, <1>6, <1>7, PoolGoneMoves

LEMMA CloseAppMoves ==
    ASSUME TypeInv, TokenInv, OwnInv, CloseAppBody, UNCHANGED held
    PROVE  OwnInv' /\ Moves
  <1> DEFINE h == call.handle
             ms == <<Msg("destroy_toplevel", h, None, 0, 0),
                     Msg("destroy_xdg_surface", h, None, 0, 0),
                     Msg("destroy_surface", h, None, 0, 0)>>
  <1>1. h \in Handle
    BY DEF CloseAppBody, TypeInv, TypeOK, SeatTypeOK
  <1>2. DestroyEntry(h) \in Seq(Request) /\ Quiet(DestroyEntry(h), "frame")
    BY <1>1, DestroyEntryQuiet
  <1>3. Of(reqs', "frame") = Of(reqs, "frame")
    BY <1>2, EmitQuiet DEF CloseAppBody
  <1>4. Emit(DestroySlots(h) \o ms)
    BY DEF CloseAppBody, DestroyEntry
  <1>5. ms \in Seq(Request) /\ Quiet(ms, "destroy_pool")
    <2>1. h \in 0..MaxApps
      BY <1>1, ConstantsTyped DEF Handle
    <2>2. \A type \in {"destroy_toplevel", "destroy_xdg_surface", "destroy_surface"} :
              Msg(type, h, None, 0, 0) \in Request
      BY <2>1, MsgTyped, ZeroTyped DEF Request, RequestType, BufferType, SeatType
    <2>3. Quiet(ms, "destroy_pool")
      BY DEF Quiet, Msg
    <2> QED
      BY <2>2, <2>3
  <1> HIDE DEF ms
  <1>6. \A b \in Of(reqs', "destroy_pool") :
            b \in Of(reqs, "destroy_pool") \/ (b.handle = h /\ b.pool = pool[h] /\ pool[h] # None)
    BY <1>1, <1>4, <1>5, EmitDestroys
  <1>7. /\ UNCHANGED <<evs, pools_made, conn>> /\ live' \in {live, live \ {h}}
        /\ pool' = [pool EXCEPT ![h] = None] /\ busy' = [busy EXCEPT ![h] = {}]
    BY DEF CloseAppBody
  <1> QED
    BY <1>1, <1>3, <1>6, <1>7, PoolGoneMoves

\* What a frame adds to what is on its way.
LEMMA EmitFrameAdds ==
    ASSUME TypeInv, NEW h \in Handle, NEW p \in Pool, NEW s \in Slot,
           NEW ms \in Seq(Request), Quiet(ms, "frame"), Emit(ms \o <<Frame(h, p, s)>>)
    PROVE  /\ Of(reqs', "frame") \subseteq
                  Of(reqs, "frame") \union {[handle |-> h, pool |-> p, slot |-> s]}
           /\ conn = "up" => Of(reqs', "frame") =
                  Of(reqs, "frame") \union {[handle |-> h, pool |-> p, slot |-> s]}
  <1> DEFINE f == <<Frame(h, p, s)>>
             b == [handle |-> h, pool |-> p, slot |-> s]
  <1>1. reqs \in Seq(Request) /\ f \in Seq(Request)
    BY FrameTyped DEF TypeInv, TypeOK, WireTypeOK
  <1>2. /\ reqs \o ms \in Seq(Request)
        /\ Of(reqs \o ms, "frame") = Of(reqs, "frame")
    BY <1>1, QuietConcat
  <1>3. /\ 1 \in DOMAIN f /\ Tok(f[1]) = b
        /\ \A i \in DOMAIN f : f[i].type = "frame" <=> i = 1
    BY DEF Frame, Msg, Tok
  <1>4. reqs \o (ms \o f) = (reqs \o ms) \o f
    BY <1>1, ConcatAssociative
  <1>5. reqs' = IF conn = "lost" THEN reqs ELSE (reqs \o ms) \o f
    BY <1>4 DEF Emit
  <1> HIDE DEF f, b
  <1>6. Of((reqs \o ms) \o f, "frame") = Of(reqs, "frame") \union {b}
    <2> DEFINE before == reqs \o ms
    <2>1. before \in Seq(Request) /\ Of(before, "frame") = Of(reqs, "frame")
      BY <1>2
    <2> HIDE DEF before
    <2>2. Of(before \o f, "frame") = Of(before, "frame") \union {Tok(f[1])}
      BY <1>1, <1>3, <2>1, SingleConcat
    <2> QED
      BY <1>3, <2>1, <2>2 DEF before
  <1>7. /\ Of(reqs', "frame") \subseteq Of(reqs, "frame") \union {b}
        /\ conn = "up" => Of(reqs', "frame") = Of(reqs, "frame") \union {b}
    BY <1>5, <1>6
  <1> QED
    BY <1>7 DEF b

LEMMA PushIntoNewPoolMoves ==
    ASSUME TypeInv, TokenInv, OwnInv, PushIntoNewPool, UNCHANGED held
    PROVE  OwnInv' /\ Moves
  <1> DEFINE h == call.handle
             p == pools_made + 1
             b == [handle |-> h, pool |-> p, slot |-> 0]
             create == <<Msg("create_pool", h, p, 0, 0)>>
             frame == <<Frame(h, p, 0)>>
  <1>1. h \in Handle /\ h \in live /\ pools_made < MaxPools /\ pools_made \in Nat
    BY AcceptedCall, ConstantsTyped
       DEF PushIntoNewPool, PushAccepted, TypeInv, TypeOK, CoreTypeOK, LoopInv
  <1>2. p \in Pool /\ 0 \in Slot /\ h \in 0..MaxApps /\ p \in 0..MaxPools
    BY <1>1, ZeroTyped, ConstantsTyped DEF Pool, Handle
  <1>3. /\ DestroySlots(h) \in Seq(Request) /\ Quiet(DestroySlots(h), "frame")
        /\ create \in Seq(Request) /\ frame \in Seq(Request)
    <2>1. DestroySlots(h) \in Seq(Request) /\ Quiet(DestroySlots(h), "frame")
      BY <1>1, DestroySlotsTyped, DestroySlotsQuiet DEF TypeInv, TypeOK
    <2> QED
      BY <1>1, <1>2, <2>1, OneRequest, ZeroTyped, FrameTyped DEF RequestType, SeatType
  <1>4. /\ Quiet(create, "frame") /\ Calm(<<>>)
        /\ Quiet(create, "destroy_pool") /\ Quiet(frame, "destroy_pool")
    BY DEF Calm, Quiet, Frame, Msg
  <1>5. <<Msg("create_pool", h, p, 0, 0), Frame(h, p, 0)>> = create \o frame
    OBVIOUS
  <1>6. Emit(DestroySlots(h) \o (create \o frame))
    BY <1>5 DEF PushIntoNewPool
  <1> HIDE DEF create, frame
  <1>7. create \o frame \in Seq(Request) /\ Quiet(create \o frame, "destroy_pool")
    BY <1>3, <1>4, QuietTwo
  <1>8. \A d \in Of(reqs', "destroy_pool") :
            d \in Of(reqs, "destroy_pool") \/ (d.handle = h /\ d.pool = pool[h] /\ pool[h] # None)
    BY <1>1, <1>6, <1>7, EmitDestroys
  <1>9. /\ Of(reqs', "frame") \subseteq Of(reqs, "frame") \union {b}
        /\ conn = "up" => Of(reqs', "frame") = Of(reqs, "frame") \union {b}
    <2> DEFINE ms == DestroySlots(h) \o create
    <2>1. ms \in Seq(Request) /\ Quiet(ms, "frame")
      BY <1>3, <1>4, QuietTwo
    <2>2. DestroySlots(h) \o (create \o frame) = ms \o frame
      <3>1. \A x, y, z \in Seq(Request) : (x \o y) \o z = x \o (y \o z)
        BY ConcatAssociative
      <3> QED
        BY <1>3, <3>1, Zenon
    <2>3. Emit(ms \o <<Frame(h, p, 0)>>)
      BY <1>6, <2>2 DEF frame
    <2> HIDE DEF ms
    <2> QED
      BY <1>1, <1>2, <2>1, <2>3, EmitFrameAdds
  <1>10. /\ pool' = [pool EXCEPT ![h] = p] /\ busy' = [busy EXCEPT ![h] = {0}]
         /\ pools_made' = p /\ UNCHANGED <<evs, conn, live>>
    BY DEF PushIntoNewPool
  <1>11. /\ \A g \in Handle : g # h => pool'[g] = pool[g] /\ busy'[g] = busy[g]
         /\ pool'[h] = p /\ busy'[h] = {0} /\ p > pools_made
    BY <1>1, <1>10, Numbers
  <1>12. Unbuilt'
    BY <1>1, <1>10, <1>11 DEF OwnInv, Unbuilt
  <1>13. DestroysOld'
    <2> SUFFICES ASSUME NEW d \in Of(reqs', "destroy_pool")
                 PROVE  d.pool # pool'[d.handle] /\ d.pool <= p
      BY <1>10 DEF DestroysOld
    <2>1. d.pool <= pools_made /\ d.pool \in Nat /\ (d.handle # h => d.pool # pool[d.handle])
          /\ d.handle \in Handle
      <3>1. CASE d \in Of(reqs, "destroy_pool")
        BY <3>1, Destroyed, ConstantsTyped DEF OwnInv, DestroysOld, Pool
      <3>2. CASE d.handle = h /\ d.pool = pool[h]
        BY <1>1, <3>2, Numbers, ConstantsTyped DEF TokenInv, PoolsMade
      <3> QED
        BY <1>8, <3>1, <3>2
    <2> QED
      BY <1>1, <1>11, <2>1
  <1>14. \A t \in InUse' \ InUse : t.pool > pools_made
    BY <1>9, <1>10, <1>11, InUseIs
  <1>15. ASSUME NEW t \in Token, Writable(t)' PROVE Writable(t) \/ t.pool > pools_made
    BY <1>10, <1>11, <1>15, Numbers DEF Writable
  <1>16. ASSUME conn = "up", NEW g \in Handle, NEW s \in Slot, Lost(g, s)' PROVE Lost(g, s)
    <2>1. InUse \subseteq InUse' /\ b \in InUse'
      BY <1>9, <1>10, <1>16, InUseIs
    <2>2. g # h
      BY <1>11, <1>16, <2>1 DEF Lost, Buffer
    <2> QED
      BY <1>11, <1>16, <2>1, <2>2 DEF Lost, Buffer
  <1> QED
    BY <1>10, <1>11, <1>12, <1>13, <1>14, <1>15, <1>16, Numbers DEF OwnInv, Moves

LEMMA PushIntoPoolMoves ==
    ASSUME TypeInv, TokenInv, OwnInv, PushIntoPool, UNCHANGED held
    PROVE  OwnInv' /\ Moves
  <1> DEFINE h == call.handle
             p == pool[h]
  <1>1. h \in Handle /\ h \in live /\ p \in Pool /\ UNCHANGED <<pool, pools_made, evs, live, conn>>
    <2>1. h \in Handle /\ h \in live
      BY AcceptedCall DEF PushIntoPool, PushAccepted, TypeInv, TypeOK, LoopInv, CoreTypeOK
    <2> QED
      BY <2>1, ConstantsTyped
         DEF PushIntoPool, NeedsNew, TypeInv, TypeOK, CoreTypeOK, Pool, None
  <1>2. PICK s \in Slot : /\ s \notin busy[h]
                          /\ busy' = [busy EXCEPT ![h] = @ \union {s}]
                          /\ Emit(<<Frame(h, p, s)>>)
    BY DEF PushIntoPool, FirstFree
  <1> DEFINE b == [handle |-> h, pool |-> p, slot |-> s]
             f == <<Frame(h, p, s)>>
  <1>3. f \in Seq(Request) /\ Quiet(f, "destroy_pool") /\ Quiet(<<>>, "frame") /\ <<>> \in Seq(Request)
    BY <1>1, FrameTyped DEF Quiet, Frame, Msg
  <1>4. Of(reqs', "destroy_pool") = Of(reqs, "destroy_pool")
    BY <1>2, <1>3, EmitQuiet
  <1>5. /\ Of(reqs', "frame") \subseteq Of(reqs, "frame") \union {b}
        /\ conn = "up" => Of(reqs', "frame") = Of(reqs, "frame") \union {b}
    <2>1. Emit(<<>> \o f)
      BY <1>2, <1>3, ConcatEmptySeq
    <2> QED
      BY <1>1, <1>3, <2>1, EmitFrameAdds
  <1>6. /\ \A g \in Handle : g # h => busy'[g] = busy[g]
        /\ busy'[h] = busy[h] \union {s}
    BY <1>1, <1>2, Numbers
  <1>7. OwnInv'
    <2>1. Unbuilt'
      BY <1>1, <1>6 DEF OwnInv, Unbuilt
    <2>2. DestroysOld'
      BY <1>1, <1>4 DEF OwnInv, DestroysOld
    <2> QED
      BY <2>1, <2>2 DEF OwnInv
  <1>8. \A t \in InUse' \ InUse : Writable(t)
    <2>1. Writable(b)
      BY <1>1, <1>2 DEF Writable
    <2> QED
      BY <1>1, <1>5, <2>1, InUseIs
  <1>9. \A t \in Token : Writable(t)' => Writable(t)
    BY <1>1, <1>6, Numbers DEF Writable
  <1>10. ASSUME conn = "up", NEW g \in Handle, NEW r \in Slot, Lost(g, r)' PROVE Lost(g, r)
    <2>1. InUse \subseteq InUse' /\ b \in InUse'
      BY <1>1, <1>5, <1>10, InUseIs
    <2>2. r \in busy'[g] /\ Buffer(g, r) \notin InUse'
      BY <1>1, <1>10 DEF Lost, Buffer
    <2>3. g = h => r # s
      BY <2>1, <2>2 DEF Buffer
    <2> QED
      BY <1>6, <2>1, <2>2, <2>3 DEF Lost
  <1> QED
    BY <1>1, <1>7, <1>8, <1>9, <1>10, Numbers DEF Moves

\* A new app has no pool yet.
LEMMA BridgeAppMoves ==
    ASSUME TypeInv, TokenInv, OwnInv, BridgeAppBody, UNCHANGED held
    PROVE  OwnInv' /\ Moves
  <1> DEFINE ms == <<Msg("create", FreshHandle, None, 0, 0)>>
  <1>1. ms \in Seq(Request)
    <2>1. todo \in Seq(Step) /\ todo # <<>> /\ Head(todo) = "bridge_app"
      BY DEF BridgeAppBody, At, TypeInv, TypeOK, CoreTypeOK
    <2>2. 1 \in DOMAIN todo /\ todo[1] = "bridge_app"
      BY <2>1
    <2>3. FreshHandle \in 0..MaxApps
      BY <2>2, ConstantsTyped DEF TypeInv, TypeOK, CoreTypeOK, ScriptInv, RoomLeft, FreshHandle
    <2> QED
      BY <2>3, OneRequest, ZeroTyped DEF RequestType, BufferType, SeatType
  <1>2. Calm(ms) /\ Emit(ms)
    BY DEF BridgeAppBody, Calm, Quiet, Msg
  <1> HIDE DEF ms
  <1>3. /\ Of(reqs', "frame") = Of(reqs, "frame")
        /\ Of(reqs', "destroy_pool") = Of(reqs, "destroy_pool")
    BY <1>1, <1>2, EmitQuiet DEF Calm
  <1>4. UNCHANGED <<evs, conn, pool, busy, pools_made>> /\ live \subseteq live'
    BY DEF BridgeAppBody
  <1>5. OwnInv'
    BY <1>3, <1>4 DEF OwnInv, Unbuilt, DestroysOld
  <1>6. InUse' = InUse
    BY <1>3, <1>4, InUseIs
  <1>7. \A b \in Token : Writable(b)' => Writable(b)
    BY <1>4, Numbers DEF Writable, OwnInv, Unbuilt
  <1>8. \A h \in Handle, s \in Slot : Lost(h, s)' => Lost(h, s)
    BY <1>4, <1>6 DEF Lost, Buffer
  <1> QED
    BY <1>4, <1>5, <1>6, <1>7, <1>8, Numbers DEF Moves

LEMMA CoreStepMoves ==
    ASSUME TypeInv, TokenInv, OwnInv, CoreStep, UNCHANGED held
    PROVE  OwnInv' /\ Moves
  <1>1. CASE PushRejected \/ PushSkipped \/ PollInputBody \/ CloseRequestedBody
             \/ CloseUnknownBody \/ BridgeAppReturn
    <2>1. UNCHANGED wireVars /\ UNCHANGED appVars
      BY <1>1 DEF PushRejected, PushSkipped, PollInputBody, CloseRequestedBody, CloseUnknownBody,
                  BridgeAppReturn
    <2>2. UNCHANGED <<reqs, evs, conn, live, pool, busy, pools_made>>
      BY <2>1 DEF wireVars, appVars
    <2> QED
      BY <2>2, InUseIs, Undisturbed
  <1> QED
    BY <1>1, PumpMoves, DeliverMoves, BridgeAppMoves, PushNoPoolMoves, PushIntoNewPoolMoves,
       PushIntoPoolMoves, CloseAppMoves
       DEF CoreStep

\* A request that is taken: a frame goes to the compositor's hands, and what the end of a
\* pool takes from there is no app's.
LEMMA AcceptMoves ==
    ASSUME TypeInv, TokenInv, OwnInv, Accept, UNCHANGED <<pool, busy, pools_made, live>>
    PROVE  OwnInv' /\ Moves
  <1> DEFINE m == Oldest
  <1>1. /\ reqs \in Seq(Request) /\ reqs # <<>> /\ reqs' = Tail(reqs) /\ m = Head(reqs)
        /\ conn = "up" /\ m \in Request
    BY DEF Accept, TakeRequest, TypeInv, TypeOK, WireTypeOK, Oldest
  <1>2. /\ Of(reqs', "destroy_pool") \subseteq Of(reqs, "destroy_pool")
        /\ Of(reqs', "frame") \subseteq Of(reqs, "frame")
        /\ Of(reqs, "frame") \subseteq Of(reqs', "frame") \union {Tok(m)}
        /\ m.type # "frame" => Of(reqs, "frame") \subseteq Of(reqs', "frame")
        /\ m.type \in {"frame", "destroy_pool"} => Tok(m) \in Of(reqs, m.type)
    <2>1. m.type \in {"frame", "destroy_pool"} => Tok(m) \in Of(reqs, m.type)
      <3>1. 1 \in DOMAIN reqs /\ m = reqs[1]
        BY <1>1
      <3> QED
        BY <3>1 DEF Of
    <2> QED
      BY <1>1, <2>1, TailKeeps
  <1>3. Of(evs', "release") = Of(evs, "release")
    <2>1. CASE AcceptBindSeat
      <3>1. SendEvents(<<Msg("capabilities", None, None, 0, m.serial)>>) /\ evs \in Seq(Event)
        BY <2>1 DEF AcceptBindSeat, TypeInv, TypeOK, WireTypeOK
      <3>2. /\ <<Msg("capabilities", None, None, 0, m.serial)>> \in Seq(Event)
            /\ Quiet(<<Msg("capabilities", None, None, 0, m.serial)>>, "release")
        BY <2>1, BindReplyTyped DEF TypeInv, TypeOK, Quiet, Msg
      <3> QED
        BY <1>1, <3>1, <3>2, QuietConcat DEF SendEvents
    <2>2. CASE UNCHANGED evs
      BY <2>2
    <2> QED
      BY <2>1, <2>2 DEF Accept, AcceptCreate, AcceptCreatePool, AcceptFrame, AcceptDestroyPool,
                  AcceptDestroyWindow, AcceptDestroy, AcceptAck, AcceptPong,
                  AcceptGetDevice, ProtocolError
  <1>4. CASE m.type = "frame" /\ held' = held \union {Tok(m)} /\ conn' = conn
    <2>1. InUse' = InUse
      BY <1>2, <1>3, <1>4, InUseIs
    <2> QED
      BY <1>1, <1>2, <1>4, <2>1, Undisturbed
  <1>5. CASE held' = held /\ conn' # "up"
    <2>1. InUse' \subseteq InUse
      BY <1>2, <1>3, <1>5, InUseIs
    <2> QED
      BY <1>2, <1>5, <2>1, Undisturbed
  <1>6. CASE AcceptDestroyPool
    <2> DEFINE gone == {b \in Token : b.handle = m.handle /\ b.pool = m.pool}
    <2>1. /\ m.type = "destroy_pool" /\ held' = held \ gone
          /\ InUse' \subseteq InUse /\ InUse \subseteq InUse' \union gone
      BY <1>2, <1>3, <1>6, InUseIs DEF AcceptDestroyPool
    <2>2. m.pool # pool[m.handle]
      BY <1>2, <2>1 DEF OwnInv, DestroysOld, Tok
    <2>3. \A h \in Handle, s \in Slot : Buffer(h, s) \notin gone
      BY <2>2 DEF Buffer
    <2>4. \A h \in Handle : \A s \in busy[h] : Buffer(h, s) \in InUse => Buffer(h, s) \in InUse'
      BY <2>1, <2>3, Numbers
    <2> QED
      BY <1>1, <1>2, <2>1, <2>4, Undisturbed
  <1>7. CASE held' = held /\ conn' = conn /\ m.type # "frame"
    <2>1. InUse' = InUse
      BY <1>2, <1>3, <1>7, InUseIs
    <2> QED
      BY <1>1, <1>2, <1>7, <2>1, Undisturbed
  <1> QED
    BY <1>1, <1>4, <1>5, <1>6, <1>7
       DEF Accept, AcceptCreate, AcceptCreatePool, AcceptFrame, AcceptDestroyWindow,
           AcceptDestroy, AcceptAck, AcceptPong, AcceptBindSeat, AcceptGetDevice,
           ProtocolError, PeerGone, westonVars, clientVars

LEMMA ReleaseMoves ==
    ASSUME TypeInv, TokenInv, OwnInv, NEW b \in held, Release(b),
           UNCHANGED <<pool, busy, pools_made, live>>
    PROVE  OwnInv' /\ Moves
  <1> DEFINE ms == <<Msg("release", b.handle, b.pool, b.slot, 0)>>
  <1>1. /\ b.handle \in Handle /\ b.pool \in Pool /\ b.slot \in Slot
        /\ b = [handle |-> b.handle, pool |-> b.pool, slot |-> b.slot]
    BY DEF TypeInv, TypeOK, WestonTypeOK, Token
  <1>2. ms \in Seq(Event)
    BY <1>1, OneEvent, ZeroTyped, ConstantsTyped DEF EventType, SeatType, Handle, Pool
  <1>3. /\ 1 \in DOMAIN ms /\ Tok(ms[1]) = b
        /\ \A i \in DOMAIN ms : ms[i].type = "release" <=> i = 1
    BY <1>1 DEF Msg, Tok
  <1>4. /\ SendEvents(ms) /\ held' = held \ {b} /\ UNCHANGED <<reqs, conn>> /\ conn = "up"
    BY DEF Release
  <1>5. /\ evs \in Seq(Event) /\ Once(evs, "release") /\ b \notin Of(evs, "release")
        /\ b \notin Of(reqs, "frame")
    BY DEF TypeInv, TypeOK, WireTypeOK, TokenInv, UsedOnce
  <1> HIDE DEF ms
  <1>6. Of(evs', "release") = Of(evs, "release") \union {b}
    BY <1>2, <1>3, <1>4, <1>5, SingleConcat DEF SendEvents
  <1>7. InUse' = InUse
    BY <1>4, <1>6, InUseIs
  <1> QED
    BY <1>4, <1>7, Undisturbed

LEMMA WestonStepMoves ==
    ASSUME TypeInv, TokenInv, OwnInv, WestonStep, UNCHANGED <<pool, busy, pools_made, live>>
    PROVE  OwnInv' /\ Moves
  <1>1. CASE SendsQuietly /\ UNCHANGED conn
    <2>1. PICK ms \in Seq(QuietEvent) : SendEvents(ms) /\ UNCHANGED <<reqs, read, held>>
      BY <1>1 DEF SendsQuietly
    <2>2. ms \in Seq(Event) /\ Quiet(ms, "release") /\ evs \in Seq(Event)
      BY DEF QuietEvent, Quiet, TypeInv, TypeOK, WireTypeOK
    <2>3. Of(evs', "release") = Of(evs, "release")
      BY <2>1, <2>2, QuietConcat DEF SendEvents
    <2> QED
      BY <1>1, <2>1, <2>3, InUseIs, Undisturbed
  <1>2. CASE Crash
    <2>1. UNCHANGED <<reqs, evs, held>> /\ conn' # "up"
      BY <1>2 DEF Crash, PeerGone, clientVars
    <2> QED
      BY <2>1, InUseIs, Undisturbed
  <1>3. CASE SeatTraffic
    <2>1. UNCHANGED conn
      BY <1>3, SeatTrafficKeeps
    <2> QED
      BY <1>1, <1>3, <2>1, SeatTyped, SeatIsQuiet DEF TypeInv, TypeOK
  <1>4. CASE SendPing \/ \E h \in Handle : SendConfigure(h) \/ SendClose(h)
    <2>1. UNCHANGED conn
      BY <1>4 DEF SendPing, SendConfigure, SendClose
    <2> QED
      BY <1>1, <1>4, <2>1, WindowEventsQuiet
  <1> QED
    BY <1>2, <1>3, <1>4, AcceptMoves, ReleaseMoves DEF WestonStep, SeatTraffic

\* A bridge that starts has no app, and one that stops leaves none.
LEMMA StartStopMoves ==
    ASSUME TypeInv, TokenInv, OwnInv, Idle, Start \/ Stop
    PROVE  OwnInv' /\ Moves
  <1>0. pools_made' = pools_made
    BY DEF Start, AnowawStart, Stop, AnowawStop, appVars
  <1>1. CASE Start
    <2> DEFINE n == seats
    <2>1. AnowawStart(n)
      BY <1>1 DEF Start
    <2>2. /\ reqs' = <<>> /\ bridge = "null"
          /\ evs' = [i \in 1..n |-> Msg("capabilities", None, None, 0, i)]
      BY <2>1 DEF AnowawStart
    <2>3. UNCHANGED <<pool, busy, live, held>>
      BY <1>1, <2>1 DEF Start, AnowawStart, appVars, ClientConnects
    <2>4. Of(reqs', "frame") = {} /\ Of(reqs', "destroy_pool") = {} /\ Of(evs', "release") = {}
      <3> HIDE DEF n
      <3>1. \A i \in DOMAIN evs' : evs'[i].type # "release"
        BY <2>2 DEF Msg
      <3> QED
        BY <2>2, <3>1 DEF Of
    <2>5. \A h \in Handle : busy[h] = {}
      BY <2>2 DEF Idle, NoApps
    <2>6. OwnInv'
      BY <1>0, <2>3, <2>4 DEF OwnInv, Unbuilt, DestroysOld
    <2>7. InUse' \subseteq InUse
      BY <2>3, <2>4, InUseIs
    <2>8. \A b : Writable(b)' => Writable(b)
      BY <2>3 DEF Writable
    <2>9. \A h \in Handle, s \in Slot : ~Lost(h, s)'
      BY <2>3, <2>5 DEF Lost
    <2> QED
      BY <1>0, <2>6, <2>7, <2>8, <2>9, Numbers DEF Moves
  <1>2. CASE Stop
    <2>1. /\ reqs' = <<>> /\ evs' = <<>> /\ held' = {} /\ live' = {} /\ conn' = "none"
          /\ pool' = [h \in Handle |-> None] /\ busy' = [h \in Handle |-> {}]
      BY <1>2 DEF Stop, AnowawStop, ClientGone
    <2>2. Of(reqs', "frame") = {} /\ Of(reqs', "destroy_pool") = {} /\ Of(evs', "release") = {}
      BY <2>1 DEF Of
    <2>3. OwnInv'
      BY <2>1, <2>2 DEF OwnInv, Unbuilt, DestroysOld
    <2>4. InUse' = {}
      BY <2>1, <2>2, InUseIs
    <2>5. \A b : ~Writable(b)'
      BY <2>1 DEF Writable
    <2> QED
      BY <1>0, <2>1, <2>3, <2>4, <2>5, Numbers DEF Moves
  <1> QED
    BY <1>1, <1>2

LEMMA NextMoves == TypeInv /\ TokenInv /\ OwnInv /\ Idle /\ [Next]_vars => OwnInv' /\ Moves
  <1> SUFFICES ASSUME TypeInv, TokenInv, OwnInv, Idle, [Next]_vars PROVE OwnInv' /\ Moves
    OBVIOUS
  <1>1. ASSUME UNCHANGED <<reqs, evs, conn, held, live, pool, busy, pools_made>>
        PROVE  OwnInv' /\ Moves
    BY <1>1, InUseIs, Undisturbed
  <1>2. CASE BridgeStep
    <2>1. AbiStep /\ UNCHANGED held
      BY <1>2 DEF BridgeStep, westonVars, clientVars
    <2>2. CASE CoreStep
      BY <2>1, <2>2, CoreStepMoves
    <2>3. CASE ~CoreStep
      <3>1. UNCHANGED wireVars /\ UNCHANGED appVars
        BY <2>1, <2>3 DEF AbiStep, CallBridgeApp, CallPushFrame, CallPollInput,
                          CallCloseRequested, CallCloseApp, CallDispatch, Call
      <3> QED
        BY <1>1, <2>1, <3>1 DEF wireVars, appVars
    <2> QED
      BY <2>2, <2>3
  <1>3. CASE CompositorStep
    <2>1. WestonStep /\ UNCHANGED <<pool, busy, pools_made, live>>
      BY <1>3 DEF CompositorStep, abiVars, coreVars, appVars
    <2> QED
      BY <2>1, WestonStepMoves
  <1>4. CASE UNCHANGED vars
    BY <1>1, <1>4 DEF vars, wireVars, abiVars, coreVars, appVars, westonVars, clientVars
  <1> QED
    BY <1>2, <1>3, <1>4, StartStopMoves DEF Next, Finished

-----------------------------------------------------------------------------
(* No slot leaks.                                                           *)

Kept == conn = "up" => \A h \in Handle, s \in Slot : ~Lost(h, s)

LendingInv == TypeInv /\ TokenInv /\ OwnInv /\ Idle /\ Kept

LEMMA LendingInvariance == Spec => []LendingInv
  <1>1. Init => LendingInv
    <2> SUFFICES ASSUME Init PROVE OwnInv /\ Kept
      BY InitTyped, InitTokens, InitIdle DEF LendingInv
    <2>1. /\ reqs = <<>> /\ conn = "none"
          /\ pool = [h \in Handle |-> None] /\ busy = [h \in Handle |-> {}]
      BY DEF Init, WireInit, CoreInit, NoApps
    <2> QED
      BY <2>1 DEF OwnInv, Unbuilt, DestroysOld, Of, Kept
  <1>2. LendingInv /\ [Next]_vars => LendingInv'
    <2> SUFFICES ASSUME LendingInv, [Next]_vars PROVE LendingInv'
      OBVIOUS
    <2>1. TypeInv' /\ TokenInv' /\ Idle' /\ OwnInv' /\ Moves
      BY NextTyped, NextTokens, NextIdle, NextMoves DEF LendingInv
    <2>2. Kept'
      BY <2>1 DEF Moves, Kept, LendingInv
    <2> QED
      BY <2>1, <2>2 DEF LendingInv
  <1> QED
    BY <1>1, <1>2, PTL DEF Spec

\* As long as the connection is up, whatever made a slot busy will make it free again: the
\* frame that shows it is on its way, with the compositor, or about to be released
\* (core/src/surface.rs, ShmSlots; core/src/bridge.rs, push_frame and wl_buffer.release).
THEOREM SlotsAreKept == Spec => []NoSlotLeak
  <1>1. LendingInv => NoSlotLeak
    <2> SUFFICES ASSUME LendingInv, conn = "up", NEW h \in live, NEW s \in busy[h]
                 PROVE  Buffer(h, s) \in InUse
      BY DEF NoSlotLeak
    <2>1. h \in Handle /\ s \in Slot
      BY DEF LendingInv, TypeInv, TypeOK, SeatTypeOK, CoreTypeOK
    <2> QED
      BY <2>1 DEF LendingInv, Kept, Lost
  <1> QED
    BY <1>1, LendingInvariance, PTL

-----------------------------------------------------------------------------
(* The bridge implements BufferLending.                                     *)

LEMMA CountOne ==
    ASSUME NEW S, \A i, j \in S : i = j
    PROVE  Cardinality(S) = IF S = {} THEN 0 ELSE 1
  <1>1. CASE S = {}
    BY <1>1, FS_EmptySet
  <1>2. CASE S # {}
    <2>1. PICK i \in S : S = {i}
      BY <1>2
    <2> QED
      BY <1>2, <2>1, FS_Singleton
  <1> QED
    BY <1>1, <1>2

\* A buffer is used once or not at all, and not while the bridge may write into it.
Counted ==
    \A b \in Token : /\ Uses(b) = IF b \in InUse THEN 1 ELSE 0
                     /\ Writable(b) => b \notin InUse

LEMMA UsesAreCounted == LendingInv => Counted
  <1> SUFFICES ASSUME LendingInv, NEW b \in Token
               PROVE  /\ Uses(b) = IF b \in InUse THEN 1 ELSE 0
                      /\ Writable(b) => b \notin InUse
    BY DEF Counted
  <1> DEFINE F == {i \in DOMAIN reqs : reqs[i].type = "frame" /\ Tok(reqs[i]) = b}
             R == {i \in DOMAIN evs : evs[i].type = "release" /\ Tok(evs[i]) = b}
             H == held \intersect {b}
  <1>1. UsedOnce /\ Taken
    BY DEF LendingInv, TokenInv
  <1>2. /\ \A i, j \in F : i = j
        /\ \A i, j \in R : i = j
        /\ \A i, j \in H : i = j
    BY <1>1 DEF UsedOnce, Once
  <1>3. /\ F # {} <=> b \in Of(reqs, "frame")
        /\ R # {} <=> b \in Of(evs, "release")
        /\ H # {} <=> b \in held
    BY DEF Of
  <1>4. /\ Cardinality(F) = IF b \in Of(reqs, "frame") THEN 1 ELSE 0
        /\ Cardinality(R) = IF b \in Of(evs, "release") THEN 1 ELSE 0
        /\ Cardinality(H) = IF b \in held THEN 1 ELSE 0
    <2> HIDE DEF F, R, H
    <2> QED
      BY <1>2, <1>3, CountOne
  <1>5. Uses(b) = Cardinality(F) + Cardinality(H) + Cardinality(R)
    BY DEF Uses
  <1>6. Uses(b) = IF b \in InUse THEN 1 ELSE 0
    <2> HIDE DEF F, R, H
    <2> QED
      BY <1>1, <1>4, <1>5, InUseIs DEF UsedOnce
  <1>7. Writable(b) => b \notin InUse
    BY <1>1 DEF Taken, Writable
  <1> QED
    BY <1>6, <1>7

LEMMA StatusIs ==
    ASSUME Counted, NEW b \in Token, b.pool \in Nat, pools_made \in Nat
    PROVE  BufferStatus(b) = IF b.pool > pools_made THEN "unborn"
                             ELSE IF Writable(b) THEN "mine"
                             ELSE IF b \in InUse THEN "lent" ELSE "dead"
  BY DEF Counted, BufferStatus

LEMMA StatusOfStep ==
    ASSUME Counted, Counted', Moves, pools_made \in Nat, pools_made' \in Nat, NEW b \in Token
    PROVE  /\ BufferStatus(b)' \in Lending!Status
           /\ BufferStatus(b)' \in Lending!After(BufferStatus(b))
  <1> DEFINE S == BufferStatus(b)
  <1>1. b.pool \in Nat
    BY ConstantsTyped DEF Token, Pool
  <1>2. S = IF b.pool > pools_made THEN "unborn"
            ELSE IF Writable(b) THEN "mine" ELSE IF b \in InUse THEN "lent" ELSE "dead"
    BY <1>1, StatusIs
  <1>3. S' = IF b.pool > pools_made' THEN "unborn"
             ELSE IF Writable(b)' THEN "mine" ELSE IF b \in InUse' THEN "lent" ELSE "dead"
    <2>1. Uses(b)' = (IF b \in InUse' THEN 1 ELSE 0) /\ (Writable(b)' => b \notin InUse')
      BY DEF Counted
    <2> QED
      BY <1>1, <2>1 DEF BufferStatus
  <1>4. pools_made' >= pools_made
    BY DEF Moves
  <1>5. ASSUME b.pool <= pools_made, ~Writable(b), b \notin InUse
        PROVE  ~Writable(b)' /\ b \notin InUse'
    BY <1>1, <1>5 DEF Moves
  <1> HIDE DEF S
  <1>6. S' \in {"unborn", "mine", "lent", "dead"} /\ S \in {"unborn", "mine", "lent", "dead"}
    BY <1>2, <1>3
  <1>7. S # "unborn" => S' # "unborn"
    BY <1>1, <1>2, <1>3, <1>4
  <1>8. S = "dead" => S' = "dead"
    BY <1>1, <1>2, <1>3, <1>4, <1>5
  <1>9. S' \in Lending!After(S) /\ S' \in Lending!Status
    BY <1>6, <1>7, <1>8 DEF Lending!After, Lending!Status
  <1> QED
    BY <1>9 DEF S

\* The bridge lends each buffer to the compositor at most once at a time and writes it only
\* while it is not lent; a buffer of a pool that is gone never comes back: every step of the
\* bridge and of the compositor is one of BufferLending, or leaves every buffer as it is
\* (core/src/surface.rs, ShmSlots; core/src/bridge.rs, push_frame, close_app, the release).
THEOREM BuffersAreLent == Spec => LendsBuffers
  <1> DEFINE status == [b \in Token |-> BufferStatus(b)]
  <1>1. Init => Lending!Init
    <2> SUFFICES ASSUME Init, NEW b \in Token PROVE BufferStatus(b) = "unborn"
      BY DEF Lending!Init
    <2>1. pools_made = 0 /\ b.pool > 0
      BY ConstantsTyped DEF Init, CoreInit, Token, Pool
    <2> QED
      BY <2>1 DEF BufferStatus
  <1>2. LendingInv /\ Counted /\ LendingInv' /\ Counted' /\ [Next]_vars => [Lending!Next]_status
    <2> SUFFICES ASSUME LendingInv, Counted, LendingInv', Counted', [Next]_vars
                 PROVE  Lending!Next
      OBVIOUS
    <2>1. Moves
      BY NextMoves DEF LendingInv
    <2>2. pools_made \in Nat /\ pools_made' \in Nat
      BY ConstantsTyped DEF LendingInv, TypeInv, TypeOK, CoreTypeOK
    <2>3. \A b \in Token : /\ BufferStatus(b)' \in Lending!Status
                           /\ BufferStatus(b)' \in Lending!After(BufferStatus(b))
      BY <2>1, <2>2, StatusOfStep
    <2> QED
      BY <2>3 DEF Lending!Next
  <1> QED
    BY <1>1, <1>2, LendingInvariance, UsesAreCounted, PTL DEF Spec, LendsBuffers, Lending!Spec

-----------------------------------------------------------------------------
(* What the bridge says of itself, and what it says in answer to an event.  *)

AnswerType == {"ack_configure", "pong", "bind_seat", "get_keyboard", "get_pointer", "get_touch"}

Unprompted(ms) == \A k \in DOMAIN ms : ms[k].type \notin AnswerType

LEMMA UnpromptedTwo ==
    ASSUME NEW a \in Seq(Request), NEW b \in Seq(Request), Unprompted(a), Unprompted(b)
    PROVE  a \o b \in Seq(Request) /\ Unprompted(a \o b)
  <1>1. \A i \in DOMAIN (a \o b) :
            (i \in DOMAIN a /\ (a \o b)[i] = a[i]) \/ \E k \in DOMAIN b : (a \o b)[i] = b[k]
    BY ConcatFacts
  <1> QED
    BY <1>1 DEF Unprompted

LEMMA OneUnprompted ==
    ASSUME NEW type, type \notin AnswerType, NEW h, NEW p, NEW s, NEW n
    PROVE  Unprompted(<<Msg(type, h, p, s, n)>>)
  BY DEF Unprompted, Msg

LEMMA DestroySlotsUnprompted ==
    ASSUME CoreTypeOK, NEW h \in Handle
    PROVE  DestroySlots(h) \in Seq(Request) /\ Unprompted(DestroySlots(h))
  <1>1. Unprompted(<<>>) /\ Unprompted(<<Msg("destroy_pool", h, pool[h], 0, 0)>>)
    BY OneUnprompted DEF Unprompted, AnswerType
  <1> QED
    BY <1>1, DestroySlotsTyped DEF DestroySlots

LEMMA FrameUnprompted ==
    ASSUME NEW h, NEW p, NEW s
    PROVE  Unprompted(<<Frame(h, p, s)>>)
  BY OneUnprompted DEF Frame, AnswerType

LEMMA NewPoolUnprompted ==
    ASSUME TypeInv, PushIntoNewPool
    PROVE  \E ms \in Seq(Request) : Unprompted(ms) /\ Emit(ms)
  <1> DEFINE h == call.handle
             p == pools_made + 1
             c == <<Msg("create_pool", h, p, 0, 0)>>
             f == <<Frame(h, p, 0)>>
             ds == DestroySlots(h)
  <1>1. h \in Handle /\ pools_made < MaxPools /\ pools_made \in Nat
    BY AcceptedCall, ConstantsTyped DEF PushIntoNewPool, TypeInv, TypeOK, CoreTypeOK, LoopInv
  <1>2. p \in Pool /\ 0 \in Slot
    BY <1>1, ZeroTyped, ConstantsTyped DEF Pool
  <1>3. c \in Seq(Request) /\ Unprompted(c)
    <2>1. h \in 0..MaxApps /\ p \in 0..MaxPools
      BY <1>1, <1>2, ConstantsTyped DEF Handle, Pool
    <2> QED
      BY <1>1, <1>2, <2>1, OneRequest, ZeroTyped, OneUnprompted DEF RequestType, SeatType, AnswerType
  <1>4. f \in Seq(Request) /\ Unprompted(f)
    BY <1>1, <1>2, FrameTyped, FrameUnprompted
  <1>5. ds \in Seq(Request) /\ Unprompted(ds)
    BY <1>1, DestroySlotsUnprompted DEF TypeInv, TypeOK
  <1>6. Emit(ds \o (c \o f))
    <2>1. \A x, y : x \in {x, y} /\ y \in {x, y}
      OBVIOUS
    <2>2. \A x, y : <<x, y>> = <<x>> \o <<y>>
      BY <2>1, Pair
    <2> QED
      BY <2>2 DEF PushIntoNewPool
  <1> HIDE DEF c, f, ds
  <1>7. c \o f \in Seq(Request) /\ Unprompted(c \o f)
    BY <1>3, <1>4, UnpromptedTwo
  <1>8. ds \o (c \o f) \in Seq(Request) /\ Unprompted(ds \o (c \o f))
    <2> DEFINE cf == c \o f
    <2>1. cf \in Seq(Request) /\ Unprompted(cf)
      BY <1>7
    <2> HIDE DEF cf
    <2>2. ds \o cf \in Seq(Request) /\ Unprompted(ds \o cf)
      BY <1>5, <2>1, UnpromptedTwo
    <2> QED
      BY <2>2 DEF cf
  <1> QED
    BY <1>6, <1>8

LEMMA CloseAppUnprompted ==
    ASSUME TypeInv, CloseAppBody
    PROVE  \E ms \in Seq(Request) : Unprompted(ms) /\ Emit(ms)
  <1> DEFINE h == call.handle
             ds == DestroySlots(h)
             w == <<Msg("destroy_toplevel", h, None, 0, 0),
                    Msg("destroy_xdg_surface", h, None, 0, 0),
                    Msg("destroy_surface", h, None, 0, 0)>>
  <1>1. h \in Handle
    BY DEF CloseAppBody, TypeInv, TypeOK, SeatTypeOK
  <1>2. ds \in Seq(Request) /\ Unprompted(ds)
    BY <1>1, DestroySlotsUnprompted DEF TypeInv, TypeOK
  <1>3. w \in Seq(Request) /\ Unprompted(w)
    <2>1. \A type \in {"destroy_toplevel", "destroy_xdg_surface", "destroy_surface"} :
              Msg(type, h, None, 0, 0) \in Request /\ Msg(type, h, None, 0, 0).type \notin AnswerType
      <3>1. h \in 0..MaxApps
        BY <1>1, ConstantsTyped DEF Handle
      <3>2. ASSUME NEW type \in RequestType \ (BufferType \union SeatType \union AnswerType)
            PROVE  Msg(type, h, None, 0, 0) \in Request /\ Msg(type, h, None, 0, 0).type \notin AnswerType
        <4>1. Msg(type, h, None, 0, 0) \in Request
          BY <3>1, <3>2, MsgTyped, ZeroTyped DEF Request
        <4> QED
          BY <3>2, <4>1 DEF Msg
      <3> QED
        BY <3>2 DEF RequestType, BufferType, SeatType, AnswerType
    <2> QED
      BY <2>1 DEF Unprompted
  <1>4. Emit(ds \o w)
    BY DEF CloseAppBody, DestroyEntry
  <1> HIDE DEF ds, w
  <1> QED
    BY <1>2, <1>3, <1>4, UnpromptedTwo

\* What a step of the core that neither reads, dispatches nor drains does.
LEMMA CoreSays ==
    ASSUME TypeInv, CoreStep, ~PumpRead, ~Deliver, ~PollInputBody
    PROVE  /\ UNCHANGED <<devices, focus, input_queue, polled>>
           /\ \/ Lose
              \/ /\ UNCHANGED <<evs, conn>>
                 /\ \/ UNCHANGED reqs
                    \/ \E ms \in Seq(Request) : Unprompted(ms) /\ Emit(ms)
  <1>1. CASE PumpFlush \/ PumpFails
    BY <1>1 DEF PumpFlush, PumpFails, FlushOk, FlushErr, seatVars, wireVars
  <1>2. CASE \/ PumpDone \/ BridgeAppReturn \/ PushRejected \/ PushSkipped
             \/ CloseRequestedBody \/ CloseUnknownBody
    BY <1>2 DEF PumpDone, BridgeAppReturn, PushRejected, PushSkipped, CloseRequestedBody,
                CloseUnknownBody, seatVars, wireVars
  <1>3. CASE BridgeAppBody
    <2>1. FreshHandle \in 0..MaxApps
      <3>1. 1 \in DOMAIN todo /\ todo[1] = "bridge_app"
        BY <1>3 DEF BridgeAppBody, At, TypeInv, TypeOK, CoreTypeOK
      <3> QED
        BY <3>1, ConstantsTyped DEF TypeInv, TypeOK, CoreTypeOK, ScriptInv, RoomLeft, FreshHandle
    <2>2. /\ <<Msg("create", FreshHandle, None, 0, 0)>> \in Seq(Request)
          /\ Unprompted(<<Msg("create", FreshHandle, None, 0, 0)>>)
      BY <2>1, OneRequest, ZeroTyped, OneUnprompted DEF RequestType, BufferType, SeatType, AnswerType
    <2> QED
      BY <1>3, <2>2 DEF BridgeAppBody, seatVars
  <1>4. CASE PushNoPool
    <2>1. call.handle \in Handle
      BY <1>4, AcceptedCall DEF PushNoPool, TypeInv, TypeOK, LoopInv
    <2>2. DestroySlots(call.handle) \in Seq(Request) /\ Unprompted(DestroySlots(call.handle))
      BY <2>1, DestroySlotsUnprompted DEF TypeInv, TypeOK
    <2> QED
      BY <1>4, <2>2 DEF PushNoPool, seatVars
  <1>5. CASE PushIntoNewPool
    BY <1>5, NewPoolUnprompted DEF PushIntoNewPool, seatVars
  <1>6. CASE PushIntoPool
    <2>1. call.handle \in Handle /\ pool[call.handle] \in Pool
      BY <1>6, AcceptedCall, ConstantsTyped
         DEF PushIntoPool, NeedsNew, TypeInv, TypeOK, LoopInv, CoreTypeOK, Pool, None
    <2>2. \E s \in Slot : Emit(<<Frame(call.handle, pool[call.handle], s)>>)
      BY <1>6 DEF PushIntoPool
    <2>3. \A s \in Slot : /\ <<Frame(call.handle, pool[call.handle], s)>> \in Seq(Request)
                          /\ Unprompted(<<Frame(call.handle, pool[call.handle], s)>>)
      BY <2>1, FrameTyped, FrameUnprompted
    <2> QED
      BY <1>6, <2>2, <2>3 DEF PushIntoPool, seatVars
  <1>7. CASE CloseAppBody
    BY <1>7, CloseAppUnprompted DEF CloseAppBody, seatVars
  <1> QED
    BY <1>1, <1>2, <1>3, <1>4, <1>5, <1>6, <1>7 DEF CoreStep

-----------------------------------------------------------------------------
(* With two buffers, no app waits for ever for one.                         *)

\* One buffer of an app is the last it has committed.
OneCurrent == \A h \in Handle : \A x, y \in current[h] : x = y

\* The last buffer committed is left alone but by a commit, the end of a pool or of the client.
LEMMA CurrentSteps ==
    ASSUME TypeInv, [Next]_vars
    PROVE  \/ UNCHANGED current
           \/ \E h, b : current' = [current EXCEPT ![h] = {b}]
           \/ \E h, gone : current' = [current EXCEPT ![h] = @ \ gone]
           \/ current' = [h \in Handle |-> {}]
  <1>1. CASE UNCHANGED vars
    BY <1>1 DEF vars, westonVars, clientVars
  <1>2. CASE Start \/ BridgeStep \/ Finished
    BY <1>2 DEF Start, ClientConnects, BridgeStep, Finished, vars, westonVars, clientVars
  <1>3. CASE Stop
    BY <1>3 DEF Stop, ClientGone
  <1>4. CASE CompositorStep
    <2>1. CASE Accept
      <3>1. CASE AcceptCreate \/ AcceptCreatePool \/ AcceptPong \/ AcceptBindSeat \/ AcceptGetDevice
        BY <3>1 DEF AcceptCreate, AcceptCreatePool, AcceptPong, AcceptBindSeat, AcceptGetDevice,
                    westonVars, clientVars
      <3>2. CASE AcceptDestroyWindow \/ AcceptAck
        BY <3>2 DEF AcceptDestroyWindow, AcceptDestroy, AcceptAck, ProtocolError
      <3>3. CASE AcceptFrame
        BY <3>3 DEF AcceptFrame, ProtocolError
      <3>4. CASE AcceptDestroyPool
        BY <3>4 DEF AcceptDestroyPool
      <3> QED
        BY <2>1, <3>1, <3>2, <3>3, <3>4 DEF Accept
    <2>2. CASE ~Accept
      BY <1>4, <2>2, SeatTrafficKeeps DEF CompositorStep, WestonStep, SeatTraffic,
           SendConfigure, SendClose, Release, SendPing, Crash, clientVars
    <2> QED
      BY <2>1, <2>2
  <1> QED
    BY <1>1, <1>2, <1>3, <1>4 DEF Next

LEMMA NextOneCurrent == TypeInv /\ OneCurrent /\ [Next]_vars => OneCurrent'
  <1> SUFFICES ASSUME TypeInv, OneCurrent, [Next]_vars PROVE OneCurrent'
    OBVIOUS
  <1>1. current \in [Handle -> SUBSET Token]
    BY DEF TypeInv, TypeOK, WestonTypeOK
  <1>2. ASSUME NEW h, NEW b, current' = [current EXCEPT ![h] = {b}]
        PROVE  OneCurrent'
    BY <1>1, <1>2 DEF OneCurrent
  <1>3. ASSUME NEW h, NEW gone, current' = [current EXCEPT ![h] = @ \ gone]
        PROVE  OneCurrent'
    BY <1>1, <1>3 DEF OneCurrent
  <1>4. CASE UNCHANGED current \/ current' = [h \in Handle |-> {}]
    BY <1>4 DEF OneCurrent
  <1> QED
    BY <1>2, <1>3, <1>4, CurrentSteps

\* With every slot of an app busy, one of its buffers is in a frame on its way, replaced on
\* the screen or being released, so that a frame can be shown again whether or not the
\* compositor lets go of the one it shows: what SLOTS = 2 is for (core/src/bridge.rs,
\* SLOTS and push_frame).
THEOREM FramesNeverStall ==
    ASSUME SLOTS > 1
    PROVE  Spec => []NeverStarved
  <1>1. LendingInv /\ OneCurrent => NeverStarved
    <2> SUFFICES ASSUME LendingInv, OneCurrent, conn = "up", NEW h \in live, busy[h] = Slot
                 PROVE  \E s \in Slot : \/ Buffer(h, s) \in FrameTokens \union ReleaseTokens
                                        \/ Superseded(Buffer(h, s))
      BY DEF NeverStarved
    <2>1. 0 \in Slot /\ 1 \in Slot
      BY ConstantsTyped DEF Slot
    <2>2. h \in Handle
      BY DEF LendingInv, TypeInv, TypeOK, SeatTypeOK
    <2>3. Buffer(h, 0) \in InUse /\ Buffer(h, 1) \in InUse
      BY <2>1, <2>2 DEF LendingInv, Kept, Lost
    <2>4. Buffer(h, 0) # Buffer(h, 1) /\ Buffer(h, 0).handle = h /\ Buffer(h, 1).handle = h
      BY DEF Buffer
    <2>5. ~(Buffer(h, 0) \in current[h] /\ Buffer(h, 1) \in current[h])
      BY <2>2, <2>4 DEF OneCurrent
    <2> QED
      BY <2>1, <2>3, <2>4, <2>5 DEF InUse, Superseded
  <1>2. Init => OneCurrent
    BY DEF Init, WestonInit, NoClient, OneCurrent
  <1> QED
    BY <1>1, <1>2, NextOneCurrent, TypeInvariance, LendingInvariance, PTL DEF Spec

-----------------------------------------------------------------------------
(* While the connection is up, no message is lost: each one stays until it  *)
(* is taken, or until the object of an event is gone.                       *)

Keeps(new, old) == \A i \in DOMAIN old : \E j \in DOMAIN new : new[j] = old[i]

\* The events of objects that live.
KeepsLive(new, old) ==
    \A i \in DOMAIN old : ObjectLives(old[i]) => \E j \in DOMAIN new : new[j] = old[i]

LEMMA TailFacts ==
    ASSUME NEW M, NEW seq \in Seq(M), seq # <<>>
    PROVE  /\ \A i \in DOMAIN Tail(seq) :
                  i \in Nat /\ i > 0 /\ i + 1 \in DOMAIN seq /\ Tail(seq)[i] = seq[i + 1]
           /\ \A i \in DOMAIN seq :
                  i = 1 \/ (i - 1 \in DOMAIN Tail(seq) /\ Tail(seq)[i - 1] = seq[i])
           /\ 1 \in DOMAIN seq /\ seq[1] = Head(seq) /\ Head(seq) \in M
           /\ Tail(seq) \in Seq(M)
  OBVIOUS

LEMMA ConcatKeeps ==
    ASSUME NEW M, NEW seq \in Seq(M), NEW ms \in Seq(M)
    PROVE  Keeps(seq \o ms, seq)
  BY ConcatFacts DEF Keeps

\* All but the first are left.
LEMMA TailLeaves ==
    ASSUME NEW M, NEW seq \in Seq(M), seq # <<>>
    PROVE  \A i \in DOMAIN seq :
               seq[i] = Head(seq) \/ \E j \in DOMAIN Tail(seq) : Tail(seq)[j] = seq[i]
  BY TailFacts

\* One more message.
LEMMA OneMore ==
    ASSUME NEW M, NEW seq \in Seq(M), NEW m \in M
    PROVE  /\ Keeps(seq \o <<m>>, seq)
           /\ \E j \in DOMAIN (seq \o <<m>>) : (seq \o <<m>>)[j] = m
  <1> DEFINE one == <<m>>
  <1>1. one \in Seq(M) /\ 1 \in DOMAIN one /\ one[1] = m
    OBVIOUS
  <1> HIDE DEF one
  <1>2. Keeps(seq \o one, seq)
    BY <1>1, ConcatKeeps
  <1>3. Len(seq) + 1 \in DOMAIN (seq \o one) /\ (seq \o one)[Len(seq) + 1] = one[1]
    BY <1>1, ConcatFacts
  <1>4. \E j \in DOMAIN (seq \o one) : (seq \o one)[j] = m
    BY <1>1, <1>3
  <1> QED
    BY <1>2, <1>4 DEF one

LEMMA SaysConcat ==
    ASSUME NEW M, NEW seq \in Seq(M), NEW ms \in Seq(M), NEW h, NEW type
    PROVE  Says(seq \o ms, h, type) <=> Says(seq, h, type) \/ Says(ms, h, type)
  <1>1. Says(seq, h, type) \/ Says(ms, h, type) => Says(seq \o ms, h, type)
    <2>1. ASSUME NEW i \in DOMAIN seq, seq[i].type = type, seq[i].handle = h
          PROVE  Says(seq \o ms, h, type)
      <3>1. i \in DOMAIN (seq \o ms) /\ (seq \o ms)[i] = seq[i]
        BY ConcatFacts
      <3> QED
        BY <2>1, <3>1 DEF Says
    <2>2. ASSUME NEW k \in DOMAIN ms, ms[k].type = type, ms[k].handle = h
          PROVE  Says(seq \o ms, h, type)
      <3>1. Len(seq) + k \in DOMAIN (seq \o ms) /\ (seq \o ms)[Len(seq) + k] = ms[k]
        BY ConcatFacts
      <3> QED
        BY <2>2, <3>1 DEF Says
    <2> QED
      BY <2>1, <2>2 DEF Says
  <1>2. Says(seq \o ms, h, type) => Says(seq, h, type) \/ Says(ms, h, type)
    <2> SUFFICES ASSUME NEW i \in DOMAIN (seq \o ms),
                        (seq \o ms)[i].type = type, (seq \o ms)[i].handle = h
                 PROVE  Says(seq, h, type) \/ Says(ms, h, type)
      BY DEF Says
    <2> QED
      BY ConcatFacts DEF Says
  <1> QED
    BY <1>1, <1>2

LEMMA SaysTail ==
    ASSUME NEW M, NEW seq \in Seq(M), seq # <<>>, NEW h, NEW type
    PROVE  /\ Says(Tail(seq), h, type) => Says(seq, h, type)
           /\ Says(seq, h, type) =>
                  Says(Tail(seq), h, type) \/ (Head(seq).type = type /\ Head(seq).handle = h)
  <1>1. Says(Tail(seq), h, type) => Says(seq, h, type)
    BY TailFacts DEF Says
  <1>2. ASSUME NEW i \in DOMAIN seq, seq[i].type = type, seq[i].handle = h
        PROVE  Says(Tail(seq), h, type) \/ (Head(seq).type = type /\ Head(seq).handle = h)
    BY <1>2, TailFacts DEF Says
  <1> QED
    BY <1>1, <1>2 DEF Says

LEMMA SaysKeeps ==
    ASSUME NEW new, NEW old, Keeps(new, old), NEW h, NEW type, Says(old, h, type)
    PROVE  Says(new, h, type)
  BY DEF Keeps, Says

\* A call that begins, or an operation without one, says nothing and changes no app.
LEMMA CallsAreSilent ==
    ASSUME BridgeStep, ~CoreStep
    PROVE  UNCHANGED wireVars /\ UNCHANGED appVars /\ UNCHANGED seatVars /\ UNCHANGED next_handle
  BY DEF BridgeStep, AbiStep, CallBridgeApp, CallPushFrame, CallPollInput, CallCloseRequested,
         CallCloseApp, CallDispatch, Call

\* A connection comes up by a start.
LEMMA ComesUp ==
    ASSUME [Next]_vars, conn' = "up"
    PROVE  conn = "up" \/ Start
  <1>1. CASE CoreStep
    BY <1>1 DEF CoreStep, PumpFlush, PumpFails, PumpRead, PumpDone, FlushOk, FlushErr, ReadEvents,
       Lose, Deliver, OnAppEvent, OnConfigure, OnClose, OnRelease, OnPing, OnDiscarded,
       OnSeatEvent, OnCapabilities, OnGlobal, OnKeyboardEnter, OnKeyboardLeave,
       OnKeyboardInput, OnPointerEnter, OnPointerLeave, OnPointerInput, OnTouchDown,
       OnTouchInput, OnTouchCancel, BridgeAppBody, BridgeAppReturn, PushRejected,
       PushNoPool, PushIntoNewPool, PushIntoPool, PushSkipped, PollInputBody,
       CloseRequestedBody, CloseAppBody, CloseUnknownBody, wireVars
  <1>2. CASE BridgeStep /\ ~CoreStep
    BY <1>2, CallsAreSilent DEF wireVars
  <1>3. CASE CompositorStep
    BY <1>3, SeatTrafficKeeps DEF CompositorStep, WestonStep, SeatTraffic, Accept,
           SendConfigure, SendClose, Release, SendPing, Crash, PeerGone
  <1> QED
    BY <1>1, <1>2, <1>3 DEF Next, Stop, AnowawStop, Finished, vars, wireVars

\* A connection that is up is neither being started nor stopped.
LEMMA UpSteps ==
    ASSUME Idle, [Next]_vars, conn = "up", conn' = "up"
    PROVE  BridgeStep \/ CompositorStep \/ UNCHANGED vars
  BY DEF Next, Start, AnowawStart, Stop, AnowawStop, Finished, Idle

\* What the compositor sends goes behind what it has sent.
LEMMA SendsBehind ==
    ASSUME TypeInv, WestonStep, conn = "up"
    PROVE  UNCHANGED evs \/ \E ms \in Seq(Event) : evs' = evs \o ms
  <1>1. CASE Accept
    <2>1. CASE AcceptBindSeat
      <3>1. <<Msg("capabilities", None, None, 0, Oldest.serial)>> \in Seq(Event)
        BY <1>1, <2>1, BindReplyTyped DEF TypeInv, TypeOK
      <3> QED
        BY <2>1, <3>1 DEF AcceptBindSeat, SendEvents
    <2>2. CASE ~AcceptBindSeat
      BY <1>1, <2>2 DEF Accept, AcceptCreate, AcceptCreatePool, AcceptFrame, AcceptDestroyPool,
                        AcceptDestroyWindow, AcceptDestroy, AcceptAck, AcceptPong,
                        AcceptGetDevice, ProtocolError
    <2> QED
      BY <2>1, <2>2
  <1>2. CASE SeatTraffic
    <2>1. \A ms \in Seq(SeatEvent) : ms \in Seq(Event)
      BY DEF SeatEvent
    <2> QED
      BY <1>2, <2>1, SeatTyped DEF SendsForSeat, SendEvents, TypeInv, TypeOK
  <1>3. CASE SendPing \/ \E h \in Handle : SendConfigure(h) \/ SendClose(h)
    <2>1. \A ms \in Seq(QuietEvent) : ms \in Seq(Event)
      BY DEF QuietEvent
    <2> QED
      BY <1>3, <2>1, WindowEventsQuiet DEF SendsQuietly, SendEvents
  <1>4. ASSUME NEW b \in held, Release(b)
        PROVE  \E ms \in Seq(Event) : evs' = evs \o ms
    <2>1. b.handle \in Handle /\ b.pool \in Pool /\ b.slot \in Slot
      BY DEF TypeInv, TypeOK, WestonTypeOK, Token
    <2>2. <<Msg("release", b.handle, b.pool, b.slot, 0)>> \in Seq(Event)
      BY <2>1, OneEvent, ZeroTyped, ConstantsTyped DEF EventType, SeatType, Handle, Pool
    <2> QED
      BY <1>4, <2>2 DEF Release, SendEvents
  <1>5. CASE Crash
    BY <1>5 DEF Crash
  <1> QED
    BY <1>1, <1>2, <1>3, <1>4, <1>5 DEF WestonStep, SeatTraffic

\* A request goes when the compositor takes it.
LEMMA RequestsArrive ==
    ASSUME TypeInv, Idle, [Next]_vars, conn = "up", conn' = "up"
    PROVE  \/ CompositorStep /\ Accept /\ reqs # <<>> /\ reqs' = Tail(reqs)
           \/ Keeps(reqs', reqs)
  <1>1. reqs \in Seq(Request) /\ flushed \in 0..Len(reqs)
    BY DEF TypeInv, TypeOK, WireTypeOK
  <1>2. CASE UNCHANGED reqs
    BY <1>2 DEF Keeps
  <1>3. ASSUME NEW ms \in Seq(Request), Emit(ms)
        PROVE  Keeps(reqs', reqs)
    BY <1>1, <1>3, ConcatKeeps DEF Emit
  <1>4. CASE CompositorStep
    <2>1. CASE Accept
      BY <1>1, <1>4, <2>1 DEF Accept, TakeRequest
    <2>2. CASE ~Accept
      <3>1. UNCHANGED reqs
        BY <1>4, <2>2, SeatTrafficKeeps DEF CompositorStep, WestonStep, SeatTraffic,
           SendConfigure, SendClose, Release, SendPing, Crash
      <3> QED
        BY <1>2, <3>1
    <2> QED
      BY <2>1, <2>2
  <1>5. CASE BridgeStep
    <2>1. CASE PumpRead \/ PollInputBody
      BY <1>2, <2>1 DEF PumpRead, ReadEvents, Lose, PollInputBody, wireVars
    <2>2. CASE Deliver
      BY <1>2, <1>3, <2>2, DeliverFacts
    <2>3. CASE CoreStep /\ ~PumpRead /\ ~PollInputBody /\ ~Deliver
      BY <1>2, <1>3, <2>3, CoreSays DEF Lose
    <2>4. CASE ~CoreStep
      BY <1>2, <1>5, <2>4, CallsAreSilent DEF wireVars
    <2> QED
      BY <2>1, <2>2, <2>3, <2>4
  <1> QED
    BY <1>2, <1>4, <1>5, UpSteps DEF vars, wireVars

\* An event goes when the bridge dispatches it, or reads it when its object is gone.
LEMMA EventsArrive ==
    ASSUME TypeInv, Idle, [Next]_vars, conn = "up", conn' = "up"
    PROVE  \/ BridgeStep /\ Deliver /\ DropEvent /\ evs # <<>> /\ evs' = Tail(evs)
           \/ KeepsLive(evs', evs)
  <1>1. evs \in Seq(Event) /\ read \in 0..Len(evs)
    BY DEF TypeInv, TypeOK, WireTypeOK
  <1>2. CASE Keeps(evs', evs)
    BY <1>2 DEF Keeps, KeepsLive
  <1>3. CASE UNCHANGED evs
    BY <1>2, <1>3 DEF Keeps
  <1>4. CASE CompositorStep
    BY <1>1, <1>2, <1>3, <1>4, SendsBehind, ConcatKeeps DEF CompositorStep
  <1>5. CASE BridgeStep
    <2>1. CASE PumpRead
      BY <2>1 DEF PumpRead, ReadEvents, Lose, KeepsLive
    <2>2. CASE Deliver
      BY <1>1, <1>5, <2>2, DeliverFacts DEF DropEvent
    <2>3. CASE CoreStep /\ ~PumpRead /\ ~PollInputBody /\ ~Deliver
      BY <1>3, <2>3, CoreSays DEF Lose
    <2>4. CASE PollInputBody \/ ~CoreStep
      BY <1>3, <1>5, <2>4, CallsAreSilent DEF PollInputBody, wireVars
    <2> QED
      BY <2>1, <2>2, <2>3, <2>4
  <1> QED
    BY <1>3, <1>4, <1>5, UpSteps DEF vars, wireVars
=============================================================================
