---------------------------- MODULE BridgeProofs ----------------------------
(***************************************************************************)
(* Proofs about the composed system of BridgeSystem, for every number of   *)
(* apps, pools, slots, sizes, events and starts.                           *)
(***************************************************************************)
EXTENDS BridgeSystem, SequenceTheorems, TLAPS

-----------------------------------------------------------------------------
(* The wire: what each of its operations does to the type of its variables. *)

LEMMA ConstantsTyped ==
    /\ MaxApps \in Nat /\ MaxPools \in Nat /\ MaxSerial \in Nat /\ MaxSize \in Nat
    /\ SLOTS \in Nat \ {0} /\ SocketCap \in Nat \ {0} /\ PollCap \in Nat \ {0}
    /\ MaxConfigures \in 0..MaxSerial /\ MaxPings \in 0..MaxSerial
    /\ MaxSeatEvents \in 0..MaxSerial /\ MaxSeats \in 0..MaxSerial /\ MaxTouch \in Nat
    /\ MaxStarts \in Nat
  BY WireAssumption, BridgeAssumption, WestonAssumption, StartAssumption

LEMMA MsgTyped ==
    ASSUME NEW T, NEW type \in T, NEW h \in 0..MaxApps, NEW p \in 0..MaxPools,
           NEW s \in Slot, NEW n \in 0..MaxSerial,
           type \in BufferType => h \in Handle /\ p \in Pool,
           type \in SeatType => n \in Seat
    PROVE  Msg(type, h, p, s, n) \in MsgOf(T)
  BY DEF Msg, MsgOf

LEMMA ZeroTyped == None \in 0..MaxApps /\ None \in 0..MaxPools /\ 0 \in Slot /\ 0 \in 0..MaxSerial
  BY ConstantsTyped DEF None, Slot

LEMMA SeatNumber == \A s \in Seat : s \in 0..MaxSerial
  BY ConstantsTyped DEF Seat

LEMMA EmitTyped ==
    ASSUME WireTypeOK, NEW ms \in Seq(Request), Emit(ms), UNCHANGED flushed
    PROVE  reqs' \in Seq(Request) /\ flushed' \in 0..Len(reqs')
  <1>1. CASE conn = "lost"
    BY <1>1 DEF WireTypeOK, Emit
  <1>2. CASE conn # "lost"
    <2>1. reqs \o ms \in Seq(Request) /\ Len(reqs \o ms) = Len(reqs) + Len(ms)
      BY ConcatProperties DEF WireTypeOK
    <2> QED
      BY <1>2, <2>1 DEF WireTypeOK, Emit
  <1> QED
    BY <1>1, <1>2

LEMMA SendTyped ==
    ASSUME WireTypeOK, NEW ms \in Seq(Event), SendEvents(ms), UNCHANGED read
    PROVE  evs' \in Seq(Event) /\ read' \in 0..Len(evs')
  <1>1. evs \o ms \in Seq(Event) /\ Len(evs \o ms) = Len(evs) + Len(ms)
    BY ConcatProperties DEF WireTypeOK
  <1> QED
    BY <1>1 DEF WireTypeOK, SendEvents

LEMMA DropTyped ==
    ASSUME WireTypeOK, DropEvent
    PROVE  evs' \in Seq(Event) /\ read' \in 0..Len(evs') /\ NextEvent \in Event
  BY DEF WireTypeOK, DropEvent, NextEvent

LEMMA TakeTyped ==
    ASSUME WireTypeOK, TakeRequest
    PROVE  reqs' \in Seq(Request) /\ flushed' \in 0..Len(reqs') /\ Oldest \in Request
  BY DEF WireTypeOK, TakeRequest, Oldest

LEMMA ReadTyped ==
    ASSUME WireTypeOK, NEW kept, ReadEvents(kept)
    PROVE  WireTypeOK'
  <1>1. Discarded \in Event
    BY MsgTyped, ZeroTyped DEF Discarded, Event, EventType, BufferType, SeatType
  <1>2. CASE conn = "hup" /\ evs = <<>> /\ Lose
    BY <1>2 DEF WireTypeOK, Lose
  <1>3. CASE /\ ~(conn = "hup" /\ evs = <<>>)
             /\ evs' = [i \in DOMAIN evs |->
                            IF i <= read \/ i \in kept THEN evs[i] ELSE Discarded]
             /\ read' = Len(evs)
             /\ UNCHANGED <<reqs, flushed, conn>>
    <2>1. evs' \in [1..Len(evs) -> Event] /\ Len(evs) \in Nat
      BY <1>1, <1>3 DEF WireTypeOK
    <2>2. evs' \in Seq(Event) /\ Len(evs') = Len(evs)
      BY <2>1
    <2> QED
      BY <1>3, <2>2 DEF WireTypeOK
  <1> QED
    BY <1>2, <1>3 DEF ReadEvents

LEMMA FlushTyped ==
    ASSUME WireTypeOK, FlushOk \/ FlushErr
    PROVE  WireTypeOK'
  <1>1. CASE FlushOk
    BY <1>1 DEF WireTypeOK, FlushOk
  <1>2. CASE FlushErr
    <2>1. CASE /\ conn = "up" /\ Len(reqs) > SocketCap
               /\ flushed' = IF flushed < SocketCap THEN SocketCap ELSE flushed
               /\ UNCHANGED <<reqs, evs, read, conn>>
      <3>1. flushed' \in 0..Len(reqs)
        BY <2>1, ConstantsTyped DEF WireTypeOK
      <3> QED
        BY <2>1, <3>1 DEF WireTypeOK
    <2>2. CASE conn = "hup" /\ flushed < Len(reqs) /\ Lose
      BY <2>2 DEF WireTypeOK, Lose
    <2>3. CASE conn = "lost" /\ UNCHANGED wireVars
      BY <2>3 DEF WireTypeOK, wireVars
    <2> QED
      BY <1>2, <2>1, <2>2, <2>3 DEF FlushErr
  <1> QED
    BY <1>1, <1>2

-----------------------------------------------------------------------------
(* What a call has left to do.                                              *)

Body == {"bridge_app", "push_frame", "poll_input", "close_requested", "close_app"}

\* Only the first step may be inside a pump, and each call has one body.
OneBody ==
    /\ \A i \in DOMAIN todo : i > 1 => todo[i] \notin {"read", "deliver"}
    /\ \A i, j \in DOMAIN todo : todo[i] \in Body /\ todo[j] \in Body => i = j

\* A body finds the room its entry point checked for, whatever the pump before it does.
RoomLeft ==
    \A i \in DOMAIN todo :
        /\ todo[i] = "bridge_app" => next_handle <= MaxApps
        /\ todo[i] = "push_frame" =>
               \/ pools_made < MaxPools
               \/ call.size = None
               \/ call.handle \in Handle /\ ~NeedsNew(call.handle, call.size)

\* There is a handle to return once the body has run.
HandleReady ==
    \A i \in DOMAIN todo : todo[i] = "return" =>
        next_handle > 1 \/ \E j \in 1..i - 1 : todo[j] = "bridge_app"

\* The event queue holds events only during a dispatch.
QueueDrained == read > 0 => At("deliver")

ScriptInv == OneBody /\ RoomLeft /\ HandleReady /\ QueueDrained

-----------------------------------------------------------------------------
(* A step of the script: its head is done, or replaced by another.          *)

Shorten == todo' = Tail(todo)
Replace(step) == todo' = <<step>> \o Tail(todo)

LEMMA ShortenFacts ==
    ASSUME todo \in Seq(Step), todo # <<>>, Shorten
    PROVE  /\ todo' \in Seq(Step)
           /\ \A i \in DOMAIN todo' : i + 1 \in DOMAIN todo /\ todo'[i] = todo[i + 1]
  BY DEF Shorten

LEMMA ReplaceFacts ==
    ASSUME todo \in Seq(Step), todo # <<>>, NEW step \in Step, Replace(step)
    PROVE  /\ todo' \in Seq(Step) /\ DOMAIN todo' = DOMAIN todo
           /\ todo'[1] = step /\ todo' # <<>> /\ Head(todo') = step
           /\ \A i \in DOMAIN todo' : i > 1 => todo'[i] = todo[i]
  <1>1. Tail(todo) \in Seq(Step) /\ Len(Tail(todo)) = Len(todo) - 1
    OBVIOUS
  <1>2. \A i \in 1..Len(Tail(todo)) : Tail(todo)[i] = todo[i + 1]
    OBVIOUS
  <1>3. <<step>> \in Seq(Step) /\ Len(<<step>>) = 1 /\ <<step>>[1] = step
    OBVIOUS
  <1>4. /\ <<step>> \o Tail(todo) \in Seq(Step)
        /\ Len(<<step>> \o Tail(todo)) = Len(todo)
        /\ \A i \in 1..Len(todo) : (<<step>> \o Tail(todo))[i]
              = IF i <= 1 THEN <<step>>[i] ELSE Tail(todo)[i - 1]
    BY <1>1, <1>3, ConcatProperties
  <1> QED
    BY <1>1, <1>2, <1>3, <1>4 DEF Replace

\* A step other than a body is done, or is a pump that goes on.
LEMMA StepDone ==
    ASSUME todo \in Seq(Step), todo # <<>>, ScriptInv, Head(todo) \notin Body,
           Shorten \/ Replace("read") \/ Replace("deliver"),
           UNCHANGED <<next_handle, pools_made, call, pool, dims>>
    PROVE  todo' \in Seq(Step) /\ OneBody' /\ RoomLeft' /\ HandleReady'
  <1> USE DEF ScriptInv, OneBody, RoomLeft, HandleReady, NeedsNew
  <1>0. Head(todo) = todo[1] /\ 1 \in DOMAIN todo
    OBVIOUS
  <1>1. CASE Shorten
    <2>1. /\ todo' \in Seq(Step)
          /\ \A i \in DOMAIN todo' : i \in Nat /\ i > 0 /\ i + 1 \in DOMAIN todo
                                     /\ todo'[i] = todo[i + 1]
      BY <1>1, ShortenFacts
    <2>2. OneBody'
      BY <2>1
    <2>3. RoomLeft'
      BY <2>1
    <2>4. HandleReady'
      <3> SUFFICES ASSUME NEW i \in DOMAIN todo', todo'[i] = "return", ~(next_handle > 1)
                   PROVE  \E j \in 1..i - 1 : todo'[j] = "bridge_app"
        OBVIOUS
      <3>1. PICK j \in 1..i : todo[j] = "bridge_app"
        BY <2>1
      <3>2. j # 1
        BY <1>0, <3>1 DEF Body
      <3>3. j - 1 \in 1..i - 1 /\ j - 1 \in DOMAIN todo'
        <4>1. j \in Nat /\ i \in Nat /\ j > 1 /\ j <= i
          BY <2>1, <3>1, <3>2
        <4>2. DOMAIN todo' = 1..Len(todo') /\ Len(todo') \in Nat
          BY <2>1
        <4> QED
          BY <4>1, <4>2
      <3>4. todo'[j - 1] = todo[j]
        BY <2>1, <3>1, <3>3
      <3> QED
        BY <3>1, <3>3, <3>4
    <2> QED
      BY <2>1, <2>2, <2>3, <2>4
  <1>2. CASE Replace("read") \/ Replace("deliver")
    <2>1. PICK step \in {"read", "deliver"} : Replace(step)
      BY <1>2
    <2>2. /\ todo' \in Seq(Step) /\ DOMAIN todo' = DOMAIN todo /\ todo'[1] = step
          /\ \A i \in DOMAIN todo' : i \in Nat /\ i > 0 /\ (i > 1 => todo'[i] = todo[i])
      BY <2>1, ReplaceFacts DEF Step
    <2>3. step \notin Body /\ step # "return"
      BY DEF Body
    <2>4. OneBody'
      BY <2>2, <2>3
    <2>5. RoomLeft'
      BY <2>2, <2>3 DEF Body
    <2>6. HandleReady'
      <3> SUFFICES ASSUME NEW i \in DOMAIN todo', todo'[i] = "return", ~(next_handle > 1)
                   PROVE  \E j \in 1..i - 1 : todo'[j] = "bridge_app"
        OBVIOUS
      <3>1. PICK j \in 1..i - 1 : todo[j] = "bridge_app"
        BY <2>2, <2>3
      <3>2. j > 1 /\ j \in DOMAIN todo'
        BY <1>0, <2>2, <3>1 DEF Body
      <3> QED
        BY <2>2, <3>1, <3>2
    <2> QED
      BY <2>2, <2>4, <2>5, <2>6
  <1> QED
    BY <1>1, <1>2

\* The body of a call is done: no other is left.
LEMMA BodyDone ==
    ASSUME todo \in Seq(Step), todo # <<>>, ScriptInv, Head(todo) \in Body,
           Shorten \/ Replace("pump") \/ Replace("pump?"),
           next_handle \in Nat, next_handle' \in Nat,
           next_handle' > 1 \/ (Head(todo) # "bridge_app" /\ UNCHANGED next_handle)
    PROVE  todo' \in Seq(Step) /\ OneBody' /\ RoomLeft' /\ HandleReady'
  <1> USE DEF ScriptInv, OneBody, RoomLeft, HandleReady
  <1>0. Head(todo) = todo[1] /\ 1 \in DOMAIN todo
    OBVIOUS
  <1>1. \A i \in DOMAIN todo : i > 1 => todo[i] \notin Body
    BY <1>0
  <1>2. /\ todo' \in Seq(Step)
        /\ \A i \in DOMAIN todo' :
              /\ i \in Nat /\ i > 0
              /\ \/ i = 1 /\ todo'[i] \in {"pump", "pump?"}
                 \/ \E k \in DOMAIN todo : k > 1 /\ todo'[i] = todo[k]
    <2>1. CASE Shorten
      BY <2>1, ShortenFacts
    <2>2. CASE Replace("pump") \/ Replace("pump?")
      <3>1. PICK step \in {"pump", "pump?"} : Replace(step)
        BY <2>2
      <3> QED
        BY <3>1, ReplaceFacts DEF Step
    <2> QED
      BY <2>1, <2>2
  <1>3. \A i \in DOMAIN todo' : todo'[i] \notin Body
    BY <1>1, <1>2 DEF Body
  <1>4. OneBody'
    BY <1>1, <1>2, <1>3
  <1>5. RoomLeft'
    BY <1>3 DEF Body
  <1>6. HandleReady'
    <2>1. CASE next_handle' > 1
      BY <2>1
    <2>2. CASE Head(todo) # "bridge_app" /\ UNCHANGED next_handle
      <3>1. \A j \in DOMAIN todo : todo[j] # "bridge_app"
        BY <1>0, <1>1, <2>2 DEF Body
      <3>2. \A i \in DOMAIN todo' : todo'[i] = "return" => next_handle > 1
        BY <1>2, <3>1
      <3> QED
        BY <2>2, <3>2
    <2> QED
      BY <2>1, <2>2
  <1> QED
    BY <1>2, <1>4, <1>5, <1>6

-----------------------------------------------------------------------------
(* The handlers: what the dispatch of one event does to the types.          *)

LEMMA OneRequest ==
    ASSUME NEW type \in RequestType, NEW h \in 0..MaxApps, NEW p \in 0..MaxPools,
           NEW s \in Slot, NEW n \in 0..MaxSerial,
           type \in BufferType => h \in Handle /\ p \in Pool,
           type \in SeatType => n \in Seat
    PROVE  <<Msg(type, h, p, s, n)>> \in Seq(Request)
  BY MsgTyped DEF Request

LEMMA OneEvent ==
    ASSUME NEW type \in EventType, NEW h \in 0..MaxApps, NEW p \in 0..MaxPools,
           NEW s \in Slot, NEW n \in 0..MaxSerial,
           type \in BufferType => h \in Handle /\ p \in Pool,
           type \in SeatType => n \in Seat
    PROVE  <<Msg(type, h, p, s, n)>> \in Seq(Event)
  BY MsgTyped DEF Event

LEMMA EventFields ==
    ASSUME NEW m \in Event
    PROVE  /\ m.handle \in 0..MaxApps /\ m.pool \in 0..MaxPools
           /\ m.slot \in Slot /\ m.serial \in 0..MaxSerial
           /\ m.type = "release" => m.handle \in Handle /\ m.pool \in Pool
           /\ m.type \in SeatType => m.serial \in Seat
  BY DEF Event, MsgOf, BufferType

LEMMA RequestFields ==
    ASSUME NEW m \in Request
    PROVE  /\ m.handle \in 0..MaxApps /\ m.pool \in 0..MaxPools
           /\ m.slot \in Slot /\ m.serial \in 0..MaxSerial
           /\ m.type \in BufferType => m.handle \in Handle /\ m.pool \in Pool
           /\ m.type \in SeatType => m.serial \in Seat
  BY DEF Request, MsgOf

AppTypes == /\ live \subseteq Handle
            /\ configured \subseteq live /\ close_requested \subseteq live
            /\ pool \in [Handle -> 0..MaxPools]
            /\ dims \in [Handle -> 0..MaxSize]
            /\ busy \in [Handle -> SUBSET Slot]
            /\ pools_made \in 0..MaxPools

LEMMA OnAppEventTyped ==
    ASSUME WireTypeOK, AppTypes, OnAppEvent
    PROVE  WireTypeOK' /\ AppTypes' /\ UNCHANGED <<pool, dims, pools_made>>
  <1> USE DEF AppTypes
  <1>0. DropEvent
    BY DEF OnAppEvent, OnConfigure, OnClose, OnRelease, OnPing, OnDiscarded
  <1>1. /\ evs' \in Seq(Event) /\ read' \in 0..Len(evs') /\ NextEvent \in Event
        /\ NextEvent.handle \in 0..MaxApps /\ NextEvent.serial \in 0..MaxSerial
    BY <1>0, DropTyped, EventFields
  <1>2. CASE OnConfigure
    <2>1. <<Msg("ack_configure", NextEvent.handle, None, 0, NextEvent.serial)>> \in Seq(Request)
      BY <1>1, OneRequest, ZeroTyped DEF RequestType, BufferType, SeatType
    <2>2. reqs' \in Seq(Request) /\ flushed' \in 0..Len(reqs')
      BY <1>2, <2>1, EmitTyped DEF OnConfigure
    <2> QED
      BY <1>1, <1>2, <2>2 DEF OnConfigure, WireTypeOK
  <1>3. CASE OnClose
    BY <1>1, <1>3 DEF OnClose, WireTypeOK
  <1>4. CASE OnRelease
    <2>1. busy' \in [Handle -> SUBSET Slot]
      BY <1>4 DEF OnRelease, FreeSlot
    <2> QED
      BY <1>1, <1>4, <2>1 DEF OnRelease, WireTypeOK
  <1>5. CASE OnPing
    <2>1. <<Msg("pong", None, None, 0, NextEvent.serial)>> \in Seq(Request)
      BY <1>1, OneRequest, ZeroTyped DEF RequestType, BufferType, SeatType
    <2>2. reqs' \in Seq(Request) /\ flushed' \in 0..Len(reqs')
      BY <1>5, <2>1, EmitTyped DEF OnPing
    <2> QED
      BY <1>1, <1>5, <2>2 DEF OnPing, WireTypeOK, appVars
  <1>6. CASE OnDiscarded
    BY <1>1, <1>6 DEF OnDiscarded, WireTypeOK, appVars
  <1> QED
    BY <1>2, <1>3, <1>4, <1>5, <1>6 DEF OnAppEvent

LEMMA PushEventTyped ==
    ASSUME input_queue \in Seq(InputEvent), NEW h \in 0..MaxApps, NEW kind \in Kind,
           NEW m \in Event, PushEvent(h, kind, m)
    PROVE  input_queue' \in Seq(InputEvent)
  <1>1. CASE h = None
    BY <1>1 DEF PushEvent
  <1>2. CASE h # None
    <2>1. [handle |-> h, kind |-> kind, target |-> m.handle, stamp |-> m.serial] \in InputEvent
      BY <1>2, EventFields, ConstantsTyped DEF None, InputEvent, Handle
    <2> QED
      BY <1>2, <2>1 DEF PushEvent
  <1> QED
    BY <1>1, <1>2

LEMMA GetDeviceTyped ==
    ASSUME NEW s \in Seat, NEW d, NEW type \in {"get_keyboard", "get_pointer", "get_touch"}
    PROVE  GetDevice(s, d, type) \in Seq(Request)
  <1>1. <<Msg(type, None, None, 0, s)>> \in Seq(Request)
    BY SeatNumber, OneRequest, ZeroTyped DEF RequestType, BufferType, SeatType
  <1> QED
    BY <1>1 DEF GetDevice

LEMMA OnCapabilitiesTyped ==
    ASSUME WireTypeOK, SeatTypeOK, OnCapabilities, UNCHANGED live
    PROVE  WireTypeOK' /\ SeatTypeOK'
  <1> DEFINE s == NextEvent.serial
             ms == GetDevice(s, "keyboard", "get_keyboard")
                   \o GetDevice(s, "pointer", "get_pointer")
                   \o GetDevice(s, "touch", "get_touch")
  <1>0. s \in Seat
    BY DropTyped, EventFields DEF OnCapabilities, SeatType
  <1>1. ms \in Seq(Request)
    BY <1>0, GetDeviceTyped
  <1>2. Emit(ms) /\ UNCHANGED flushed /\ DropEvent
    BY DEF OnCapabilities
  <1>3. reqs' \in Seq(Request) /\ flushed' \in 0..Len(reqs')
    <2> HIDE DEF ms
    <2> QED BY <1>1, <1>2, EmitTyped
  <1>4. evs' \in Seq(Event) /\ read' \in 0..Len(evs')
    BY <1>2, DropTyped
  <1> QED
    BY <1>3, <1>4 DEF OnCapabilities, Capabilities, WireTypeOK, SeatTypeOK

LEMMA OnSeatEventTyped ==
    ASSUME WireTypeOK, SeatTypeOK, OnSeatEvent, UNCHANGED live
    PROVE  WireTypeOK' /\ SeatTypeOK'
  <1> USE DEF SeatTypeOK
  <1>0. CASE OnCapabilities
    BY <1>0, OnCapabilitiesTyped
  <1>1. CASE OnGlobal
    <2>0. NextEvent.serial \in Seat
      BY <1>1, DropTyped, EventFields DEF OnGlobal, SeatType
    <2>1. <<Msg("bind_seat", None, None, 0, NextEvent.serial)>> \in Seq(Request)
      BY <2>0, SeatNumber, OneRequest, ZeroTyped DEF RequestType, BufferType, SeatType
    <2>2. reqs' \in Seq(Request) /\ flushed' \in 0..Len(reqs')
      BY <1>1, <2>1, EmitTyped DEF OnGlobal
    <2> QED
      BY <1>1, <2>2, DropTyped DEF OnGlobal, WireTypeOK, seatVars
  <1>2. CASE ~(OnCapabilities \/ OnGlobal)
    <2> USE DEF OnSeatEvent, OnKeyboardEnter, OnKeyboardLeave, OnKeyboardInput,
                OnPointerEnter, OnPointerLeave, OnPointerInput,
                OnTouchDown, OnTouchInput, OnTouchCancel
    <2>1. DropEvent /\ UNCHANGED <<reqs, flushed, conn, devices, polled>>
      BY <1>2
    <2>2. /\ evs' \in Seq(Event) /\ read' \in 0..Len(evs') /\ NextEvent \in Event
          /\ SurfaceHandle(NextEvent.handle) \in 0..MaxApps
      BY <2>1, DropTyped, EventFields, ZeroTyped DEF SurfaceHandle
    <2>3. focus' \in [Device -> 0..MaxApps]
      <3>1. UNCHANGED focus \/ \E d \in Device, h \in 0..MaxApps : SetFocus(d, h)
        BY <1>2, <2>2, ZeroTyped DEF Device
      <3> QED
        BY <3>1 DEF SetFocus
    <2>4. input_queue' \in Seq(InputEvent)
      <3>1. \/ UNCHANGED input_queue
            \/ \E h \in 0..MaxApps, kind \in Kind : PushEvent(h, kind, NextEvent)
        BY <1>2, <2>2 DEF Kind, Device
      <3> QED
        BY <2>2, <3>1, PushEventTyped
    <2> QED
      BY <2>1, <2>2, <2>3, <2>4 DEF WireTypeOK
  <1> QED
    BY <1>0, <1>1, <1>2

LEMMA DrainTyped ==
    ASSUME SeatTypeOK, Drain(PollCap), UNCHANGED live
    PROVE  SeatTypeOK'
  <1> DEFINE n == IF Len(input_queue) < PollCap THEN Len(input_queue) ELSE PollCap
  <1>1. n \in 0..Len(input_queue)
    BY ConstantsTyped DEF SeatTypeOK
  <1>2. input_queue' \in Seq(InputEvent)
    BY <1>1 DEF Drain, SeatTypeOK
  <1>3. polled' \in 0..MaxSerial
    <2>1. CASE n = 0
      BY <2>1 DEF Drain, SeatTypeOK
    <2>2. CASE n # 0
      <3>1. input_queue[n] \in InputEvent
        BY <1>1, <2>2 DEF SeatTypeOK
      <3> QED
        BY <2>2, <3>1 DEF Drain, InputEvent
    <2> QED
      BY <2>1, <2>2
  <1> QED
    BY <1>2, <1>3 DEF Drain, SeatTypeOK

-----------------------------------------------------------------------------
(* The steps of the core.  LoopInv is what the scripts rely on.             *)

LoopInv == WireTypeOK /\ SeatTypeOK /\ CoreTypeOK /\ ScriptInv

LEMMA CoreTypeParts ==
    CoreTypeOK /\ SeatTypeOK => AppTypes /\ todo \in Seq(Step) /\ next_handle \in Nat
  BY ConstantsTyped DEF CoreTypeOK, SeatTypeOK, AppTypes

LEMMA PumpKeepsLoopInv ==
    ASSUME LoopInv, PumpFlush \/ PumpFails \/ PumpRead \/ PumpDone
    PROVE  LoopInv'
  <1> USE DEF LoopInv
  <1>0. /\ todo # <<>> /\ Head(todo) \in {"pump", "pump?", "read", "deliver"}
        /\ todo \in Seq(Step) /\ Head(todo) \notin Body
        /\ UNCHANGED <<appVars, seatVars, next_handle, call, shimVars>>
    BY DEF PumpFlush, PumpFails, PumpRead, PumpDone, At, CoreTypeOK, Body
  <1>1. UNCHANGED <<live, configured, close_requested, pool, dims, busy, pools_made,
                    devices, focus, input_queue, polled, known, told, next_handle, call>>
    BY <1>0 DEF appVars, seatVars, shimVars
  <1>2. WireTypeOK'
    BY FlushTyped, ReadTyped
       DEF PumpFlush, PumpFails, PumpRead, PumpDone, wireVars, WireTypeOK
  <1>3. SeatTypeOK'
    BY <1>1 DEF SeatTypeOK
  <1>4. \/ Shorten \/ Replace("read") \/ Replace("deliver")
        \/ todo' = <<>>
    BY DEF PumpFlush, PumpFails, PumpRead, PumpDone, Shorten, Replace
  <1>5. todo' \in Seq(Step) /\ OneBody' /\ RoomLeft' /\ HandleReady'
    <2>1. CASE todo' = <<>>
      BY <2>1 DEF OneBody, RoomLeft, HandleReady
    <2>2. CASE Shorten \/ Replace("read") \/ Replace("deliver")
      BY <1>0, <1>1, <2>2, StepDone
    <2> QED
      BY <1>4, <2>1, <2>2
  <1>6. CoreTypeOK'
    BY <1>1, <1>5 DEF CoreTypeOK
  <1>7. QueueDrained'
    <2>1. CASE PumpRead
      <3>1. Replace("deliver") /\ "deliver" \in Step
        BY <2>1 DEF PumpRead, Replace, Step
      <3> QED
        BY <1>0, <3>1, ReplaceFacts DEF QueueDrained, At
    <2>2. CASE PumpDone
      BY <2>2 DEF PumpDone, QueueDrained, wireVars
    <2>3. CASE PumpFlush \/ PumpFails
      <3>1. read = 0
        BY <2>3, ConstantsTyped DEF PumpFlush, PumpFails, ScriptInv, QueueDrained, At, WireTypeOK
      <3>2. read' = 0
        BY <2>3, <3>1 DEF PumpFlush, PumpFails, FlushOk, FlushErr, Lose, wireVars
      <3> QED
        BY <3>2 DEF QueueDrained
    <2> QED
      BY <2>1, <2>2, <2>3
  <1> QED
    BY <1>2, <1>3, <1>5, <1>6, <1>7 DEF ScriptInv

LEMMA DeliverKeepsLoopInv ==
    ASSUME LoopInv, Deliver
    PROVE  LoopInv' /\ UNCHANGED <<pool, dims, pools_made>>
  <1> USE DEF LoopInv
  <1>0. At("deliver") /\ UNCHANGED <<next_handle, todo, call, known, told>>
    BY DEF Deliver, shimVars
  <1>1. /\ WireTypeOK' /\ SeatTypeOK' /\ AppTypes'
        /\ UNCHANGED <<pool, dims, pools_made>>
    <2>1. CASE OnAppEvent /\ UNCHANGED seatVars
      <3>1. WireTypeOK' /\ AppTypes' /\ UNCHANGED <<pool, dims, pools_made>>
        BY <2>1, CoreTypeParts, OnAppEventTyped
      <3>2. UNCHANGED <<devices, focus, input_queue, polled>>
        BY <2>1 DEF seatVars
      <3> QED
        BY <3>1, <3>2 DEF AppTypes, SeatTypeOK
    <2>2. CASE OnSeatEvent /\ UNCHANGED appVars
      <3>1. UNCHANGED <<live, configured, close_requested, pool, dims, busy, pools_made>>
        BY <2>2 DEF appVars
      <3>2. WireTypeOK' /\ SeatTypeOK'
        BY <2>2, <3>1, OnSeatEventTyped
      <3> QED
        BY <3>1, <3>2, CoreTypeParts DEF AppTypes
    <2> QED
      BY <2>1, <2>2 DEF Deliver
  <1>2. CoreTypeOK'
    BY <1>0, <1>1 DEF CoreTypeOK, AppTypes
  <1>3. ScriptInv'
    BY <1>0, <1>1
       DEF ScriptInv, OneBody, RoomLeft, HandleReady, QueueDrained, NeedsNew, At
  <1> QED
    BY <1>1, <1>2, <1>3

\* Outside of a dispatch the event queue is empty, and stays so.
LEMMA QueueStaysDrained ==
    ASSUME WireTypeOK, QueueDrained, todo # <<>>, Head(todo) # "deliver", UNCHANGED read
    PROVE  QueueDrained'
  BY ConstantsTyped DEF QueueDrained, At, WireTypeOK

LEMMA DestroySlotsTyped ==
    ASSUME CoreTypeOK, NEW h \in Handle
    PROVE  DestroySlots(h) \in Seq(Request)
  <1>1. CASE pool[h] = None
    BY <1>1 DEF DestroySlots
  <1>2. CASE pool[h] # None
    <2>1. h \in 0..MaxApps /\ pool[h] \in Pool /\ pool[h] \in 0..MaxPools
      BY <1>2, ConstantsTyped DEF CoreTypeOK, Handle, Pool, None
    <2>2. <<Msg("destroy_pool", h, pool[h], 0, 0)>> \in Seq(Request)
      BY <2>1, OneRequest, ZeroTyped DEF RequestType, SeatType
    <2> QED
      BY <1>2, <2>2 DEF DestroySlots
  <1> QED
    BY <1>1, <1>2

LEMMA FrameTyped ==
    ASSUME NEW h \in Handle, NEW p \in Pool, NEW s \in Slot
    PROVE  <<Frame(h, p, s)>> \in Seq(Request)
  BY OneRequest, ZeroTyped, ConstantsTyped DEF Frame, RequestType, SeatType, Handle, Pool

LEMMA EmitKeepsWire ==
    ASSUME WireTypeOK, NEW ms \in Seq(Request), Emit(ms), UNCHANGED <<flushed, evs, read, conn>>
    PROVE  WireTypeOK'
  BY EmitTyped DEF WireTypeOK

LEMMA BridgeAppKeepsLoopInv ==
    ASSUME LoopInv, BridgeAppBody
    PROVE  LoopInv'
  <1> USE DEF LoopInv
  <1>0. /\ todo \in Seq(Step) /\ todo # <<>> /\ Head(todo) = "bridge_app"
        /\ next_handle \in 1..MaxApps + 1 /\ Head(todo) = todo[1] /\ 1 \in DOMAIN todo
    BY DEF BridgeAppBody, At, CoreTypeOK
  <1>1. next_handle \in Handle
    BY <1>0, ConstantsTyped DEF ScriptInv, RoomLeft, Handle
  <1>2. next_handle' \in 1..MaxApps + 1 /\ next_handle' > 1
    BY <1>1, ConstantsTyped DEF BridgeAppBody, Handle
  <1>3. WireTypeOK'
    <2>1. <<Msg("create", FreshHandle, None, 0, 0)>> \in Seq(Request)
      BY <1>1, OneRequest, ZeroTyped, ConstantsTyped
         DEF RequestType, BufferType, SeatType, FreshHandle, Handle
    <2> QED
      BY <2>1, EmitKeepsWire DEF BridgeAppBody
  <1>4. todo' \in Seq(Step) /\ OneBody' /\ RoomLeft' /\ HandleReady'
    <2>1. Replace("pump?") /\ Head(todo) \in Body
      BY <1>0 DEF BridgeAppBody, Replace, Body
    <2> QED
      BY <1>0, <1>2, <2>1, BodyDone
  <1>5. SeatTypeOK' /\ CoreTypeOK'
    BY <1>1, <1>2, <1>4 DEF BridgeAppBody, SeatTypeOK, CoreTypeOK, seatVars, shimVars, FreshHandle
  <1>6. QueueDrained'
    BY <1>0, QueueStaysDrained DEF BridgeAppBody, ScriptInv
  <1> QED
    BY <1>3, <1>4, <1>5, <1>6 DEF ScriptInv

LEMMA ReturnKeepsLoopInv ==
    ASSUME LoopInv, BridgeAppReturn
    PROVE  LoopInv'
  <1> USE DEF LoopInv
  <1>0. /\ todo \in Seq(Step) /\ todo # <<>> /\ Head(todo) = "return"
        /\ next_handle \in 1..MaxApps + 1 /\ Head(todo) = todo[1] /\ 1 \in DOMAIN todo
        /\ UNCHANGED <<wireVars, appVars, seatVars, next_handle, call, told>> /\ Shorten
    BY DEF BridgeAppReturn, At, CoreTypeOK, Shorten
  <1>1. UNCHANGED <<reqs, flushed, evs, read, conn, live, configured, close_requested, pool,
                    dims, busy, pools_made, devices, focus, input_queue, polled>>
    BY <1>0 DEF wireVars, appVars, seatVars
  <1>2. next_handle - 1 \in Handle
    BY <1>0, ConstantsTyped DEF ScriptInv, HandleReady, Handle
  <1>3. todo' \in Seq(Step) /\ OneBody' /\ RoomLeft' /\ HandleReady'
    <2>1. Head(todo) \notin Body
      BY <1>0 DEF Body
    <2> QED
      BY <1>0, <1>1, <2>1, StepDone
  <1>4. WireTypeOK' /\ SeatTypeOK' /\ CoreTypeOK'
    BY <1>0, <1>1, <1>2, <1>3 DEF BridgeAppReturn, WireTypeOK, SeatTypeOK, CoreTypeOK
  <1>5. QueueDrained'
    BY <1>0, <1>1, QueueStaysDrained DEF ScriptInv
  <1> QED
    BY <1>3, <1>4, <1>5 DEF ScriptInv

\* Every other body leaves the counter of handles alone and ends, or goes on to a pump.
LEMMA BodyScript ==
    ASSUME LoopInv, todo # <<>>, Head(todo) \in Body \ {"bridge_app"},
           Shorten \/ Replace("pump"), UNCHANGED <<next_handle, read>>
    PROVE  todo' \in Seq(Step) /\ ScriptInv'
  <1>1. todo \in Seq(Step) /\ next_handle \in Nat /\ ScriptInv
    BY CoreTypeParts DEF LoopInv
  <1>2. todo' \in Seq(Step) /\ OneBody' /\ RoomLeft' /\ HandleReady'
    BY <1>1, BodyDone
  <1>3. QueueDrained'
    BY QueueStaysDrained DEF LoopInv, ScriptInv, Body
  <1> QED
    BY <1>2, <1>3 DEF ScriptInv

\* The call of an accepted frame names a live app and a size.
LEMMA AcceptedCall ==
    ASSUME LoopInv, PushAccepted
    PROVE  /\ call.handle \in Handle /\ call.handle \in live /\ call.size \in Size
           /\ todo # <<>> /\ Head(todo) = "push_frame" /\ Head(todo) \in Body \ {"bridge_app"}
           /\ NeedsNew(call.handle, call.size) => pools_made < MaxPools
  <1>1. /\ call.handle \in Handle /\ call.handle \in live /\ call.size \in Size
        /\ todo # <<>> /\ Head(todo) = "push_frame" /\ todo \in Seq(Step)
    BY ConstantsTyped DEF LoopInv, PushAccepted, At, CoreTypeOK, SeatTypeOK, Size, None
  <1>2. 1 \in DOMAIN todo /\ todo[1] = "push_frame"
    BY <1>1
  <1>3. NeedsNew(call.handle, call.size) => pools_made < MaxPools
    BY <1>2 DEF LoopInv, ScriptInv, RoomLeft, PushAccepted
  <1> QED
    BY <1>1, <1>3 DEF Body

LEMMA NoCallTyped == NoCall \in [handle: 0..MaxApps, size: 0..MaxSize]
  BY ConstantsTyped DEF NoCall, None

LEMMA PushNoPoolKeepsLoopInv ==
    ASSUME LoopInv, PushNoPool
    PROVE  LoopInv'
  <1> DEFINE h == call.handle
  <1>0. PushAccepted /\ h \in Handle
    BY AcceptedCall DEF PushNoPool
  <1>1. WireTypeOK'
    BY <1>0, DestroySlotsTyped, EmitKeepsWire DEF PushNoPool, LoopInv
  <1>2. todo' \in Seq(Step) /\ ScriptInv'
    BY <1>0, AcceptedCall, BodyScript DEF PushNoPool, Shorten
  <1>3. SeatTypeOK' /\ CoreTypeOK'
    BY <1>0, <1>2, NoCallTyped, ConstantsTyped
       DEF PushNoPool, LoopInv, SeatTypeOK, CoreTypeOK, seatVars, shimVars, None
  <1> QED
    BY <1>1, <1>2, <1>3 DEF LoopInv

LEMMA PushIntoNewPoolKeepsLoopInv ==
    ASSUME LoopInv, PushIntoNewPool
    PROVE  LoopInv'
  <1> DEFINE h == call.handle
             p == pools_made + 1
  <1>0. /\ PushAccepted /\ h \in Handle /\ call.size \in Size
        /\ p \in Pool /\ p \in 0..MaxPools /\ 0 \in Slot /\ h \in 0..MaxApps
    <2>1. PushAccepted /\ NeedsNew(h, call.size)
      BY DEF PushIntoNewPool
    <2>2. h \in Handle /\ call.size \in Size /\ pools_made < MaxPools
      BY <2>1, AcceptedCall
    <2>3. p \in Pool /\ p \in 0..MaxPools
      BY <2>2, ConstantsTyped DEF LoopInv, CoreTypeOK, Pool
    <2> QED
      BY <2>1, <2>2, <2>3, ZeroTyped, ConstantsTyped DEF Handle
  <1>1. WireTypeOK'
    <2>1. <<Msg("create_pool", h, p, 0, 0)>> \in Seq(Request)
      BY <1>0, OneRequest, ZeroTyped DEF RequestType, SeatType
    <2>2. <<Frame(h, p, 0)>> \in Seq(Request)
      BY <1>0, FrameTyped
    <2>3. <<Msg("create_pool", h, p, 0, 0), Frame(h, p, 0)>> \in Seq(Request)
      BY <2>1, <2>2
    <2>4. DestroySlots(h) \o <<Msg("create_pool", h, p, 0, 0), Frame(h, p, 0)>> \in Seq(Request)
      BY <1>0, <2>3, DestroySlotsTyped DEF LoopInv
    <2> QED
      BY <2>4, EmitKeepsWire DEF PushIntoNewPool, LoopInv
  <1>2. todo' \in Seq(Step) /\ ScriptInv'
    BY <1>0, AcceptedCall, BodyScript DEF PushIntoNewPool, Replace
  <1>3. /\ pool' \in [Handle -> 0..MaxPools] /\ dims' \in [Handle -> 0..MaxSize]
        /\ busy' \in [Handle -> SUBSET Slot] /\ pools_made' \in 0..MaxPools
    BY <1>0, ConstantsTyped DEF PushIntoNewPool, LoopInv, CoreTypeOK, Size
  <1>4. SeatTypeOK' /\ CoreTypeOK'
    BY <1>2, <1>3, NoCallTyped
       DEF PushIntoNewPool, LoopInv, SeatTypeOK, CoreTypeOK, seatVars, shimVars
  <1> QED
    BY <1>1, <1>2, <1>4 DEF LoopInv

LEMMA PushIntoPoolKeepsLoopInv ==
    ASSUME LoopInv, PushIntoPool
    PROVE  LoopInv'
  <1> DEFINE h == call.handle
  <1>0. PushAccepted /\ h \in Handle /\ pool[h] \in Pool
    BY AcceptedCall, ConstantsTyped
       DEF PushIntoPool, LoopInv, CoreTypeOK, NeedsNew, Pool, None
  <1>1. PICK s \in Slot : /\ busy' = [busy EXCEPT ![h] = @ \union {s}]
                          /\ Emit(<<Frame(h, pool[h], s)>>)
    BY DEF PushIntoPool
  <1>2. WireTypeOK'
    BY <1>0, <1>1, FrameTyped, EmitKeepsWire DEF PushIntoPool, LoopInv
  <1>3. todo' \in Seq(Step) /\ ScriptInv'
    BY <1>0, AcceptedCall, BodyScript DEF PushIntoPool, Replace
  <1>4. SeatTypeOK' /\ CoreTypeOK'
    BY <1>0, <1>1, <1>3, NoCallTyped
       DEF PushIntoPool, LoopInv, SeatTypeOK, CoreTypeOK, seatVars, shimVars
  <1> QED
    BY <1>2, <1>3, <1>4 DEF LoopInv

\* A body that presents nothing changes only what the call has left.
LEMMA IdleBodyKeepsLoopInv ==
    ASSUME LoopInv, PushRejected \/ PushSkipped \/ PollInputBody \/ CloseRequestedBody
                    \/ CloseUnknownBody
    PROVE  LoopInv'
  <1> USE DEF PushRejected, PushSkipped, PollInputBody, CloseRequestedBody, CloseUnknownBody
  <1>0. /\ todo # <<>> /\ Head(todo) \in Body \ {"bridge_app"} /\ Shorten
        /\ UNCHANGED <<wireVars, appVars, next_handle, known>>
        /\ told' \subseteq Handle
        /\ call' \in [handle: 0..MaxApps, size: 0..MaxSize]
    BY NoCallTyped DEF PushAccepted, At, Shorten, Body, LoopInv, CoreTypeOK, SeatTypeOK, shimVars
  <1>1. UNCHANGED <<reqs, flushed, evs, read, conn, live, configured, close_requested, pool,
                    dims, busy, pools_made>>
    BY <1>0 DEF wireVars, appVars
  <1>2. todo' \in Seq(Step) /\ ScriptInv'
    BY <1>0, <1>1, BodyScript
  <1>3. WireTypeOK' /\ CoreTypeOK'
    BY <1>0, <1>1, <1>2 DEF LoopInv, WireTypeOK, CoreTypeOK
  <1>4. SeatTypeOK'
    <2>1. CASE PollInputBody
      BY <1>1, <2>1, DrainTyped DEF LoopInv
    <2>2. CASE UNCHANGED seatVars
      BY <1>1, <2>2 DEF LoopInv, SeatTypeOK, seatVars
    <2> QED
      BY <2>1, <2>2
  <1> QED
    BY <1>2, <1>3, <1>4 DEF LoopInv

LEMMA CloseAppKeepsLoopInv ==
    ASSUME LoopInv, CloseAppBody
    PROVE  LoopInv'
  <1> DEFINE h == call.handle
             ms == <<Msg("destroy_toplevel", h, None, 0, 0),
                     Msg("destroy_xdg_surface", h, None, 0, 0),
                     Msg("destroy_surface", h, None, 0, 0)>>
  <1>0. h \in Handle /\ h \in 0..MaxApps /\ todo # <<>> /\ Head(todo) = "close_app"
    <2>1. h \in Handle /\ todo # <<>> /\ Head(todo) = "close_app"
      BY DEF CloseAppBody, At, LoopInv, SeatTypeOK
    <2> QED
      BY <2>1, ConstantsTyped DEF Handle
  <1>1. WireTypeOK'
    <2>1. \A type \in {"destroy_toplevel", "destroy_xdg_surface", "destroy_surface"} :
              Msg(type, h, None, 0, 0) \in Request
      BY <1>0, MsgTyped, ZeroTyped DEF Request, RequestType, BufferType, SeatType
    <2>2. ms \in Seq(Request)
      BY <2>1
    <2>3. DestroySlots(h) \o ms \in Seq(Request)
      <3> HIDE DEF ms
      <3> QED BY <1>0, <2>2, DestroySlotsTyped DEF LoopInv
    <2> QED
      BY <2>3, EmitKeepsWire DEF CloseAppBody, DestroyEntry, LoopInv
  <1>2. todo' \in Seq(Step) /\ ScriptInv'
    BY <1>0, BodyScript DEF CloseAppBody, Replace, Body
  <1>3. /\ pool' \in [Handle -> 0..MaxPools] /\ dims' \in [Handle -> 0..MaxSize]
        /\ busy' \in [Handle -> SUBSET Slot]
    BY <1>0, ConstantsTyped DEF CloseAppBody, LoopInv, CoreTypeOK, None
  <1>4. SeatTypeOK' /\ CoreTypeOK'
    BY <1>2, <1>3, NoCallTyped
       DEF CloseAppBody, LoopInv, SeatTypeOK, CoreTypeOK, seatVars, shimVars
  <1> QED
    BY <1>1, <1>2, <1>4 DEF LoopInv

LEMMA CoreStepKeepsLoopInv ==
    ASSUME LoopInv, CoreStep
    PROVE  LoopInv'
  BY PumpKeepsLoopInv, DeliverKeepsLoopInv, BridgeAppKeepsLoopInv, ReturnKeepsLoopInv,
     PushNoPoolKeepsLoopInv, PushIntoNewPoolKeepsLoopInv, PushIntoPoolKeepsLoopInv,
     IdleBodyKeepsLoopInv, CloseAppKeepsLoopInv
     DEF CoreStep

-----------------------------------------------------------------------------
(* The entry points.                                                        *)

\* What a script may look like when a call starts.
LEMMA CallKeepsLoopInv ==
    ASSUME LoopInv, NEW script \in Seq(Step), NEW h \in 0..MaxApps, NEW size \in 0..MaxSize,
           Call(script, h, size), OneBody', RoomLeft', HandleReady'
    PROVE  LoopInv'
  <1>1. /\ todo = <<>> /\ UNCHANGED <<wireVars, appVars, seatVars, next_handle, shimVars>>
        /\ todo' = script /\ call' = [handle |-> h, size |-> size]
    BY DEF Call
  <1>2. UNCHANGED <<reqs, flushed, evs, read, conn, live, configured, close_requested, pool,
                    dims, busy, pools_made, devices, focus, input_queue, polled, known, told>>
    BY <1>1 DEF wireVars, appVars, seatVars, shimVars
  <1>3. read = 0
    BY <1>1, ConstantsTyped DEF LoopInv, ScriptInv, QueueDrained, At, WireTypeOK
  <1>4. QueueDrained'
    BY <1>2, <1>3 DEF QueueDrained
  <1>5. WireTypeOK' /\ SeatTypeOK' /\ CoreTypeOK'
    BY <1>1, <1>2 DEF LoopInv, WireTypeOK, SeatTypeOK, CoreTypeOK
  <1> QED
    BY <1>4, <1>5 DEF LoopInv, ScriptInv

LEMMA CallsKeepLoopInv ==
    ASSUME LoopInv, CallBridgeApp \/ CallPushFrame \/ CallPollInput
                    \/ (\E h \in known : CallCloseRequested(h)) \/ CallCloseApp \/ CallDispatch
    PROVE  LoopInv'
  <1>0. /\ \A h \in known : h \in 0..MaxApps /\ h \in Handle
        /\ None \in 0..MaxApps /\ None \in 0..MaxSize
    BY ConstantsTyped, ZeroTyped DEF LoopInv, CoreTypeOK, Handle, None
  <1>s. /\ <<"pump", "bridge_app", "pump", "return">> \in Seq(Step)
        /\ <<"pump", "push_frame">> \in Seq(Step) /\ <<"pump?", "poll_input">> \in Seq(Step)
        /\ <<"pump", "close_requested">> \in Seq(Step) /\ <<"close_app", "pump">> \in Seq(Step)
        /\ <<"pump?">> \in Seq(Step)
    BY DEF Step
  <1>1. CASE CallBridgeApp
    <2>1. Call(<<"pump", "bridge_app", "pump", "return">>, None, None)
      BY <1>1 DEF CallBridgeApp
    <2>2. todo' = <<"pump", "bridge_app", "pump", "return">> /\ UNCHANGED next_handle
      BY <2>1 DEF Call
    <2>3. OneBody' /\ RoomLeft' /\ HandleReady'
      BY <1>1, <2>2 DEF CallBridgeApp, OneBody, RoomLeft, HandleReady, Body
    <2> QED
      BY <1>0, <1>s, <2>1, <2>3, CallKeepsLoopInv
  <1>2. CASE CallPushFrame
    <2>1. PICK h \in known, size \in 0..MaxSize :
              /\ pools_made < MaxPools \/ size = None \/ ~NeedsNew(h, size)
              /\ Call(<<"pump", "push_frame">>, h, size)
      BY <1>2 DEF CallPushFrame
    <2>2. /\ todo' = <<"pump", "push_frame">> /\ call' = [handle |-> h, size |-> size]
          /\ UNCHANGED <<pool, dims, pools_made>>
      BY <2>1 DEF Call, appVars
    <2>3. OneBody' /\ RoomLeft' /\ HandleReady'
      BY <1>0, <2>1, <2>2 DEF NeedsNew, OneBody, RoomLeft, HandleReady, Body
    <2> QED
      BY <1>0, <1>s, <2>1, <2>3, CallKeepsLoopInv
  <1>3. CASE CallPollInput
    <2>1. todo' = <<"pump?", "poll_input">>
      BY <1>3 DEF CallPollInput, Call
    <2>2. OneBody' /\ RoomLeft' /\ HandleReady'
      BY <2>1 DEF OneBody, RoomLeft, HandleReady, Body
    <2> QED
      BY <1>0, <1>s, <1>3, <2>2, CallKeepsLoopInv DEF CallPollInput
  <1>4. CASE \E h \in known : CallCloseRequested(h)
    <2>1. todo' = <<"pump", "close_requested">>
      BY <1>4 DEF CallCloseRequested, Call
    <2>2. OneBody' /\ RoomLeft' /\ HandleReady'
      BY <2>1 DEF OneBody, RoomLeft, HandleReady, Body
    <2> QED
      BY <1>0, <1>s, <1>4, <2>2, CallKeepsLoopInv DEF CallCloseRequested
  <1>5. CASE CallCloseApp
    <2>1. todo' = <<"close_app", "pump">>
      BY <1>5 DEF CallCloseApp, Call
    <2>2. OneBody' /\ RoomLeft' /\ HandleReady'
      BY <2>1 DEF OneBody, RoomLeft, HandleReady, Body
    <2> QED
      BY <1>0, <1>s, <1>5, <2>2, CallKeepsLoopInv DEF CallCloseApp
  <1>6. CASE CallDispatch
    <2>1. todo' = <<"pump?">>
      BY <1>6 DEF CallDispatch, Call
    <2>2. OneBody' /\ RoomLeft' /\ HandleReady'
      BY <2>1 DEF OneBody, RoomLeft, HandleReady, Body
    <2> QED
      BY <1>0, <1>s, <1>6, <2>2, CallKeepsLoopInv DEF CallDispatch
  <1> QED
    BY <1>1, <1>2, <1>3, <1>4, <1>5, <1>6

LEMMA StartKeepsLoopInv ==
    ASSUME LoopInv, NEW n \in 0..MaxSeats, AnowawStart(n)
    PROVE  LoopInv'
  <1>1. n \in Nat /\ \A i \in 1..n : i \in Seat /\ i \in 0..MaxSerial
    BY ConstantsTyped DEF Seat
  <1>2. UNCHANGED <<live, configured, close_requested, pool, dims, busy, pools_made, devices,
                    focus, input_queue, polled, known, told, next_handle, call>>
    BY DEF AnowawStart, appVars, seatVars, shimVars
  <1>3. WireTypeOK'
    <2>1. \A i \in 1..n : Msg("capabilities", None, None, 0, i) \in Event
      BY <1>1, MsgTyped, ZeroTyped DEF Event, EventType, BufferType, SeatType
    <2>2. evs' \in Seq(Event) /\ Len(evs') = n
      <3>1. evs' \in [1..n -> Event] /\ n \in Nat
        BY <1>1, <2>1 DEF AnowawStart
      <3> QED
        BY <3>1
    <2>3. reqs' \in Seq(Request) /\ flushed' \in 0..Len(reqs') /\ read' = n /\ conn' = "up"
      BY DEF AnowawStart
    <2> QED
      BY <1>1, <2>2, <2>3 DEF WireTypeOK
  <1>4. todo' = <<"deliver">> /\ todo' \in Seq(Step)
    BY DEF AnowawStart, Step
  <1>5. ScriptInv'
    BY <1>4 DEF ScriptInv, OneBody, RoomLeft, HandleReady, QueueDrained, At, Body
  <1>6. SeatTypeOK' /\ CoreTypeOK'
    BY <1>2, <1>4 DEF LoopInv, SeatTypeOK, CoreTypeOK
  <1> QED
    BY <1>3, <1>5, <1>6 DEF LoopInv

LEMMA StopKeepsLoopInv ==
    ASSUME LoopInv, AnowawStop
    PROVE  LoopInv'
  <1>1. /\ UNCHANGED <<pools_made, next_handle, todo, call, known, told>>
        /\ todo = <<>>
    BY DEF AnowawStop, shimVars
  <1>2. WireTypeOK' /\ read' = 0
    BY DEF AnowawStop, WireTypeOK
  <1>3. SeatTypeOK' /\ CoreTypeOK'
    BY <1>1, ConstantsTyped, ZeroTyped DEF AnowawStop, LoopInv, SeatTypeOK, CoreTypeOK, None
  <1>4. ScriptInv'
    BY <1>1, <1>2 DEF ScriptInv, OneBody, RoomLeft, HandleReady, QueueDrained
  <1> QED
    BY <1>2, <1>3, <1>4 DEF LoopInv

-----------------------------------------------------------------------------
(* The compositor.                                                          *)

\* The reply to the binding of a seat.
LEMMA BindReplyTyped ==
    ASSUME WireTypeOK, Accept, AcceptBindSeat
    PROVE  /\ Oldest.serial \in Seat
           /\ <<Msg("capabilities", None, None, 0, Oldest.serial)>> \in Seq(Event)
  <1>1. Oldest.serial \in Seat
    BY TakeTyped, RequestFields DEF Accept, AcceptBindSeat, SeatType
  <1> QED
    BY <1>1, SeatNumber, OneEvent, ZeroTyped DEF EventType, BufferType

LEMMA AcceptTyped ==
    ASSUME WireTypeOK, WestonTypeOK, Accept
    PROVE  WireTypeOK' /\ WestonTypeOK' /\ UNCHANGED read
  <1> USE DEF westonVars, clientVars
  <1>0. /\ reqs' \in Seq(Request) /\ flushed' \in 0..Len(reqs') /\ Oldest \in Request
        /\ Oldest.handle \in 0..MaxApps
        /\ Oldest.type \in BufferType => Oldest.handle \in Handle /\ Oldest.pool \in Pool
        /\ Oldest.slot \in Slot /\ Oldest.serial \in 0..MaxSerial /\ conn = "up"
    BY TakeTyped, RequestFields DEF Accept
  <1>1. ASSUME ProtocolError(FALSE)
        PROVE  WireTypeOK' /\ WestonTypeOK' /\ UNCHANGED read
    BY <1>0, <1>1 DEF ProtocolError, PeerGone, WireTypeOK, WestonTypeOK
  <1>2. CASE AcceptCreate
    BY <1>0, <1>2 DEF AcceptCreate, WireTypeOK, WestonTypeOK
  <1>3. CASE AcceptCreatePool
    <2>1. <<Oldest.handle, Oldest.pool>> \in Handle \X Pool
      BY <1>0, <1>3 DEF AcceptCreatePool, BufferType, SeatType
    <2>2. pools' \subseteq Handle \X Pool
      BY <1>3, <2>1 DEF AcceptCreatePool, WestonTypeOK
    <2> QED
      BY <1>0, <1>3, <2>2 DEF AcceptCreatePool, WireTypeOK, WestonTypeOK
  <1>4. CASE AcceptFrame
    <2>1. Tok(Oldest) \in Token
      BY <1>0, <1>4 DEF AcceptFrame, Tok, Token, BufferType, SeatType
    <2>2. CASE FrameAllowed(Oldest)
      <3>1. held' \subseteq Token /\ current' \in [Handle -> SUBSET Token]
        BY <1>4, <2>1, <2>2 DEF AcceptFrame, ProtocolError, WestonTypeOK
      <3> QED
        BY <1>0, <1>4, <2>2, <3>1 DEF AcceptFrame, ProtocolError, WireTypeOK, WestonTypeOK
    <2>3. CASE ProtocolError(FALSE)
      BY <1>1, <2>3
    <2> QED
      BY <1>4, <2>2, <2>3 DEF AcceptFrame, ProtocolError
  <1>5. CASE AcceptDestroyPool
    BY <1>0, <1>5 DEF AcceptDestroyPool, WireTypeOK, WestonTypeOK
  <1>6. CASE AcceptDestroyWindow
    <2>1. PICK type, before, after : /\ after \in {"none", "surface", "xdg_surface"}
                                     /\ AcceptDestroy(type, before, after)
      BY <1>6 DEF AcceptDestroyWindow
    <2>2. CASE role[Oldest.handle] = before
      <3>1. seat_focus' \in [Seat -> [Device -> 0..MaxApps]]
        BY <2>1, <2>2, ZeroTyped DEF AcceptDestroy, ProtocolError, WestonTypeOK
      <3>2. role' \in [Handle -> {"none", "surface", "xdg_surface", "toplevel"}]
        BY <2>1, <2>2 DEF AcceptDestroy, ProtocolError, WestonTypeOK
      <3> QED
        BY <1>0, <2>1, <2>2, <3>1, <3>2
           DEF AcceptDestroy, ProtocolError, WireTypeOK, WestonTypeOK
    <2>3. CASE ProtocolError(FALSE)
      BY <1>1, <2>3
    <2> QED
      BY <2>1, <2>2, <2>3 DEF AcceptDestroy, ProtocolError
  <1>7. CASE AcceptAck
    <2>1. CASE ProtocolError(FALSE)
      BY <1>1, <2>1
    <2>2. CASE ~ProtocolError(FALSE)
      BY <1>0, <1>7, <2>2 DEF AcceptAck, ProtocolError, WireTypeOK, WestonTypeOK
    <2> QED
      BY <2>1, <2>2
  <1>8. CASE AcceptPong
    <2>1. pongs' \in Nat
      BY <1>8 DEF AcceptPong, WestonTypeOK
    <2>2. UNCHANGED <<evs, read, conn, alive, seats, stamp, violated, role, sent, acked, pools,
                      held, current, closing, pings, bound, seat_focus, fingers, described>>
      BY <1>8 DEF AcceptPong
    <2> QED
      BY <1>0, <2>1, <2>2 DEF WireTypeOK, WestonTypeOK
  <1>9. CASE AcceptBindSeat
    <2>1. /\ Oldest.serial \in Seat
          /\ <<Msg("capabilities", None, None, 0, Oldest.serial)>> \in Seq(Event)
      BY <1>9, BindReplyTyped
    <2>2. evs' \in Seq(Event) /\ read' \in 0..Len(evs')
      BY <1>9, <2>1, SendTyped DEF AcceptBindSeat
    <2> QED
      BY <1>0, <1>9, <2>1, <2>2 DEF AcceptBindSeat, WireTypeOK, WestonTypeOK
  <1>10. CASE AcceptGetDevice
    <2>1. DeviceOf(Oldest.type) \in Device /\ Oldest.serial \in Seat
      BY <1>0, <1>10, RequestFields DEF AcceptGetDevice, DeviceOf, Device, SeatType
    <2>2. bound' \in [Seat -> [Device -> Nat]]
      BY <1>10, <2>1 DEF AcceptGetDevice, WestonTypeOK
    <2> QED
      BY <1>0, <1>10, <2>2 DEF AcceptGetDevice, WireTypeOK, WestonTypeOK
  <1> QED
    BY <1>2, <1>3, <1>4, <1>5, <1>6, <1>7, <1>8, <1>9, <1>10 DEF Accept

LEMMA SendKeepsWire ==
    ASSUME WireTypeOK, NEW ms \in Seq(Event), SendEvents(ms),
           UNCHANGED <<reqs, flushed, read, conn>>
    PROVE  WireTypeOK'
  BY SendTyped DEF WireTypeOK

LEMMA WindowEventsTyped ==
    ASSUME WireTypeOK, WestonTypeOK,
           \/ \E h \in Handle : SendConfigure(h) \/ SendClose(h)
           \/ \E b \in held : Release(b)
           \/ SendPing
           \/ SeatAppears
           \/ Crash
    PROVE  WireTypeOK' /\ WestonTypeOK' /\ UNCHANGED read
  <1> USE DEF westonVars, clientVars
  <1>0. \A h \in Handle : h \in 0..MaxApps
    BY ConstantsTyped DEF Handle
  <1>1. ASSUME NEW h \in Handle, SendConfigure(h)
        PROVE  WireTypeOK' /\ WestonTypeOK' /\ UNCHANGED read
    <2>1. sent[h] + 1 \in 0..MaxSerial
      BY <1>1, ConstantsTyped DEF SendConfigure, WestonTypeOK
    <2>2. <<Msg("configure", h, None, 0, sent[h] + 1)>> \in Seq(Event)
      BY <1>0, <2>1, OneEvent, ZeroTyped DEF EventType, BufferType, SeatType
    <2> QED
      BY <1>1, <2>1, <2>2, SendKeepsWire DEF SendConfigure, WestonTypeOK
  <1>2. ASSUME NEW h \in Handle, SendClose(h)
        PROVE  WireTypeOK' /\ WestonTypeOK' /\ UNCHANGED read
    <2>1. <<Msg("close", h, None, 0, 0)>> \in Seq(Event)
      BY <1>0, OneEvent, ZeroTyped DEF EventType, BufferType, SeatType
    <2> QED
      BY <1>2, <2>1, SendKeepsWire DEF SendClose, WestonTypeOK
  <1>3. ASSUME NEW b \in held, Release(b)
        PROVE  WireTypeOK' /\ WestonTypeOK' /\ UNCHANGED read
    <2>1. b.handle \in Handle /\ b.pool \in Pool /\ b.slot \in Slot /\ b.pool \in 0..MaxPools
      BY ConstantsTyped DEF WestonTypeOK, Token, Pool
    <2>2. <<Msg("release", b.handle, b.pool, b.slot, 0)>> \in Seq(Event)
      BY <1>0, <2>1, OneEvent, ZeroTyped DEF EventType, SeatType
    <2> QED
      BY <1>3, <2>2, SendKeepsWire DEF Release, WestonTypeOK
  <1>4. CASE SendPing
    <2>1. pings + 1 \in 0..MaxSerial
      BY <1>4, ConstantsTyped DEF SendPing, WestonTypeOK
    <2>2. <<Msg("ping", None, None, 0, pings + 1)>> \in Seq(Event)
      BY <2>1, OneEvent, ZeroTyped DEF EventType, BufferType, SeatType
    <2> QED
      BY <1>4, <2>1, <2>2, SendKeepsWire DEF SendPing, WestonTypeOK
  <1>5. CASE SeatAppears
    <2>1. seats' \in 0..MaxSeats /\ seats + 1 \in Seat /\ seats + 1 \in 0..MaxSerial
      BY <1>5, ConstantsTyped DEF SeatAppears, WestonTypeOK, Seat
    <2>2. <<Msg("global", None, None, 0, seats + 1)>> \in Seq(Event)
      BY <2>1, OneEvent, ZeroTyped DEF EventType, BufferType
    <2> QED
      BY <1>5, <2>1, <2>2, SendKeepsWire DEF SeatAppears, WestonTypeOK
  <1>6. CASE Crash
    BY <1>6 DEF Crash, PeerGone, WireTypeOK, WestonTypeOK
  <1> QED
    BY <1>1, <1>2, <1>3, <1>4, <1>5, <1>6

\* Events that give no buffer back.
QuietEvent == {m \in Event : m.type # "release"}

SendsQuietly ==
    \E ms \in Seq(QuietEvent) : SendEvents(ms) /\ UNCHANGED <<reqs, read, held>>

\* Events of a seat: nor do they configure a window or ask for an answer.
SeatEvent == {m \in Event : m.type \notin {"release", "configure", "ping"}}

SendsForSeat ==
    \E ms \in Seq(SeatEvent) : SendEvents(ms) /\ UNCHANGED <<reqs, read, held>>

LEMMA SeatIsQuiet == SendsForSeat => SendsQuietly
  <1>1. \A ms \in Seq(SeatEvent) : ms \in Seq(QuietEvent)
    BY DEF SeatEvent, QuietEvent
  <1> QED
    BY <1>1 DEF SendsForSeat, SendsQuietly

LEMMA ToEachTyped ==
    ASSUME WestonTypeOK, NEW s \in Seat, NEW d \in Device, NEW m \in SeatEvent
    PROVE  ToEach(s, d, m) \in Seq(SeatEvent)
  <1>1. bound[s][d] \in Nat
    BY DEF WestonTypeOK
  <1>2. ToEach(s, d, m) \in [1..bound[s][d] -> SeatEvent]
    BY DEF ToEach
  <1> QED
    BY <1>1, <1>2

LEMMA SeatStepTyped ==
    ASSUME WireTypeOK, WestonTypeOK, NEW s \in Seat, NEW d \in Device, NEW n \in {1, 2},
           NEW ms \in Seq(SeatEvent), NEW h \in 0..MaxApps, SeatStep(s, d, n, ms, h),
           fingers' \in [Seat -> 0..MaxTouch]
    PROVE  WireTypeOK' /\ WestonTypeOK' /\ SendsForSeat
  <1>1. WireTypeOK'
    <2>1. ms \in Seq(Event)
      BY DEF SeatEvent
    <2> QED
      BY <2>1, SendKeepsWire DEF SeatStep
  <1>2. seat_focus' \in [Seat -> [Device -> 0..MaxApps]]
    BY DEF SeatStep, WestonTypeOK
  <1>3. stamp' \in 0..MaxSerial
    BY ConstantsTyped DEF SeatStep, WestonTypeOK
  <1> QED
    BY <1>1, <1>2, <1>3 DEF SeatStep, WestonTypeOK, SendsForSeat

\* The messages of a device.
DeviceType == {"keyboard_enter", "keyboard_leave", "keyboard_input",
               "pointer_enter", "pointer_leave", "pointer_input",
               "touch_down", "touch_input", "touch_cancel"}

LEMMA DeviceEventTyped ==
    ASSUME NEW type \in DeviceType, NEW h \in 0..MaxApps, NEW n \in 0..MaxSerial
    PROVE  Msg(type, h, None, 0, n) \in SeatEvent
  <1>1. type \in EventType /\ type \notin BufferType \union SeatType \union {"configure", "ping"}
    BY DEF DeviceType, EventType, BufferType, SeatType
  <1>2. Msg(type, h, None, 0, n) \in Event
    BY <1>1, MsgTyped, ZeroTyped DEF Event
  <1> QED
    BY <1>1, <1>2 DEF Msg, SeatEvent, BufferType

LEMMA SeatNoteTyped ==
    ASSUME NEW type \in {"global", "capabilities"}, NEW s \in Seat
    PROVE  <<Msg(type, None, None, 0, s)>> \in Seq(SeatEvent)
  <1>1. Msg(type, None, None, 0, s) \in Event
    BY SeatNumber, MsgTyped, ZeroTyped DEF Event, EventType, BufferType
  <1> QED
    BY <1>1 DEF Msg, SeatEvent

LEMMA SeatAppearsTyped ==
    ASSUME WireTypeOK, WestonTypeOK, SeatAppears
    PROVE  WireTypeOK' /\ WestonTypeOK' /\ SendsForSeat
  <1>1. seats + 1 \in Seat
    BY ConstantsTyped DEF SeatAppears, WestonTypeOK, Seat
  <1>2. SendsForSeat
    BY <1>1, SeatNoteTyped DEF SeatAppears, SendsForSeat, clientVars
  <1> QED
    BY <1>2, WindowEventsTyped

LEMMA SeatActsTyped ==
    ASSUME WireTypeOK, WestonTypeOK, NEW s \in Seat, SeatActs(s)
    PROVE  WireTypeOK' /\ WestonTypeOK' /\ SendsForSeat
  <1>0. /\ \A h \in Handle : h \in 0..MaxApps
        /\ \A d \in Device : seat_focus[s][d] \in 0..MaxApps
        /\ None \in 0..MaxApps /\ stamp \in Nat /\ MaxSeatEvents <= MaxSerial
        /\ fingers \in [Seat -> 0..MaxTouch] /\ fingers[s] \in 0..MaxTouch
        /\ "touch" \in Device
    BY ConstantsTyped, ZeroTyped DEF Handle, WestonTypeOK, Device
  <1>1. ASSUME NEW n \in {1, 2}, stamp + n <= MaxSeatEvents
        PROVE  \A i \in 1..n : stamp + i \in 0..MaxSerial
    BY <1>0, <1>1, ConstantsTyped
  <1>2. CASE SeatAnnounces(s)
    <2>1. stamp' \in 0..MaxSerial
      BY <1>0, <1>2, ConstantsTyped DEF SeatAnnounces
    <2>2. <<Msg("capabilities", None, None, 0, s)>> \in Seq(SeatEvent)
      BY SeatNoteTyped
    <2>3. SendsForSeat
      BY <1>2, <2>2 DEF SeatAnnounces, SendsForSeat, clientVars
    <2>4. WireTypeOK'
      <3>1. <<Msg("capabilities", None, None, 0, s)>> \in Seq(Event)
        BY <2>2 DEF SeatEvent
      <3> QED
        BY <1>2, <3>1, SendKeepsWire DEF SeatAnnounces
    <2> QED
      BY <1>2, <2>1, <2>3, <2>4 DEF SeatAnnounces, WestonTypeOK, clientVars
  <1>3. ASSUME NEW d \in Device, NEW h \in 0..MaxApps, MoveFocus(s, d, h)
        PROVE  WireTypeOK' /\ WestonTypeOK' /\ SendsForSeat
    <2>1. stamp + 1 \in 0..MaxSerial /\ stamp + 2 \in 0..MaxSerial
      BY <1>1, <1>3 DEF MoveFocus, SeatStep
    <2>2. LeaveFocus(s, d) \in Seq(SeatEvent)
      <3>1. Msg(LeaveType(d), seat_focus[s][d], None, 0, stamp + 1) \in SeatEvent
        BY <1>0, <2>1, DeviceEventTyped DEF LeaveType, DeviceType
      <3> QED
        BY <3>1, ToEachTyped DEF LeaveFocus
    <2>3. EnterFocus(s, d, h) \in Seq(SeatEvent)
      <3>1. Msg(EnterType(d), h, None, 0, stamp + 2) \in SeatEvent
        BY <2>1, DeviceEventTyped DEF EnterType, DeviceType
      <3> QED
        BY <3>1, ToEachTyped DEF EnterFocus
    <2>4. LeaveFocus(s, d) \o EnterFocus(s, d, h) \in Seq(SeatEvent)
      BY <2>2, <2>3
    <2> QED
      BY <1>0, <1>3, <2>4, SeatStepTyped DEF MoveFocus
  <1>4. ASSUME NEW d \in Device, DeviceInput(s, d)
        PROVE  WireTypeOK' /\ WestonTypeOK' /\ SendsForSeat
    <2>1. stamp + 1 \in 0..MaxSerial
      BY <1>1, <1>4 DEF DeviceInput, SeatStep
    <2>2. Msg(InputType(d), seat_focus[s][d], None, 0, stamp + 1) \in SeatEvent
      BY <1>0, <2>1, DeviceEventTyped DEF InputType, DeviceType
    <2> QED
      BY <1>0, <1>4, <2>2, ToEachTyped, SeatStepTyped DEF DeviceInput
  <1>5. ASSUME NEW type \in {"touch_down", "touch_input", "touch_cancel"},
               NEW h \in 0..MaxApps, stamp + 1 \in 0..MaxSerial
        PROVE  TouchEvent(s, type, h) \in Seq(SeatEvent)
    <2>1. Msg(type, h, None, 0, stamp + 1) \in SeatEvent
      BY <1>5, DeviceEventTyped DEF DeviceType
    <2> QED
      BY <1>0, <2>1, ToEachTyped DEF TouchEvent
  <1>6. ASSUME NEW h \in Handle, TouchDown(s, h)
        PROVE  WireTypeOK' /\ WestonTypeOK' /\ SendsForSeat
    <2> DEFINE target == IF fingers[s] = 0 THEN h ELSE seat_focus[s]["touch"]
    <2>1. /\ stamp + 1 \in 0..MaxSerial /\ fingers' \in [Seat -> 0..MaxTouch]
          /\ target \in 0..MaxApps
      BY <1>0, <1>1, <1>6, ConstantsTyped DEF TouchDown, SeatStep
    <2>2. TouchEvent(s, "touch_down", target) \in Seq(SeatEvent)
      BY <1>5, <2>1
    <2> QED
      BY <1>0, <1>6, <2>1, <2>2, SeatStepTyped DEF TouchDown
  <1>7. CASE TouchUp(s)
    <2> DEFINE next == IF fingers[s] = 1 THEN None ELSE seat_focus[s]["touch"]
    <2>1. /\ stamp + 1 \in 0..MaxSerial /\ fingers' \in [Seat -> 0..MaxTouch]
          /\ next \in 0..MaxApps
      BY <1>0, <1>1, <1>7, ConstantsTyped DEF TouchUp, SeatStep
    <2>2. TouchEvent(s, "touch_input", seat_focus[s]["touch"]) \in Seq(SeatEvent)
      BY <1>0, <1>5, <2>1
    <2> QED
      BY <1>0, <1>7, <2>1, <2>2, SeatStepTyped DEF TouchUp
  <1>8. CASE TouchCancel(s)
    <2>1. stamp + 1 \in 0..MaxSerial /\ fingers' = fingers
      BY <1>1, <1>8 DEF TouchCancel, SeatStep
    <2>2. TouchEvent(s, "touch_cancel", seat_focus[s]["touch"]) \in Seq(SeatEvent)
      BY <1>0, <1>5, <2>1
    <2> QED
      BY <1>0, <1>8, <2>1, <2>2, SeatStepTyped DEF TouchCancel
  <1> QED
    BY <1>2, <1>3, <1>4, <1>6, <1>7, <1>8 DEF SeatActs

\* What the seats of the compositor do.
SeatTraffic == SeatAppears \/ \E s \in Seat : SeatActs(s)

LEMMA SeatTyped ==
    ASSUME WireTypeOK, WestonTypeOK, SeatTraffic
    PROVE  WireTypeOK' /\ WestonTypeOK' /\ SendsForSeat
  BY SeatAppearsTyped, SeatActsTyped DEF SeatTraffic

LEMMA SeatTrafficKeeps ==
    SeatTraffic => UNCHANGED <<reqs, flushed, read, conn, alive, violated, role, sent, acked,
                               pools, held, current, closing, pings, pongs, bound, described>>
  <1>1. SeatAppears \/ (\E s \in Seat : SeatAnnounces(s)) =>
            UNCHANGED <<reqs, flushed, read, conn, alive, violated, role, sent, acked,
                        pools, held, current, closing, pings, pongs, bound, described>>
    BY DEF SeatAppears, SeatAnnounces, clientVars
  <1>2. ASSUME NEW s \in Seat, SeatActs(s), ~SeatAnnounces(s)
        PROVE  UNCHANGED <<reqs, flushed, read, conn, alive, violated, role, sent, acked,
                           pools, held, current, closing, pings, pongs, bound, described>>
    BY <1>2 DEF SeatActs, MoveFocus, DeviceInput, TouchDown, TouchUp, TouchCancel, SeatStep
  <1> QED
    BY <1>1, <1>2 DEF SeatTraffic

LEMMA WestonStepTyped ==
    ASSUME WireTypeOK, WestonTypeOK, WestonStep
    PROVE  WireTypeOK' /\ WestonTypeOK' /\ UNCHANGED read
  BY AcceptTyped, WindowEventsTyped, SeatTyped DEF WestonStep, SeatTraffic, SendsForSeat

-----------------------------------------------------------------------------
(* The composed system.                                                     *)

TypeInv == TypeOK /\ ScriptInv

LEMMA NoClientTyped ==
    /\ [h \in Handle |-> "none"] \in [Handle -> {"none", "surface", "xdg_surface", "toplevel"}]
    /\ [h \in Handle |-> 0] \in [Handle -> 0..MaxSerial]
    /\ [h \in Handle |-> {}] \in [Handle -> SUBSET Token]
    /\ [s \in Seat |-> [d \in Device |-> 0]] \in [Seat -> [Device -> Nat]]
    /\ [s \in Seat |-> [d \in Device |-> None]] \in [Seat -> [Device -> 0..MaxApps]]
    /\ [s \in Seat |-> 0] \in [Seat -> 0..MaxTouch]
    /\ 0 \in 0..MaxSerial /\ 0 \in 0..MaxSeats /\ 0 \in Nat
  BY ConstantsTyped, ZeroTyped

LEMMA InitTyped == Init => TypeInv
  <1> SUFFICES ASSUME Init PROVE TypeInv
    OBVIOUS
  <1>1. WireTypeOK
    BY DEF Init, WireInit, WireTypeOK
  <1>2. SeatTypeOK
    BY ConstantsTyped, ZeroTyped DEF Init, SeatInit, CoreInit, NoApps, SeatTypeOK
  <1>2a. CoreTypeOK
    BY ConstantsTyped, ZeroTyped, NoCallTyped DEF Init, CoreInit, NoApps, CoreTypeOK, None
  <1>3. WestonTypeOK
    BY NoClientTyped DEF Init, WestonInit, NoClient, WestonTypeOK
  <1>4. ScriptInv
    BY DEF Init, CoreInit, WireInit, ScriptInv, OneBody, RoomLeft, HandleReady, QueueDrained
  <1> QED
    BY <1>1, <1>2, <1>2a, <1>3, <1>4, ConstantsTyped DEF Init, AbiInit, AbiTypeOK, TypeInv, TypeOK

LEMMA NextTyped == TypeInv /\ [Next]_vars => TypeInv'
  <1> SUFFICES ASSUME TypeInv, [Next]_vars PROVE TypeInv'
    OBVIOUS
  <1>0. LoopInv /\ WestonTypeOK /\ AbiTypeOK /\ starts \in 0..MaxStarts
    BY DEF TypeInv, TypeOK, LoopInv
  <1>1. ASSUME LoopInv', WestonTypeOK', AbiTypeOK', starts' \in 0..MaxStarts
        PROVE  TypeInv'
    BY <1>1 DEF TypeInv, TypeOK, LoopInv
  <1>2. CASE Start
    <2>1. starts' \in 0..MaxStarts /\ AbiTypeOK' /\ seats \in 0..MaxSeats
      BY <1>0, <1>2, ConstantsTyped DEF Start, AnowawStart, AbiTypeOK, WestonTypeOK
    <2>2. WestonTypeOK'
      <3>1. 1..seats \subseteq Seat
        BY <2>1, ConstantsTyped DEF Seat
      <3> QED
        BY <1>0, <1>2, <3>1 DEF Start, ClientConnects, WestonTypeOK
    <2> QED
      BY <1>0, <1>1, <1>2, <2>1, <2>2, StartKeepsLoopInv DEF Start
  <1>3. CASE Stop
    <2>1. starts' = starts /\ AbiTypeOK'
      BY <1>3 DEF Stop, AnowawStop, AbiTypeOK
    <2>2. WestonTypeOK'
      BY <1>0, <1>3, NoClientTyped DEF Stop, ClientGone, WestonTypeOK
    <2> QED
      BY <1>0, <1>1, <1>3, <2>1, <2>2, StopKeepsLoopInv DEF Stop
  <1>4. CASE BridgeStep
    <2>1. AbiStep /\ UNCHANGED westonVars /\ starts' = starts
      BY <1>4 DEF BridgeStep
    <2>2. WestonTypeOK'
      BY <1>0, <2>1 DEF westonVars, clientVars, WestonTypeOK
    <2>3. AbiTypeOK'
      BY <1>0, <2>1 DEF AbiStep, AbiTypeOK, CallBridgeApp, CallPushFrame, CallPollInput,
                        CallCloseRequested, CallCloseApp, CallDispatch, Call
    <2>4. LoopInv'
      BY <1>0, <2>1, CallsKeepLoopInv, CoreStepKeepsLoopInv DEF AbiStep
    <2> QED
      BY <1>0, <1>1, <2>1, <2>2, <2>3, <2>4
  <1>5. CASE CompositorStep
    <2>1. WireTypeOK' /\ WestonTypeOK' /\ read' = read
      BY <1>0, <1>5, WestonStepTyped DEF CompositorStep, LoopInv
    <2>2. /\ UNCHANGED <<live, configured, close_requested, pool, dims, busy, pools_made,
                         devices, focus, input_queue, polled, known, told, next_handle,
                         todo, call>>
          /\ bridge' = bridge /\ starts' = starts
      BY <1>5 DEF CompositorStep, abiVars, coreVars, appVars, seatVars, shimVars
    <2>3. SeatTypeOK' /\ CoreTypeOK' /\ AbiTypeOK'
      BY <1>0, <2>2 DEF LoopInv, SeatTypeOK, CoreTypeOK, AbiTypeOK
    <2>4. ScriptInv'
      BY <1>0, <2>1, <2>2
         DEF LoopInv, ScriptInv, OneBody, RoomLeft, HandleReady, QueueDrained, NeedsNew, At
    <2> QED
      BY <1>0, <1>1, <2>1, <2>2, <2>3, <2>4 DEF LoopInv
  <1>6. CASE UNCHANGED vars
    <2>1. /\ UNCHANGED wireVars /\ UNCHANGED abiVars /\ UNCHANGED westonVars /\ starts' = starts
      BY <1>6 DEF vars
    <2>2. UNCHANGED <<reqs, flushed, evs, read, conn, bridge, live, configured,
                      close_requested, pool, dims, busy, pools_made, devices, focus,
                      input_queue, polled, known, told, next_handle, todo, call>>
      BY <2>1 DEF wireVars, abiVars, coreVars, appVars, seatVars, shimVars
    <2>3. WireTypeOK' /\ SeatTypeOK' /\ CoreTypeOK' /\ AbiTypeOK'
      BY <1>0, <2>2 DEF LoopInv, WireTypeOK, SeatTypeOK, CoreTypeOK, AbiTypeOK
    <2>4. WestonTypeOK'
      BY <1>0, <2>1 DEF westonVars, clientVars, WestonTypeOK
    <2>5. ScriptInv'
      BY <1>0, <2>2
         DEF LoopInv, ScriptInv, OneBody, RoomLeft, HandleReady, QueueDrained, NeedsNew, At
    <2> QED
      BY <1>0, <1>1, <2>1, <2>3, <2>4, <2>5 DEF LoopInv
  <1> QED
    BY <1>2, <1>3, <1>4, <1>5, <1>6 DEF Next, Finished

\* Every variable keeps its type, and every call in progress has a script its bodies can
\* finish: core/src/bridge.rs and ffi.rs, whatever the compositor does in between.
THEOREM TypeInvariance == Spec => []TypeInv
  BY InitTyped, NextTyped, PTL DEF Spec

THEOREM TypeCorrect == Spec => []TypeOK
  <1>1. TypeInv => TypeOK
    BY DEF TypeInv
  <1> QED
    BY <1>1, TypeInvariance, PTL

-----------------------------------------------------------------------------
(* Between two bridges nothing is left of the former one.                   *)

Idle ==
    bridge = "null" =>
        /\ todo = <<>> /\ conn = "none"
        /\ reqs = <<>> /\ flushed = 0 /\ evs = <<>> /\ read = 0
        /\ NoApps /\ SeatInit /\ NoClient

LEMMA StopIdles == Stop => bridge' = "null" /\ Idle'
  BY DEF Stop, AnowawStop, ClientGone, Idle, NoApps, SeatInit, NoClient

\* Without a bridge the compositor has nobody to talk to: it can only get a seat, or die.
LEMMA NobodyToServe == WestonStep /\ conn = "none" => SeatAppears \/ Crash
  BY DEF WestonStep, Accept, SendConfigure, SendClose, Release, SendPing, SeatActs,
         SeatAnnounces, MoveFocus, DeviceInput, TouchDown, TouchUp, TouchCancel, SeatStep

\* Without a bridge no call is in progress.
LEMMA NoCallWithoutBridge == BridgeStep /\ bridge = "null" => todo # <<>>
  BY DEF BridgeStep, AbiStep, CallBridgeApp, CallPushFrame, CallPollInput, CallCloseRequested,
         CallCloseApp, CallDispatch, Call, CoreStep, PumpFlush, PumpFails, PumpRead, PumpDone,
         Deliver, BridgeAppBody, BridgeAppReturn, PushRejected, PushAccepted, PushNoPool,
         PushIntoNewPool, PushIntoPool, PushSkipped, PollInputBody, CloseRequestedBody,
         CloseAppBody, CloseUnknownBody, At

LEMMA InitIdle == Init => Idle
  BY DEF Init, WireInit, CoreInit, WestonInit, Idle

LEMMA NextIdle == Idle /\ [Next]_vars => Idle'
  <1> SUFFICES ASSUME Idle, [Next]_vars PROVE Idle'
    OBVIOUS
  <1>1. CASE Stop
    BY <1>1, StopIdles
  <1>2. CASE Start
    BY <1>2 DEF Start, AnowawStart, Idle
  <1>3. CASE bridge # "null" /\ ~Stop /\ ~Start
    <2>1. bridge' = bridge
      BY <1>3 DEF Next, BridgeStep, AbiStep, CallBridgeApp, CallPushFrame, CallPollInput,
                  CallCloseRequested, CallCloseApp, CallDispatch, Call, CompositorStep, Finished,
                  vars, abiVars
    <2> QED
      BY <1>3, <2>1 DEF Idle
  <1>4. CASE bridge = "null" /\ CompositorStep
    <2>1. (SeatAppears \/ Crash) /\ UNCHANGED abiVars
      BY <1>4, NobodyToServe DEF CompositorStep, Idle
    <2>2. conn' = conn /\ UNCHANGED <<reqs, flushed, evs, read>> /\ UNCHANGED clientVars
      BY <1>4, <2>1 DEF SeatAppears, SendEvents, Crash, PeerGone, Idle
    <2>3. /\ bridge' = bridge /\ todo' = todo
          /\ UNCHANGED <<live, configured, close_requested, pool, dims, busy>>
          /\ UNCHANGED <<devices, focus, input_queue, polled>>
      BY <2>1 DEF abiVars, coreVars, appVars, seatVars
    <2>4. NoApps' /\ SeatInit'
      BY <1>4, <2>3 DEF Idle, NoApps, SeatInit
    <2>5. NoClient'
      BY <1>4, <2>2 DEF Idle, NoClient, clientVars
    <2> QED
      BY <1>4, <2>2, <2>3, <2>4, <2>5 DEF Idle
  <1>5. CASE bridge = "null" /\ BridgeStep
    BY <1>5, NoCallWithoutBridge DEF Idle
  <1>6. CASE UNCHANGED vars
    BY <1>6 DEF vars, wireVars, abiVars, coreVars, appVars, seatVars, westonVars, clientVars,
                Idle, NoApps, SeatInit, NoClient
  <1> QED
    BY <1>1, <1>2, <1>3, <1>4, <1>5, <1>6 DEF Next, Finished

LEMMA IdleInvariance == Spec => []Idle
  BY InitIdle, NextIdle, PTL DEF Spec
=============================================================================
