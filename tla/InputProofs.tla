---------------------------- MODULE InputProofs ----------------------------
(***************************************************************************)
(* Proofs that input reaches the app it is meant for or nobody, that the   *)
(* shim is given each input once and in order, and that of whatever a seat *)
(* has a device is asked for: RoutedToTarget, InputInOrder and             *)
(* DevicesAsked of BridgeSystem, for every value of the constants.         *)
(***************************************************************************)
EXTENDS BufferProofs

-----------------------------------------------------------------------------
(* The invariant.                                                           *)

\* At most one message of the sequence has the type.
Sole(seq, type) == \A i, j \in DOMAIN seq : seq[i].type = type /\ seq[j].type = type => i = j

\* A device of a kind is taken once, from one seat: the one request for it is on its
\* way, or it is bound.
TakenOnce(d) ==
    /\ \A s \in Seat : bound[s][d] \in {0, 1}
    /\ \A s, u \in Seat : bound[s][d] = 1 /\ bound[u][d] = 1 => s = u
    /\ Sole(reqs, GetType(d))
    /\ (\E s \in Seat : bound[s][d] = 1) \/ d \notin devices => Quiet(reqs, GetType(d))
    /\ d \notin devices => \A s \in Seat : bound[s][d] = 0

DeviceInv == \A d \in Device : TakenOnce(d)

\* The stamps of a sequence of device events rise from above all that is decoded, up to last.
Timely(seq, last) ==
    /\ \A j \in DOMAIN seq : seq[j].type \in DeviceType =>
           /\ polled < seq[j].serial /\ seq[j].serial <= last
           /\ \A i \in DOMAIN input_queue : input_queue[i].stamp < seq[j].serial
    /\ \A i, j \in DOMAIN seq :
           /\ i < j /\ seq[i].type \in DeviceType /\ seq[j].type \in DeviceType
           => seq[i].serial < seq[j].serial

Past(last) == polled <= last /\ \A i \in DOMAIN input_queue : input_queue[i].stamp <= last

OrderInv == InputInOrder /\ Timely(evs, stamp) /\ Past(stamp)

\* The events that change the focus of a device, those that give it to an app, and
\* those that are decoded for the app that has it.
Sets(m, d) ==
    \/ d = "keyboard" /\ m.type \in {"keyboard_enter", "keyboard_leave"}
    \/ d = "pointer" /\ m.type \in {"pointer_enter", "pointer_leave"}
    \/ d = "touch" /\ m.type \in {"touch_down", "touch_cancel"}

Enters(m, d) ==
    \/ d = "keyboard" /\ m.type = "keyboard_enter"
    \/ d = "pointer" /\ m.type = "pointer_enter"
    \/ d = "touch" /\ m.type = "touch_down"

Needs(m, d) ==
    \/ d = "keyboard" /\ m.type = "keyboard_input"
    \/ d = "pointer" /\ m.type \in {"pointer_leave", "pointer_input"}
    \/ d = "touch" /\ m.type = "touch_input"

\* With f in focus now, the focus before event i will be t or nobody.
Leads(seq, i, d, f, t) ==
    /\ (\A l \in DOMAIN seq : l < i => ~Sets(seq[l], d)) => f \in {None, t}
    /\ \A j \in DOMAIN seq :
           /\ j < i /\ Enters(seq[j], d)
           /\ \A l \in DOMAIN seq : j < l /\ l < i => ~Sets(seq[l], d)
           => seq[j].handle = t

\* The events on their way find the focus they need, and so would one for g.
Routed(seq, d, f, g) ==
    /\ \A i \in DOMAIN seq : Needs(seq[i], d) => Leads(seq, i, d, f, seq[i].handle)
    /\ g # None => Leads(seq, Len(seq) + 1, d, f, g)

\* The app that the next event of a device the bridge has would be sent to.
Meant(s, d) == IF conn = "up" /\ bound[s][d] > 0 THEN seat_focus[s][d] ELSE None

Unset(seq, d) == \A i \in DOMAIN seq : ~Sets(seq[i], d)

FocusInv ==
    \A d \in Device :
        /\ \A s \in Seat : Routed(evs, d, focus[d], Meant(s, d))
        /\ (\A s \in Seat : bound[s][d] = 0) => focus[d] = None /\ Unset(evs, d)

InputInv == DeviceInv /\ OrderInv /\ RoutedToTarget /\ FocusInv

-----------------------------------------------------------------------------
(* Sequences of requests and events.                                        *)

LEMMA SoleConcat ==
    ASSUME NEW M, NEW seq \in Seq(M), NEW ms \in Seq(M), NEW type,
           Sole(seq, type), Sole(ms, type), Quiet(seq, type) \/ Quiet(ms, type)
    PROVE  Sole(seq \o ms, type)
  <1> DEFINE all == seq \o ms
  <1>1. \A i \in DOMAIN all : \/ i \in DOMAIN seq /\ all[i] = seq[i]
                              \/ \E k \in DOMAIN ms : i = Len(seq) + k /\ all[i] = ms[k]
    BY ConcatFacts
  <1> HIDE DEF all
  <1>2. ASSUME Quiet(seq, type)
        PROVE  Sole(all, type)
    BY <1>1, <1>2 DEF Sole, Quiet
  <1>3. ASSUME Quiet(ms, type)
        PROVE  Sole(all, type)
    BY <1>1, <1>3 DEF Sole, Quiet
  <1>4. Sole(all, type)
    BY <1>2, <1>3
  <1> QED
    BY <1>4 DEF all

LEMMA SoleTail ==
    ASSUME NEW M, NEW seq \in Seq(M), seq # <<>>, NEW type, Sole(seq, type)
    PROVE  /\ Sole(Tail(seq), type)
           /\ Quiet(seq, type) => Quiet(Tail(seq), type)
           /\ Head(seq).type = type => Quiet(Tail(seq), type)
  <1> DEFINE rest == Tail(seq)
  <1>1. /\ \A i \in DOMAIN rest : i \in Nat /\ i > 0 /\ i + 1 \in DOMAIN seq /\ rest[i] = seq[i + 1]
        /\ 1 \in DOMAIN seq /\ seq[1] = Head(seq)
    OBVIOUS
  <1> HIDE DEF rest
  <1>2. \A i, j \in DOMAIN rest : i + 1 = j + 1 => i = j
    BY <1>1
  <1>3. Sole(rest, type)
    BY <1>1, <1>2 DEF Sole
  <1>4. Quiet(seq, type) => Quiet(rest, type)
    BY <1>1 DEF Quiet
  <1>5. \A i \in DOMAIN rest : i + 1 # 1
    BY <1>1
  <1>6. Head(seq).type = type => Quiet(rest, type)
    BY <1>1, <1>5 DEF Sole, Quiet
  <1> QED
    BY <1>3, <1>4, <1>6 DEF rest

\* The places of a sequence with one message more, and of its tail.
LEMMA MorePlaces ==
    ASSUME NEW M, NEW seq \in Seq(M), NEW m \in M
    PROVE  /\ Len(seq) \in Nat /\ Len(seq \o <<m>>) = Len(seq) + 1
           /\ seq \o <<m>> \in Seq(M)
           /\ \A i \in DOMAIN seq : /\ i \in Nat /\ i < Len(seq) + 1
                                   /\ i \in DOMAIN (seq \o <<m>>) /\ (seq \o <<m>>)[i] = seq[i]
           /\ \A i \in DOMAIN (seq \o <<m>>) :
                  i \in Nat /\ (i \in DOMAIN seq \/ (i = Len(seq) + 1 /\ (seq \o <<m>>)[i] = m))
           /\ Len(seq) + 1 \in DOMAIN (seq \o <<m>>) /\ (seq \o <<m>>)[Len(seq) + 1] = m
  OBVIOUS

LEMMA TailPlaces ==
    ASSUME NEW M, NEW seq \in Seq(M), seq # <<>>
    PROVE  /\ Len(seq) \in Nat /\ Len(Tail(seq)) = Len(seq) - 1 /\ Tail(seq) \in Seq(M)
           /\ \A i \in DOMAIN Tail(seq) :
                  i \in Nat /\ i > 0 /\ i + 1 \in DOMAIN seq /\ Tail(seq)[i] = seq[i + 1]
           /\ \A i \in DOMAIN seq :
                  i \in Nat /\ (i = 1 \/ (i > 1 /\ i - 1 \in DOMAIN Tail(seq) /\ Tail(seq)[i - 1] = seq[i]))
           /\ 1 \in DOMAIN seq /\ seq[1] = Head(seq) /\ Head(seq) \in M
  OBVIOUS

LEMMA TimelyMore ==
    ASSUME NEW M, NEW seq \in Seq(M), NEW m \in M, NEW last \in Nat, NEW later \in Nat,
           Timely(seq, last), Past(last), m.serial \in last + 1..later,
           polled \in Nat, \A i \in DOMAIN input_queue : input_queue[i].stamp \in Nat,
           \A j \in DOMAIN seq : seq[j].serial \in Nat
    PROVE  Timely(seq \o <<m>>, later) /\ Past(later)
  <1> DEFINE all == seq \o <<m>>
             n == Len(seq) + 1
  <1>1. /\ \A i \in DOMAIN all : i \in Nat /\ (i \in DOMAIN seq \/ (i = n /\ all[i] = m))
        /\ \A i \in DOMAIN seq : i \in Nat /\ i < n /\ all[i] = seq[i]
        /\ n \in Nat
    BY MorePlaces
  <1> HIDE DEF all, n
  <1>2. last < m.serial /\ m.serial <= later /\ last < later
    OBVIOUS
  <1>3. /\ polled < m.serial
        /\ \A i \in DOMAIN input_queue : input_queue[i].stamp < m.serial
        /\ Past(later)
    BY <1>2 DEF Past
  <1>4. \A j \in DOMAIN seq : seq[j].type \in DeviceType =>
            seq[j].serial < m.serial /\ seq[j].serial <= later
    BY <1>2 DEF Timely
  <1>5. ASSUME NEW j \in DOMAIN all, all[j].type \in DeviceType
        PROVE  /\ polled < all[j].serial /\ all[j].serial <= later
               /\ \A i \in DOMAIN input_queue : input_queue[i].stamp < all[j].serial
    BY <1>1, <1>2, <1>3, <1>4, <1>5 DEF Timely
  <1>6. ASSUME NEW i \in DOMAIN all, NEW j \in DOMAIN all, i < j,
               all[i].type \in DeviceType, all[j].type \in DeviceType
        PROVE  all[i].serial < all[j].serial
    <2>1. i \in DOMAIN seq /\ all[i] = seq[i]
      BY <1>1, <1>6
    <2>2. CASE j \in DOMAIN seq
      BY <1>1, <1>6, <2>1, <2>2 DEF Timely
    <2>3. CASE all[j] = m
      BY <1>4, <1>6, <2>1, <2>3
    <2> QED
      BY <1>1, <2>2, <2>3
  <1>7. Timely(all, later)
    BY <1>5, <1>6 DEF Timely
  <1> QED
    BY <1>3, <1>7 DEF all

\* A message that carries no stamp.
LEMMA TimelyAside ==
    ASSUME NEW M, NEW seq \in Seq(M), NEW m \in M, NEW last, Timely(seq, last),
           m.type \notin DeviceType
    PROVE  Timely(seq \o <<m>>, last)
  <1> DEFINE all == seq \o <<m>>
  <1>1. \A i \in DOMAIN all : all[i].type \in DeviceType => i \in DOMAIN seq /\ all[i] = seq[i]
    BY MorePlaces
  <1> HIDE DEF all
  <1>2. Timely(all, last)
    BY <1>1 DEF Timely
  <1> QED
    BY <1>2 DEF all

LEMMA TimelyTail ==
    ASSUME NEW M, NEW seq \in Seq(M), seq # <<>>, NEW last, Timely(seq, last)
    PROVE  /\ Timely(Tail(seq), last)
           /\ Head(seq).type \in DeviceType =>
                  \A j \in DOMAIN Tail(seq) :
                      Tail(seq)[j].type \in DeviceType => Head(seq).serial < Tail(seq)[j].serial
  <1> DEFINE rest == Tail(seq)
  <1>1. /\ \A i \in DOMAIN rest : /\ i \in Nat /\ i + 1 \in DOMAIN seq /\ rest[i] = seq[i + 1]
                                  /\ 1 < i + 1
        /\ 1 \in DOMAIN seq /\ seq[1] = Head(seq)
    BY TailPlaces
  <1> HIDE DEF rest
  <1>2. \A i, j \in DOMAIN rest : i < j => i + 1 < j + 1
    BY <1>1
  <1>3. Timely(rest, last)
    BY <1>1, <1>2 DEF Timely
  <1>4. Head(seq).type \in DeviceType =>
            \A j \in DOMAIN rest : rest[j].type \in DeviceType => Head(seq).serial < rest[j].serial
    BY <1>1 DEF Timely
  <1> QED
    BY <1>3, <1>4 DEF rest

\* The oldest event is taken: what gives the focus to an app gives it to that app or to
\* nobody, and what takes the focus away gives it to nobody.
Hands(m, d, f, g) ==
    \/ g = None
    \/ ~Sets(m, d) /\ g = f
    \/ Enters(m, d) /\ g = m.handle

LEMMA LeadsTail ==
    ASSUME NEW M, NEW seq \in Seq(M), seq # <<>>, NEW d, NEW f, NEW g, NEW t, NEW i \in Nat, i > 1,
           Leads(seq, i, d, f, t), Hands(Head(seq), d, f, g)
    PROVE  Leads(Tail(seq), i - 1, d, g, t)
  <1> DEFINE rest == Tail(seq)
  <1>1. /\ \A l \in DOMAIN rest : l \in Nat /\ l > 0 /\ l + 1 \in DOMAIN seq /\ rest[l] = seq[l + 1]
        /\ \A l \in DOMAIN seq :
               l \in Nat /\ (l = 1 \/ (l > 1 /\ l - 1 \in DOMAIN rest /\ rest[l - 1] = seq[l]))
        /\ 1 \in DOMAIN seq /\ seq[1] = Head(seq)
    BY TailPlaces
  <1> HIDE DEF rest
  <1>2. ASSUME \A l \in DOMAIN rest : l < i - 1 => ~Sets(rest[l], d)
        PROVE  g \in {None, t}
    <2>1. \A l \in DOMAIN seq : 1 < l /\ l < i => ~Sets(seq[l], d)
      BY <1>1, <1>2
    <2>2. CASE Enters(Head(seq), d)
      <3>1. Head(seq).handle = t
        BY <1>1, <2>1, <2>2 DEF Leads
      <3>2. Sets(Head(seq), d)
        BY <2>2 DEF Enters, Sets
      <3> QED
        BY <3>1, <3>2 DEF Hands
    <2>3. CASE ~Sets(Head(seq), d)
      <3>1. \A l \in DOMAIN seq : l < i => ~Sets(seq[l], d)
        BY <1>1, <2>1, <2>3
      <3>2. f \in {None, t}
        BY <3>1 DEF Leads
      <3>3. ~Enters(Head(seq), d)
        BY <2>3 DEF Enters, Sets
      <3> QED
        BY <3>2, <3>3 DEF Hands
    <2>4. CASE Sets(Head(seq), d) /\ ~Enters(Head(seq), d)
      BY <2>4 DEF Hands
    <2> QED
      BY <2>2, <2>3, <2>4
  <1>3. ASSUME NEW j \in DOMAIN rest, j < i - 1, Enters(rest[j], d),
               \A l \in DOMAIN rest : j < l /\ l < i - 1 => ~Sets(rest[l], d)
        PROVE  rest[j].handle = t
    <2>1. j + 1 \in DOMAIN seq /\ rest[j] = seq[j + 1] /\ j + 1 < i
      BY <1>1, <1>3
    <2>2. ASSUME NEW l \in DOMAIN seq, j + 1 < l, l < i
          PROVE  ~Sets(seq[l], d)
      <3>1. l - 1 \in DOMAIN rest /\ rest[l - 1] = seq[l] /\ j < l - 1 /\ l - 1 < i - 1
        BY <1>1, <2>2
      <3> QED
        BY <1>3, <3>1
    <2> QED
      BY <1>3, <2>1, <2>2 DEF Leads
  <1>4. Leads(rest, i - 1, d, g, t)
    BY <1>2, <1>3 DEF Leads
  <1> QED
    BY <1>4 DEF rest

\* What a place before the end finds does not depend on what comes behind it.
LEMMA LeadsFront ==
    ASSUME NEW M, NEW seq \in Seq(M), NEW m \in M, NEW d, NEW f, NEW t, NEW i \in Nat,
           i <= Len(seq) + 1, Leads(seq, i, d, f, t)
    PROVE  Leads(seq \o <<m>>, i, d, f, t)
  <1> DEFINE all == seq \o <<m>>
             n == Len(seq) + 1
  <1>1. /\ \A l \in DOMAIN all : l \in Nat /\ (l \in DOMAIN seq \/ l = n)
        /\ \A l \in DOMAIN seq : l \in DOMAIN all /\ all[l] = seq[l]
        /\ n \in Nat /\ i <= n
    BY MorePlaces
  <1> HIDE DEF all, n
  <1>2. \A l \in DOMAIN all : l < i => l \in DOMAIN seq
    BY <1>1
  <1>3. Leads(all, i, d, f, t)
    <2>1. ASSUME \A l \in DOMAIN all : l < i => ~Sets(all[l], d)
          PROVE  f \in {None, t}
      BY <1>1, <2>1 DEF Leads
    <2>2. ASSUME NEW j \in DOMAIN all, j < i, Enters(all[j], d),
                 \A l \in DOMAIN all : j < l /\ l < i => ~Sets(all[l], d)
          PROVE  all[j].handle = t
      <3>1. j \in DOMAIN seq /\ all[j] = seq[j]
        BY <1>1, <1>2, <2>2
      <3>2. \A l \in DOMAIN seq : j < l /\ l < i => ~Sets(seq[l], d)
        BY <1>1, <2>2
      <3> QED
        BY <2>2, <3>1, <3>2 DEF Leads
    <2> QED
      BY <2>1, <2>2 DEF Leads
  <1> QED
    BY <1>3 DEF all

\* What a place at the end finds once another message is there.
LEMMA LeadsMore ==
    ASSUME NEW M, NEW seq \in Seq(M), NEW m \in M, NEW d, NEW f, NEW t,
           \/ ~Sets(m, d) /\ Leads(seq, Len(seq) + 1, d, f, t)
           \/ Enters(m, d) /\ m.handle = t
           \/ Sets(m, d) /\ ~Enters(m, d)
    PROVE  Leads(seq \o <<m>>, Len(seq \o <<m>>) + 1, d, f, t)
  <1> DEFINE all == seq \o <<m>>
             n == Len(seq) + 1
  <1>1. /\ \A l \in DOMAIN all : l \in Nat /\ (l \in DOMAIN seq \/ l = n) /\ l < n + 1
        /\ \A l \in DOMAIN seq : l \in DOMAIN all /\ all[l] = seq[l] /\ l < n /\ l \in Nat
        /\ n \in Nat /\ n \in DOMAIN all /\ all[n] = m /\ Len(all) = n
    BY MorePlaces
  <1>2. \/ ~Sets(m, d) /\ Leads(seq, n, d, f, t)
        \/ Enters(m, d) /\ m.handle = t
        \/ Sets(m, d) /\ ~Enters(m, d)
    OBVIOUS
  <1> HIDE DEF all, n
  <1>3. Enters(m, d) => Sets(m, d)
    BY DEF Enters, Sets
  <1>4. ASSUME \A l \in DOMAIN all : l < n + 1 => ~Sets(all[l], d)
        PROVE  f \in {None, t}
    <2>1. ~Sets(m, d) /\ \A l \in DOMAIN seq : l < n => ~Sets(seq[l], d)
      BY <1>1, <1>4
    <2> QED
      BY <1>2, <1>3, <2>1 DEF Leads
  <1>5. ASSUME NEW j \in DOMAIN all, j < n + 1, Enters(all[j], d),
               \A l \in DOMAIN all : j < l /\ l < n + 1 => ~Sets(all[l], d)
        PROVE  all[j].handle = t
    <2>1. CASE j = n
      BY <1>1, <1>2, <1>3, <1>5, <2>1
    <2>2. CASE j \in DOMAIN seq
      <3>1. j < n /\ all[j] = seq[j] /\ ~Sets(m, d)
        BY <1>1, <1>5, <2>2
      <3>2. \A l \in DOMAIN seq : j < l /\ l < n => ~Sets(seq[l], d)
        BY <1>1, <1>5
      <3> QED
        BY <1>2, <1>3, <1>5, <2>2, <3>1, <3>2 DEF Leads
    <2> QED
      BY <1>1, <2>1, <2>2
  <1>6. Leads(all, n + 1, d, f, t)
    BY <1>4, <1>5 DEF Leads
  <1> QED
    BY <1>1, <1>6 DEF all

\* A message for a device, and the app the next one would be for.
Suits(m, d, g, next) ==
    /\ Needs(m, d) => g # None /\ m.handle = g
    /\ \/ next = None
       \/ ~Sets(m, d) /\ next = g
       \/ Enters(m, d) /\ m.handle = next

LEMMA RoutedMore ==
    ASSUME NEW M, NEW seq \in Seq(M), NEW m \in M, NEW d, NEW f, NEW g, NEW next,
           Routed(seq, d, f, g), Suits(m, d, g, next)
    PROVE  Routed(seq \o <<m>>, d, f, next)
  <1> DEFINE all == seq \o <<m>>
             n == Len(seq) + 1
  <1>1. /\ \A i \in DOMAIN all : i \in Nat /\ (i \in DOMAIN seq \/ (i = n /\ all[i] = m))
        /\ \A i \in DOMAIN seq : i \in Nat /\ i < n /\ all[i] = seq[i]
        /\ n \in Nat
    BY MorePlaces
  <1>2. \A t : \A i \in Nat : i <= n /\ Leads(seq, i, d, f, t) => Leads(all, i, d, f, t)
    BY LeadsFront
  <1> HIDE DEF all, n
  <1>3. ASSUME NEW i \in DOMAIN all, Needs(all[i], d)
        PROVE  Leads(all, i, d, f, all[i].handle)
    <2>1. i \in Nat /\ i <= n
      BY <1>1
    <2>2. Leads(seq, i, d, f, all[i].handle)
      <3>1. CASE i \in DOMAIN seq
        <4>1. all[i] = seq[i]
          BY <1>1, <3>1
        <4> QED
          BY <1>3, <3>1, <4>1 DEF Routed
      <3>2. CASE i = n /\ all[i] = m
        BY <1>3, <3>2 DEF Routed, Suits, n
      <3> QED
        BY <1>1, <3>1, <3>2
    <2> QED
      BY <1>2, <2>1, <2>2
  <1>4. ASSUME next # None
        PROVE  Leads(all, Len(all) + 1, d, f, next)
    <2>1. (~Sets(m, d) /\ next = g) \/ (Enters(m, d) /\ m.handle = next)
      BY <1>4 DEF Suits
    <2>2. next = g => Leads(seq, Len(seq) + 1, d, f, next)
      BY <1>4 DEF Routed
    <2> QED
      BY <2>1, <2>2, LeadsMore DEF all
  <1> QED
    BY <1>3, <1>4 DEF Routed, all

LEMMA RoutedTail ==
    ASSUME NEW M, NEW seq \in Seq(M), seq # <<>>, NEW d, NEW f, NEW next, NEW g,
           Routed(seq, d, f, g), Hands(Head(seq), d, f, next)
    PROVE  Routed(Tail(seq), d, next, g)
  <1> DEFINE rest == Tail(seq)
  <1>1. /\ \A i \in DOMAIN rest : i \in Nat /\ i > 0 /\ i + 1 \in DOMAIN seq /\ rest[i] = seq[i + 1]
        /\ Len(seq) \in Nat /\ Len(seq) > 0 /\ Len(rest) = Len(seq) - 1
    BY TailPlaces
  <1>2. \A t : \A i \in Nat : i > 1 /\ Leads(seq, i, d, f, t) => Leads(rest, i - 1, d, next, t)
    BY LeadsTail
  <1> HIDE DEF rest
  <1>3. ASSUME NEW i \in DOMAIN rest, Needs(rest[i], d)
        PROVE  Leads(rest, i, d, next, rest[i].handle)
    <2>1. Leads(seq, i + 1, d, f, rest[i].handle)
      BY <1>1, <1>3 DEF Routed
    <2>2. i + 1 \in Nat /\ i + 1 > 1 /\ (i + 1) - 1 = i
      BY <1>1
    <2> QED
      BY <1>2, <2>1, <2>2
  <1>4. ASSUME g # None
        PROVE  Leads(rest, Len(rest) + 1, d, next, g)
    <2>1. Leads(seq, Len(seq) + 1, d, f, g)
      BY <1>4 DEF Routed
    <2>2. Len(seq) + 1 \in Nat /\ Len(seq) + 1 > 1 /\ (Len(seq) + 1) - 1 = Len(rest) + 1
      BY <1>1
    <2> QED
      BY <1>2, <2>1, <2>2
  <1>5. Routed(rest, d, next, g)
    BY <1>3, <1>4 DEF Routed
  <1> QED
    BY <1>5 DEF rest

\* Nobody has the focus and nobody gets it: whoever is meant is not misled.
LEMMA RoutedUnset ==
    ASSUME NEW M, NEW seq \in Seq(M), NEW d, NEW g, Unset(seq, d)
    PROVE  Routed(seq, d, None, g)
  <1>1. \A m : Enters(m, d) => Sets(m, d)
    BY DEF Enters, Sets
  <1>2. \A i, t : Leads(seq, i, d, None, t)
    BY <1>1 DEF Leads, Unset
  <1> QED
    BY <1>2 DEF Routed

\* The seat's events are what they were.
LEMMA RoutedSame ==
    ASSUME NEW M, NEW seq \in Seq(M), NEW new \in Seq(M), NEW d, NEW f, NEW g,
           Len(new) = Len(seq), DOMAIN new = DOMAIN seq,
           \A i \in DOMAIN seq :
               new[i] = seq[i] \/ (~Sets(new[i], d) /\ ~Sets(seq[i], d) /\ ~Needs(new[i], d)),
           Routed(seq, d, f, g)
    PROVE  Routed(new, d, f, g)
  <1>1. \A m : Enters(m, d) => Sets(m, d)
    BY DEF Enters, Sets
  <1>2. /\ \A i \in DOMAIN seq : Sets(new[i], d) = Sets(seq[i], d)
        /\ \A i \in DOMAIN seq : Enters(new[i], d) => new[i] = seq[i]
        /\ \A i \in DOMAIN seq : Needs(new[i], d) => new[i] = seq[i]
    BY <1>1 DEF Sets
  <1>3. ASSUME NEW i, NEW t, Leads(seq, i, d, f, t)
        PROVE  Leads(new, i, d, f, t)
    BY <1>1, <1>2, <1>3 DEF Leads
  <1> QED
    BY <1>2, <1>3 DEF Routed

-----------------------------------------------------------------------------
(* Devices are taken once.                                                  *)

GetTypes == {"get_keyboard", "get_pointer", "get_touch"}

NoGets(ms) == \A k \in DOMAIN ms : ms[k].type \notin GetTypes

LEMMA Gets ==
    /\ \A d \in Device : GetType(d) \in GetTypes /\ DeviceOf(GetType(d)) = d
    /\ \A c, d \in Device : GetType(c) = GetType(d) => c = d
    /\ \A type \in GetTypes : DeviceOf(type) \in Device /\ GetType(DeviceOf(type)) = type
  BY DEF Device, GetType, GetTypes, DeviceOf

LEMMA OneNoGets ==
    ASSUME NEW type, type \notin GetTypes, NEW h, NEW p, NEW s, NEW n
    PROVE  NoGets(<<Msg(type, h, p, s, n)>>)
  BY DEF NoGets, Msg

LEMMA UnpromptedNoGets ==
    ASSUME NEW ms, Unprompted(ms)
    PROVE  NoGets(ms)
  BY DEF Unprompted, AnswerType, NoGets, GetTypes

LEMMA DevicesKeep ==
    ASSUME TypeInv, DeviceInv, UNCHANGED <<devices, bound>>,
           \/ UNCHANGED reqs
           \/ reqs' = <<>>
           \/ \E ms \in Seq(Request) : NoGets(ms) /\ Emit(ms)
    PROVE  DeviceInv'
  <1>1. reqs \in Seq(Request)
    BY DEF TypeInv, TypeOK, WireTypeOK
  <1>2. ASSUME NEW d \in Device
        PROVE  /\ Sole(reqs', GetType(d))
               /\ Quiet(reqs, GetType(d)) => Quiet(reqs', GetType(d))
    <2>1. CASE UNCHANGED reqs
      BY <2>1 DEF DeviceInv, TakenOnce
    <2>2. CASE reqs' = <<>>
      BY <2>2 DEF Sole, Quiet
    <2>3. ASSUME NEW ms \in Seq(Request), NoGets(ms), reqs' = reqs \o ms
          PROVE  /\ Sole(reqs', GetType(d))
                 /\ Quiet(reqs, GetType(d)) => Quiet(reqs', GetType(d))
      <3>1. Quiet(ms, GetType(d)) /\ Sole(ms, GetType(d))
        BY <2>3, Gets DEF NoGets, Quiet, Sole
      <3> QED
        BY <1>1, <2>3, <3>1, SoleConcat, QuietConcat DEF DeviceInv, TakenOnce
    <2> QED
      BY <2>1, <2>2, <2>3 DEF Emit
  <1> QED
    BY <1>2 DEF DeviceInv, TakenOnce

LEMMA CapabilitiesAsk ==
    ASSUME NEW s \in Seat, NEW d \in Device
    PROVE  LET ms == GetDevice(s, "keyboard", "get_keyboard")
                     \o GetDevice(s, "pointer", "get_pointer")
                     \o GetDevice(s, "touch", "get_touch")
           IN  /\ ms \in Seq(Request) /\ Sole(ms, GetType(d))
               /\ d \notin Capabilities(s) \ devices => Quiet(ms, GetType(d))
  <1> DEFINE k == GetDevice(s, "keyboard", "get_keyboard")
             p == GetDevice(s, "pointer", "get_pointer")
             t == GetDevice(s, "touch", "get_touch")
             u == GetType(d)
             free == d \notin Capabilities(s) \ devices
  <1>1. k \in Seq(Request) /\ p \in Seq(Request) /\ t \in Seq(Request)
    BY GetDeviceTyped
  <1>2. ASSUME NEW c, NEW type
        PROVE  /\ Sole(GetDevice(s, c, type), u)
               /\ type # u => Quiet(GetDevice(s, c, type), u)
               /\ c \notin Capabilities(s) \ devices => Quiet(GetDevice(s, c, type), u)
    <2>1. /\ Sole(<<>>, u) /\ Quiet(<<>>, u)
          /\ \A m : Sole(<<m>>, u) /\ (m.type # u => Quiet(<<m>>, u))
      BY DEF Sole, Quiet
    <2>2. Msg(type, None, None, 0, s).type = type
      BY DEF Msg
    <2> QED
      BY <2>1, <2>2 DEF GetDevice
  <1>3. /\ Sole(k, u) /\ Sole(p, u) /\ Sole(t, u)
        /\ Quiet(k, u) \/ Quiet(p, u)
        /\ Quiet(t, u) \/ (Quiet(k, u) /\ Quiet(p, u))
        /\ free => Quiet(k, u) /\ Quiet(p, u) /\ Quiet(t, u)
    <2>1. d = "keyboard" => u = "get_keyboard"
      BY DEF GetType
    <2>2. d = "pointer" => u = "get_pointer"
      BY DEF GetType
    <2>3. d = "touch" => u = "get_touch"
      BY DEF GetType
    <2> HIDE DEF u
    <2> QED
      BY <1>2, <2>1, <2>2, <2>3 DEF Device
  <1> HIDE DEF k, p, t, u, free
  <1> DEFINE kp == k \o p
  <1>4. kp \in Seq(Request) /\ Sole(kp, u)
    BY <1>1, <1>3, SoleConcat
  <1>5. Quiet(k, u) /\ Quiet(p, u) => Quiet(kp, u)
    BY <1>1, QuietConcat
  <1> HIDE DEF kp
  <1>6. /\ kp \o t \in Seq(Request) /\ Sole(kp \o t, u)
        /\ free => Quiet(kp \o t, u)
    BY <1>1, <1>3, <1>4, <1>5, SoleConcat, QuietConcat
  <1> QED
    BY <1>6 DEF k, p, t, u, kp, free

LEMMA CapabilitiesTake ==
    ASSUME TypeInv, DeviceInv, OnCapabilities, UNCHANGED bound
    PROVE  DeviceInv'
  <1> DEFINE s == NextEvent.serial
             ms == GetDevice(s, "keyboard", "get_keyboard")
                   \o GetDevice(s, "pointer", "get_pointer")
                   \o GetDevice(s, "touch", "get_touch")
  <1>0. s \in Seat
    BY DropTyped, EventFields DEF OnCapabilities, TypeInv, TypeOK, SeatType
  <1>1. \A d \in Device : /\ ms \in Seq(Request) /\ Sole(ms, GetType(d))
                          /\ d \notin Capabilities(s) \ devices => Quiet(ms, GetType(d))
    BY <1>0, CapabilitiesAsk
  <1>2. Emit(ms) /\ devices' = devices \union Capabilities(s)
    BY DEF OnCapabilities
  <1>3. reqs \in Seq(Request)
    BY DEF TypeInv, TypeOK, WireTypeOK
  <1> HIDE DEF ms
  <1>4. SUFFICES ASSUME NEW d \in Device PROVE TakenOnce(d)'
    BY DEF DeviceInv
  <1>5. TakenOnce(d)
    BY DEF DeviceInv
  <1>6. CASE reqs' = reqs
    BY <1>2, <1>5, <1>6 DEF TakenOnce
  <1>7. CASE reqs' = reqs \o ms
    <2>1. CASE d \notin Capabilities(s) \ devices
      <3>1. /\ Sole(reqs', GetType(d))
            /\ Quiet(reqs, GetType(d)) => Quiet(reqs', GetType(d))
        BY <1>1, <1>3, <1>5, <1>7, <2>1, SoleConcat, QuietConcat DEF TakenOnce
      <3> QED
        BY <1>2, <1>5, <2>1, <3>1 DEF TakenOnce
    <2>2. CASE d \in Capabilities(s) \ devices
      <3>1. Sole(reqs', GetType(d))
        BY <1>1, <1>3, <1>5, <1>7, <2>2, SoleConcat DEF TakenOnce
      <3> QED
        BY <1>2, <1>5, <2>2, <3>1 DEF TakenOnce
    <2> QED
      BY <2>1, <2>2
  <1> QED
    BY <1>2, <1>6, <1>7 DEF Emit

\* What the compositor does with the oldest request, as far as seats are concerned.
LEMMA AcceptForSeats ==
    ASSUME TypeInv, Accept
    PROVE  /\ reqs # <<>> /\ reqs' = Tail(reqs) /\ Head(reqs) = Oldest
           /\ conn = "up" /\ UNCHANGED <<read, stamp>>
           /\ Oldest.type \in SeatType => Oldest.serial \in Seat
           /\ \/ Oldest.type \notin GetTypes /\ UNCHANGED bound
              \/ /\ Oldest.type \in GetTypes /\ UNCHANGED <<evs, conn, seat_focus>>
                 /\ bound' = [bound EXCEPT ![Oldest.serial][DeviceOf(Oldest.type)] = @ + 1]
           /\ conn' = "up" \/ conn' = "hup"
           /\ \A s \in Seat, d \in Device : seat_focus'[s][d] \in {None, seat_focus[s][d]}
           /\ \/ UNCHANGED evs
              \/ /\ Oldest.type = "bind_seat"
                 /\ <<Msg("capabilities", None, None, 0, Oldest.serial)>> \in Seq(SeatEvent)
                 /\ evs' = evs \o <<Msg("capabilities", None, None, 0, Oldest.serial)>>
  <1>1. /\ reqs # <<>> /\ reqs' = Tail(reqs) /\ conn = "up"
        /\ Oldest \in Request /\ Head(reqs) = Oldest
    BY TakeTyped DEF Accept, TakeRequest, Oldest, TypeInv, TypeOK, WireTypeOK
  <1>2. Oldest.type \in SeatType => Oldest.serial \in Seat
    BY <1>1, RequestFields
  <1> USE DEF GetTypes
  <1>3. CASE AcceptCreate \/ AcceptCreatePool \/ AcceptDestroyPool \/ AcceptPong
    BY <1>1, <1>2, <1>3 DEF AcceptCreate, AcceptCreatePool, AcceptDestroyPool, AcceptPong
  <1>4. CASE AcceptFrame
    BY <1>1, <1>2, <1>4 DEF AcceptFrame, ProtocolError, PeerGone
  <1>5. CASE AcceptDestroyWindow
    <2>1. /\ Oldest.type \notin GetTypes /\ UNCHANGED <<bound, evs, read, stamp>>
          /\ conn' = "up" \/ conn' = "hup"
      BY <1>1, <1>5 DEF AcceptDestroyWindow, AcceptDestroy, ProtocolError, PeerGone
    <2>2. \A s \in Seat, d \in Device : seat_focus'[s][d] \in {None, seat_focus[s][d]}
      <3>1. ASSUME NEW type, NEW before, NEW after, AcceptDestroy(type, before, after)
            PROVE  \A s \in Seat, d \in Device : seat_focus'[s][d] \in {None, seat_focus[s][d]}
        BY <3>1 DEF AcceptDestroy, ProtocolError
      <3> QED
        BY <1>5, <3>1 DEF AcceptDestroyWindow
    <2> QED
      BY <1>1, <1>2, <2>1, <2>2
  <1>6. CASE AcceptAck
    BY <1>1, <1>2, <1>6 DEF AcceptAck, ProtocolError, PeerGone
  <1>7. CASE AcceptBindSeat
    <2>1. /\ <<Msg("capabilities", None, None, 0, Oldest.serial)>> \in Seq(SeatEvent)
          /\ Oldest.type = "bind_seat"
      BY <1>2, <1>7, SeatNoteTyped DEF AcceptBindSeat, SeatType
    <2> QED
      BY <1>1, <1>2, <1>7, <2>1 DEF AcceptBindSeat, SendEvents
  <1>8. CASE AcceptGetDevice
    BY <1>1, <1>2, <1>8 DEF AcceptGetDevice
  <1> QED
    BY <1>3, <1>4, <1>5, <1>6, <1>7, <1>8 DEF Accept

LEMMA AcceptTakesDevice ==
    ASSUME TypeInv, DeviceInv, Accept, UNCHANGED devices
    PROVE  DeviceInv'
  <1>1. /\ reqs # <<>> /\ reqs' = Tail(reqs) /\ reqs \in Seq(Request)
        /\ bound \in [Seat -> [Device -> Nat]] /\ Head(reqs) = Oldest
        /\ Oldest.type \in GetTypes => Oldest.serial \in Seat
    BY AcceptForSeats DEF TypeInv, TypeOK, WireTypeOK, WestonTypeOK, GetTypes, SeatType
  <1> SUFFICES ASSUME NEW d \in Device PROVE TakenOnce(d)'
    BY DEF DeviceInv
  <1>2. TakenOnce(d)
    BY DEF DeviceInv
  <1>3. /\ Sole(reqs', GetType(d))
        /\ Quiet(reqs, GetType(d)) => Quiet(reqs', GetType(d))
        /\ Oldest.type = GetType(d) => Quiet(reqs', GetType(d))
    BY <1>1, <1>2, SoleTail DEF TakenOnce
  <1>4. CASE Oldest.type = GetType(d)
    <2>1. bound' = [bound EXCEPT ![Oldest.serial][d] = @ + 1] /\ Oldest.serial \in Seat
      BY <1>1, <1>4, AcceptForSeats, Gets
    <2>2. ~Quiet(reqs, GetType(d))
      BY <1>1, <1>4 DEF Quiet
    <2>3. d \in devices /\ \A s \in Seat : bound[s][d] = 0
      BY <1>2, <2>2 DEF TakenOnce
    <2>4. \A s \in Seat : bound'[s][d] = IF s = Oldest.serial THEN 1 ELSE 0
      BY <1>1, <2>1, <2>3
    <2> QED
      BY <1>3, <1>4, <2>3, <2>4 DEF TakenOnce
  <1>5. CASE Oldest.type # GetType(d)
    <2>1. \A s \in Seat : bound'[s][d] = bound[s][d]
      <3>1. CASE UNCHANGED bound
        BY <3>1
      <3>2. CASE Oldest.type \in GetTypes
        <4>1. bound' = [bound EXCEPT ![Oldest.serial][DeviceOf(Oldest.type)] = @ + 1]
          BY <3>2, AcceptForSeats
        <4>2. DeviceOf(Oldest.type) # d
          BY <1>5, <3>2, Gets
        <4> QED
          BY <1>1, <3>2, <4>1, <4>2
      <3> QED
        BY <3>1, <3>2, AcceptForSeats
    <2> QED
      BY <1>2, <1>3, <2>1 DEF TakenOnce
  <1> QED
    BY <1>4, <1>5

-----------------------------------------------------------------------------
(* What the steps do to the events of seats and to what is decoded.          *)

\* What is read is kept, unless its object is gone: seats stay.
LEMMA ReadForSeats ==
    ASSUME TypeInv, PumpRead
    PROVE  /\ UNCHANGED seatVars
           /\ \/ Lose
              \/ /\ UNCHANGED <<reqs, conn>> /\ evs \in Seq(Event) /\ evs' \in Seq(Event)
                 /\ Len(evs') = Len(evs) /\ DOMAIN evs' = DOMAIN evs
                 /\ \A i \in DOMAIN evs :
                        \/ evs'[i] = evs[i]
                        \/ /\ evs'[i].type = "discarded"
                           /\ evs[i].type \in {"configure", "close", "release"}
  <1> DEFINE kept == {i \in DOMAIN evs : ObjectLives(evs[i])}
  <1>1. UNCHANGED seatVars /\ ReadEvents(kept)
    BY DEF PumpRead
  <1>2. evs \in Seq(Event) /\ evs' \in Seq(Event)
    <2>1. WireTypeOK'
      BY <1>1, ReadTyped DEF TypeInv, TypeOK
    <2> QED
      BY <2>1 DEF TypeInv, TypeOK, WireTypeOK
  <1>3. CASE Lose
    BY <1>1, <1>3
  <1>4. CASE /\ evs' = [i \in DOMAIN evs |->
                            IF i <= read \/ i \in kept THEN evs[i] ELSE Discarded]
             /\ UNCHANGED <<reqs, conn>>
    <2>1. DOMAIN evs' = DOMAIN evs /\ Len(evs') = Len(evs)
      BY <1>2, <1>4
    <2>2. Discarded.type = "discarded"
      BY DEF Discarded, Msg
    <2>3. ASSUME NEW i \in DOMAIN evs, i \notin kept
          PROVE  evs[i].type \in {"configure", "close", "release"}
      BY <2>3 DEF ObjectLives
    <2> HIDE DEF kept
    <2>4. ASSUME NEW i \in DOMAIN evs
          PROVE  \/ evs'[i] = evs[i]
                 \/ /\ evs'[i].type = "discarded"
                    /\ evs[i].type \in {"configure", "close", "release"}
      BY <1>4, <2>2, <2>3
    <2> QED
      BY <1>1, <1>2, <1>4, <2>1, <2>4
  <1> QED
    BY <1>1, <1>3, <1>4 DEF ReadEvents

\* What dispatching an event adds to the queue: an event for the app it was meant for or
\* for the one that has the focus.
Decodes(e) ==
    \/ UNCHANGED input_queue
    \/ \E h \in Handle, kind \in Kind :
           /\ e.type \in DeviceType
           /\ h = e.handle \/ \E d \in Device : Needs(e, d) /\ h = focus[d]
           /\ input_queue' = Append(input_queue, [handle |-> h, kind |-> kind,
                                                  target |-> e.handle, stamp |-> e.serial])

LEMMA DeliverForSeats ==
    ASSUME TypeInv, Deliver
    PROVE  /\ evs \in Seq(Event) /\ evs # <<>> /\ evs' = Tail(evs) /\ NextEvent = Head(evs)
           /\ UNCHANGED <<conn, polled>>
           /\ Decodes(NextEvent)
           /\ \A d \in Device : /\ Hands(NextEvent, d, focus[d], focus'[d])
                                /\ focus'[d] = focus[d] \/ Sets(NextEvent, d)
  <1> DEFINE e == NextEvent
  <1>1. evs \in Seq(Event) /\ evs # <<>> /\ evs' = Tail(evs) /\ e = Head(evs)
    BY DEF Deliver, OnAppEvent, OnConfigure, OnClose, OnRelease, OnPing, OnDiscarded, OnSeatEvent,
           OnCapabilities, OnGlobal, OnKeyboardEnter, OnKeyboardLeave, OnKeyboardInput,
           OnPointerEnter, OnPointerLeave, OnPointerInput, OnTouchDown, OnTouchInput,
           OnTouchCancel, DropEvent, NextEvent, TypeInv, TypeOK, WireTypeOK
  <1>2. /\ focus \in [Device -> 0..MaxApps] /\ live \subseteq Handle
        /\ \A h : SurfaceHandle(h) \in {None, h}
        /\ \A h : SurfaceHandle(h) # None => SurfaceHandle(h) \in Handle
        /\ \A d \in Device : focus[d] # None => focus[d] \in Handle
    <2>1. focus \in [Device -> 0..MaxApps] /\ live \subseteq Handle
      BY DEF TypeInv, TypeOK, SeatTypeOK
    <2>2. \A h \in 0..MaxApps : h # None => h \in Handle
      BY ConstantsTyped DEF Handle, None
    <2> QED
      BY <2>1, <2>2 DEF SurfaceHandle
  <1>3. CASE OnAppEvent \/ OnCapabilities \/ OnGlobal
    <2>1. UNCHANGED <<focus, input_queue, polled, conn>>
      BY <1>3 DEF Deliver, OnAppEvent, OnConfigure, OnClose, OnRelease, OnPing, OnDiscarded,
                  OnCapabilities, OnGlobal, OnSeatEvent, OnKeyboardEnter, OnKeyboardLeave,
                  OnKeyboardInput, OnPointerEnter, OnPointerLeave, OnPointerInput, OnTouchDown,
                  OnTouchInput, OnTouchCancel, seatVars
    <2>2. e.type \in {"configure", "close", "release", "ping", "discarded", "capabilities", "global"}
      BY <1>3 DEF OnAppEvent, OnConfigure, OnClose, OnRelease, OnPing, OnDiscarded,
                  OnCapabilities, OnGlobal
    <2>3. \A d \in Device : ~Sets(e, d)
      BY <2>2 DEF Sets
    <2> QED
      BY <1>1, <2>1, <2>3 DEF Decodes, Hands
  <1> USE DEF Hands, Sets, Enters, Needs, SetFocus, PushEvent, Decodes, DeviceType, Kind, Device
  <1> HIDE DEF e
  <1>4. CASE OnKeyboardEnter
    <2>1. /\ e.type = "keyboard_enter" /\ focus' = [focus EXCEPT !["keyboard"] = SurfaceHandle(e.handle)]
          /\ UNCHANGED <<conn, polled, input_queue>>
      BY <1>4 DEF OnKeyboardEnter, e
    <2> QED
      BY <1>1, <1>2, <2>1 DEF e
  <1>5. CASE OnKeyboardLeave
    <2>1. /\ e.type = "keyboard_leave" /\ focus' = [focus EXCEPT !["keyboard"] = None]
          /\ UNCHANGED <<conn, polled, input_queue>>
      BY <1>5 DEF OnKeyboardLeave, e
    <2> QED
      BY <1>1, <1>2, <2>1 DEF e
  <1>6. CASE OnKeyboardInput
    <2>1. /\ e.type = "keyboard_input" /\ UNCHANGED <<conn, polled, focus>>
          /\ PushEvent(focus["keyboard"], "Key", e)
      BY <1>6 DEF OnKeyboardInput, e
    <2> QED
      BY <1>1, <1>2, <2>1 DEF e
  <1>7. CASE OnPointerEnter
    <2>1. /\ e.type = "pointer_enter" /\ focus' = [focus EXCEPT !["pointer"] = SurfaceHandle(e.handle)]
          /\ UNCHANGED <<conn, polled>> /\ PushEvent(SurfaceHandle(e.handle), "PointerFocus", e)
      BY <1>7 DEF OnPointerEnter, e
    <2> QED
      BY <1>1, <1>2, <2>1 DEF e
  <1>8. CASE OnPointerLeave
    <2>1. /\ e.type = "pointer_leave" /\ focus' = [focus EXCEPT !["pointer"] = None]
          /\ UNCHANGED <<conn, polled>> /\ PushEvent(focus["pointer"], "PointerFocus", e)
      BY <1>8 DEF OnPointerLeave, e
    <2> QED
      BY <1>1, <1>2, <2>1 DEF e
  <1>9. CASE OnPointerInput
    <2>1. /\ e.type = "pointer_input" /\ UNCHANGED <<conn, polled, focus>>
          /\ PushEvent(focus["pointer"], "Pointer", e)
      BY <1>9 DEF OnPointerInput, e
    <2> QED
      BY <1>1, <1>2, <2>1 DEF e
  <1>10. CASE OnTouchDown
    <2>1. /\ e.type = "touch_down" /\ focus' = [focus EXCEPT !["touch"] = SurfaceHandle(e.handle)]
          /\ UNCHANGED <<conn, polled>> /\ PushEvent(SurfaceHandle(e.handle), "Touch", e)
      BY <1>10 DEF OnTouchDown, e
    <2> QED
      BY <1>1, <1>2, <2>1 DEF e
  <1>11. CASE OnTouchInput
    <2>1. /\ e.type = "touch_input" /\ UNCHANGED <<conn, polled, focus>>
          /\ PushEvent(focus["touch"], "Touch", e)
      BY <1>11 DEF OnTouchInput, e
    <2> QED
      BY <1>1, <1>2, <2>1 DEF e
  <1>12. CASE OnTouchCancel
    <2>1. /\ e.type = "touch_cancel" /\ focus' = [focus EXCEPT !["touch"] = None]
          /\ UNCHANGED <<conn, polled, input_queue>>
      BY <1>12 DEF OnTouchCancel, e
    <2> QED
      BY <1>1, <1>2, <2>1 DEF e
  <1> QED
    BY <1>3, <1>4, <1>5, <1>6, <1>7, <1>8, <1>9, <1>10, <1>11, <1>12 DEF Deliver, OnSeatEvent

-----------------------------------------------------------------------------
(* What the compositor sends for its seats.                                 *)

\* An event of one device.
Concerns(m, d) ==
    /\ m \in Event /\ m.type \in DeviceType
    /\ \A c \in Device \ {d} : ~Sets(m, c) /\ ~Needs(m, c)

\* One step on a device of a seat whose next event would be for g, and then for next.
Speaks(s, d, g, next) ==
    \/ UNCHANGED evs /\ next \in {None, g}
    \/ UNCHANGED evs /\ bound[s][d] = 0
    \/ \E m : /\ Concerns(m, d) /\ bound[s][d] = 1 /\ evs' = evs \o <<m>>
              /\ m.serial \in stamp + 1..stamp' /\ Suits(m, d, g, next)
    \/ \E m, n : /\ Concerns(m, d) /\ Concerns(n, d) /\ bound[s][d] = 1
                 /\ evs' = (evs \o <<m>>) \o <<n>>
                 /\ m.serial = stamp + 1 /\ n.serial = stamp + 2 /\ stamp' = stamp + 2
                 /\ Suits(m, d, g, None) /\ Suits(n, d, None, next)

LEMMA ToEachIs ==
    ASSUME NEW s, NEW d, NEW m
    PROVE  /\ bound[s][d] = 0 => ToEach(s, d, m) = <<>>
           /\ bound[s][d] = 1 => ToEach(s, d, m) = <<m>>
  BY DEF ToEach

\* The event of a device.
LEMMA SeatMessage ==
    ASSUME TypeInv, NEW d \in Device, NEW type \in DeviceType, NEW h \in 0..MaxApps,
           NEW n \in 0..MaxSerial,
           \/ d = "keyboard" /\ type \in {"keyboard_enter", "keyboard_leave", "keyboard_input"}
           \/ d = "pointer" /\ type \in {"pointer_enter", "pointer_leave", "pointer_input"}
           \/ d = "touch" /\ type \in {"touch_down", "touch_input", "touch_cancel"}
    PROVE  /\ Concerns(Msg(type, h, None, 0, n), d)
           /\ Msg(type, h, None, 0, n).type = type /\ Msg(type, h, None, 0, n).handle = h
           /\ Msg(type, h, None, 0, n).serial = n
  <1> DEFINE m == Msg(type, h, None, 0, n)
  <1>1. m \in Event
    BY DeviceEventTyped DEF SeatEvent
  <1>2. m.type = type /\ m.handle = h /\ m.serial = n
    BY DEF Msg
  <1> HIDE DEF m
  <1>3. Concerns(m, d)
    BY <1>1, <1>2 DEF Concerns, Sets, Needs, Device
  <1> QED
    BY <1>2, <1>3 DEF m

LEMMA SeatSpeaks ==
    ASSUME TypeInv, DeviceInv, NEW s \in Seat, SeatActs(s), ~SeatAnnounces(s)
    PROVE  /\ conn = "up" /\ UNCHANGED <<reqs, conn, bound>> /\ stamp' \in Nat /\ stamp <= stamp'
           /\ \E d \in Device :
                  /\ Speaks(s, d, seat_focus[s][d], seat_focus'[s][d])
                  /\ \A c \in Device \ {d} : seat_focus'[s][c] = seat_focus[s][c]
                  /\ \A u \in Seat \ {s} : seat_focus'[u] = seat_focus[u]
  <1>1. /\ seat_focus \in [Seat -> [Device -> 0..MaxApps]]
        /\ \A d \in Device : seat_focus[s][d] \in 0..MaxApps
        /\ stamp \in Nat /\ \A d \in Device : bound[s][d] \in {0, 1}
        /\ \A h \in Handle : h \in 0..MaxApps
        /\ None \in 0..MaxApps /\ MaxSeatEvents <= MaxSerial
    BY ConstantsTyped, ZeroTyped
       DEF TypeInv, TypeOK, WestonTypeOK, DeviceInv, TakenOnce, Handle
  <1>2. /\ stamp + 1 <= MaxSeatEvents => stamp + 1 \in 0..MaxSerial
        /\ stamp + 2 <= MaxSeatEvents => stamp + 1 \in 0..MaxSerial /\ stamp + 2 \in 0..MaxSerial
    BY <1>1, ConstantsTyped
  <1>3. ASSUME NEW d \in Device, NEW h \in 0..MaxApps, MoveFocus(s, d, h)
        PROVE  Speaks(s, d, seat_focus[s][d], seat_focus'[s][d])
    <2> DEFINE g == seat_focus[s][d]
               m == Msg(LeaveType(d), g, None, 0, stamp + 1)
               n == Msg(EnterType(d), h, None, 0, stamp + 2)
    <2>1. /\ d \in {"keyboard", "pointer"} /\ seat_focus'[s][d] = h /\ stamp' = stamp + 2
          /\ evs' = evs \o (LeaveFocus(s, d) \o EnterFocus(s, d, h))
          /\ stamp + 2 <= MaxSeatEvents
      BY <1>1, <1>3 DEF MoveFocus, SeatStep, SendEvents
    <2>2. /\ Concerns(m, d) /\ m.type = LeaveType(d) /\ m.handle = g /\ m.serial = stamp + 1
          /\ Concerns(n, d) /\ n.type = EnterType(d) /\ n.handle = h /\ n.serial = stamp + 2
      BY <1>1, <1>2, <2>1, SeatMessage DEF LeaveType, EnterType, DeviceType
    <2>3. /\ g # None => Suits(m, d, g, None)
          /\ \A f : Suits(n, d, f, h)
      BY <2>1, <2>2 DEF Suits, Sets, Enters, Needs, LeaveType, EnterType
    <2>4. /\ LeaveFocus(s, d) = IF g = None THEN <<>> ELSE ToEach(s, d, m)
          /\ EnterFocus(s, d, h) = IF h = None THEN <<>> ELSE ToEach(s, d, n)
      BY DEF LeaveFocus, EnterFocus
    <2>5. /\ bound[s][d] = 0 => ToEach(s, d, m) = <<>> /\ ToEach(s, d, n) = <<>>
          /\ bound[s][d] = 1 => ToEach(s, d, m) = <<m>> /\ ToEach(s, d, n) = <<n>>
      BY ToEachIs
    <2>6. evs \in Seq(Event) /\ m \in Event /\ n \in Event
      BY <2>2 DEF TypeInv, TypeOK, WireTypeOK, Concerns
    <2>7. /\ evs \o (<<>> \o <<>>) = evs
          /\ evs \o (<<>> \o <<n>>) = evs \o <<n>>
          /\ evs \o (<<m>> \o <<>>) = evs \o <<m>>
          /\ evs \o (<<m>> \o <<n>>) = (evs \o <<m>>) \o <<n>>
      <3> HIDE DEF m, n
      <3>1. <<m>> \in Seq(Event) /\ <<n>> \in Seq(Event)
        BY <2>6
      <3> QED
        BY <2>6, <3>1, ConcatAssociative, ConcatEmptySeq
    <2> HIDE DEF m, n, g
    <2>8. CASE bound[s][d] = 0
      BY <2>1, <2>4, <2>5, <2>7, <2>8 DEF Speaks
    <2>9. CASE bound[s][d] = 1
      <3>1. CASE g = None /\ h = None
        BY <2>1, <2>4, <2>7, <3>1 DEF Speaks
      <3>2. CASE g = None /\ h # None
        <4>1. evs' = evs \o <<n>> /\ Suits(n, d, g, h)
          BY <2>1, <2>3, <2>4, <2>5, <2>7, <2>9, <3>2
        <4>2. n.serial \in stamp + 1..stamp'
          BY <1>1, <2>1, <2>2
        <4> QED
          BY <2>1, <2>2, <2>9, <4>1, <4>2 DEF Speaks, g
      <3>3. CASE g # None /\ h = None
        <4>1. evs' = evs \o <<m>> /\ Suits(m, d, g, h)
          BY <2>1, <2>3, <2>4, <2>5, <2>7, <2>9, <3>3
        <4>2. m.serial \in stamp + 1..stamp'
          BY <1>1, <2>1, <2>2
        <4> QED
          BY <2>1, <2>2, <2>9, <4>1, <4>2 DEF Speaks, g
      <3>4. CASE g # None /\ h # None
        <4>1. /\ evs' = (evs \o <<m>>) \o <<n>>
              /\ Suits(m, d, g, None) /\ Suits(n, d, None, h)
          BY <2>1, <2>3, <2>4, <2>5, <2>7, <2>9, <3>4
        <4> QED
          BY <2>1, <2>2, <2>9, <4>1 DEF Speaks, g
      <3> QED
        BY <3>1, <3>2, <3>3, <3>4
    <2> QED
      BY <1>1, <2>8, <2>9
  <1>4. ASSUME NEW d \in Device, NEW type \in DeviceType, NEW t \in 0..MaxApps, NEW next,
               \/ d = "keyboard" /\ type \in {"keyboard_enter", "keyboard_leave", "keyboard_input"}
               \/ d = "pointer" /\ type \in {"pointer_enter", "pointer_leave", "pointer_input"}
               \/ d = "touch" /\ type \in {"touch_down", "touch_input", "touch_cancel"},
               SeatStep(s, d, 1, ToEach(s, d, Msg(type, t, None, 0, stamp + 1)), next),
               \A m : m.type = type /\ m.handle = t => Suits(m, d, seat_focus[s][d], next)
        PROVE  Speaks(s, d, seat_focus[s][d], seat_focus'[s][d])
    <2> DEFINE m == Msg(type, t, None, 0, stamp + 1)
    <2>1. /\ seat_focus'[s][d] = next /\ evs' = evs \o ToEach(s, d, m)
          /\ stamp + 1 <= MaxSeatEvents /\ stamp' = stamp + 1
      BY <1>1, <1>4 DEF SeatStep, SendEvents
    <2>2. Concerns(m, d) /\ m.type = type /\ m.handle = t /\ m.serial = stamp + 1
      BY <1>1, <1>2, <1>4, <2>1, SeatMessage
    <2>3. /\ bound[s][d] = 0 => ToEach(s, d, m) = <<>>
          /\ bound[s][d] = 1 => ToEach(s, d, m) = <<m>>
      BY ToEachIs
    <2> HIDE DEF m
    <2>4. CASE bound[s][d] = 0
      <3>1. evs' = evs
        BY <2>1, <2>3, <2>4, ConcatEmptySeq DEF TypeInv, TypeOK, WireTypeOK
      <3> QED
        BY <2>4, <3>1 DEF Speaks
    <2>5. CASE bound[s][d] = 1
      <3>1. m.serial \in stamp + 1..stamp' /\ Suits(m, d, seat_focus[s][d], seat_focus'[s][d])
        BY <1>1, <1>4, <2>1, <2>2
      <3> QED
        BY <2>1, <2>2, <2>3, <2>5, <3>1 DEF Speaks
    <2> QED
      BY <1>1, <2>4, <2>5
  <1>5. ASSUME NEW d \in Device, DeviceInput(s, d)
        PROVE  Speaks(s, d, seat_focus[s][d], seat_focus'[s][d])
    <2>1. /\ d \in {"keyboard", "pointer"} /\ seat_focus[s][d] \in 0..MaxApps /\ seat_focus[s][d] # None
          /\ SeatStep(s, d, 1, ToEach(s, d, Msg(InputType(d), seat_focus[s][d], None, 0, stamp + 1)),
                      seat_focus[s][d])
      BY <1>1, <1>5 DEF DeviceInput
    <2>2. \A m : m.type = InputType(d) /\ m.handle = seat_focus[s][d] =>
                     Suits(m, d, seat_focus[s][d], seat_focus[s][d])
      BY <2>1 DEF Suits, Sets, Needs, InputType
    <2>3. /\ InputType(d) \in DeviceType
          /\ d = "keyboard" => InputType(d) = "keyboard_input"
          /\ d = "pointer" => InputType(d) = "pointer_input"
      BY <2>1 DEF InputType, DeviceType
    <2> QED
      BY <1>4, <2>1, <2>2, <2>3
  <1> DEFINE d == "touch"
             g == seat_focus[s]["touch"]
  <1>6. /\ d \in Device /\ g \in 0..MaxApps
        /\ "touch_down" \in DeviceType /\ "touch_input" \in DeviceType /\ "touch_cancel" \in DeviceType
    BY <1>1 DEF Device, DeviceType
  \* A session without an app is not told of.
  <1>7. ASSUME NEW next, SeatStep(s, d, 1, <<>>, next), next = None
        PROVE  Speaks(s, d, g, seat_focus'[s][d])
    <2>1. evs' = evs /\ seat_focus'[s][d] = None
      BY <1>1, <1>6, <1>7, ConcatEmptySeq DEF SeatStep, SendEvents, TypeInv, TypeOK, WireTypeOK
    <2> QED
      BY <2>1 DEF Speaks
  <1>8. ASSUME NEW h \in Handle, TouchDown(s, h)
        PROVE  Speaks(s, d, g, seat_focus'[s][d])
    <2> DEFINE target == IF fingers[s] = 0 THEN h ELSE g
    <2>1. /\ SeatStep(s, d, 1, TouchEvent(s, "touch_down", target), target)
          /\ target \in 0..MaxApps
      BY <1>1, <1>6, <1>8 DEF TouchDown
    <2> HIDE DEF target
    <2>2. CASE target = None
      BY <1>7, <2>1, <2>2 DEF TouchEvent
    <2>3. CASE target # None
      <3>1. SeatStep(s, d, 1, ToEach(s, d, Msg("touch_down", target, None, 0, stamp + 1)), target)
        BY <2>1, <2>3 DEF TouchEvent
      <3>2. \A m : m.type = "touch_down" /\ m.handle = target => Suits(m, d, g, target)
        BY DEF Suits, Sets, Enters, Needs
      <3> QED
        BY <1>4, <1>6, <2>1, <3>1, <3>2
    <2> QED
      BY <2>2, <2>3
  <1>9. ASSUME TouchUp(s)
        PROVE  Speaks(s, d, g, seat_focus'[s][d])
    <2> DEFINE next == IF fingers[s] = 1 THEN None ELSE g
    <2>1. SeatStep(s, d, 1, TouchEvent(s, "touch_input", g), next) /\ next \in {None, g}
      BY <1>9 DEF TouchUp
    <2> HIDE DEF next
    <2>2. CASE g = None
      BY <1>7, <2>1, <2>2 DEF TouchEvent
    <2>3. CASE g # None
      <3>1. SeatStep(s, d, 1, ToEach(s, d, Msg("touch_input", g, None, 0, stamp + 1)), next)
        BY <2>1, <2>3 DEF TouchEvent
      <3>2. \A m : m.type = "touch_input" /\ m.handle = g => Suits(m, d, g, next)
        BY <2>1, <2>3 DEF Suits, Sets, Enters, Needs
      <3> QED
        BY <1>4, <1>6, <2>1, <3>1, <3>2
    <2> QED
      BY <2>2, <2>3
  <1>10. ASSUME TouchCancel(s)
         PROVE  Speaks(s, d, g, seat_focus'[s][d])
    <2>1. SeatStep(s, d, 1, TouchEvent(s, "touch_cancel", g), None) /\ g # None
      BY <1>10 DEF TouchCancel
    <2>2. SeatStep(s, d, 1, ToEach(s, d, Msg("touch_cancel", g, None, 0, stamp + 1)), None)
      BY <2>1 DEF TouchEvent
    <2>3. \A m : m.type = "touch_cancel" /\ m.handle = g => Suits(m, d, g, None)
      BY DEF Suits, Needs
    <2> QED
      BY <1>4, <1>6, <2>1, <2>2, <2>3
  <1>11. /\ conn = "up" /\ UNCHANGED <<reqs, conn, bound>>
         /\ stamp' = stamp + 1 \/ stamp' = stamp + 2
    BY DEF SeatActs, MoveFocus, DeviceInput, TouchDown, TouchUp, TouchCancel, SeatStep
  <1>12. ASSUME NEW c \in Device, NEW n, NEW ms, NEW next, SeatStep(s, c, n, ms, next)
         PROVE  /\ \A b \in Device \ {c} : seat_focus'[s][b] = seat_focus[s][b]
                /\ \A u \in Seat \ {s} : seat_focus'[u] = seat_focus[u]
    BY <1>1, <1>12 DEF SeatStep
  <1>13. CASE \E c \in Device : (\E h \in 0..MaxApps : MoveFocus(s, c, h)) \/ DeviceInput(s, c)
    <2>1. PICK c \in Device : (\E h \in 0..MaxApps : MoveFocus(s, c, h)) \/ DeviceInput(s, c)
      BY <1>13
    <2>2. Speaks(s, c, seat_focus[s][c], seat_focus'[s][c])
      BY <1>3, <1>5, <2>1
    <2>3. /\ \A b \in Device \ {c} : seat_focus'[s][b] = seat_focus[s][b]
          /\ \A u \in Seat \ {s} : seat_focus'[u] = seat_focus[u]
      BY <1>12, <2>1 DEF MoveFocus, DeviceInput
    <2> QED
      BY <1>1, <1>11, <2>2, <2>3
  <1>14. CASE (\E h \in Handle : TouchDown(s, h)) \/ TouchUp(s) \/ TouchCancel(s)
    <2>1. Speaks(s, d, g, seat_focus'[s][d])
      BY <1>8, <1>9, <1>10, <1>14
    <2>2. /\ \A b \in Device \ {d} : seat_focus'[s][b] = seat_focus[s][b]
          /\ \A u \in Seat \ {s} : seat_focus'[u] = seat_focus[u]
      BY <1>6, <1>12, <1>14 DEF TouchDown, TouchUp, TouchCancel
    <2> QED
      BY <1>1, <1>6, <1>11, <2>1, <2>2
  <1> QED
    BY <1>13, <1>14 DEF SeatActs

\* Events about windows and buffers, of the registry and of a seat as a whole, concern
\* no device.
Aside ==
    /\ UNCHANGED <<reqs, conn, bound, seat_focus>>
    /\ stamp' \in Nat /\ stamp <= stamp'
    /\ \/ UNCHANGED evs
       \/ \E m \in Event : m.type \notin DeviceType /\ evs' = evs \o <<m>>

LEMMA AsideSends ==
    ASSUME TypeInv,
           \/ SendPing \/ SeatAppears \/ \E s \in Seat : SeatAnnounces(s)
           \/ \E h \in Handle : SendConfigure(h) \/ SendClose(h)
           \/ \E b \in held : Release(b)
    PROVE  Aside
  <1> DEFINE Sent == UNCHANGED evs \/ \E m \in Event : m.type \notin DeviceType /\ evs' = evs \o <<m>>
  <1>0. stamp \in Nat
    BY ConstantsTyped DEF TypeInv, TypeOK, WestonTypeOK
  <1>1. UNCHANGED <<reqs, conn, bound, seat_focus>> /\ stamp' \in {stamp, stamp + 1}
    <2>1. CASE SendPing \/ SeatAppears \/ \E s \in Seat : SeatAnnounces(s)
      BY <2>1 DEF SendPing, SeatAppears, SeatAnnounces, clientVars
    <2>2. CASE \E h \in Handle : SendConfigure(h) \/ SendClose(h)
      BY <2>2 DEF SendConfigure, SendClose
    <2>3. CASE \E b \in held : Release(b)
      BY <2>3 DEF Release
    <2> QED
      BY <2>1, <2>2, <2>3
  <1>2. ASSUME NEW type \in EventType \ DeviceType, NEW h \in 0..MaxApps, NEW p \in 0..MaxPools,
               NEW s \in Slot, NEW n \in 0..MaxSerial,
               type \in BufferType => h \in Handle /\ p \in Pool,
               type \in SeatType => n \in Seat,
               SendEvents(<<Msg(type, h, p, s, n)>>)
        PROVE  Sent
    <2>1. Msg(type, h, p, s, n) \in Event
      BY <1>2, MsgTyped DEF Event
    <2>2. Msg(type, h, p, s, n).type \notin DeviceType
      BY DEF Msg
    <2> QED
      BY <1>1, <1>2, <2>1, <2>2 DEF SendEvents
  <1> HIDE DEF Sent
  <1>3. /\ \A h \in Handle : h \in 0..MaxApps
        /\ \A p \in Pool : p \in 0..MaxPools
    BY ConstantsTyped DEF Handle, Pool
  <1>4. ASSUME SendPing
        PROVE  Sent
    <2>1. pings + 1 \in 0..MaxSerial
      BY <1>4, ConstantsTyped DEF SendPing, TypeInv, TypeOK, WestonTypeOK
    <2>2. "ping" \in EventType \ DeviceType /\ "ping" \notin BufferType \union SeatType
      BY DEF EventType, DeviceType, BufferType, SeatType
    <2> QED
      BY <1>2, <1>4, <2>1, <2>2, ZeroTyped DEF SendPing
  <1>5. ASSUME SeatAppears \/ \E s \in Seat : SeatAnnounces(s)
        PROVE  Sent
    <2>1. PICK s \in Seat, type \in {"global", "capabilities"} :
              SendEvents(<<Msg(type, None, None, 0, s)>>)
      <3>1. SeatAppears => seats + 1 \in Seat
        BY ConstantsTyped DEF SeatAppears, TypeInv, TypeOK, WestonTypeOK, Seat
      <3> QED
        BY <1>5, <3>1 DEF SeatAppears, SeatAnnounces
    <2>2. type \in EventType \ DeviceType /\ type \notin BufferType
      BY DEF EventType, DeviceType, BufferType
    <2> QED
      BY <1>2, <2>1, <2>2, SeatNumber, ZeroTyped
  <1>6. ASSUME NEW h \in Handle, SendConfigure(h)
        PROVE  Sent
    <2>1. sent[h] + 1 \in 0..MaxSerial
      BY <1>6, ConstantsTyped DEF SendConfigure, TypeInv, TypeOK, WestonTypeOK
    <2>2. "configure" \in EventType \ DeviceType /\ "configure" \notin BufferType \union SeatType
      BY DEF EventType, DeviceType, BufferType, SeatType
    <2> QED
      BY <1>2, <1>3, <1>6, <2>1, <2>2, ZeroTyped DEF SendConfigure
  <1>7. ASSUME NEW h \in Handle, SendClose(h)
        PROVE  Sent
    <2>1. "close" \in EventType \ DeviceType /\ "close" \notin BufferType \union SeatType
      BY DEF EventType, DeviceType, BufferType, SeatType
    <2> QED
      BY <1>2, <1>3, <1>7, <2>1, ZeroTyped DEF SendClose
  <1>8. ASSUME NEW b \in held, Release(b)
        PROVE  Sent
    <2>1. b.handle \in Handle /\ b.pool \in Pool /\ b.slot \in Slot
      BY DEF TypeInv, TypeOK, WestonTypeOK, Token
    <2>2. "release" \in EventType \ DeviceType /\ "release" \notin SeatType
      BY DEF EventType, DeviceType, SeatType
    <2> QED
      BY <1>2, <1>3, <1>8, <2>1, <2>2, ZeroTyped DEF Release
  <1>9. stamp' \in Nat /\ stamp <= stamp'
    BY <1>0, <1>1
  <1>10. Sent
    BY <1>4, <1>5, <1>6, <1>7, <1>8
  <1> QED
    BY <1>1, <1>9, <1>10 DEF Aside, Sent

-----------------------------------------------------------------------------
(* Order is kept.                                                           *)

LEMMA OrderTypes ==
    ASSUME TypeInv
    PROVE  /\ evs \in Seq(Event) /\ stamp \in Nat /\ polled \in Nat
           /\ \A j \in DOMAIN evs : evs[j].serial \in Nat
           /\ input_queue \in Seq(InputEvent)
           /\ \A i \in DOMAIN input_queue : input_queue[i].stamp \in Nat
  <1>1. /\ evs \in Seq(Event) /\ stamp \in Nat /\ polled \in Nat /\ input_queue \in Seq(InputEvent)
    BY ConstantsTyped DEF TypeInv, TypeOK, WireTypeOK, SeatTypeOK, WestonTypeOK
  <1>2. \A m \in Event : m.serial \in Nat
    BY EventFields, ConstantsTyped
  <1>3. \A q \in InputEvent : q.stamp \in Nat
    BY ConstantsTyped DEF InputEvent
  <1> QED
    BY <1>1, <1>2, <1>3

LEMMA OrderKeeps ==
    ASSUME OrderInv, UNCHANGED <<input_queue, polled>>, Timely(evs', stamp'), Past(stamp')
    PROVE  OrderInv'
  BY DEF OrderInv, InputInOrder, Timely, Past

LEMMA OrderAside ==
    ASSUME TypeInv, OrderInv, UNCHANGED <<input_queue, polled>>,
           stamp' \in Nat, stamp <= stamp',
           \/ UNCHANGED evs
           \/ evs' = <<>>
           \/ \E m \in Event : m.type \notin DeviceType /\ evs' = evs \o <<m>>
    PROVE  OrderInv'
  <1>1. Past(stamp')
    BY OrderTypes DEF OrderInv, Past
  <1>2. Timely(evs, stamp')
    BY OrderTypes DEF OrderInv, Timely
  <1>3. CASE UNCHANGED evs
    BY <1>1, <1>2, <1>3, OrderKeeps
  <1>4. CASE evs' = <<>>
    <2>1. Timely(evs', stamp')
      BY <1>4 DEF Timely
    <2> QED
      BY <1>1, <2>1, OrderKeeps
  <1>5. CASE \E m \in Event : m.type \notin DeviceType /\ evs' = evs \o <<m>>
    <2>1. Timely(evs', stamp')
      BY <1>2, <1>5, OrderTypes, TimelyAside
    <2> QED
      BY <1>1, <2>1, OrderKeeps
  <1> QED
    BY <1>3, <1>4, <1>5

LEMMA OrderQuiet ==
    ASSUME TypeInv, OrderInv, UNCHANGED <<input_queue, polled, stamp>>,
           \/ UNCHANGED evs
           \/ evs' = <<>>
           \/ \E m \in Event : m.type \notin DeviceType /\ evs' = evs \o <<m>>
    PROVE  OrderInv'
  <1>1. stamp' \in Nat /\ stamp <= stamp'
    BY OrderTypes
  <1> QED
    BY <1>1, OrderAside

LEMMA OrderRead ==
    ASSUME TypeInv, OrderInv, PumpRead, UNCHANGED stamp
    PROVE  OrderInv'
  <1>1. UNCHANGED <<input_queue, polled>>
    BY ReadForSeats DEF seatVars
  <1>2. CASE Lose
    BY <1>1, <1>2, OrderQuiet DEF Lose
  <1>3. CASE ~Lose
    <2>1. /\ DOMAIN evs' = DOMAIN evs
          /\ \A i \in DOMAIN evs : evs'[i].type \in DeviceType => evs'[i] = evs[i]
      BY <1>3, ReadForSeats DEF DeviceType
    <2>2. Timely(evs', stamp)
      BY <2>1 DEF OrderInv, Timely
    <2> QED
      BY <1>1, <2>2, OrderKeeps DEF OrderInv
  <1> QED
    BY <1>2, <1>3

LEMMA OrderSeat ==
    ASSUME TypeInv, DeviceInv, OrderInv, UNCHANGED <<input_queue, polled>>,
           NEW s \in Seat, SeatActs(s), ~SeatAnnounces(s)
    PROVE  OrderInv'
  <1>1. /\ stamp \in Nat /\ stamp' \in Nat /\ stamp <= stamp' /\ evs \in Seq(Event)
        /\ polled \in Nat /\ \A i \in DOMAIN input_queue : input_queue[i].stamp \in Nat
        /\ \A j \in DOMAIN evs : evs[j].serial \in Nat
        /\ Timely(evs, stamp) /\ Past(stamp)
    BY SeatSpeaks, OrderTypes DEF OrderInv
  <1>2. Timely(evs', stamp') /\ Past(stamp')
    <2>1. CASE UNCHANGED evs
      <3>1. Past(stamp')
        BY <1>1 DEF Past
      <3>2. Timely(evs, stamp')
        BY <1>1 DEF Timely
      <3> QED
        BY <2>1, <3>1, <3>2
    <2>2. ASSUME NEW m \in Event, evs' = evs \o <<m>>, m.serial \in stamp + 1..stamp'
          PROVE  Timely(evs', stamp') /\ Past(stamp')
      BY <1>1, <2>2, TimelyMore
    <2>3. ASSUME NEW m \in Event, NEW n \in Event, evs' = (evs \o <<m>>) \o <<n>>,
                 m.serial = stamp + 1, n.serial = stamp + 2, stamp' = stamp + 2
          PROVE  Timely(evs', stamp') /\ Past(stamp')
      <3> DEFINE seq == evs \o <<m>>
      <3>1. m.serial \in stamp + 1..stamp + 1 /\ n.serial \in (stamp + 1) + 1..stamp'
            /\ stamp + 1 \in Nat
        BY <1>1, <2>3
      <3>2. Timely(seq, stamp + 1) /\ Past(stamp + 1)
        BY <1>1, <3>1, TimelyMore
      <3>3. seq \in Seq(Event) /\ \A j \in DOMAIN seq : seq[j].serial \in Nat
        <4>1. \A j \in DOMAIN seq : (j \in DOMAIN evs /\ seq[j] = evs[j]) \/ seq[j] = m
          BY <1>1, MorePlaces
        <4>2. seq \in Seq(Event)
          BY <1>1, MorePlaces
        <4> QED
          BY <1>1, <2>3, <4>1, <4>2
      <3> HIDE DEF seq
      <3>4. Timely(seq \o <<n>>, stamp') /\ Past(stamp')
        BY <1>1, <3>1, <3>2, <3>3, TimelyMore
      <3> QED
        BY <2>3, <3>4 DEF seq
    <2>4. \A d, m : Concerns(m, d) => m \in Event
      BY DEF Concerns
    <2> QED
      BY <2>1, <2>2, <2>3, <2>4, SeatSpeaks DEF Speaks
  <1> QED
    BY <1>2, OrderKeeps

LEMMA OrderDeliver ==
    ASSUME TypeInv, OrderInv, Deliver, UNCHANGED stamp
    PROVE  OrderInv'
  <1> DEFINE e == NextEvent
             rest == Tail(evs)
  <1>1. /\ evs \in Seq(Event) /\ evs # <<>> /\ evs' = rest /\ e = Head(evs)
        /\ polled' = polled /\ Decodes(e)
    BY DeliverForSeats
  <1>2. /\ Timely(rest, stamp)
        /\ e.type \in DeviceType =>
               \A j \in DOMAIN rest : rest[j].type \in DeviceType => e.serial < rest[j].serial
    BY <1>1, TimelyTail DEF OrderInv
  <1>3. e.type \in DeviceType =>
            /\ polled < e.serial /\ e.serial <= stamp
            /\ \A i \in DOMAIN input_queue : input_queue[i].stamp < e.serial
    BY <1>1, TailPlaces DEF OrderInv, Timely
  <1>4. CASE UNCHANGED input_queue
    <2>1. Timely(evs', stamp')
      BY <1>1, <1>2
    <2> QED
      BY <1>1, <1>4, <2>1, OrderKeeps DEF OrderInv
  <1>5. CASE ~UNCHANGED input_queue
    <2> DEFINE q == input_queue
               n == Len(q) + 1
    <2>1. PICK r \in InputEvent : /\ e.type \in DeviceType /\ r.stamp = e.serial
                                  /\ input_queue' = Append(q, r)
      <3>1. e \in Event
        BY <1>1, TailPlaces
      <3>2. e.handle \in 0..MaxApps /\ e.serial \in 0..MaxSerial
        BY <3>1, EventFields
      <3>3. PICK h \in Handle, kind \in Kind :
                /\ e.type \in DeviceType
                /\ input_queue' = Append(q, [handle |-> h, kind |-> kind, target |-> e.handle,
                                             stamp |-> e.serial])
        BY <1>1, <1>5 DEF Decodes
      <3>4. [handle |-> h, kind |-> kind, target |-> e.handle, stamp |-> e.serial] \in InputEvent
        BY <3>2 DEF InputEvent
      <3> QED
        BY <3>3, <3>4
    <2>2. /\ \A i \in DOMAIN input_queue' :
                 /\ i \in Nat
                 /\ (i \in DOMAIN q /\ input_queue'[i] = q[i]) \/ (i = n /\ input_queue'[i] = r)
          /\ \A i \in DOMAIN q : i \in Nat /\ i < n
          /\ n \in Nat
      BY <2>1, OrderTypes
    <2> HIDE DEF q, n
    <2>3. /\ \A i \in DOMAIN q : polled < q[i].stamp /\ q[i].stamp <= stamp /\ q[i].stamp < r.stamp
          /\ \A i, j \in DOMAIN q : i < j => q[i].stamp < q[j].stamp
          /\ polled < r.stamp /\ r.stamp <= stamp
      BY <1>3, <2>1 DEF OrderInv, InputInOrder, Past, q
    <2>4. Past(stamp)'
      BY <1>1, <2>2, <2>3 DEF Past, OrderInv
    <2>5. \A i \in DOMAIN input_queue' : polled' < input_queue'[i].stamp
      BY <1>1, <2>2, <2>3
    <2>6. ASSUME NEW i \in DOMAIN input_queue', NEW j \in DOMAIN input_queue', i < j
          PROVE  input_queue'[i].stamp < input_queue'[j].stamp
      BY <2>2, <2>3, <2>6
    <2>7. ASSUME NEW j \in DOMAIN rest, rest[j].type \in DeviceType
          PROVE  /\ polled < rest[j].serial /\ rest[j].serial <= stamp
                 /\ \A i \in DOMAIN input_queue' : input_queue'[i].stamp < rest[j].serial
      BY <1>2, <2>1, <2>2, <2>7 DEF Timely, q
    <2>8. Timely(evs, stamp)'
      <3>1. \A i, j \in DOMAIN rest :
                /\ i < j /\ rest[i].type \in DeviceType /\ rest[j].type \in DeviceType
                => rest[i].serial < rest[j].serial
        BY <1>2 DEF Timely
      <3> HIDE DEF rest
      <3> QED
        BY <1>1, <2>7, <3>1 DEF Timely
    <2> QED
      BY <1>1, <2>4, <2>5, <2>6, <2>8 DEF OrderInv, InputInOrder
  <1> QED
    BY <1>4, <1>5

LEMMA OrderDrain ==
    ASSUME TypeInv, OrderInv, PollInputBody, UNCHANGED stamp
    PROVE  OrderInv'
  <1> DEFINE q == input_queue
             n == IF Len(q) < PollCap THEN Len(q) ELSE PollCap
             rest == SubSeq(q, n + 1, Len(q))
  <1>1. /\ input_queue' = rest /\ evs' = evs
        /\ polled' = IF n = 0 THEN polled ELSE q[n].stamp
    BY DEF PollInputBody, Drain, wireVars
  <1>2. q \in Seq(InputEvent) /\ n \in 0..Len(q) /\ Len(q) \in Nat
    BY OrderTypes, ConstantsTyped
  <1>3. /\ \A i \in DOMAIN rest : i \in Nat /\ i + n \in DOMAIN q /\ rest[i] = q[i + n] /\ n < i + n
        /\ n # 0 => n \in DOMAIN q
    BY <1>2
  <1> HIDE DEF q, n, rest
  <1>4. /\ \A i \in DOMAIN q : polled < q[i].stamp /\ q[i].stamp <= stamp
        /\ \A i, j \in DOMAIN q : i < j => q[i].stamp < q[j].stamp
        /\ polled <= stamp
        /\ \A j \in DOMAIN evs : evs[j].type \in DeviceType =>
               /\ polled < evs[j].serial
               /\ \A i \in DOMAIN q : q[i].stamp < evs[j].serial
    BY DEF OrderInv, InputInOrder, Timely, Past, q
  <1>5. \A i \in DOMAIN rest : polled' < rest[i].stamp /\ rest[i].stamp <= stamp
    BY <1>1, <1>3, <1>4
  <1>6. \A i, j \in DOMAIN rest : i < j => rest[i].stamp < rest[j].stamp
    <2>1. \A i, j \in DOMAIN rest : i < j => i + n < j + n
      BY <1>2, <1>3
    <2> QED
      BY <1>3, <1>4, <2>1
  <1>7. polled' <= stamp
    BY <1>1, <1>3, <1>4
  <1>8. \A j \in DOMAIN evs : evs[j].type \in DeviceType =>
            /\ polled' < evs[j].serial
            /\ \A i \in DOMAIN rest : rest[i].stamp < evs[j].serial
    BY <1>1, <1>3, <1>4
  <1>9. Timely(evs, stamp)'
    <2>1. \A j \in DOMAIN evs : evs[j].type \in DeviceType => evs[j].serial <= stamp
      BY DEF OrderInv, Timely
    <2>2. \A i, j \in DOMAIN evs :
              /\ i < j /\ evs[i].type \in DeviceType /\ evs[j].type \in DeviceType
              => evs[i].serial < evs[j].serial
      BY DEF OrderInv, Timely
    <2> QED
      BY <1>1, <1>8, <2>1, <2>2 DEF Timely
  <1> QED
    BY <1>1, <1>5, <1>6, <1>7, <1>9 DEF OrderInv, InputInOrder, Past

-----------------------------------------------------------------------------
(* Focus is kept.                                                           *)

LEMMA FocusTypes ==
    TypeInv => evs \in Seq(Event) /\ \A s \in Seat, d \in Device : bound[s][d] \in Nat
  BY DEF TypeInv, TypeOK, WireTypeOK, WestonTypeOK

\* Less is meant: a device the compositor has taken away, or a connection it has left.
LEMMA RoutedLess ==
    ASSUME NEW seq, NEW d, NEW f, NEW g, NEW next, Routed(seq, d, f, g), next \in {None, g}
    PROVE  Routed(seq, d, f, next)
  BY DEF Routed

\* Events that concern no device.
LEMMA RoutedAside ==
    ASSUME NEW seq \in Seq(Event), NEW m \in Event, NEW d, NEW f, NEW g, Routed(seq, d, f, g),
           ~Sets(m, d), ~Needs(m, d)
    PROVE  /\ Routed(seq \o <<m>>, d, f, g)
           /\ Unset(seq, d) => Unset(seq \o <<m>>, d)
  <1>1. Suits(m, d, g, g)
    BY DEF Suits
  <1>2. \A i \in DOMAIN (seq \o <<m>>) :
            (i \in DOMAIN seq /\ (seq \o <<m>>)[i] = seq[i]) \/ (seq \o <<m>>)[i] = m
    BY MorePlaces
  <1>3. Unset(seq, d) => Unset(seq \o <<m>>, d)
    BY <1>2 DEF Unset
  <1> QED
    BY <1>1, <1>3, RoutedMore

\* A device that the compositor has been asked for starts with nobody in focus.
LEMMA FocusAside ==
    ASSUME TypeInv, FocusInv, UNCHANGED focus,
           \A d \in Device, s \in Seat : bound'[s][d] = 0 => bound[s][d] = 0,
           \/ UNCHANGED evs
           \/ \E m \in Event : m.type \notin DeviceType /\ evs' = evs \o <<m>>,
           \A d \in Device : \/ \A s \in Seat : Meant(s, d)' \in {None, Meant(s, d)}
                             \/ UNCHANGED evs /\ \A s \in Seat : bound[s][d] = 0
    PROVE  FocusInv'
  <1> SUFFICES ASSUME NEW d \in Device
               PROVE  /\ \A s \in Seat : Routed(evs, d, focus[d], Meant(s, d))'
                      /\ ((\A s \in Seat : bound[s][d] = 0) => focus[d] = None /\ Unset(evs, d))'
    BY DEF FocusInv
  <1>1. /\ \A s \in Seat : Routed(evs, d, focus[d], Meant(s, d))
        /\ (\A s \in Seat : bound[s][d] = 0) => focus[d] = None /\ Unset(evs, d)
        /\ evs \in Seq(Event)
    BY FocusTypes DEF FocusInv
  <1>2. ASSUME NEW m \in Event, m.type \notin DeviceType, evs' = evs \o <<m>>,
               NEW g, Routed(evs, d, focus[d], g)
        PROVE  Routed(evs', d, focus[d], g)
    <2>1. ~Sets(m, d) /\ ~Needs(m, d)
      BY <1>2 DEF Sets, Needs, DeviceType
    <2> QED
      BY <1>1, <1>2, <2>1, RoutedAside
  <1>3. \A g : Routed(evs, d, focus[d], g) => Routed(evs', d, focus[d], g)
    BY <1>2
  <1>4. Unset(evs, d) => Unset(evs', d)
    <2>1. ASSUME NEW m \in Event, m.type \notin DeviceType, evs' = evs \o <<m>>, Unset(evs, d)
          PROVE  Unset(evs', d)
      <3>1. ~Sets(m, d)
        BY <2>1 DEF Sets, DeviceType
      <3>2. \A i \in DOMAIN (evs \o <<m>>) :
                (i \in DOMAIN evs /\ (evs \o <<m>>)[i] = evs[i]) \/ (evs \o <<m>>)[i] = m
        BY <1>1, MorePlaces
      <3> QED
        BY <2>1, <3>1, <3>2 DEF Unset
    <2> QED
      BY <2>1
  <1>5. ASSUME NEW s \in Seat
        PROVE  Routed(evs', d, focus[d], Meant(s, d)')
    <2>1. CASE \A u \in Seat : Meant(u, d)' \in {None, Meant(u, d)}
      <3>1. Routed(evs', d, focus[d], Meant(s, d)) /\ Meant(s, d)' \in {None, Meant(s, d)}
        BY <1>1, <1>3, <1>5, <2>1
      <3> QED
        BY <3>1, RoutedLess
    <2>2. CASE UNCHANGED evs /\ \A u \in Seat : bound[u][d] = 0
      BY <1>1, <2>2, RoutedUnset
    <2> QED
      BY <2>1, <2>2
  <1>6. \A s \in Seat : Routed(evs, d, focus[d], Meant(s, d))'
    BY <1>5 DEF Routed, Leads
  <1>7. ((\A s \in Seat : bound[s][d] = 0) => focus[d] = None /\ Unset(evs, d))'
    BY <1>1, <1>4 DEF Unset
  <1> QED
    BY <1>6, <1>7

\* Nothing about seats changes but what is said besides.
LEMMA FocusQuiet ==
    ASSUME TypeInv, FocusInv, UNCHANGED <<focus, conn, bound, seat_focus>>,
           \/ UNCHANGED evs
           \/ \E m \in Event : m.type \notin DeviceType /\ evs' = evs \o <<m>>
    PROVE  FocusInv'
  <1>1. \A s \in Seat, d \in Device : Meant(s, d)' = Meant(s, d)
    BY DEF Meant
  <1> QED
    BY <1>1, FocusAside

LEMMA FocusGone ==
    ASSUME FocusInv, UNCHANGED <<focus, bound>>, evs' = <<>>, conn' # "up"
    PROVE  FocusInv'
  <1>1. \A s \in Seat, d \in Device : Meant(s, d)' = None
    BY DEF Meant
  <1>2. \A d : Unset(evs, d)' /\ \A f : Routed(evs', d, f, None)
    BY DEF Unset, Routed
  <1>3. ASSUME NEW d \in Device, NEW s \in Seat
        PROVE  Routed(evs, d, focus[d], Meant(s, d))'
    BY <1>1, <1>2 DEF Routed
  <1> QED
    BY <1>2, <1>3 DEF FocusInv

LEMMA FocusRead ==
    ASSUME TypeInv, FocusInv, PumpRead, UNCHANGED <<bound, seat_focus>>
    PROVE  FocusInv'
  <1>1. CASE Lose
    BY <1>1, FocusGone, ReadForSeats DEF Lose, seatVars
  <1>2. CASE ~Lose
    <2>1. /\ UNCHANGED <<focus, conn>> /\ evs \in Seq(Event) /\ evs' \in Seq(Event)
          /\ Len(evs') = Len(evs) /\ DOMAIN evs' = DOMAIN evs
          /\ \A i \in DOMAIN evs :
                 \/ evs'[i] = evs[i]
                 \/ /\ evs'[i].type = "discarded"
                    /\ evs[i].type \in {"configure", "close", "release"}
      BY <1>2, ReadForSeats DEF seatVars
    <2> SUFFICES ASSUME NEW d \in Device
                 PROVE  /\ \A s \in Seat : Routed(evs, d, focus[d], Meant(s, d))'
                        /\ ((\A s \in Seat : bound[s][d] = 0) =>
                                focus[d] = None /\ Unset(evs, d))'
      BY DEF FocusInv
    <2>2. \A i \in DOMAIN evs :
              evs'[i] = evs[i] \/ (~Sets(evs'[i], d) /\ ~Sets(evs[i], d) /\ ~Needs(evs'[i], d))
      BY <2>1 DEF Sets, Needs
    <2>3. ASSUME NEW s \in Seat
          PROVE  Routed(evs, d, focus[d], Meant(s, d))'
      <3>1. Routed(evs', d, focus[d], Meant(s, d))
        BY <2>1, <2>2, RoutedSame DEF FocusInv
      <3>2. Meant(s, d)' = Meant(s, d)
        BY <2>1 DEF Meant
      <3> QED
        BY <2>1, <3>1, <3>2 DEF Routed, Leads
    <2>4. Unset(evs, d) => Unset(evs, d)'
      BY <2>1, <2>2 DEF Unset
    <2> QED
      BY <2>1, <2>3, <2>4 DEF FocusInv
  <1> QED
    BY <1>1, <1>2

LEMMA FocusDeliver ==
    ASSUME TypeInv, FocusInv, Deliver, UNCHANGED <<bound, seat_focus>>
    PROVE  FocusInv'
  <1>1. /\ evs \in Seq(Event) /\ evs # <<>> /\ evs' = Tail(evs) /\ NextEvent = Head(evs)
        /\ UNCHANGED conn
    BY DeliverForSeats
  <1> SUFFICES ASSUME NEW d \in Device
               PROVE  /\ \A s \in Seat : Routed(evs, d, focus[d], Meant(s, d))'
                      /\ ((\A s \in Seat : bound[s][d] = 0) => focus[d] = None /\ Unset(evs, d))'
    BY DEF FocusInv
  <1>2. /\ Hands(Head(evs), d, focus[d], focus'[d])
        /\ focus'[d] = focus[d] \/ Sets(Head(evs), d)
    BY <1>1, DeliverForSeats
  <1>3. ASSUME NEW s \in Seat
        PROVE  Routed(evs, d, focus[d], Meant(s, d))'
    <2>1. Routed(Tail(evs), d, focus'[d], Meant(s, d))
      BY <1>1, <1>2, RoutedTail DEF FocusInv
    <2>2. Meant(s, d)' = Meant(s, d)
      BY <1>1 DEF Meant
    <2> QED
      BY <1>1, <2>1, <2>2 DEF Routed, Leads
  <1>4. ASSUME \A s \in Seat : bound[s][d] = 0
        PROVE  focus'[d] = None /\ Unset(evs, d)'
    <2>1. focus[d] = None /\ Unset(evs, d)
      BY <1>4 DEF FocusInv
    <2>2. ~Sets(Head(evs), d)
      BY <1>1, <2>1, TailPlaces DEF Unset
    <2>3. \A i \in DOMAIN Tail(evs) : ~Sets(Tail(evs)[i], d)
      BY <1>1, <2>1, TailPlaces DEF Unset
    <2> QED
      BY <1>1, <1>2, <2>1, <2>2, <2>3 DEF Unset
  <1> QED
    BY <1>3, <1>4

\* What is dispatched goes to the app it is meant for.
LEMMA DeliverIsRouted ==
    ASSUME TypeInv, FocusInv, RoutedToTarget, Deliver
    PROVE  RoutedToTarget'
  <1> DEFINE e == NextEvent
             q == input_queue
  <1>1. /\ evs \in Seq(Event) /\ evs # <<>> /\ e = Head(evs) /\ Decodes(e)
        /\ q \in Seq(InputEvent)
    BY DeliverForSeats, OrderTypes
  <1>2. 1 \in DOMAIN evs /\ evs[1] = e /\ \A l \in DOMAIN evs : ~(l < 1)
    BY <1>1
  <1>3. ASSUME NEW h \in Handle, h = e.handle \/ \E d \in Device : Needs(e, d) /\ h = focus[d]
        PROVE  h = e.handle
    <2>1. CASE h = e.handle
      BY <2>1
    <2>2. ASSUME NEW d \in Device, Needs(e, d), h = focus[d]
          PROVE  h = e.handle
      <3>1. ASSUME NEW s \in Seat
            PROVE  Leads(evs, 1, d, focus[d], e.handle)
        BY <1>2, <2>2 DEF FocusInv, Routed
      <3>2. focus[d] \in {None, e.handle}
        <4>1. CASE \A s \in Seat : bound[s][d] = 0
          BY <4>1 DEF FocusInv
        <4>2. CASE \E s \in Seat : bound[s][d] # 0
          BY <1>2, <3>1, <4>2 DEF Leads
        <4> QED
          BY <4>1, <4>2
      <3>3. h # None
        BY ConstantsTyped DEF Handle, None
      <3> QED
        BY <2>2, <3>2, <3>3
    <2> QED
      BY <1>3, <2>1, <2>2
  <1>4. CASE UNCHANGED q
    BY <1>4 DEF RoutedToTarget
  <1>5. CASE ~UNCHANGED q
    <2>1. PICK r : /\ r.handle = r.target /\ input_queue' = Append(q, r) /\ r \in InputEvent
      <3>0. e \in Event
        BY <1>1, TailPlaces
      <3>1. e.handle \in 0..MaxApps /\ e.serial \in 0..MaxSerial
        BY <3>0, EventFields
      <3>2. PICK h \in Handle, kind \in Kind :
                /\ h = e.handle \/ \E d \in Device : Needs(e, d) /\ h = focus[d]
                /\ input_queue' = Append(q, [handle |-> h, kind |-> kind, target |-> e.handle,
                                             stamp |-> e.serial])
        BY <1>1, <1>5 DEF Decodes
      <3>3. h = e.handle
        BY <1>3, <3>2
      <3>4. [handle |-> h, kind |-> kind, target |-> e.handle, stamp |-> e.serial] \in InputEvent
        BY <3>1 DEF InputEvent
      <3> QED
        BY <3>2, <3>3, <3>4
    <2>2. \A i \in DOMAIN input_queue' :
              (i \in DOMAIN q /\ input_queue'[i] = q[i]) \/ input_queue'[i] = r
      BY <1>1, <2>1
    <2> QED
      BY <2>1, <2>2 DEF RoutedToTarget
  <1> QED
    BY <1>4, <1>5

\* What the compositor sends for a device, it sends for the app that has been told.
LEMMA SpeaksRouted ==
    ASSUME NEW s \in Seat, NEW d \in Device, NEW g, NEW next, Speaks(s, d, g, next),
           evs \in Seq(Event), Routed(evs, d, focus[d], g), bound[s][d] = 1
    PROVE  Routed(evs', d, focus[d], next)
  <1>1. CASE UNCHANGED evs /\ next \in {None, g}
    <2>1. Routed(evs, d, focus[d], next)
      BY <1>1, RoutedLess
    <2> QED
      BY <1>1, <2>1
  <1>2. ASSUME NEW m \in Event, evs' = evs \o <<m>>, Suits(m, d, g, next)
        PROVE  Routed(evs', d, focus[d], next)
    <2>1. Routed(evs \o <<m>>, d, focus[d], next)
      BY <1>2, RoutedMore
    <2> QED
      BY <1>2, <2>1
  <1>3. ASSUME NEW m \in Event, NEW n \in Event, evs' = (evs \o <<m>>) \o <<n>>,
               Suits(m, d, g, None), Suits(n, d, None, next)
        PROVE  Routed(evs', d, focus[d], next)
    <2> DEFINE seq == evs \o <<m>>
    <2>1. Routed(seq, d, focus[d], None) /\ seq \in Seq(Event)
      BY <1>3, RoutedMore, MorePlaces
    <2> HIDE DEF seq
    <2>2. Routed(seq \o <<n>>, d, focus[d], next)
      BY <1>3, <2>1, RoutedMore
    <2>3. evs' = seq \o <<n>>
      BY <1>3 DEF seq
    <2> QED
      BY <2>2, <2>3
  <1>4. \A m : Concerns(m, d) => m \in Event
    BY DEF Concerns
  <1>5. CASE \E m : Concerns(m, d) /\ evs' = evs \o <<m>> /\ Suits(m, d, g, next)
    BY <1>2, <1>4, <1>5
  <1>6. CASE \E m, n : /\ Concerns(m, d) /\ Concerns(n, d) /\ evs' = (evs \o <<m>>) \o <<n>>
                       /\ Suits(m, d, g, None) /\ Suits(n, d, None, next)
    BY <1>3, <1>4, <1>6
  <1>7. bound[s][d] # 0
    OBVIOUS
  <1>8. CASE UNCHANGED evs /\ bound[s][d] = 0
    BY <1>7, <1>8
  <1>9. CASE \E m : /\ Concerns(m, d) /\ bound[s][d] = 1 /\ evs' = evs \o <<m>>
                    /\ m.serial \in stamp + 1..stamp' /\ Suits(m, d, g, next)
    BY <1>5, <1>9
  <1>10. CASE \E m, n : /\ Concerns(m, d) /\ Concerns(n, d) /\ bound[s][d] = 1
                        /\ evs' = (evs \o <<m>>) \o <<n>>
                        /\ m.serial = stamp + 1 /\ n.serial = stamp + 2 /\ stamp' = stamp + 2
                        /\ Suits(m, d, g, None) /\ Suits(n, d, None, next)
    BY <1>6, <1>10
  <1> QED
    BY <1>1, <1>8, <1>9, <1>10 DEF Speaks

\* It says nothing to the other devices.
LEMMA SpeaksAside ==
    ASSUME NEW s \in Seat, NEW d \in Device, NEW c \in Device \ {d}, NEW g, NEW next, NEW f,
           Speaks(s, d, g, next), NEW t, evs \in Seq(Event), Routed(evs, c, f, t)
    PROVE  /\ Routed(evs', c, f, t)
           /\ Unset(evs, c) => Unset(evs', c)
  <1>1. \A m : Concerns(m, d) => m \in Event /\ ~Sets(m, c) /\ ~Needs(m, c)
    BY DEF Concerns
  <1>2. CASE UNCHANGED evs
    BY <1>2
  <1>3. ASSUME NEW m \in Event, Concerns(m, d), evs' = evs \o <<m>>
        PROVE  /\ Routed(evs', c, f, t)
               /\ Unset(evs, c) => Unset(evs', c)
    BY <1>1, <1>3, RoutedAside
  <1>4. ASSUME NEW m \in Event, NEW n \in Event, Concerns(m, d), Concerns(n, d),
               evs' = (evs \o <<m>>) \o <<n>>
        PROVE  /\ Routed(evs', c, f, t)
               /\ Unset(evs, c) => Unset(evs', c)
    <2> DEFINE seq == evs \o <<m>>
    <2>1. Routed(seq, c, f, t) /\ seq \in Seq(Event) /\ (Unset(evs, c) => Unset(seq, c))
      BY <1>1, <1>4, RoutedAside, MorePlaces
    <2> HIDE DEF seq
    <2>2. /\ Routed(seq \o <<n>>, c, f, t)
          /\ Unset(seq, c) => Unset(seq \o <<n>>, c)
      BY <1>1, <1>4, <2>1, RoutedAside
    <2> QED
      BY <1>4, <2>1, <2>2 DEF seq
  <1> QED
    BY <1>1, <1>2, <1>3, <1>4 DEF Speaks

LEMMA FocusSeat ==
    ASSUME TypeInv, DeviceInv, FocusInv, UNCHANGED focus,
           NEW s \in Seat, SeatActs(s), ~SeatAnnounces(s)
    PROVE  FocusInv'
  <1>1. /\ conn = "up" /\ conn' = "up" /\ bound' = bound /\ evs \in Seq(Event)
        /\ \A u \in Seat, c \in Device : bound[u][c] \in {0, 1}
    BY SeatSpeaks, FocusTypes DEF DeviceInv, TakenOnce
  <1>2. PICK d \in Device : /\ Speaks(s, d, seat_focus[s][d], seat_focus'[s][d])
                            /\ \A c \in Device \ {d} : seat_focus'[s][c] = seat_focus[s][c]
                            /\ \A u \in Seat \ {s} : seat_focus'[u] = seat_focus[u]
    BY SeatSpeaks
  <1>3. /\ \A u \in Seat, c \in Device : bound[u][c] = 1 =>
               Meant(u, c) = seat_focus[u][c] /\ Meant(u, c)' = seat_focus'[u][c]
        /\ \A u \in Seat, c \in Device : bound[u][c] = 0 =>
               Meant(u, c) = None /\ Meant(u, c)' = None
        /\ \A u \in Seat, c \in Device : u # s \/ c # d => Meant(u, c)' = Meant(u, c)
    BY <1>1, <1>2 DEF Meant
  <1>4. bound[s][d] = 0 => evs' = evs
    BY <1>2 DEF Speaks
  <1>5. ASSUME NEW c \in Device, NEW u \in Seat
        PROVE  Routed(evs', c, focus[c], Meant(u, c)')
    <2>1. \A v \in Seat : Routed(evs, c, focus[c], Meant(v, c))
      BY DEF FocusInv
    <2>2. CASE c # d
      <3>1. Routed(evs', c, focus[c], Meant(u, c))
        BY <1>1, <1>2, <2>1, <2>2, SpeaksAside
      <3> QED
        BY <1>3, <2>2, <3>1
    <2>3. CASE c = d /\ bound[s][d] = 0
      <3>1. Meant(u, c)' = Meant(u, c)
        BY <1>3, <2>3
      <3> QED
        BY <1>4, <2>1, <2>3, <3>1
    <2>4. CASE c = d /\ bound[s][d] = 1
      <3>1. Routed(evs, d, focus[d], seat_focus[s][d])
        BY <1>3, <2>1, <2>4
      <3>2. Routed(evs', d, focus[d], seat_focus'[s][d])
        BY <1>1, <1>2, <2>4, <3>1, SpeaksRouted
      <3>3. u # s => bound[u][d] = 0
        BY <1>1, <2>4 DEF DeviceInv, TakenOnce
      <3>4. Meant(u, c)' \in {None, seat_focus'[s][d]}
        BY <1>3, <2>4, <3>3
      <3> QED
        BY <2>4, <3>2, <3>4, RoutedLess
    <2> QED
      BY <1>1, <2>2, <2>3, <2>4
  <1>6. ASSUME NEW c \in Device, \A u \in Seat : bound[u][c] = 0
        PROVE  focus[c] = None /\ Unset(evs', c)
    <2>1. focus[c] = None /\ Unset(evs, c)
      BY <1>6 DEF FocusInv
    <2>2. CASE c = d
      BY <1>4, <1>6, <2>1, <2>2
    <2>3. CASE c # d
      <3>1. Routed(evs, c, focus[c], Meant(s, c))
        BY DEF FocusInv
      <3> QED
        BY <1>1, <1>2, <2>1, <2>3, <3>1, SpeaksAside
    <2> QED
      BY <2>2, <2>3
  <1>7. \A c \in Device, u \in Seat : Routed(evs, c, focus[c], Meant(u, c))'
    BY <1>5 DEF Routed, Leads
  <1>8. \A c \in Device :
            ((\A u \in Seat : bound[u][c] = 0) => focus[c] = None /\ Unset(evs, c))'
    BY <1>1, <1>6 DEF Unset
  <1> QED
    BY <1>7, <1>8 DEF FocusInv

-----------------------------------------------------------------------------
(* Every step keeps the invariant.                                          *)

\* Dispatching asks for devices when capabilities are announced, and otherwise not.
LEMMA DeliverTakesDevice ==
    ASSUME TypeInv, DeviceInv, Deliver, UNCHANGED bound
    PROVE  DeviceInv'
  <1>1. CASE OnCapabilities
    BY <1>1, CapabilitiesTake
  <1>2. CASE OnConfigure
    <2> DEFINE ms == <<Msg("ack_configure", NextEvent.handle, None, 0, NextEvent.serial)>>
    <2>1. NextEvent \in Event
      BY DeliverForSeats, TailPlaces
    <2>2. NextEvent.handle \in 0..MaxApps /\ NextEvent.serial \in 0..MaxSerial
      BY <2>1, EventFields
    <2>3. ms \in Seq(Request) /\ NoGets(ms)
      BY <2>2, OneRequest, ZeroTyped, OneNoGets
         DEF RequestType, BufferType, SeatType, GetTypes
    <2>4. Emit(ms) /\ UNCHANGED devices
      BY <1>2 DEF Deliver, OnAppEvent, OnSeatEvent, OnConfigure, seatVars, OnCapabilities, OnGlobal,
                  OnKeyboardEnter, OnKeyboardLeave, OnKeyboardInput, OnPointerEnter, OnPointerLeave,
                  OnPointerInput, OnTouchDown, OnTouchInput, OnTouchCancel
    <2> HIDE DEF ms
    <2> QED
      BY <2>3, <2>4, DevicesKeep
  <1>3. CASE OnPing
    <2> DEFINE ms == <<Msg("pong", None, None, 0, NextEvent.serial)>>
    <2>1. NextEvent \in Event
      BY DeliverForSeats, TailPlaces
    <2>2. NextEvent.serial \in 0..MaxSerial
      BY <2>1, EventFields
    <2>3. ms \in Seq(Request) /\ NoGets(ms)
      BY <2>2, OneRequest, ZeroTyped, OneNoGets
         DEF RequestType, BufferType, SeatType, GetTypes
    <2>4. Emit(ms) /\ UNCHANGED devices
      BY <1>3 DEF Deliver, OnAppEvent, OnSeatEvent, OnPing, seatVars, OnCapabilities, OnGlobal,
                  OnKeyboardEnter, OnKeyboardLeave, OnKeyboardInput, OnPointerEnter, OnPointerLeave,
                  OnPointerInput, OnTouchDown, OnTouchInput, OnTouchCancel
    <2> HIDE DEF ms
    <2> QED
      BY <2>3, <2>4, DevicesKeep
  <1>4. CASE OnGlobal
    <2> DEFINE ms == <<Msg("bind_seat", None, None, 0, NextEvent.serial)>>
    <2>0. NextEvent \in Event /\ NextEvent.type = "global"
      BY <1>4, DeliverForSeats, TailPlaces DEF OnGlobal
    <2>1. ms \in Seq(Request) /\ NoGets(ms)
      BY <2>0, EventFields, OneRequest, ZeroTyped, OneNoGets
         DEF RequestType, BufferType, SeatType, GetTypes
    <2>2. Emit(ms) /\ UNCHANGED devices
      BY <1>4 DEF OnGlobal, seatVars
    <2> HIDE DEF ms
    <2> QED
      BY <2>1, <2>2, DevicesKeep
  <1>5. CASE ~OnCapabilities /\ ~OnConfigure /\ ~OnPing /\ ~OnGlobal
    <2>1. UNCHANGED <<reqs, devices>>
      BY <1>5 DEF Deliver, OnAppEvent, OnClose, OnRelease, OnDiscarded, OnSeatEvent, seatVars,
                  OnKeyboardEnter, OnKeyboardLeave, OnKeyboardInput, OnPointerEnter, OnPointerLeave,
                  OnPointerInput, OnTouchDown, OnTouchInput, OnTouchCancel
    <2> QED
      BY <2>1, DevicesKeep
  <1> QED
    BY <1>1, <1>2, <1>3, <1>4, <1>5

LEMMA CoreStepInput ==
    ASSUME TypeInv, InputInv, CoreStep, UNCHANGED <<bound, seat_focus, stamp>>
    PROVE  InputInv'
  <1>1. CASE Deliver
    BY <1>1, DeliverTakesDevice, OrderDeliver, DeliverIsRouted, FocusDeliver DEF InputInv
  <1>2. CASE PumpRead
    <2>1. UNCHANGED devices /\ (UNCHANGED reqs \/ reqs' = <<>>) /\ UNCHANGED input_queue
      BY <1>2, ReadForSeats DEF Lose, seatVars
    <2>2. DeviceInv' /\ RoutedToTarget'
      BY <2>1, DevicesKeep DEF InputInv, RoutedToTarget
    <2> QED
      BY <1>2, <2>2, OrderRead, FocusRead DEF InputInv
  <1>3. CASE PollInputBody
    <2> DEFINE q == input_queue
               n == IF Len(q) < PollCap THEN Len(q) ELSE PollCap
               rest == SubSeq(q, n + 1, Len(q))
    <2>1. input_queue' = rest /\ UNCHANGED <<reqs, evs, conn, devices, focus>>
      BY <1>3 DEF PollInputBody, Drain, wireVars
    <2>2. q \in Seq(InputEvent) /\ n \in 0..Len(q)
      BY OrderTypes, ConstantsTyped
    <2>3. \A i \in DOMAIN rest : i + n \in DOMAIN q /\ rest[i] = q[i + n]
      BY <2>2
    <2> HIDE DEF n
    <2>4. RoutedToTarget'
      BY <2>1, <2>3 DEF InputInv, RoutedToTarget
    <2>5. DeviceInv' /\ FocusInv'
      BY <2>1, DevicesKeep, FocusQuiet DEF InputInv
    <2> QED
      BY <1>3, <2>4, <2>5, OrderDrain DEF InputInv
  <1>4. CASE ~PumpRead /\ ~Deliver /\ ~PollInputBody
    <2>1. /\ UNCHANGED <<devices, focus, input_queue, polled>>
          /\ \/ Lose
             \/ /\ UNCHANGED <<evs, conn>>
                /\ \/ UNCHANGED reqs
                   \/ \E ms \in Seq(Request) : NoGets(ms) /\ Emit(ms)
      BY <1>4, CoreSays, UnpromptedNoGets
    <2>2. DeviceInv' /\ OrderInv' /\ RoutedToTarget'
      BY <2>1, DevicesKeep, OrderQuiet DEF InputInv, RoutedToTarget, Lose
    <2>3. FocusInv'
      <3>1. CASE Lose
        BY <2>1, <3>1, FocusGone DEF InputInv, Lose
      <3>2. CASE UNCHANGED <<evs, conn>>
        BY <2>1, <3>2, FocusQuiet DEF InputInv
      <3> QED
        BY <2>1, <3>1, <3>2
    <2> QED
      BY <2>2, <2>3 DEF InputInv
  <1> QED
    BY <1>1, <1>2, <1>3, <1>4

LEMMA AcceptInput ==
    ASSUME TypeInv, InputInv, Accept, UNCHANGED <<devices, focus, input_queue, polled>>
    PROVE  InputInv'
  <1>1. RoutedToTarget' /\ DeviceInv'
    BY AcceptTakesDevice DEF InputInv, RoutedToTarget
  <1>2. \/ UNCHANGED evs
        \/ \E m \in Event : m.type \notin DeviceType /\ evs' = evs \o <<m>>
    <2>1. ASSUME NEW m, <<m>> \in Seq(SeatEvent), m.type = "capabilities", evs' = evs \o <<m>>
          PROVE  \E e \in Event : e.type \notin DeviceType /\ evs' = evs \o <<e>>
      <3>1. m \in SeatEvent
        BY <2>1
      <3> QED
        BY <2>1, <3>1 DEF SeatEvent, DeviceType
    <2>2. \A n : Msg("capabilities", None, None, 0, n).type = "capabilities"
      BY DEF Msg
    <2> QED
      BY <2>1, <2>2, AcceptForSeats
  <1>3. OrderInv'
    BY <1>2, OrderQuiet, AcceptForSeats DEF InputInv
  <1>4. \A s \in Seat, d \in Device : bound[s][d] \in {0, 1}
    BY DEF InputInv, DeviceInv, TakenOnce
  <1>5. CASE UNCHANGED bound
    <2>1. \A d \in Device, s \in Seat : Meant(s, d)' \in {None, Meant(s, d)}
      BY <1>5, AcceptForSeats DEF Meant
    <2> QED
      BY <1>1, <1>2, <1>3, <1>5, <2>1, FocusAside DEF InputInv
  <1>6. CASE Oldest.type \in GetTypes
    <2> DEFINE s == Oldest.serial
               c == DeviceOf(Oldest.type)
    <2>1. /\ s \in Seat /\ c \in Device /\ GetType(c) = Oldest.type
          /\ bound' = [bound EXCEPT ![s][c] = @ + 1]
          /\ UNCHANGED <<evs, conn, seat_focus>>
      BY <1>6, AcceptForSeats, Gets DEF GetTypes, SeatType
    <2>2. \A u \in Seat : bound[u][c] = 0
      <3>1. ~Quiet(reqs, GetType(c))
        <4>1. 1 \in DOMAIN reqs /\ reqs[1] = Oldest
          BY AcceptForSeats, TailFacts DEF TypeInv, TypeOK, WireTypeOK
        <4> QED
          BY <2>1, <4>1 DEF Quiet
      <3> QED
        BY <1>4, <2>1, <3>1 DEF InputInv, DeviceInv, TakenOnce
    <2>3. \A u \in Seat, d \in Device : bound'[u][d] = IF u = s /\ d = c THEN 1 ELSE bound[u][d]
      <3>1. bound \in [Seat -> [Device -> Nat]]
        BY DEF TypeInv, TypeOK, WestonTypeOK
      <3> QED
        BY <2>1, <2>2, <3>1
    <2>4. \A d \in Device : d # c => \A u \in Seat : Meant(u, d)' = Meant(u, d)
      BY <2>1, <2>3 DEF Meant
    <2> HIDE DEF s, c
    <2>5. FocusInv'
      BY <2>1, <2>2, <2>3, <2>4, FocusAside DEF InputInv
    <2> QED
      BY <1>1, <1>3, <2>5 DEF InputInv
  <1> QED
    BY <1>5, <1>6, AcceptForSeats

LEMMA WestonStepInput ==
    ASSUME TypeInv, InputInv, WestonStep,
           UNCHANGED <<devices, focus, input_queue, polled>>
    PROVE  InputInv'
  <1>0. RoutedToTarget'
    BY DEF InputInv, RoutedToTarget
  <1>1. CASE Accept
    BY <1>1, AcceptInput
  <1>2. CASE \/ SendPing \/ SeatAppears \/ \E s \in Seat : SeatAnnounces(s)
             \/ \E h \in Handle : SendConfigure(h) \/ SendClose(h)
             \/ \E b \in held : Release(b)
    <2>1. Aside
      BY <1>2, AsideSends
    <2>2. DeviceInv' /\ OrderInv' /\ FocusInv'
      BY <2>1, DevicesKeep, OrderAside, FocusQuiet DEF InputInv, Aside
    <2> QED
      BY <1>0, <2>2 DEF InputInv
  <1>3. ASSUME NEW s \in Seat, SeatActs(s), ~SeatAnnounces(s)
        PROVE  InputInv'
    <2>1. DeviceInv'
      BY <1>3, SeatSpeaks, DevicesKeep DEF InputInv
    <2> QED
      BY <1>0, <1>3, <2>1, OrderSeat, FocusSeat DEF InputInv
  <1>4. CASE Crash
    <2>1. /\ UNCHANGED <<reqs, evs, bound, seat_focus, stamp>>
          /\ conn' = "up" => conn = "up"
      BY <1>4 DEF Crash, PeerGone, clientVars
    <2>2. DeviceInv' /\ OrderInv'
      BY <2>1, DevicesKeep, OrderQuiet DEF InputInv
    <2>3. \A d \in Device, s \in Seat : Meant(s, d)' \in {None, Meant(s, d)}
      BY <2>1 DEF Meant
    <2>4. FocusInv'
      BY <2>1, <2>3, FocusAside DEF InputInv
    <2> QED
      BY <1>0, <2>2, <2>4 DEF InputInv
  <1> QED
    BY <1>1, <1>2, <1>3, <1>4 DEF WestonStep

\* A new bridge starts with no device, no focus and nothing decoded.
LEMMA StartInput ==
    ASSUME TypeInv, Idle, InputInv, Start
    PROVE  InputInv'
  <1>1. /\ bridge = "null" /\ UNCHANGED <<devices, focus, input_queue, polled>>
        /\ UNCHANGED <<bound, seat_focus, stamp>>
        /\ reqs' = <<>> /\ conn' = "up"
        /\ evs' = [i \in 1..seats |-> Msg("capabilities", None, None, 0, i)]
    BY DEF Start, AnowawStart, ClientConnects, seatVars
  <1>2. SeatInit /\ \A s \in Seat, d \in Device : bound[s][d] = 0 /\ focus[d] = None
    BY <1>1 DEF Idle, SeatInit, NoClient
  <1>3. DeviceInv' /\ RoutedToTarget'
    BY <1>1, DevicesKeep DEF InputInv, RoutedToTarget
  <1>4. \A i \in DOMAIN evs' : evs'[i].type = "capabilities"
    BY <1>1 DEF Msg
  <1>5. OrderInv'
    <2>1. Timely(evs', stamp') /\ Past(stamp')
      BY <1>1, <1>4 DEF Timely, InputInv, OrderInv, Past, DeviceType
    <2> QED
      BY <1>1, <2>1, OrderKeeps DEF InputInv
  <1>6. FocusInv'
    <2>1. ASSUME NEW d \in Device
          PROVE  Unset(evs', d)
      BY <1>4 DEF Unset, Sets
    <2>2. ASSUME NEW d \in Device, NEW s \in Seat
          PROVE  Routed(evs, d, focus[d], Meant(s, d))'
      <3>1. evs' \in Seq(Event)
        BY NextTyped DEF Next, TypeInv, TypeOK, WireTypeOK
      <3>2. Routed(evs', d, None, Meant(s, d)')
        BY <2>1, <3>1, RoutedUnset
      <3>3. focus'[d] = None
        BY <1>1, <1>2
      <3> QED
        BY <3>2, <3>3 DEF Routed, Leads
    <2>3. \A d \in Device : focus'[d] = None /\ Unset(evs, d)'
      BY <1>1, <1>2, <2>1 DEF Unset, SeatInit
    <2> QED
      BY <2>2, <2>3 DEF FocusInv
  <1> QED
    BY <1>3, <1>5, <1>6 DEF InputInv

\* A bridge that stops leaves nothing behind.
LEMMA StopInput ==
    ASSUME TypeInv, InputInv, Stop
    PROVE  InputInv'
  <1>1. /\ reqs' = <<>> /\ evs' = <<>> /\ conn' = "none"
        /\ devices' = {} /\ focus' = [d \in Device |-> None]
        /\ input_queue' = <<>> /\ polled' = 0
        /\ bound' = [s \in Seat |-> [d \in Device |-> 0]] /\ stamp' = stamp
    BY DEF Stop, AnowawStop, ClientGone
  <1>2. DeviceInv'
    BY <1>1 DEF DeviceInv, TakenOnce, Sole, Quiet
  <1>3. OrderInv'
    <2>1. polled' <= stamp'
      BY <1>1, OrderTypes
    <2> QED
      BY <1>1, <2>1 DEF OrderInv, InputInOrder, Timely, Past
  <1>4. RoutedToTarget'
    BY <1>1 DEF RoutedToTarget
  <1>5. FocusInv'
    <2>1. \A s \in Seat, d \in Device : Meant(s, d)' = None /\ focus'[d] = None
      BY <1>1 DEF Meant
    <2>2. \A d \in Device : Unset(evs, d)' /\ \A s \in Seat : Routed(evs, d, focus[d], Meant(s, d))'
      BY <1>1, <2>1 DEF Unset, Routed
    <2> QED
      BY <1>1, <2>2 DEF FocusInv
  <1> QED
    BY <1>2, <1>3, <1>4, <1>5 DEF InputInv

LEMMA InitInput == Init => InputInv
  <1> SUFFICES ASSUME Init PROVE InputInv
    OBVIOUS
  <1>1. /\ reqs = <<>> /\ evs = <<>> /\ conn # "up"
        /\ devices = {} /\ focus = [d \in Device |-> None]
        /\ input_queue = <<>> /\ polled = 0
        /\ bound = [s \in Seat |-> [d \in Device |-> 0]] /\ stamp = 0
    BY DEF Init, WireInit, SeatInit, WestonInit, NoClient
  <1>2. DeviceInv
    BY <1>1 DEF DeviceInv, TakenOnce, Sole, Quiet
  <1>3. OrderInv
    BY <1>1 DEF OrderInv, InputInOrder, Timely, Past
  <1>4. RoutedToTarget
    BY <1>1 DEF RoutedToTarget
  <1>5. FocusInv
    <2>1. \A s \in Seat, d \in Device : Meant(s, d) = None /\ focus[d] = None
      BY <1>1 DEF Meant
    <2> QED
      BY <1>1, <2>1 DEF FocusInv, Unset, Routed
  <1> QED
    BY <1>2, <1>3, <1>4, <1>5 DEF InputInv

LEMMA NextInput ==
    ASSUME TypeInv, Idle, InputInv, [Next]_vars
    PROVE  InputInv'
  <1>1. CASE Start
    BY <1>1, StartInput
  <1>2. CASE Stop
    BY <1>2, StopInput
  <1>3. CASE CompositorStep
    BY <1>3, WestonStepInput DEF CompositorStep, abiVars, coreVars, seatVars
  <1>4. ASSUME UNCHANGED <<reqs, evs, conn, devices, focus, input_queue, polled,
                           bound, seat_focus, stamp>>
        PROVE  InputInv'
    BY <1>4, DevicesKeep, OrderQuiet, FocusQuiet DEF InputInv, RoutedToTarget
  <1>5. CASE BridgeStep
    <2>1. AbiStep /\ UNCHANGED <<bound, seat_focus, stamp>>
      BY <1>5 DEF BridgeStep, westonVars, clientVars
    <2>2. CASE CoreStep
      BY <2>1, <2>2, CoreStepInput
    <2>3. CASE ~CoreStep
      BY <1>4, <1>5, <2>1, <2>3, CallsAreSilent DEF wireVars, seatVars
    <2> QED
      BY <2>2, <2>3
  <1>6. CASE UNCHANGED vars
    BY <1>4, <1>6 DEF vars, wireVars, abiVars, coreVars, seatVars, westonVars, clientVars
  <1> QED
    BY <1>1, <1>2, <1>3, <1>5, <1>6 DEF Next, Finished

LEMMA InputInvariance == Spec => []InputInv
  BY TypeInvariance, IdleInvariance, InitInput, NextInput, PTL DEF Spec

\* Input reaches the app it is meant for or nobody: between the compositor's choice of an
\* app and the decoding of the event the app may be closed, the focus may move on and the
\* connection may fail, and still no event is queued under the handle of another app
\* (core/src/bridge.rs, the wl_keyboard, wl_pointer and wl_touch handlers;
\* surface_to_handle; push_event).
THEOREM InputIsRouted == Spec => []RoutedToTarget
  BY InputInvariance, PTL DEF InputInv

\* The shim is given each input once and in the order the compositor sent it, however often
\* capabilities are announced, of whichever seats, and however little fits into a poll: a
\* device of each kind is asked for once, so that an event is not sent to two objects of
\* it, and a poll takes the front of the queue (core/src/bridge.rs, the wl_seat handler, push_event and poll_input;
\* core/src/ffi.rs, anowaw_poll_input).
THEOREM InputIsOrdered == Spec => []InputInOrder
  BY InputInvariance, PTL DEF InputInv, OrderInv

-----------------------------------------------------------------------------
(* Of whatever a seat has, a device is asked for.                           *)

\* What is marked as held has been asked for.
DevicesHeld == \A d \in devices : Asked(d)

\* Which steps take devices.
LEMMA DeviceSteps ==
    ASSUME TypeInv, [Next]_vars
    PROVE  \/ UNCHANGED devices
           \/ devices' = {}
           \/ BridgeStep /\ Deliver /\ OnCapabilities
  <1>1. CASE UNCHANGED vars \/ Start \/ CompositorStep \/ Finished
    BY <1>1 DEF Start, AnowawStart, CompositorStep, Finished, vars, abiVars, coreVars, seatVars
  <1>2. CASE Stop
    BY <1>2 DEF Stop, AnowawStop
  <1>3. CASE BridgeStep
    <2>1. CASE Deliver
      BY <1>3, <2>1 DEF Deliver, OnAppEvent, OnSeatEvent, OnGlobal, OnKeyboardEnter,
         OnKeyboardLeave, OnKeyboardInput, OnPointerEnter, OnPointerLeave, OnPointerInput,
         OnTouchDown, OnTouchInput, OnTouchCancel, seatVars
    <2>2. CASE PumpRead \/ PollInputBody
      BY <2>2 DEF PumpRead, PollInputBody, Drain, seatVars
    <2>3. CASE CoreStep /\ ~PumpRead /\ ~PollInputBody /\ ~Deliver
      BY <2>3, CoreSays
    <2>4. CASE ~CoreStep
      BY <1>3, <2>4, CallsAreSilent DEF seatVars
    <2> QED
      BY <2>1, <2>2, <2>3, <2>4
  <1> QED
    BY <1>1, <1>2, <1>3 DEF Next

\* Messages are counted as they are named: one of the seat n.
LEMMA CountsConcat ==
    ASSUME NEW M, NEW seq \in Seq(M), NEW ms \in Seq(M), NEW n, NEW type
    PROVE  Counts(seq, n, type) \/ Counts(ms, n, type) => Counts(seq \o ms, n, type)
  <1>1. ASSUME NEW i \in DOMAIN seq, seq[i].type = type, seq[i].serial = n
        PROVE  Counts(seq \o ms, n, type)
    <2>1. i \in DOMAIN (seq \o ms) /\ (seq \o ms)[i] = seq[i]
      BY ConcatFacts
    <2> QED
      BY <1>1, <2>1 DEF Counts
  <1>2. ASSUME NEW k \in DOMAIN ms, ms[k].type = type, ms[k].serial = n
        PROVE  Counts(seq \o ms, n, type)
    <2>1. Len(seq) + k \in DOMAIN (seq \o ms) /\ (seq \o ms)[Len(seq) + k] = ms[k]
      BY ConcatFacts
    <2> QED
      BY <1>2, <2>1 DEF Counts
  <1> QED
    BY <1>1, <1>2 DEF Counts

LEMMA CountsTail ==
    ASSUME NEW M, NEW seq \in Seq(M), seq # <<>>, NEW n, NEW type, Counts(seq, n, type)
    PROVE  Counts(Tail(seq), n, type) \/ (Head(seq).type = type /\ Head(seq).serial = n)
  <1>1. ASSUME NEW i \in DOMAIN seq, seq[i].type = type, seq[i].serial = n
        PROVE  Counts(Tail(seq), n, type) \/ (Head(seq).type = type /\ Head(seq).serial = n)
    BY <1>1, TailFacts DEF Counts
  <1> QED
    BY <1>1 DEF Counts

LEMMA CountsKeeps ==
    ASSUME NEW new, NEW old, Keeps(new, old), NEW n, NEW type, Counts(old, n, type)
    PROVE  Counts(new, n, type)
  BY DEF Keeps, Counts

LEMMA OneCounts ==
    ASSUME NEW type, NEW n
    PROVE  Counts(<<Msg(type, None, None, 0, n)>>, n, type)
  <1> DEFINE one == <<Msg(type, None, None, 0, n)>>
  <1>1. 1 \in DOMAIN one /\ one[1].type = type /\ one[1].serial = n
    BY DEF Msg
  <1> QED
    BY <1>1 DEF Counts

\* One more message about a seat.
LEMMA CountsOneMore ==
    ASSUME NEW M, NEW seq \in Seq(M), NEW type, NEW n, <<Msg(type, None, None, 0, n)>> \in Seq(M)
    PROVE  Counts(seq \o <<Msg(type, None, None, 0, n)>>, n, type)
  <1> DEFINE one == <<Msg(type, None, None, 0, n)>>
  <1>1. one \in Seq(M) /\ Counts(one, n, type)
    BY OneCounts
  <1> HIDE DEF one
  <1>2. Counts(seq \o one, n, type)
    BY <1>1, CountsConcat
  <1> QED
    BY <1>2 DEF one

LEMMA CapabilitiesSay ==
    ASSUME NEW s \in Seat, NEW d \in Capabilities(s) \ devices
    PROVE  LET ms == GetDevice(s, "keyboard", "get_keyboard")
                     \o GetDevice(s, "pointer", "get_pointer")
                     \o GetDevice(s, "touch", "get_touch")
           IN  ms \in Seq(Request) /\ Counts(ms, s, GetType(d))
  <1> DEFINE k == GetDevice(s, "keyboard", "get_keyboard")
             p == GetDevice(s, "pointer", "get_pointer")
             t == GetDevice(s, "touch", "get_touch")
             u == GetType(d)
  <1>1. k \in Seq(Request) /\ p \in Seq(Request) /\ t \in Seq(Request)
    BY GetDeviceTyped
  <1>2. ASSUME NEW type PROVE Counts(GetDevice(s, d, type), s, type)
    BY OneCounts DEF GetDevice
  <1>3. Counts(k, s, u) \/ Counts(p, s, u) \/ Counts(t, s, u)
    <2>1. d \in {"keyboard", "pointer", "touch"}
      BY DEF Device, Capabilities
    <2>2. d = "keyboard" => u = "get_keyboard"
      BY DEF GetType
    <2>3. d = "pointer" => u = "get_pointer"
      BY DEF GetType
    <2>4. d = "touch" => u = "get_touch"
      BY DEF GetType
    <2> HIDE DEF u
    <2> QED
      BY <1>2, <2>1, <2>2, <2>3, <2>4
  <1> HIDE DEF k, p, t, u
  <1> DEFINE kp == k \o p
  <1>4. kp \in Seq(Request) /\ (Counts(k, s, u) \/ Counts(p, s, u) => Counts(kp, s, u))
    BY <1>1, CountsConcat
  <1> HIDE DEF kp
  <1>5. kp \o t \in Seq(Request) /\ Counts(kp \o t, s, u)
    BY <1>1, <1>3, <1>4, CountsConcat
  <1> QED
    BY <1>5 DEF k, p, t, u, kp

\* What is asked for stays so: a request that the compositor takes binds the device.
LEMMA AskedStays ==
    ASSUME TypeInv, Idle, [Next]_vars, conn = "up", conn' = "up", NEW d \in Device, Asked(d)
    PROVE  Asked(d)'
  <1>1. reqs \in Seq(Request) /\ bound \in [Seat -> [Device -> Nat]]
    BY DEF TypeInv, TypeOK, WireTypeOK, WestonTypeOK
  <1>2. PICK s \in Seat : /\ d \in Capabilities(s)
                          /\ bound[s][d] > 0 \/ Counts(reqs, s, GetType(d))
    BY DEF Asked
  <1> SUFFICES bound'[s][d] > 0 \/ Counts(reqs', s, GetType(d))
    BY <1>2 DEF Asked, Capabilities, SeatsWith
  <1>3. CASE CompositorStep /\ Accept
    <2>1. reqs # <<>> /\ reqs' = Tail(reqs) /\ Head(reqs) = Oldest
      BY <1>3, AcceptForSeats
    <2>2. /\ bound'[s][d] >= bound[s][d]
          /\ Oldest.type = GetType(d) /\ Oldest.serial = s => bound'[s][d] > 0
      <3>1. CASE UNCHANGED bound /\ Oldest.type \notin GetTypes
        BY <1>1, <3>1, Gets
      <3>2. CASE Oldest.type \in GetTypes
        <4>1. bound' = [bound EXCEPT ![Oldest.serial][DeviceOf(Oldest.type)] = @ + 1]
          BY <1>3, <3>2, AcceptForSeats
        <4>2. /\ Oldest.serial \in Seat /\ DeviceOf(Oldest.type) \in Device
              /\ Oldest.type = GetType(d) => DeviceOf(Oldest.type) = d
          BY <1>3, <3>2, AcceptForSeats, Gets DEF GetTypes, SeatType
        <4> QED
          BY <1>1, <4>1, <4>2
      <3> QED
        BY <1>3, <3>1, <3>2, AcceptForSeats
    <2>3. CASE bound[s][d] > 0
      <3>1. bound[s][d] \in Nat /\ bound'[s][d] \in Nat
        BY <1>1, NextTyped DEF TypeInv, TypeOK, WestonTypeOK
      <3> QED
        BY <2>2, <2>3, <3>1
    <2>4. CASE Counts(reqs, s, GetType(d))
      BY <1>1, <2>1, <2>2, <2>4, CountsTail
    <2> QED
      BY <1>2, <2>3, <2>4
  <1>4. CASE ~(CompositorStep /\ Accept)
    <2>1. Keeps(reqs', reqs)
      BY <1>4, RequestsArrive
    <2>2. UNCHANGED bound
      BY <1>4, UpSteps, SeatTrafficKeeps DEF BridgeStep, CompositorStep, WestonStep, SeatTraffic,
         SendConfigure, SendClose, Release, SendPing, Crash, vars, westonVars, clientVars
    <2> QED
      BY <1>2, <2>1, <2>2, CountsKeeps
  <1> QED
    BY <1>3, <1>4

\* Capabilities that are dispatched make the bridge ask for what it does not hold.
LEMMA CapabilitiesHeld ==
    ASSUME TypeInv, conn = "up", OnCapabilities, NEW d \in Device, d \in devices', d \notin devices
    PROVE  Asked(d)'
  <1> DEFINE s == NextEvent.serial
             ms == GetDevice(s, "keyboard", "get_keyboard")
                   \o GetDevice(s, "pointer", "get_pointer")
                   \o GetDevice(s, "touch", "get_touch")
  <1>1. s \in Seat
    BY DropTyped, EventFields DEF OnCapabilities, TypeInv, TypeOK, SeatType
  <1>2. d \in Capabilities(s) \ devices
    BY DEF OnCapabilities
  <1>3. ms \in Seq(Request) /\ Counts(ms, s, GetType(d))
    BY <1>1, <1>2, CapabilitiesSay
  <1>4. reqs \in Seq(Request) /\ reqs' = reqs \o ms
    BY DEF OnCapabilities, Emit, TypeInv, TypeOK, WireTypeOK
  <1> HIDE DEF ms, s
  <1>5. Counts(reqs', s, GetType(d))
    BY <1>3, <1>4, CountsConcat
  <1> QED
    BY <1>1, <1>2, <1>5 DEF Asked, Capabilities, SeatsWith

LEMMA NextDevicesHeld ==
    ASSUME TypeInv, Idle, conn = "up" => DevicesHeld, [Next]_vars, conn' = "up"
    PROVE  DevicesHeld'
  <1> SUFFICES ASSUME NEW d \in devices' PROVE Asked(d)'
    BY DEF DevicesHeld
  <1>1. d \in Device
    BY NextTyped DEF TypeInv, TypeOK, SeatTypeOK
  <1>2. CASE Start
    BY <1>2 DEF Start, AnowawStart, Idle, SeatInit, seatVars
  <1>3. CASE conn = "up" /\ d \in devices
    BY <1>1, <1>3, AskedStays DEF DevicesHeld
  <1>4. CASE conn = "up" /\ d \notin devices
    BY <1>1, <1>4, DeviceSteps, CapabilitiesHeld
  <1> QED
    BY <1>2, <1>3, <1>4, ComesUp

\* A message about a seat stays, until it is dispatched.
LEMMA SeatEventStays ==
    ASSUME TypeInv, Idle, [Next]_vars, conn = "up", conn' = "up", NEW s,
           NEW type \in {"global", "capabilities"}, Counts(evs, s, type)
    PROVE  \/ Counts(evs', s, type)
           \/ BridgeStep /\ Deliver /\ NextEvent.type = type /\ NextEvent.serial = s
  <1>1. evs \in Seq(Event)
    BY DEF TypeInv, TypeOK, WireTypeOK
  <1>2. CASE KeepsLive(evs', evs)
    BY <1>2 DEF KeepsLive, ObjectLives, Counts
  <1>3. CASE BridgeStep /\ Deliver /\ evs # <<>> /\ evs' = Tail(evs)
    BY <1>1, <1>3, CountsTail DEF NextEvent
  <1> QED
    BY <1>2, <1>3, EventsArrive

LEMMA GlobalBinds ==
    ASSUME TypeInv, conn = "up", Deliver, NextEvent.type = "global"
    PROVE  Counts(reqs', NextEvent.serial, "bind_seat")
  <1>1. OnGlobal
    BY DEF Deliver, OnAppEvent, OnConfigure, OnClose, OnRelease, OnPing, OnDiscarded, OnSeatEvent,
           OnCapabilities, OnKeyboardEnter, OnKeyboardLeave, OnKeyboardInput, OnPointerEnter,
           OnPointerLeave, OnPointerInput, OnTouchDown, OnTouchInput, OnTouchCancel
  <1>2. NextEvent.serial \in Seat
    BY <1>1, DropTyped, EventFields DEF OnGlobal, TypeInv, TypeOK, SeatType
  <1>3. <<Msg("bind_seat", None, None, 0, NextEvent.serial)>> \in Seq(Request)
    BY <1>2, SeatNumber, OneRequest, ZeroTyped DEF RequestType, BufferType
  <1>4. /\ reqs \in Seq(Request)
        /\ reqs' = reqs \o <<Msg("bind_seat", None, None, 0, NextEvent.serial)>>
    BY <1>1 DEF OnGlobal, Emit, TypeInv, TypeOK, WireTypeOK
  <1> QED
    BY <1>3, <1>4, CountsOneMore

LEMMA BindTells ==
    ASSUME TypeInv, Accept, Oldest.type = "bind_seat"
    PROVE  Counts(evs', Oldest.serial, "capabilities")
  <1>1. AcceptBindSeat
    BY DEF Accept, AcceptCreate, AcceptCreatePool, AcceptFrame, AcceptDestroyPool,
           AcceptDestroyWindow, AcceptDestroy, AcceptAck, AcceptPong, AcceptGetDevice
  <1>2. /\ evs \in Seq(Event)
        /\ <<Msg("capabilities", None, None, 0, Oldest.serial)>> \in Seq(Event)
        /\ evs' = evs \o <<Msg("capabilities", None, None, 0, Oldest.serial)>>
    BY <1>1, BindReplyTyped DEF Accept, AcceptBindSeat, SendEvents, TypeInv, TypeOK, WireTypeOK
  <1> QED
    BY <1>2, CountsOneMore

\* A seat that appears while the bridge is connected is announced to it.
LEMMA SeatSteps ==
    ASSUME TypeInv, [Next]_vars, conn' = "up"
    PROVE  UNCHANGED seats \/ (seats' = seats + 1 /\ Counts(evs', seats', "global"))
  <1>1. CASE UNCHANGED vars \/ Start \/ BridgeStep \/ Finished
    BY <1>1 DEF Start, ClientConnects, BridgeStep, Finished, vars, westonVars
  <1>2. CASE Stop
    BY <1>2 DEF Stop, AnowawStop
  <1>3. CASE SeatAppears
    <2>1. seats + 1 \in Seat
      BY <1>3, ConstantsTyped DEF SeatAppears, TypeInv, TypeOK, WestonTypeOK, Seat
    <2>2. <<Msg("global", None, None, 0, seats + 1)>> \in Seq(Event)
      BY <2>1, SeatNumber, OneEvent, ZeroTyped DEF EventType, BufferType
    <2>3. evs \in Seq(Event) /\ evs' = evs \o <<Msg("global", None, None, 0, seats + 1)>>
      BY <1>3 DEF SeatAppears, SendEvents, TypeInv, TypeOK, WireTypeOK
    <2>4. seats' = seats + 1
      BY <1>3 DEF SeatAppears
    <2> QED
      BY <2>2, <2>3, <2>4, CountsOneMore
  <1>4. CASE CompositorStep /\ ~SeatAppears
    <2>1. \A s \in Seat : SeatActs(s) => UNCHANGED seats
      BY DEF SeatActs, SeatAnnounces, MoveFocus, DeviceInput, TouchDown, TouchUp, TouchCancel,
             SeatStep
    <2>2. Accept => UNCHANGED seats
      BY DEF Accept, AcceptCreate, AcceptCreatePool, AcceptFrame, AcceptDestroyPool,
             AcceptDestroyWindow, AcceptDestroy, AcceptAck, AcceptPong, AcceptBindSeat,
             AcceptGetDevice, ProtocolError
    <2> QED
      BY <1>4, <2>1, <2>2 DEF CompositorStep, WestonStep, SendConfigure, SendClose, Release,
         SendPing, Crash
  <1> QED
    BY <1>1, <1>2, <1>3, <1>4 DEF Next

LEMMA NextDevicesAsked ==
    ASSUME TypeInv, Idle, conn = "up" => DevicesHeld, DevicesAsked, [Next]_vars
    PROVE  DevicesAsked'
  <1> SUFFICES ASSUME conn' = "up", NEW s \in 1..seats', ~Counts(evs', s, "global"),
                      ~Counts(reqs', s, "bind_seat"), ~Counts(evs', s, "capabilities"),
                      NEW d \in Capabilities(s)
               PROVE  Asked(d)'
    BY DEF DevicesAsked, Capabilities, SeatsWith
  <1>1. d \in Device /\ reqs \in Seq(Request) /\ evs \in Seq(Event) /\ seats \in Nat
    BY ConstantsTyped DEF Capabilities, TypeInv, TypeOK, WireTypeOK, WestonTypeOK
  <1>2. s \in 1..seats
    BY <1>1, SeatSteps
  <1>3. CASE Start
    <2>1. evs' = [i \in 1..seats |-> Msg("capabilities", None, None, 0, i)]
      BY <1>3 DEF Start, AnowawStart
    <2>2. s \in DOMAIN evs' /\ evs'[s].type = "capabilities" /\ evs'[s].serial = s
      BY <1>2, <2>1 DEF Msg
    <2> QED
      BY <2>2 DEF Counts
  <1>4. CASE conn = "up"
    <2>1. CASE Counts(evs, s, "global")
      BY <1>4, <2>1, SeatEventStays, GlobalBinds
    <2>2. CASE Counts(reqs, s, "bind_seat")
      <3>1. CASE Keeps(reqs', reqs)
        BY <2>2, <3>1, CountsKeeps
      <3>2. CASE Accept /\ reqs # <<>> /\ reqs' = Tail(reqs)
        <4>1. Oldest.type = "bind_seat" /\ Oldest.serial = s
          BY <1>1, <2>2, <3>2, CountsTail DEF Oldest
        <4> QED
          BY <3>2, <4>1, BindTells
      <3> QED
        BY <1>4, <3>1, <3>2, RequestsArrive
    <2>3. CASE Counts(evs, s, "capabilities")
      <3>1. Deliver /\ NextEvent.type = "capabilities" /\ NextEvent.serial = s
        BY <1>4, <2>3, SeatEventStays
      <3>2. OnCapabilities
        BY <3>1 DEF Deliver, OnAppEvent, OnConfigure, OnClose, OnRelease, OnPing, OnDiscarded,
           OnSeatEvent, OnGlobal, OnKeyboardEnter, OnKeyboardLeave, OnKeyboardInput,
           OnPointerEnter, OnPointerLeave, OnPointerInput, OnTouchDown, OnTouchInput, OnTouchCancel
      <3>3. d \in devices'
        BY <3>1, <3>2 DEF OnCapabilities
      <3> QED
        BY <3>3, NextDevicesHeld DEF DevicesHeld
    <2>4. CASE Asked(d)
      BY <1>1, <1>4, <2>4, AskedStays
    <2> QED
      BY <1>2, <1>4, <2>1, <2>2, <2>3, <2>4 DEF DevicesAsked
  <1> QED
    BY <1>3, <1>4, ComesUp

\* Nothing that a seat has is left out: a seat that was there at the start or has appeared
\* since is being announced, bound or described, or a device of each kind it has is taken
\* or asked for, of this seat or of another: a kind is marked as held, for good, only when
\* a device of that kind is there or on its way (core/src/bridge.rs, the handlers of
\* wl_registry and wl_seat).
THEOREM DevicesAreAsked == Spec => []DevicesAsked
  <1> DEFINE Holding == conn = "up" => DevicesHeld
  <1>1. Init => Holding /\ DevicesAsked
    BY DEF Init, WireInit, DevicesAsked
  <1>2. TypeInv /\ Idle /\ Holding /\ [Next]_vars => Holding'
    BY NextDevicesHeld
  <1>3. TypeInv /\ Idle /\ Holding /\ DevicesAsked /\ [Next]_vars => DevicesAsked'
    BY NextDevicesAsked
  <1> HIDE DEF Holding
  <1> QED
    BY <1>1, <1>2, <1>3, TypeInvariance, IdleInvariance, PTL DEF Spec
=============================================================================
