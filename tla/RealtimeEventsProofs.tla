------------------------- MODULE RealtimeEventsProofs -------------------------
(***************************************************************************)
(* Proofs about RealtimeEvents, for any number of streams, events, losses  *)
(* and messages in the library's channel: IndInv is inductive, hence what  *)
(* reaches a client comes once, in order and without gaps of our making.   *)
(***************************************************************************)
EXTENDS RealtimeEvents, TLAPS

Message == Event \cup {Garbage}

-----------------------------------------------------------------------------
(* Sequences of messages.                                                  *)

LEMMA EventsAreNumbers ==
    ASSUME NEW seq \in Seq(Message)
    PROVE  Events(seq) \subseteq Event /\ Event \subseteq Nat
<1> QED  BY ConstantsAssumption DEF Events, Message, Event

\* A message is put at the end ...
LEMMA AppendParts ==
    ASSUME NEW seq \in Seq(Message), NEW m \in Message, InOrder(seq),
           Before(Events(seq), {m} \ {Garbage})
    PROVE  /\ Append(seq, m) \in Seq(Message) /\ InOrder(Append(seq, m))
           /\ Events(Append(seq, m)) = Events(seq) \cup ({m} \ {Garbage})
<1> DEFINE longer == Append(seq, m)
           n      == Len(seq)
<1>1. /\ n \in Nat /\ DOMAIN seq = 1..n /\ DOMAIN longer = 1..(n + 1)
      /\ longer[n + 1] = m /\ \A i \in 1..n : longer[i] = seq[i]
      /\ longer \in Seq(Message)
  OBVIOUS
<1> HIDE DEF longer, n
<1>2. \A i \in 1..(n + 1) : i \in 1..n \/ i = n + 1
  BY <1>1
<1>3. ASSUME NEW i \in DOMAIN longer, NEW j \in DOMAIN longer, i < j,
             Garbage \notin {longer[i], longer[j]}
      PROVE  longer[i] < longer[j]
  <2>1. i \in 1..n
    BY <1>1, <1>3
  <2>2. CASE j \in 1..n
    BY <1>1, <1>3, <2>1, <2>2 DEF InOrder
  <2>3. CASE j = n + 1
    <3>1. longer[i] \in Events(seq) /\ longer[j] \in {m} \ {Garbage}
      BY <1>1, <1>3, <2>1, <2>3 DEF Events
    <3> QED  BY <3>1 DEF Before
  <2> QED  BY <1>1, <1>2, <2>2, <2>3
<1>4. Events(longer) = Events(seq) \cup ({m} \ {Garbage})
  <2>1. \A i \in 1..n : i \in 1..(n + 1)
    BY <1>1
  <2>2. n + 1 \in 1..(n + 1)
    BY <1>1
  <2> QED  BY <1>1, <1>2, <2>1, <2>2 DEF Events
<1> QED  BY <1>1, <1>3, <1>4 DEF InOrder, longer

\* ... or taken from the front.
LEMMA TailParts ==
    ASSUME NEW seq \in Seq(Message), seq # <<>>, InOrder(seq)
    PROVE  /\ Tail(seq) \in Seq(Message) /\ InOrder(Tail(seq))
           /\ Head(seq) \in Message
           /\ Events(seq) = ({Head(seq)} \ {Garbage}) \cup Events(Tail(seq))
           /\ Before({Head(seq)} \ {Garbage}, Events(Tail(seq)))
<1> DEFINE tail == Tail(seq)
           n    == Len(seq)
<1>1. /\ n \in Nat /\ n >= 1 /\ DOMAIN seq = 1..n /\ DOMAIN tail = 1..(n - 1)
      /\ Head(seq) = seq[1] /\ seq[1] \in Message
      /\ \A i \in 1..(n - 1) : tail[i] = seq[i + 1]
      /\ tail \in Seq(Message)
  OBVIOUS
<1> HIDE DEF tail, n
<1>2. \A i \in 1..(n - 1) : i + 1 \in 1..n /\ 1 < i + 1
  BY <1>1
<1>3. InOrder(tail)
  <2> SUFFICES ASSUME NEW i \in 1..(n - 1), NEW j \in 1..(n - 1), i < j,
                      Garbage \notin {tail[i], tail[j]}
               PROVE  tail[i] < tail[j]
    BY <1>1 DEF InOrder
  <2>1. i + 1 < j + 1
    OBVIOUS
  <2> QED  BY <1>1, <1>2, <2>1 DEF InOrder
<1>4. Events(seq) = ({Head(seq)} \ {Garbage}) \cup Events(tail)
  <2>1. \A i \in 1..n : i = 1 \/ \E k \in 1..(n - 1) : i = k + 1
    <3> SUFFICES ASSUME NEW i \in 1..n, i # 1
                 PROVE  \E k \in 1..(n - 1) : i = k + 1
      OBVIOUS
    <3>1. i - 1 \in 1..(n - 1) /\ i = (i - 1) + 1
      BY <1>1
    <3> QED  BY <3>1
  <2>2. 1 \in 1..n
    BY <1>1
  <2>3. \A e : e \in Events(seq) =>
                   e \in ({Head(seq)} \ {Garbage}) \cup Events(tail)
    <3> SUFFICES ASSUME NEW i \in 1..n, seq[i] # Garbage
                 PROVE  seq[i] \in ({Head(seq)} \ {Garbage}) \cup Events(tail)
      BY <1>1 DEF Events
    <3>1. CASE i = 1
      BY <1>1, <3>1
    <3>2. CASE i # 1
      <4>1. PICK k \in 1..(n - 1) : i = k + 1
        BY <2>1, <3>2
      <4> QED  BY <1>1, <4>1 DEF Events
    <3> QED  BY <3>1, <3>2
  <2>4. \A e : e \in ({Head(seq)} \ {Garbage}) \cup Events(tail) =>
                   e \in Events(seq)
    BY <1>1, <1>2, <2>2 DEF Events
  <2> QED  BY <2>3, <2>4
<1>5. Before({Head(seq)} \ {Garbage}, Events(tail))
  <2> SUFFICES ASSUME Head(seq) # Garbage, NEW i \in 1..(n - 1),
                      tail[i] # Garbage
               PROVE  Head(seq) < tail[i]
    BY <1>1 DEF Before, Events
  <2>1. 1 \in 1..n
    BY <1>1
  <2> QED  BY <1>1, <1>2, <2>1 DEF InOrder
<1> QED  BY <1>1, <1>3, <1>4, <1>5 DEF tail

\* One message is dropped from the middle ...
LEMMA WithoutParts ==
    ASSUME NEW seq \in Seq(Message), NEW i \in 1..Len(seq), InOrder(seq)
    PROVE  /\ Without(seq, i) \in Seq(Message) /\ InOrder(Without(seq, i))
           /\ Events(Without(seq, i)) = Events(seq) \ {seq[i]}
<1> DEFINE n    == Len(seq)
           at(k) == IF k < i THEN k ELSE k + 1
           rest == Without(seq, i)
<1>1. n \in Nat /\ DOMAIN seq = 1..n /\ i \in 1..n
      /\ \A k \in 1..n : seq[k] \in Message
  OBVIOUS
<1> HIDE DEF n
<1>2. \A k \in 1..(n - 1) : at(k) \in 1..n /\ at(k) # i
  BY <1>1
<1>3. \A k, l \in 1..(n - 1) : k < l => at(k) < at(l)
  BY <1>1
<1>4. \A j \in 1..n : j # i => \E k \in 1..(n - 1) : j = at(k)
  <2> SUFFICES ASSUME NEW j \in 1..n, j # i
               PROVE  \E k \in 1..(n - 1) : j = at(k)
    OBVIOUS
  <2>1. CASE j < i
    <3>1. j \in 1..(n - 1) /\ at(j) = j
      BY <1>1, <2>1
    <3> QED  BY <3>1
  <2>2. CASE j > i
    <3>1. j - 1 \in 1..(n - 1) /\ at(j - 1) = j
      BY <1>1, <2>2
    <3> QED  BY <3>1
  <2> QED  BY <1>1, <2>1, <2>2
<1>5. rest = [k \in 1..(n - 1) |-> seq[at(k)]]
  BY DEF Without, n
<1> HIDE DEF at, rest
<1>6. rest \in Seq(Message) /\ DOMAIN rest = 1..(n - 1)
  <2>1. n - 1 \in Nat
    BY <1>1
  <2>2. rest \in [1..(n - 1) -> Message]
    BY <1>1, <1>2, <1>5
  <2> QED  BY <2>1, <2>2
<1>7. \A k \in 1..(n - 1) : rest[k] = seq[at(k)]
  BY <1>5
<1>8. InOrder(rest)
  BY <1>1, <1>2, <1>3, <1>6, <1>7 DEF InOrder
<1>9. \A j \in 1..n : j # i /\ Garbage \notin {seq[j], seq[i]} => seq[j] # seq[i]
  <2> SUFFICES ASSUME NEW j \in 1..n, j # i, Garbage \notin {seq[j], seq[i]}
               PROVE  seq[j] # seq[i]
    OBVIOUS
  <2>1. j < i \/ i < j
    BY <1>1
  <2>2. seq[j] < seq[i] \/ seq[i] < seq[j]
    BY <1>1, <2>1 DEF InOrder
  <2>3. seq[j] \in Nat /\ seq[i] \in Nat
    BY <1>1 DEF Message, Event
  <2> QED  BY <2>2, <2>3
<1>10. Events(rest) = Events(seq) \ {seq[i]}
  <2>1. \A e : e \in Events(rest) => e \in Events(seq) \ {seq[i]}
    BY <1>1, <1>2, <1>6, <1>7, <1>9 DEF Events
  <2>2. \A e : e \in Events(seq) \ {seq[i]} => e \in Events(rest)
    BY <1>1, <1>4, <1>6, <1>7 DEF Events
  <2> QED  BY <2>1, <2>2
<1> QED  BY <1>6, <1>8, <1>10 DEF rest

\* ... or some from the end.
LEMMA PrefixParts ==
    ASSUME NEW seq \in Seq(Message), NEW n \in 0..Len(seq), InOrder(seq)
    PROVE  /\ SubSeq(seq, 1, n) \in Seq(Message) /\ InOrder(SubSeq(seq, 1, n))
           /\ Events(SubSeq(seq, 1, n)) =
                  Events(seq) \ ({seq[k] : k \in (n + 1)..Len(seq)} \ {Garbage})
<1> DEFINE first == SubSeq(seq, 1, n)
           m     == Len(seq)
<1>1. /\ m \in Nat /\ n \in 0..m /\ DOMAIN seq = 1..m /\ DOMAIN first = 1..n
      /\ \A k \in 1..n : first[k] = seq[k] /\ k \in 1..m
      /\ first \in Seq(Message) /\ \A k \in 1..m : seq[k] \in Message
  OBVIOUS
<1> HIDE DEF first, m
<1>2. InOrder(first)
  BY <1>1 DEF InOrder
<1>3. \A j \in 1..n, k \in (n + 1)..m :
          Garbage \notin {seq[j], seq[k]} => seq[j] # seq[k]
  <2> SUFFICES ASSUME NEW j \in 1..n, NEW k \in (n + 1)..m,
                      Garbage \notin {seq[j], seq[k]}
               PROVE  seq[j] # seq[k]
    OBVIOUS
  <2>1. j < k /\ j \in 1..m /\ k \in 1..m
    BY <1>1
  <2>2. seq[j] < seq[k]
    BY <1>1, <2>1 DEF InOrder
  <2>3. seq[j] \in Nat /\ seq[k] \in Nat
    BY <1>1, <2>1 DEF Message, Event
  <2> QED  BY <2>2, <2>3
<1>4. \A k \in 1..m : k \in 1..n \/ k \in (n + 1)..m
  BY <1>1
<1>5. Events(first) = Events(seq) \ ({seq[k] : k \in (n + 1)..m} \ {Garbage})
  <2>1. \A e : e \in Events(first) => e \in Events(seq)
    BY <1>1 DEF Events
  <2>2. \A e \in Events(first), k \in (n + 1)..m : seq[k] # Garbage => e # seq[k]
    BY <1>1, <1>3 DEF Events
  <2>3. \A e \in Events(seq) : e \in Events(first)
                                \/ \E k \in (n + 1)..m : e = seq[k]
    BY <1>1, <1>4 DEF Events
  <2>4. Garbage \notin Events(seq)
    BY DEF Events
  <2> QED  BY <2>1, <2>2, <2>3, <2>4
<1> QED  BY <1>1, <1>2, <1>5 DEF first, m

\* Messages in order, put before others in order that come later.
LEMMA ConcatParts ==
    ASSUME NEW a \in Seq(Message), NEW b \in Seq(Message),
           InOrder(a), InOrder(b), Before(Events(a), Events(b))
    PROVE  /\ a \o b \in Seq(Message) /\ InOrder(a \o b)
           /\ Events(a \o b) = Events(a) \cup Events(b)
<1> DEFINE n == Len(a)
           m == Len(b)
           both == a \o b
<1>1. /\ n \in Nat /\ m \in Nat /\ DOMAIN a = 1..n /\ DOMAIN b = 1..m
      /\ DOMAIN both = 1..(n + m) /\ both \in Seq(Message)
      /\ \A i \in 1..n : both[i] = a[i]
      /\ \A i \in 1..m : both[n + i] = b[i]
  OBVIOUS
<1> HIDE DEF n, m, both
<1>2. \A i \in 1..(n + m) : i \in 1..n \/ \E k \in 1..m : i = n + k
  <2> SUFFICES ASSUME NEW i \in 1..(n + m), i \notin 1..n
               PROVE  \E k \in 1..m : i = n + k
    OBVIOUS
  <2>1. i - n \in 1..m /\ i = n + (i - n)
    BY <1>1
  <2> QED  BY <2>1
<1>3. /\ \A i \in 1..n : i \in 1..(n + m)
      /\ \A k \in 1..m : n + k \in 1..(n + m)
  BY <1>1
<1>4. ASSUME NEW i \in 1..(n + m), NEW j \in 1..(n + m), i < j,
             Garbage \notin {both[i], both[j]}
      PROVE  both[i] < both[j]
  <2>1. CASE i \in 1..n /\ j \in 1..n
    BY <1>1, <1>4, <2>1 DEF InOrder
  <2>2. CASE i \in 1..n /\ j \notin 1..n
    <3>1. PICK k \in 1..m : j = n + k
      BY <1>2, <2>2
    <3>2. both[i] \in Events(a) /\ both[j] \in Events(b)
      BY <1>1, <1>4, <2>2, <3>1 DEF Events
    <3> QED  BY <3>2 DEF Before
  <2>3. CASE i \notin 1..n
    <3>1. j \notin 1..n
      BY <1>1, <1>4, <2>3
    <3>2. PICK k \in 1..m, l \in 1..m : i = n + k /\ j = n + l
      BY <1>2, <2>3, <3>1
    <3>3. k < l
      BY <1>1, <1>4, <3>2
    <3> QED  BY <1>1, <1>4, <3>2, <3>3 DEF InOrder
  <2> QED  BY <2>1, <2>2, <2>3
<1>5. Events(both) = Events(a) \cup Events(b)
  <2>1. \A e : e \in Events(both) => e \in Events(a) \cup Events(b)
    <3> SUFFICES ASSUME NEW i \in 1..(n + m), both[i] # Garbage
                 PROVE  both[i] \in Events(a) \cup Events(b)
      BY <1>1 DEF Events
    <3>1. CASE i \in 1..n
      BY <1>1, <3>1 DEF Events
    <3>2. CASE i \notin 1..n
      <4>1. PICK k \in 1..m : i = n + k
        BY <1>2, <3>2
      <4> QED  BY <1>1, <4>1 DEF Events
    <3> QED  BY <3>1, <3>2
  <2>2. \A e : e \in Events(a) \cup Events(b) => e \in Events(both)
    BY <1>1, <1>3 DEF Events
  <2> QED  BY <2>1, <2>2
<1> QED  BY <1>1, <1>4, <1>5 DEF InOrder, both

-----------------------------------------------------------------------------
(* The streams.                                                            *)

\* No message, no event; and what one event makes.
LEMMA ShortParts ==
    /\ <<>> \in Seq(Message) /\ InOrder(<<>>) /\ Events(<<>>) = {}
    /\ \A e \in Event \cup {None} :
           /\ One(e) \in Seq(Message) /\ InOrder(One(e))
           /\ Events(One(e)) = {e} \ {None}
<1>1. <<>> \in Seq(Message) /\ InOrder(<<>>) /\ Events(<<>>) = {}
  BY DEF InOrder, Events
<1>2. ASSUME NEW e \in Event
      PROVE  <<e>> \in Seq(Message) /\ InOrder(<<e>>) /\ Events(<<e>>) = {e}
  <2>1. e # Garbage
    BY ConstantsAssumption
  <2>2. /\ <<e>> \in Seq(Message) /\ DOMAIN <<e>> = 1..1 /\ <<e>>[1] = e
    BY DEF Message
  <2>3. InOrder(<<e>>)
    BY <2>2 DEF InOrder
  <2> QED  BY <2>1, <2>2, <2>3 DEF Events
<1>3. None \notin Event
  BY ConstantsAssumption
<1> QED  BY <1>1, <1>2, <1>3 DEF One

LEMMA StreamTypes ==
    ASSUME TypeOK, NEW s \in Stream
    PROVE  /\ written[s] \in Seq(Message) /\ pipe[s] \in Seq(Message)
           /\ Events(written[s]) \subseteq Event /\ Events(pipe[s]) \subseteq Event
           /\ inHand[s] \in Event \cup {None} /\ taken[s] \in Event \cup {None}
           /\ due[s] \subseteq Event /\ missed[s] \subseteq Event
           /\ Event \subseteq Nat
           /\ Garbage \notin Event /\ None \notin Event
<1>1. written[s] \in Seq(Message) /\ pipe[s] \in Seq(Message)
  BY DEF TypeOK, Message
<1> QED  BY <1>1, EventsAreNumbers, ConstantsAssumption DEF TypeOK

\* A stream flows as it did when nothing of it changes, whatever is published.
LEMMA OthersFlow ==
    ASSUME IndInv, NEW q \in Stream, published' \in Nat, published <= published',
           handler'[q] = handler[q], relay'[q] = relay[q],
           inHand'[q] = inHand[q], taken'[q] = taken[q], sub'[q] = sub[q],
           pipe'[q] = pipe[q], written'[q] = written[q], due'[q] = due[q],
           missed'[q] = missed[q]
    PROVE  Flows(q)'
<1>1. published \in Nat /\ \A e \in 1..published : e \in 1..published'
  BY ConstantsAssumption DEF IndInv, TypeOK
<1>2. HistoryOf(q)'
  BY <1>1 DEF IndInv, Flows, HistoryOf
<1>3. Holds(q)'
  BY DEF IndInv, Flows, Holds
<1>4. PartsInOrder(q)'
  BY DEF IndInv, Flows, PartsInOrder
<1>5. Loses(q)'
  BY DEF IndInv, Flows, Loses, EventsOf, Arriving, Runs
<1> QED  BY <1>2, <1>3, <1>4, <1>5 DEF Flows

LEMMA InitIndInv == Init => IndInv
<1> SUFFICES ASSUME Init PROVE IndInv
  OBVIOUS
<1>1. TypeOK
  BY ConstantsAssumption DEF Init, TypeOK
<1>2. ASSUME NEW s \in Stream PROVE Flows(s)
  <2>1. /\ written[s] = <<>> /\ pipe[s] = <<>> /\ inHand[s] = None
        /\ taken[s] = None /\ due[s] = {} /\ missed[s] = {}
        /\ handler[s] = "idle" /\ relay[s] = "none" /\ sub[s] = "none"
    BY <1>2 DEF Init
  <2> QED  BY <2>1, ShortParts DEF Flows, HistoryOf, Holds, Listens,
              PartsInOrder, Before, Loses, EventsOf, Arriving, IsFirstOf, Runs
<1> QED  BY <1>1, <1>2 DEF IndInv

\* A published event is the last of all; what Redis does not send is missed.
LEMMA PublishKeeps == IndInv /\ PublishToUser => IndInv'
<1> SUFFICES ASSUME IndInv, PublishToUser PROVE IndInv'
  OBVIOUS
<1> DEFINE e == published + 1
<1>1. /\ published < MaxEvents /\ published' = e /\ Deliver(e)
      /\ due' = [s \in Stream |-> IF sub[s] \in {"open", "broken"}
                                  THEN due[s] \cup {e} ELSE due[s]]
      /\ missed' = [s \in Stream |-> IF sub[s] = "broken"
                                     THEN missed[s] \cup {e} ELSE missed[s]]
      /\ UNCHANGED <<garbage, losses, handler, relay, inHand, taken, sub, left,
                     written>>
  BY DEF PublishToUser
<1>2. /\ e \in Event /\ e \in Nat /\ published \in Nat
      /\ \A d \in 1..published : d < e /\ d \in 1..e
      /\ e \in 1..e /\ published <= e
  BY <1>1, ConstantsAssumption DEF IndInv, TypeOK, Event
<1> HIDE DEF e
<1>3. e \in Message /\ e # Garbage /\ e # None
  BY <1>2, ConstantsAssumption DEF Message
<1>4. TypeOK'
  <2>1. pipe' \in [Stream -> Seq(Event \cup {Garbage})]
    <3>1. \A s \in Stream : pipe[s] \in Seq(Message)
      BY StreamTypes DEF IndInv
    <3>2. \A s \in Stream : Append(pipe[s], e) \in Seq(Message)
      BY <1>3, <3>1
    <3> QED  BY <1>1, <3>1, <3>2 DEF Deliver, Message
  <2>2. due' \in [Stream -> SUBSET Event] /\ missed' \in [Stream -> SUBSET Event]
    BY <1>1, <1>2 DEF IndInv, TypeOK
  <2>3. published' \in 0..MaxEvents
    BY <1>1, <1>2, ConstantsAssumption DEF e
  <2> QED  BY <1>1, <2>1, <2>2, <2>3 DEF IndInv, TypeOK
<1>5. ASSUME NEW s \in Stream PROVE Flows(s)'
  <2>1. Flows(s)
    BY DEF IndInv
  <2>2. \A d \in due[s] : d < e /\ d \in 1..e
    BY <1>2, <2>1 DEF Flows, HistoryOf
  <2>3. e \notin due[s] /\ e \notin missed[s]
    BY <1>2, <2>1, <2>2 DEF Flows, HistoryOf
  <2>4. \A d \in EventsOf(s) : d < e
    BY <2>1, <2>2 DEF Flows, Loses, Arriving
  <2>5. CASE sub[s] = "open"
    <3>1. /\ pipe'[s] = Append(pipe[s], e) /\ due'[s] = due[s] \cup {e}
          /\ missed'[s] = missed[s]
      BY <1>1, <2>5 DEF Deliver
    <3>2. /\ InOrder(pipe'[s]) /\ Events(pipe'[s]) = Events(pipe[s]) \cup {e}
      <4>1. pipe[s] \in Seq(Message) /\ InOrder(pipe[s])
        BY <2>1, StreamTypes DEF IndInv, Flows, PartsInOrder
      <4>2. Before(Events(pipe[s]), {e} \ {Garbage})
        BY <2>4 DEF Before, EventsOf
      <4> QED  BY <1>3, <3>1, <4>1, <4>2, AppendParts
    <3>3. HistoryOf(s)'
      BY <1>1, <1>2, <2>1, <2>2, <3>1 DEF Flows, HistoryOf
    <3>4. Holds(s)'
      BY <1>1, <2>1, <2>5 DEF Flows, Holds, Listens
    <3>5. PartsInOrder(s)'
      BY <1>1, <2>1, <2>4, <3>2 DEF Flows, PartsInOrder, EventsOf, Before
    <3>6. Arriving(s)' = Arriving(s) \cup {e}
      BY <2>3, <3>1 DEF Arriving
    <3>7. EventsOf(s)' = EventsOf(s) \cup {e}
      BY <1>1, <3>2 DEF EventsOf
    <3>8. \A sent \in SUBSET EventsOf(s) :
             IsFirstOf(sent, Arriving(s)) => IsFirstOf(sent, Arriving(s)')
      <4>1. \A d \in EventsOf(s) : ~(e < d)
        <5>1. EventsOf(s) \subseteq Nat
          BY StreamTypes DEF IndInv, EventsOf
        <5> QED  BY <1>2, <2>4, <5>1
      <4> QED  BY <3>6, <4>1 DEF IsFirstOf
    <3>9. Loses(s)'
      <4>1. /\ Events(written[s]) \in SUBSET EventsOf(s)
            /\ Events(written[s]) \cup ({inHand[s]} \ {None})
                   \in SUBSET EventsOf(s)
        BY DEF EventsOf
      <4>2. Runs(s)' = Runs(s)
        BY <1>1 DEF Runs
      <4> QED  BY <1>1, <2>1, <3>6, <3>7, <3>8, <4>1, <4>2 DEF Flows, Loses
    <3> QED  BY <3>3, <3>4, <3>5, <3>9 DEF Flows
  <2>6. CASE sub[s] = "broken"
    <3>1. /\ pipe'[s] = pipe[s] /\ due'[s] = due[s] \cup {e}
          /\ missed'[s] = missed[s] \cup {e}
      BY <1>1, <2>6 DEF Deliver
    <3>2. Arriving(s)' = Arriving(s)
      BY <2>3, <3>1 DEF Arriving
    <3>3. HistoryOf(s)'
      BY <1>1, <1>2, <2>1, <2>2, <3>1 DEF Flows, HistoryOf
    <3>4. Holds(s)'
      BY <1>1, <2>1, <2>6 DEF Flows, Holds, Listens
    <3>5. PartsInOrder(s)'
      BY <1>1, <2>1, <3>1 DEF Flows, PartsInOrder
    <3>6. Loses(s)'
      BY <1>1, <2>1, <3>1, <3>2 DEF Flows, Loses, EventsOf, Runs
    <3> QED  BY <3>3, <3>4, <3>5, <3>6 DEF Flows
  <2>7. CASE sub[s] \notin {"open", "broken"}
    <3>1. pipe'[s] = pipe[s] /\ due'[s] = due[s] /\ missed'[s] = missed[s]
      BY <1>1, <2>7 DEF Deliver
    <3> QED  BY <1>1, <1>2, <3>1, OthersFlow
  <2> QED  BY <2>5, <2>6, <2>7
<1> QED  BY <1>4, <1>5 DEF IndInv

\* What is no event is none on the line either.
LEMMA GarbageKeeps == IndInv /\ PublishGarbage => IndInv'
<1> SUFFICES ASSUME IndInv, PublishGarbage PROVE IndInv'
  OBVIOUS
<1>1. /\ garbage' \in 0..MaxGarbage /\ Deliver(Garbage)
      /\ UNCHANGED <<published, losses, handler, relay, inHand, taken, sub,
                     left, written, due, missed>>
  BY ConstantsAssumption DEF PublishGarbage, IndInv, TypeOK
<1>2. ASSUME NEW s \in Stream
      PROVE  /\ pipe'[s] \in Seq(Message) /\ InOrder(pipe'[s])
             /\ Events(pipe'[s]) = Events(pipe[s])
  <2>1. pipe[s] \in Seq(Message) /\ InOrder(pipe[s])
    BY StreamTypes DEF IndInv, Flows, PartsInOrder
  <2>2. Garbage \in Message /\ Before(Events(pipe[s]), {Garbage} \ {Garbage})
    BY DEF Message, Before
  <2>3. pipe'[s] \in {pipe[s], Append(pipe[s], Garbage)}
    BY <1>1 DEF Deliver
  <2> QED  BY <2>1, <2>2, <2>3, AppendParts
<1>3. TypeOK'
  <2>1. pipe' \in [Stream -> Seq(Event \cup {Garbage})]
    BY <1>1, <1>2 DEF Deliver, Message
  <2> QED  BY <1>1, <2>1 DEF IndInv, TypeOK
<1>4. ASSUME NEW s \in Stream PROVE Flows(s)'
  <2>1. Flows(s)
    BY DEF IndInv
  <2>2. HistoryOf(s)'
    BY <1>1, <2>1 DEF Flows, HistoryOf
  <2>3. Holds(s)'
    <3>1. handler[s] = "idle" => pipe'[s] = pipe[s]
      BY <1>1, <2>1 DEF Flows, Holds, Deliver
    <3> QED  BY <1>1, <2>1, <3>1 DEF Flows, Holds
  <2>4. PartsInOrder(s)'
    BY <1>1, <1>2, <2>1 DEF Flows, PartsInOrder
  <2>5. Loses(s)'
    BY <1>1, <1>2, <2>1 DEF Flows, Loses, EventsOf, Arriving, Runs
  <2> QED  BY <2>2, <2>3, <2>4, <2>5 DEF Flows
<1> QED  BY <1>3, <1>4 DEF IndInv

-----------------------------------------------------------------------------
(* The library.                                                            *)

\* What is lost from the pipe comes after all that was taken from it.
LEMMA LossFlows ==
    ASSUME IndInv, NEW s \in Stream, NEW lost,
           handler[s] # "idle",
           published' = published, handler'[s] = handler[s],
           relay'[s] = relay[s], inHand'[s] = inHand[s], taken'[s] = taken[s],
           sub'[s] \in {"open", "broken"}, sub[s] \in {"open", "broken"},
           written'[s] = written[s], due'[s] = due[s],
           lost \subseteq Events(pipe[s]),
           InOrder(pipe'[s]), Events(pipe'[s]) = Events(pipe[s]) \ lost,
           missed'[s] = missed[s] \cup lost
    PROVE  Flows(s)'
<1>1. Flows(s)
  BY DEF IndInv
<1>2. lost \subseteq Arriving(s)
  BY <1>1 DEF Flows, Loses, EventsOf
<1>3. HistoryOf(s)'
  BY <1>1, <1>2 DEF Flows, HistoryOf, Arriving
<1>4. Holds(s)'
  BY <1>1 DEF Flows, Holds
<1>5. PartsInOrder(s)'
  BY <1>1 DEF Flows, PartsInOrder, Before
<1>6. Arriving(s)' = Arriving(s) \ lost
  BY DEF Arriving
<1>7. lost \cap (Events(written[s]) \cup ({inHand[s], taken[s]} \ {None})) = {}
  <2>1. ASSUME NEW e \in lost
        PROVE  e \notin Events(written[s]) \cup ({inHand[s], taken[s]} \ {None})
    <3>1. e \in Nat /\ ~(e < e)
      BY StreamTypes DEF IndInv
    <3> QED  BY <1>1, <3>1 DEF Flows, PartsInOrder, Before
  <2> QED  BY <2>1
<1>8. Loses(s)'
  <2>1. EventsOf(s)' = EventsOf(s) \ lost
    BY <1>7 DEF EventsOf
  <2>2. Runs(s)' = Runs(s)
    BY DEF Runs
  <2>3. IsFirstOf(Events(written[s]), Arriving(s)')
    BY <1>1, <1>6, <1>7 DEF Flows, Loses, IsFirstOf
  <2>4. IsFirstOf(Events(written[s]) \cup ({inHand[s]} \ {None}), Arriving(s)')
    BY <1>1, <1>6, <1>7 DEF Flows, Loses, IsFirstOf
  <2> QED  BY <1>1, <1>6, <2>1, <2>2, <2>3, <2>4 DEF Flows, Loses
<1> QED  BY <1>3, <1>4, <1>5, <1>8 DEF Flows

LEMMA LibraryKeeps ==
    ASSUME IndInv, NEW s \in Stream, Drop(s) \/ Break(s) \/ Resubscribe(s)
    PROVE  IndInv'
<1>1. /\ UNCHANGED <<published, garbage, handler, relay, inHand, taken, left,
                     written, due>>
      /\ sub[s] \in {"open", "broken"} /\ Flows(s) /\ handler[s] # "idle"
      /\ pipe[s] \in Seq(Message) /\ InOrder(pipe[s])
      /\ published' \in Nat /\ published <= published'
  <2>1. published \in Nat
    BY ConstantsAssumption DEF IndInv, TypeOK
  <2>2. pipe[s] \in Seq(Message)
    BY StreamTypes DEF IndInv
  <2>3. /\ published' = published /\ garbage' = garbage /\ handler' = handler
        /\ relay' = relay /\ inHand' = inHand /\ taken' = taken
        /\ left' = left /\ written' = written /\ due' = due
        /\ sub[s] \in {"open", "broken"}
    <3>1. CASE Drop(s)
      BY <3>1 DEF Drop, counters
    <3>2. CASE Break(s)
      BY <3>2 DEF Break
    <3>3. CASE Resubscribe(s)
      BY <3>3 DEF Resubscribe, counters
    <3> QED  BY <3>1, <3>2, <3>3
  <2>4. Flows(s)
    BY DEF IndInv
  <2>5. handler[s] # "idle"
    BY <2>3, <2>4 DEF Flows, Holds
  <2>6. InOrder(pipe[s])
    BY <2>4 DEF Flows, PartsInOrder
  <2>7. published <= published
    BY <2>1
  <2> QED  BY <2>1, <2>2, <2>3, <2>4, <2>5, <2>6, <2>7
<1>2. ASSUME NEW rest \in Seq(Message), NEW lost, NEW place \in {"open", "broken"},
             pipe' = [pipe EXCEPT ![s] = rest],
             missed' = [missed EXCEPT ![s] = @ \cup lost],
             sub' = [sub EXCEPT ![s] = place], losses' \in 0..MaxLosses,
             InOrder(rest), Events(rest) = Events(pipe[s]) \ lost,
             lost \subseteq Events(pipe[s])
      PROVE  IndInv'
  <2>1. /\ pipe'[s] = rest /\ missed'[s] = missed[s] \cup lost
        /\ sub'[s] = place
        /\ \A q \in Stream \ {s} : /\ pipe'[q] = pipe[q] /\ missed'[q] = missed[q]
                                   /\ sub'[q] = sub[q]
    BY <1>2 DEF IndInv, TypeOK
  <2>2. TypeOK'
    <3>1. lost \subseteq Event
      BY <1>1, <1>2, EventsAreNumbers
    <3> QED  BY <1>1, <1>2, <3>1 DEF IndInv, TypeOK, Message
  <2>3. Flows(s)'
    BY <1>1, <1>2, <2>1, LossFlows
  <2>4. \A q \in Stream \ {s} : Flows(q)'
    BY <1>1, <2>1, OthersFlow
  <2> QED  BY <2>2, <2>3, <2>4 DEF IndInv
<1>3. CASE Drop(s)
  <2> DEFINE i == Buffer + 1
  <2>1. /\ i \in 1..Len(pipe[s])
        /\ pipe' = [pipe EXCEPT ![s] = Without(pipe[s], i)]
        /\ missed' = [missed EXCEPT ![s] = @ \cup ({pipe[s][i]} \ {Garbage})]
        /\ sub' = sub /\ losses' = losses
    BY <1>1, <1>3, ConstantsAssumption DEF Drop, counters
  <2> HIDE DEF i
  <2>2. /\ Without(pipe[s], i) \in Seq(Message) /\ InOrder(Without(pipe[s], i))
        /\ Events(Without(pipe[s], i)) = Events(pipe[s]) \ {pipe[s][i]}
    BY <1>1, <2>1, WithoutParts
  <2>3. /\ Events(Without(pipe[s], i))
               = Events(pipe[s]) \ ({pipe[s][i]} \ {Garbage})
        /\ {pipe[s][i]} \ {Garbage} \subseteq Events(pipe[s])
    <3>1. Garbage \notin Events(pipe[s])
      BY DEF Events
    <3>2. i \in DOMAIN pipe[s]
      BY <1>1, <2>1
    <3>3. pipe[s][i] # Garbage => pipe[s][i] \in Events(pipe[s])
      BY <3>2 DEF Events
    <3>4. CASE pipe[s][i] = Garbage
      BY <2>2, <3>1, <3>4
    <3>5. CASE pipe[s][i] # Garbage
      BY <2>2, <3>3, <3>5
    <3> QED  BY <3>4, <3>5
  <2>4. sub' = [sub EXCEPT ![s] = sub[s]] /\ losses' \in 0..MaxLosses
    BY <2>1 DEF IndInv, TypeOK
  <2> QED  BY <1>1, <1>2, <2>1, <2>2, <2>3, <2>4
<1>4. CASE Break(s)
  <2>1. PICK n \in 0..Len(pipe[s]) :
            /\ pipe' = [pipe EXCEPT ![s] = SubSeq(@, 1, n)]
            /\ missed' = [missed EXCEPT ![s] =
                   @ \cup ({pipe[s][k] : k \in (n + 1)..Len(pipe[s])} \ {Garbage})]
    BY <1>4 DEF Break
  <2> DEFINE lost == {pipe[s][k] : k \in (n + 1)..Len(pipe[s])} \ {Garbage}
  <2>2. /\ SubSeq(pipe[s], 1, n) \in Seq(Message)
        /\ InOrder(SubSeq(pipe[s], 1, n))
        /\ Events(SubSeq(pipe[s], 1, n)) = Events(pipe[s]) \ lost
    BY <1>1, PrefixParts
  <2>3. lost \subseteq Events(pipe[s])
    <3>1. \A k \in (n + 1)..Len(pipe[s]) : k \in DOMAIN pipe[s]
      BY <1>1
    <3> QED  BY <3>1 DEF Events
  <2>4. sub' = [sub EXCEPT ![s] = "broken"] /\ losses' \in 0..MaxLosses
    BY <1>4, ConstantsAssumption DEF Break, IndInv, TypeOK
  <2>5. /\ pipe' = [pipe EXCEPT ![s] = SubSeq(pipe[s], 1, n)]
        /\ missed' = [missed EXCEPT ![s] = @ \cup lost]
    BY <2>1
  <2> HIDE DEF lost
  <2> QED  BY <1>2, <2>2, <2>3, <2>4, <2>5
<1>5. CASE Resubscribe(s)
  <2> DEFINE lost == {}
  <2>1. /\ sub' = [sub EXCEPT ![s] = "open"] /\ losses' \in 0..MaxLosses
        /\ pipe' = [pipe EXCEPT ![s] = pipe[s]]
        /\ missed' = [missed EXCEPT ![s] = @ \cup lost]
    BY <1>5 DEF Resubscribe, counters, IndInv, TypeOK
  <2>2. Events(pipe[s]) = Events(pipe[s]) \ lost /\ lost \subseteq Events(pipe[s])
    OBVIOUS
  <2> HIDE DEF lost
  <2>3. pipe[s] \in Seq(Message) /\ InOrder(pipe[s])
    BY <1>1
  <2>4. "open" \in {"open", "broken"}
    OBVIOUS
  <2> QED  BY <1>2, <2>1, <2>2, <2>3, <2>4
<1> QED  BY <1>3, <1>4, <1>5

-----------------------------------------------------------------------------
(* The two goroutines.                                                     *)

\* A step of one stream keeps the invariant if it keeps it of that stream.
LEMMA OneStreamKeeps ==
    ASSUME IndInv, NEW s \in Stream, TypeOK', Flows(s)',
           published' = published,
           \A q \in Stream \ {s} :
               /\ handler'[q] = handler[q] /\ relay'[q] = relay[q]
               /\ inHand'[q] = inHand[q] /\ taken'[q] = taken[q]
               /\ sub'[q] = sub[q] /\ pipe'[q] = pipe[q]
               /\ written'[q] = written[q]
               /\ due'[q] = due[q] /\ missed'[q] = missed[q]
    PROVE  IndInv'
<1>1. published \in Nat /\ published <= published
  BY ConstantsAssumption DEF IndInv, TypeOK
<1>2. \A q \in Stream \ {s} : Flows(q)'
  BY <1>1, OthersFlow
<1> QED  BY <1>2 DEF IndInv

\* A stream starts with nothing on its line, and nothing due.
LEMMA SubscribeKeeps ==
    ASSUME IndInv, NEW s \in Stream, Subscribe(s) \/ SubscribeFails(s)
    PROVE  IndInv'
<1>1. /\ UNCHANGED <<counters, inHand, taken, pipe, left, written, due, missed>>
      /\ handler[s] = "idle"
      /\ handler'[s] # "idle" /\ handler'[s] \in {"select", "done"}
      /\ relay'[s] \in {"none", "waiting"}
      /\ relay'[s] = "waiting" <=> sub'[s] = "open"
      /\ sub'[s] \in {"open", "abandoned"}
      /\ relay'[s] = "none" => handler'[s] = "done"
      /\ handler' \in [Stream -> {"idle", "select", "write", "done"}]
      /\ relay' \in [Stream -> {"none", "waiting", "sending", "gone"}]
      /\ sub' \in [Stream -> {"none", "open", "broken", "closed", "abandoned"}]
      /\ \A q \in Stream \ {s} : /\ handler'[q] = handler[q] /\ relay'[q] = relay[q]
                                 /\ sub'[q] = sub[q]
  <2>1. handler[s] = "idle" => relay[s] = "none"
    BY DEF IndInv, Flows, Holds
  <2>2. CASE Subscribe(s)
    BY <2>1, <2>2 DEF Subscribe, IndInv, TypeOK
  <2>3. CASE SubscribeFails(s)
    BY <2>1, <2>3 DEF SubscribeFails, IndInv, TypeOK
  <2> QED  BY <2>2, <2>3
<1>2. /\ written[s] = <<>> /\ pipe[s] = <<>> /\ due[s] = {} /\ missed[s] = {}
      /\ inHand[s] = None /\ taken[s] = None
  BY <1>1 DEF IndInv, Flows, Holds, HistoryOf
<1>3. /\ written'[s] = <<>> /\ pipe'[s] = <<>> /\ due'[s] = {} /\ missed'[s] = {}
      /\ inHand'[s] = None /\ taken'[s] = None
  BY <1>1, <1>2
<1>4. Holds(s)'
  BY <1>1, <1>3 DEF Holds, Listens
<1>5. Flows(s)'
  BY <1>3, <1>4, ShortParts DEF Flows, HistoryOf, PartsInOrder, Before, Loses,
                                EventsOf, Arriving, IsFirstOf
<1>6. TypeOK'
  BY <1>1 DEF counters, IndInv, TypeOK
<1> QED  BY <1>1, <1>5, <1>6, OneStreamKeeps DEF counters

\* The first message of the pipe moves to the relay's hand, or is none.
LEMMA TakeKeeps ==
    ASSUME IndInv, NEW s \in Stream, Take(s)
    PROVE  IndInv'
<1> DEFINE m == Head(pipe[s])
<1>1. /\ UNCHANGED <<counters, handler, inHand, sub, left, written, due, missed>>
      /\ relay[s] = "waiting" /\ pipe[s] # <<>>
      /\ pipe' = [pipe EXCEPT ![s] = Tail(@)]
      /\ m = Garbage => UNCHANGED <<relay, taken>>
      /\ m # Garbage => /\ relay' = [relay EXCEPT ![s] = "sending"]
                        /\ taken' = [taken EXCEPT ![s] = m]
  BY DEF Take
<1>2. Flows(s)
  BY DEF IndInv
<1>3. pipe[s] \in Seq(Message) /\ InOrder(pipe[s])
  BY <1>2, StreamTypes DEF IndInv, Flows, PartsInOrder
<1>4. /\ Tail(pipe[s]) \in Seq(Message) /\ InOrder(Tail(pipe[s])) /\ m \in Message
      /\ Events(pipe[s]) = ({m} \ {Garbage}) \cup Events(Tail(pipe[s]))
      /\ Before({m} \ {Garbage}, Events(Tail(pipe[s])))
  BY <1>1, <1>3, TailParts
<1> HIDE DEF m
<1>5. taken[s] = None /\ handler[s] # "idle"
  BY <1>1, <1>2 DEF Flows, Holds
<1>6. pipe'[s] = Tail(pipe[s]) /\ \A q \in Stream \ {s} : pipe'[q] = pipe[q]
  BY <1>1 DEF IndInv, TypeOK
<1>7. /\ m = Garbage => relay'[s] = "waiting" /\ taken'[s] = None
      /\ m # Garbage => relay'[s] = "sending" /\ taken'[s] = m
      /\ \A q \in Stream \ {s} : relay'[q] = relay[q] /\ taken'[q] = taken[q]
  BY <1>1, <1>5 DEF IndInv, TypeOK
<1>8. m # None /\ (m # Garbage => m \in Event)
  BY <1>4, ConstantsAssumption DEF Message
<1>9. {taken'[s]} \ {None} = {m} \ {Garbage}
  BY <1>7, <1>8
<1>10. TypeOK'
  <2>1. pipe' \in [Stream -> Seq(Event \cup {Garbage})]
    BY <1>1, <1>4 DEF IndInv, TypeOK, Message
  <2>2. /\ relay' \in [Stream -> {"none", "waiting", "sending", "gone"}]
        /\ taken' \in [Stream -> Event \cup {None}]
    <3>1. CASE m = Garbage
      BY <1>1, <3>1 DEF IndInv, TypeOK
    <3>2. CASE m # Garbage
      <4>1. m \in Event \cup {None}
        BY <1>8, <3>2
      <4>2. /\ relay' = [relay EXCEPT ![s] = "sending"]
            /\ taken' = [taken EXCEPT ![s] = m]
        BY <1>1, <3>2
      <4>3. taken' \in [Stream -> Event \cup {None}]
        BY <4>1, <4>2 DEF IndInv, TypeOK
      <4> QED  BY <4>2, <4>3 DEF IndInv, TypeOK
    <3> QED  BY <3>1, <3>2
  <2> QED  BY <1>1, <2>1, <2>2 DEF counters, IndInv, TypeOK
<1>11. HistoryOf(s)'
  BY <1>1, <1>2 DEF counters, Flows, HistoryOf
<1>12. Holds(s)'
  BY <1>1, <1>2, <1>5, <1>7, <1>8 DEF Flows, Holds, Listens
<1>13. PartsInOrder(s)'
  BY <1>1, <1>2, <1>4, <1>6, <1>9 DEF Flows, PartsInOrder, Before
<1>14. Loses(s)'
  <2>1. EventsOf(s)' = EventsOf(s)
    BY <1>1, <1>4, <1>5, <1>6, <1>9 DEF EventsOf
  <2>2. Runs(s)' = Runs(s)
    BY <1>1, <1>7 DEF Runs
  <2> QED  BY <1>1, <1>2, <2>1, <2>2 DEF Flows, Loses, Arriving
<1> QED  BY <1>1, <1>6, <1>7, <1>10, <1>11, <1>12, <1>13, <1>14, OneStreamKeeps
         DEF counters, Flows

\* What the relay hands over is the first event that is not written yet.
LEMMA HandOverKeeps ==
    ASSUME IndInv, NEW s \in Stream, HandOver(s)
    PROVE  IndInv'
<1>1. /\ UNCHANGED <<counters, sub, pipe, left, written, due, missed>>
      /\ relay[s] = "sending" /\ handler[s] = "select"
      /\ relay'[s] = "waiting" /\ handler'[s] = "write"
      /\ inHand'[s] = taken[s] /\ taken'[s] = None
      /\ \A q \in Stream \ {s} :
             /\ relay'[q] = relay[q] /\ handler'[q] = handler[q]
             /\ inHand'[q] = inHand[q] /\ taken'[q] = taken[q]
  BY DEF HandOver, IndInv, TypeOK
<1>2. Flows(s)
  BY DEF IndInv
<1>3. taken[s] # None /\ inHand[s] = None
  BY <1>1, <1>2 DEF Flows, Holds
<1>4. TypeOK'
  BY StreamTypes DEF HandOver, counters, IndInv, TypeOK
<1>5. HistoryOf(s)'
  BY <1>1, <1>2 DEF counters, Flows, HistoryOf
<1>6. Holds(s)'
  BY <1>1, <1>2, <1>3 DEF Flows, Holds, Listens
<1>7. PartsInOrder(s)'
  BY <1>1, <1>2, <1>3 DEF Flows, PartsInOrder, Before
<1>8. Loses(s)'
  <2>1. EventsOf(s)' = EventsOf(s)
    BY <1>1, <1>3 DEF EventsOf
  <2>2. EventsOf(s) = Arriving(s)
    BY <1>1, <1>2 DEF Flows, Loses, Runs
  <2>3. \A e \in Events(pipe[s]) : ~(e < taken[s])
    <3>1. ASSUME NEW e \in Events(pipe[s])
          PROVE  ~(e < taken[s])
      <4>1. e \in Nat /\ taken[s] \in Nat
        BY <1>3, StreamTypes DEF IndInv
      <4>2. taken[s] < e
        BY <1>2, <1>3 DEF Flows, PartsInOrder, Before
      <4> QED  BY <4>1, <4>2
    <3> QED  BY <3>1
  <2>4. IsFirstOf(Events(written[s]) \cup {taken[s]}, Arriving(s))
    <3>1. taken[s] \in Nat /\ ~(taken[s] < taken[s])
      BY <1>3, StreamTypes DEF IndInv
    <3>2. Events(written[s]) \cup {taken[s]} \subseteq Arriving(s)
      BY <1>3, <2>2 DEF EventsOf
    <3>3. \A d \in Arriving(s) : d < taken[s] => d \in Events(written[s])
      BY <1>3, <2>2, <2>3, <3>1 DEF EventsOf
    <3> QED  BY <1>2, <3>2, <3>3 DEF Flows, Loses, IsFirstOf
  <2>5. IsFirstOf(Events(written[s]) \cup ({inHand'[s]} \ {None}), Arriving(s))
    BY <1>1, <1>3, <2>4
  <2> QED  BY <1>1, <1>2, <2>1, <2>2, <2>5 DEF Flows, Loses, Arriving
<1> QED  BY <1>1, <1>4, <1>5, <1>6, <1>7, <1>8, OneStreamKeeps DEF counters, Flows

\* A relay that stops gives up the event in its hand.
LEMMA RelayStopsKeeps ==
    ASSUME IndInv, NEW s \in Stream, RelayStops(s)
    PROVE  IndInv'
<1>1. /\ UNCHANGED <<counters, handler, inHand, pipe, left, written, due, missed>>
      /\ relay[s] \in Listens
      /\ relay'[s] = "gone" /\ taken'[s] = None /\ sub'[s] = "closed"
      /\ \A q \in Stream \ {s} :
             relay'[q] = relay[q] /\ taken'[q] = taken[q] /\ sub'[q] = sub[q]
  BY DEF RelayStops, IndInv, TypeOK
<1>2. Flows(s)
  BY DEF IndInv
<1>3. TypeOK'
  BY DEF RelayStops, counters, IndInv, TypeOK
<1>4. HistoryOf(s)'
  BY <1>1, <1>2 DEF counters, Flows, HistoryOf
<1>5. Holds(s)'
  BY <1>1, <1>2 DEF Flows, Holds, Listens
<1>6. PartsInOrder(s)'
  BY <1>1, <1>2 DEF Flows, PartsInOrder, Before
<1>7. Loses(s)'
  <2>1. ~Runs(s)' /\ EventsOf(s)' \subseteq EventsOf(s)
    BY <1>1 DEF Runs, EventsOf
  <2> QED  BY <1>1, <1>2, <2>1 DEF Flows, Loses, Arriving
<1> QED  BY <1>1, <1>3, <1>4, <1>5, <1>6, <1>7, OneStreamKeeps DEF counters, Flows

\* What is written comes after what was written before.
LEMMA WriteKeeps ==
    ASSUME IndInv, NEW s \in Stream, Write(s)
    PROVE  IndInv'
<1>1. /\ UNCHANGED <<counters, relay, taken, sub, pipe, left, due, missed>>
      /\ handler[s] = "write" /\ handler'[s] = "select"
      /\ written'[s] = Append(written[s], inHand[s]) /\ inHand'[s] = None
      /\ \A q \in Stream \ {s} :
             /\ handler'[q] = handler[q] /\ written'[q] = written[q]
             /\ inHand'[q] = inHand[q]
  BY DEF Write, IndInv, TypeOK
<1>2. Flows(s)
  BY DEF IndInv
<1>3. inHand[s] \in Event /\ inHand[s] # None /\ inHand[s] # Garbage
  BY <1>1, <1>2, StreamTypes DEF IndInv, Flows, Holds
<1>4. InOrder(written'[s])
      /\ Events(written'[s]) = Events(written[s]) \cup {inHand[s]}
  <2>1. written[s] \in Seq(Message) /\ InOrder(written[s]) /\ inHand[s] \in Message
    BY <1>2, <1>3, StreamTypes DEF IndInv, Flows, PartsInOrder, Message
  <2>2. Before(Events(written[s]), {inHand[s]} \ {Garbage})
    BY <1>2, <1>3 DEF Flows, PartsInOrder, Before
  <2>3. /\ InOrder(Append(written[s], inHand[s]))
        /\ Events(Append(written[s], inHand[s]))
               = Events(written[s]) \cup ({inHand[s]} \ {Garbage})
    BY <2>1, <2>2, AppendParts
  <2> QED  BY <1>1, <1>3, <2>3
<1>5. TypeOK'
  <2>1. /\ written \in [Stream -> Seq(Event)]
        /\ written' = [written EXCEPT ![s] = Append(@, inHand[s])]
    BY DEF Write, IndInv, TypeOK
  <2>2. Append(written[s], inHand[s]) \in Seq(Event)
    BY <1>3, <2>1
  <2>3. written' \in [Stream -> Seq(Event)]
    BY <2>1, <2>2
  <2>4. /\ handler' \in [Stream -> {"idle", "select", "write", "done"}]
        /\ inHand' \in [Stream -> Event \cup {None}]
    BY DEF Write, IndInv, TypeOK
  <2> QED  BY <1>1, <2>3, <2>4 DEF counters, IndInv, TypeOK
<1>6. HistoryOf(s)'
  BY <1>1, <1>2 DEF counters, Flows, HistoryOf
<1>7. Holds(s)'
  BY <1>1, <1>2 DEF Flows, Holds, Listens
<1>8. PartsInOrder(s)'
  BY <1>1, <1>2, <1>3, <1>4 DEF Flows, PartsInOrder, Before
<1>9. Loses(s)'
  <2>1. EventsOf(s)' = EventsOf(s)
    BY <1>1, <1>3, <1>4 DEF EventsOf
  <2>2. Runs(s)' = Runs(s)
    BY <1>1 DEF Runs
  <2>3. /\ Events(written'[s]) = Events(written[s]) \cup ({inHand[s]} \ {None})
        /\ Events(written'[s]) \cup ({inHand'[s]} \ {None}) = Events(written'[s])
    BY <1>1, <1>3, <1>4
  <2>4. /\ IsFirstOf(Events(written'[s]), Arriving(s))
        /\ IsFirstOf(Events(written'[s]) \cup ({inHand'[s]} \ {None}), Arriving(s))
    BY <1>2, <2>3 DEF Flows, Loses
  <2> QED  BY <1>1, <1>2, <2>1, <2>2, <2>4 DEF Flows, Loses, Arriving
<1> QED  BY <1>1, <1>5, <1>6, <1>7, <1>8, <1>9, OneStreamKeeps DEF counters, Flows

\* A handler that stops gives up the event in its hand.
LEMMA HandlerEndsKeeps ==
    ASSUME IndInv, NEW s \in Stream, WriteFails(s) \/ HandlerStops(s)
    PROVE  IndInv'
<1>1. Flows(s)
  BY DEF IndInv
<1>2. /\ UNCHANGED <<counters, relay, taken, sub, pipe, left, written, due, missed>>
      /\ handler[s] \in {"select", "write"} /\ handler'[s] = "done"
      /\ inHand'[s] = None
      /\ \A q \in Stream \ {s} : handler'[q] = handler[q] /\ inHand'[q] = inHand[q]
  <2>1. CASE WriteFails(s)
    BY <2>1 DEF WriteFails, IndInv, TypeOK
  <2>2. CASE HandlerStops(s)
    BY <1>1, <2>2 DEF HandlerStops, IndInv, TypeOK, Flows, Holds
  <2> QED  BY <2>1, <2>2
<1>3. TypeOK'
  <2>1. CASE WriteFails(s)
    BY <2>1 DEF WriteFails, counters, IndInv, TypeOK
  <2>2. CASE HandlerStops(s)
    BY <2>2 DEF HandlerStops, counters, IndInv, TypeOK
  <2> QED  BY <2>1, <2>2
<1>4. HistoryOf(s)'
  BY <1>1, <1>2 DEF counters, Flows, HistoryOf
<1>5. Holds(s)'
  BY <1>1, <1>2 DEF Flows, Holds, Listens
<1>6. PartsInOrder(s)'
  BY <1>1, <1>2 DEF Flows, PartsInOrder, Before
<1>7. Loses(s)'
  <2>1. ~Runs(s)' /\ EventsOf(s)' \subseteq EventsOf(s)
    BY <1>2 DEF Runs, EventsOf
  <2>2. Events(written[s]) \cup ({inHand'[s]} \ {None}) = Events(written[s])
    BY <1>2
  <2> QED  BY <1>1, <1>2, <2>1, <2>2 DEF Flows, Loses, Arriving
<1> QED  BY <1>2, <1>3, <1>4, <1>5, <1>6, <1>7, OneStreamKeeps DEF counters, Flows

\* Nothing on the line changes when the client leaves.
LEMMA LeavingKeeps ==
    ASSUME IndInv, NEW s \in Stream, ClientLeaves(s)
    PROVE  IndInv'
<1>1. /\ UNCHANGED <<counters, handler, relay, inHand, taken, sub, pipe, written,
                     due, missed>>
      /\ TypeOK'
  BY DEF ClientLeaves, counters, IndInv, TypeOK
<1>2. published \in Nat /\ published <= published
  BY ConstantsAssumption DEF IndInv, TypeOK
<1>3. Flows(s)'
  BY <1>1, <1>2, OthersFlow DEF counters
<1> QED  BY <1>1, <1>3, OneStreamKeeps DEF counters

-----------------------------------------------------------------------------
(* The theorems.                                                           *)

LEMMA StepIndInv == IndInv /\ [Next]_vars => IndInv'
<1> SUFFICES ASSUME IndInv, [Next]_vars PROVE IndInv'
  OBVIOUS
<1>1. CASE PublishToUser
  BY <1>1, PublishKeeps
<1>2. CASE PublishGarbage
  BY <1>2, GarbageKeeps
<1>3. ASSUME NEW s \in Stream, Drop(s) \/ Break(s) \/ Resubscribe(s)
      PROVE  IndInv'
  BY <1>3, LibraryKeeps
<1>4. ASSUME NEW s \in Stream, Subscribe(s) \/ SubscribeFails(s)
      PROVE  IndInv'
  BY <1>4, SubscribeKeeps
<1>5. ASSUME NEW s \in Stream, Take(s) \/ HandOver(s) \/ RelayStops(s)
      PROVE  IndInv'
  BY <1>5, TakeKeeps, HandOverKeeps, RelayStopsKeeps
<1>6. ASSUME NEW s \in Stream,
             ClientLeaves(s) \/ Write(s) \/ WriteFails(s) \/ HandlerStops(s)
      PROVE  IndInv'
  BY <1>6, LeavingKeeps, WriteKeeps, HandlerEndsKeeps
<1>7. CASE UNCHANGED vars
  BY <1>7 DEF vars, counters, IndInv, TypeOK, Flows, HistoryOf, Holds, PartsInOrder,
              Loses, EventsOf, Arriving, Runs
<1> QED  BY <1>1, <1>2, <1>3, <1>4, <1>5, <1>6, <1>7 DEF Next

\* The parts of a line are in order, so the line is.
LEMMA LineInOrder ==
    ASSUME IndInv, NEW s \in Stream
    PROVE  InOrder(Line(s)) /\ Events(Line(s)) = EventsOf(s)
<1> DEFINE sent == written[s]
           hand == One(inHand[s])
           next == One(taken[s])
           rest == pipe[s]
<1>1. Flows(s)
  BY DEF IndInv
<1>2. /\ sent \in Seq(Message) /\ InOrder(sent)
      /\ rest \in Seq(Message) /\ InOrder(rest)
  BY <1>1, StreamTypes DEF IndInv, Flows, PartsInOrder
<1>3. /\ hand \in Seq(Message) /\ InOrder(hand)
      /\ Events(hand) = {inHand[s]} \ {None}
      /\ next \in Seq(Message) /\ InOrder(next)
      /\ Events(next) = {taken[s]} \ {None}
  BY StreamTypes, ShortParts DEF IndInv
<1>4. /\ Before(Events(sent), Events(hand) \cup Events(next) \cup Events(rest))
      /\ Before(Events(hand), Events(next) \cup Events(rest))
      /\ Before(Events(next), Events(rest))
  BY <1>1, <1>3 DEF Flows, PartsInOrder
<1>5. Line(s) = sent \o hand \o next \o rest
  BY DEF Line
<1>6. EventsOf(s) = Events(sent) \cup Events(hand) \cup Events(next) \cup Events(rest)
  BY <1>3 DEF EventsOf
<1> HIDE DEF sent, hand, next, rest
<1>7. /\ sent \o hand \in Seq(Message) /\ InOrder(sent \o hand)
      /\ Events(sent \o hand) = Events(sent) \cup Events(hand)
  <2>1. Before(Events(sent), Events(hand))
    BY <1>4 DEF Before
  <2> QED  BY <1>2, <1>3, <2>1, ConcatParts
<1>8. /\ sent \o hand \o next \in Seq(Message) /\ InOrder(sent \o hand \o next)
      /\ Events(sent \o hand \o next)
             = Events(sent) \cup Events(hand) \cup Events(next)
  <2>1. Before(Events(sent \o hand), Events(next))
    BY <1>4, <1>7 DEF Before
  <2> QED  BY <1>3, <1>7, <2>1, ConcatParts
<1>9. /\ InOrder(sent \o hand \o next \o rest)
      /\ Events(sent \o hand \o next \o rest)
             = Events(sent) \cup Events(hand) \cup Events(next) \cup Events(rest)
  <2>1. Before(Events(sent \o hand \o next), Events(rest))
    BY <1>4, <1>8 DEF Before
  <2> QED  BY <1>2, <1>8, <2>1, ConcatParts
<1> QED  BY <1>5, <1>6, <1>9

\* The invariant of the streams holds of every state (SubscribeToUser,
\* StreamEvents, PublishToUser and the library below them).
THEOREM Invariance == Spec => []IndInv
<1> QED  BY InitIndInv, StepIndInv, PTL DEF Spec

\* The state keeps its types: what the relay holds and hands over is an event,
\* never a message that does not parse (SubscribeToUser, StreamEvents).
THEOREM TypeCorrect == Spec => []TypeOK
<1>1. IndInv => TypeOK
  BY DEF IndInv
<1> QED  BY <1>1, Invariance, PTL

\* For any number of streams, events, losses and messages the library holds:
\* no stream repeats, swaps or, as long as it runs, skips an event that
\* arrives, and a client got the first of them (SubscribeToUser,
\* StreamEvents).
THEOREM EventsInOrder == Spec => []EventsArriveInOrder
<1>1. IndInv => EventsArriveInOrder
  BY LineInOrder DEF EventsArriveInOrder, IndInv, Flows, Loses
<1> QED  BY <1>1, Invariance, PTL
=============================================================================
