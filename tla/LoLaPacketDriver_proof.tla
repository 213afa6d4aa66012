------------------------ MODULE LoLaPacketDriver_proof ------------------------
(***************************************************************************)
(* Theorems of LoLaPacketDriver, for any packets, channels, powers and     *)
(* length of the event queue, and their proofs.                            *)
(*                                                                         *)
(* The interrupt may come between any two steps of the main loop, so the   *)
(* invariant ties each step a call has left to the state of the driver it  *)
(* will find. What is left is a sequence, but almost all of the argument   *)
(* is about the set of the steps in it: Fits says the little that matters  *)
(* of their order.                                                         *)
(***************************************************************************)
EXTENDS LoLaPacketDriver, SequenceTheorems, TLAPS

----------------------------------------------------------------------------
(* What the main loop may have left to do *)

OwnActions == {"UpdatePower", "UpdateChannel", "AsyncRestore"}

QueueSteps == {"GruntAction", "GruntValue", "AppendToQueue"}

SendSteps == {"SendPacket", "Claim", "Transmit", "OnTransmitted", "AwaitTransmissionEnd"}

PlainSteps == Steps \ (QueueSteps \cup SendSteps \cup {"ProcessSent"})

\* The steps of a call, each with an argument of its type.
Calls ==
  [step : QueueSteps, arg : {Event(action) : action \in OwnActions}]
  \cup [step : SendSteps, arg : Headers \cup {Ack}]
  \cup [step : {"ProcessSent"}, arg : Headers \cup {Ack, None}]
  \cup [step : PlainSteps, arg : {None}]

\* Steps that may come after another one, and steps that are a whole call.
Following ==
  QueueSteps \cup {"RestoreToReceiving", "SetToReceiving", "EnableInterrupts",
                   "OnTransmitPowerUpdated", "AwaitTransmissionEnd"}

Alone ==
  {"Disable", "OnAsyncRestore", "OnChannelUpdated", "ProcessSent", "ProcessIncoming", "Received"}

\* What a step lets come later in its call.
Fits(c, later) ==
  /\ \A d \in later : d.step \in Following
  /\ c.step \in Alone => later = {}
  /\ c.step \in {"SendPacket", "Claim", "Transmit", "AwaitTransmissionEnd"} =>
       \A d \in later : d.step = "EnableInterrupts"
  /\ c.step = "OnTransmitted" =>
       /\ [step |-> "AwaitTransmissionEnd", arg |-> c.arg] \in later
       /\ \A d \in later : d.step = "AwaitTransmissionEnd" => d.arg = c.arg
  /\ c.step = "RestoreToReceiving" => \E d \in later : d.step = "SetToReceiving"

Later(s, i) == {s[j] : j \in i + 1 .. Len(s)}

\* Each step of s, when later is to come after s.
AllFit(s, later) == \A i \in 1 .. Len(s) : Fits(s[i], Later(s, i) \cup later)

Shaped(s) == AllFit(s, {})

----------------------------------------------------------------------------
(* The inductive invariant *)

left == Range(todo)

\* What is left but for the step at hand.
others == Range(Tail(todo))

Remains(steps) == \E c \in left : c.step \in steps

InQueue(actions) == \E e \in Range(events) : e.action \in actions

Typed ==
  /\ events \in Seq(Events) /\ Len(events) <= QueueSize /\ enabled \in BOOLEAN
  /\ driver \in Drivers /\ irq \in BOOLEAN /\ lost \in BOOLEAN
  /\ radio \in Radios /\ (radio.mode = "Transmitting" => radio.header \in Headers \cup {Ack})
  /\ todo \in Seq(Calls) /\ Shaped(todo)
  /\ waiting \subseteq Headers /\ sent \subseteq Headers \cup {Ack}

NotYetHeard == {"ReadyForAnything", "BlockedForIncoming", "AwaitingProcessing"}

\* The state that the rest of a call finds the driver in.
StateFits ==
  \A c \in left :
    /\ c.step \in {"SendPacket", "Claim"} =>
         IF c.arg = Ack THEN driver.state = "SendingAck" ELSE driver.state \in NotYetHeard
    /\ c.step \in {"Transmit", "OnTransmitted", "AwaitTransmissionEnd"} =>
         driver.state = "SendingOutgoing"
    /\ c.step = "Received" => driver.state = "ProcessingIncoming"
    /\ c.step = "SetToReceiving" /\ ~Remains({"RestoreToReceiving"}) =>
         driver.state \in NotYetHeard /\ driver.lastChannel = driver.currentChannel
    /\ c.step = "AwaitTransmissionEnd" =>
         /\ ~Remains({"RestoreToReceiving", "SetToReceiving"})
         /\ radio.mode = "Transmitting" => radio.header = c.arg
         /\ driver.lastSentHeader = c.arg \/ Remains({"OnTransmitted"})

\* The interrupts are off, and an event will turn them on (DeafIsServed).
WillHear ==
  InQueue({"ProcessIncomingPacket"}) \/ Remains({"ProcessIncoming", "Received", "EnableInterrupts"})

SentOk(h) == [action |-> "ProcessSentOk", value |-> h]

Telling(h) == [step |-> "ProcessSent", arg |-> h]

\* The service of h is being told, or will be.
Credited(h) == SentOk(h) \in Range(events) \/ Telling(h) \in left

Once(s, e) == \A i, j \in 1 .. Len(s) : s[i] = e /\ s[j] = e => i = j

\* A packet is credited once, to a service that waits for it, and only while
\* it is no longer the last sent.
CreditOf(h) ==
  /\ Credited(h) => h \in waiting /\ h \in sent /\ driver.lastSentHeader # h
  /\ Telling(h) \in left => SentOk(h) \notin Range(events)
  /\ Once(events, SentOk(h))

\* What is being sent is not what a service waits for.
SendsAnew == \A c \in left : c.step \in SendSteps => c.arg \notin waiting

\* The packet on its way is the one to credit.
CreditIsNext ==
  driver.state = "WaitingForTransmissionEnd" /\ radio.mode = "Transmitting" =>
    driver.lastSentHeader = None
    \/ (driver.lastSentHeader = radio.header /\ radio.header \in waiting \cup {Ack})

Credit == (\A h \in Headers : CreditOf(h)) /\ SendsAnew /\ CreditIsNext

\* The driver will go through RestoreToReceiving.
WillRestore ==
  \/ InQueue(Restoring)
  \/ Remains({"ProcessIncoming", "Received", "ProcessSent", "OnAsyncRestore", "RestoreToReceiving"})
  \/ [step |-> "AppendToQueue", arg |-> Event("AsyncRestore")] \in left

\* The radio does what the state of the driver says.
Tuned ==
  /\ radio.mode \in {"Listening", "Receiving"} /\ radio.channel = driver.lastChannel
  /\ driver.channelPending \/ driver.lastChannel = driver.currentChannel
     \/ Remains({"OnChannelUpdated"})

Attended ==
  /\ driver.state \in {"ReadyForAnything", "BlockedForIncoming"} =>
       Remains({"SetToReceiving"}) \/ Tuned
  /\ driver.state \notin {"AwaitingProcessing", "ProcessingIncoming"}
  /\ driver.state = "SendingAck" => Remains({"SendPacket", "Claim"})
  /\ driver.state = "SendingOutgoing" =>
       Remains({"Transmit"}) \/ (Remains({"AwaitTransmissionEnd"}) /\ radio.mode = "Transmitting")
  /\ driver.state = "WaitingForTransmissionEnd" => radio.mode = "Transmitting"

IfAttended == Started /\ ~WillRestore => Attended

DriverInv ==
  /\ Typed /\ StateFits
  /\ ~irq /\ ~lost => WillHear
  /\ ~lost => Credit
  /\ ~lost => IfAttended

----------------------------------------------------------------------------
(* Sequences by their head and the set of their elements *)

LEMMA ElementsOf ==
  ASSUME NEW S, NEW s \in Seq(S)
  PROVE  /\ Range(s) = {s[i] : i \in 1 .. Len(s)}
         /\ \A x : x \in Range(s) <=> \E i \in 1 .. Len(s) : s[i] = x
         /\ Range(s) \subseteq S
BY RangeEquality, RangeOfSeq

LEMMA NoElements == Range(<<>>) = {}
<1>1. <<>> \in Seq({})
  BY EmptySeq
<1>2. Range(<<>>) \in SUBSET {}
  BY <1>1, RangeOfSeq, Zenon
<1> QED
  BY <1>2

LEMMA OneElement ==
  ASSUME NEW S, NEW c \in S
  PROVE  Range(<<c>>) = {c}
<1>1. <<c>> \in Seq(S) /\ Len(<<c>>) = 1 /\ <<c>>[1] = c
  OBVIOUS
<1>2. \A x : x \in Range(<<c>>) <=> \E i \in 1 .. Len(<<c>>) : <<c>>[i] = x
  BY <1>1, ElementsOf
<1>3. \A i : i \in 1 .. 1 <=> i = 1
  OBVIOUS
<1>4. \A x : x \in Range(<<c>>) <=> x = c
  BY <1>1, <1>2, <1>3, Zenon
<1> QED
  BY <1>4

\* A sequence with one more element in front.
LEMMA InFront ==
  ASSUME NEW S, NEW c \in S, NEW t \in Seq(S)
  PROVE  /\ <<c>> \o t \in Seq(S) /\ <<c>> \o t # <<>>
         /\ Len(<<c>> \o t) = Len(t) + 1
         /\ (<<c>> \o t)[1] = c
         /\ \A i \in 1 .. Len(t) : (<<c>> \o t)[i + 1] = t[i]
         /\ Range(<<c>> \o t) = {c} \cup Range(t)
<1>1. <<c>> \in Seq(S) /\ Len(<<c>>) = 1 /\ <<c>>[1] = c
  OBVIOUS
<1>2. Len(t) \in Nat
  BY LenProperties
<1>3. /\ <<c>> \o t \in Seq(S) /\ Len(<<c>> \o t) = 1 + Len(t)
      /\ \A i \in 1 .. 1 + Len(t) : (<<c>> \o t)[i] = IF i <= 1 THEN <<c>>[i] ELSE t[i - 1]
  BY <1>1, ConcatProperties
<1>4. <<c>> \o t # <<>>
  BY <1>2, <1>3, EmptySeq
<1>5. Range(<<c>>) = {c}
  BY OneElement
<1>6. Range(<<c>> \o t) = {c} \cup Range(t)
  <2>1. Range(<<c>> \o t) = Range(<<c>>) \cup Range(t)
    BY <1>1, RangeConcatenation, Zenon
  <2> QED
    BY <2>1, <1>5, Zenon
<1>7. Len(<<c>> \o t) = Len(t) + 1
  BY <1>2, <1>3
<1>8. (<<c>> \o t)[1] = c
  BY <1>1, <1>2, <1>3
<1>9. ASSUME NEW i \in 1 .. Len(t)
      PROVE  (<<c>> \o t)[i + 1] = t[i]
  <2>1. i + 1 \in 1 .. 1 + Len(t) /\ ~(i + 1 <= 1) /\ (i + 1) - 1 = i
    BY <1>2
  <2> QED
    BY <2>1, <1>3
<1> QED
  BY <1>3, <1>4, <1>6, <1>7, <1>8, <1>9, Zenon

\* A sequence is its head in front of its tail.
LEMMA HeadAndTail ==
  ASSUME NEW S, NEW s \in Seq(S), s # <<>>
  PROVE  /\ Head(s) \in S /\ Tail(s) \in Seq(S) /\ s = <<Head(s)>> \o Tail(s)
         /\ Len(s) \in Nat \ {0} /\ Len(Tail(s)) = Len(s) - 1
         /\ \A i \in 1 .. Len(Tail(s)) : Tail(s)[i] = s[i + 1]
         /\ Head(s) = s[1]
         /\ Range(s) = {Head(s)} \cup Range(Tail(s))
<1>1. /\ Head(s) \in S /\ Tail(s) \in Seq(S) /\ Len(Tail(s)) = Len(s) - 1
      /\ \A i \in 1 .. Len(Tail(s)) : Tail(s)[i] = s[i + 1]
  BY HeadTailProperties
<1>2. Len(s) \in Nat \ {0}
  BY EmptySeq
<1>3. Head(s) = s[1]
  OBVIOUS
<1> DEFINE c == Head(s)
           t == Tail(s)
           u == <<c>> \o t
<1>4. /\ u \in Seq(S) /\ Len(u) = Len(t) + 1 /\ u[1] = c
      /\ \A i \in 1 .. Len(t) : u[i + 1] = t[i]
      /\ Range(u) = {c} \cup Range(t)
  <2>1. c \in S /\ t \in Seq(S)
    BY <1>1
  <2> HIDE DEF c, t
  <2>2. u \in Seq(S) /\ u # <<>> /\ Len(u) = Len(t) + 1 /\ u[1] = c
    BY <2>1, InFront, Zenon
  <2>3. \A i \in 1 .. Len(t) : u[i + 1] = t[i]
    BY <2>1, InFront
  <2>4. Range(u) = {c} \cup Range(t)
    BY <2>1, InFront, Zenon
  <2> QED
    BY <2>2, <2>3, <2>4
<1> HIDE DEF u
<1>5. Len(s) = Len(u)
  BY <1>1, <1>2, <1>4
<1>6. ASSUME NEW i \in 1 .. Len(s)
      PROVE  s[i] = u[i]
  <2>1. CASE i = 1
    BY <2>1, <1>3, <1>4
  <2>2. CASE i # 1
    <3>1. i - 1 \in 1 .. Len(Tail(s)) /\ (i - 1) + 1 = i
      BY <2>2, <1>1, <1>2
    <3>2. u[(i - 1) + 1] = Tail(s)[i - 1] /\ Tail(s)[i - 1] = s[(i - 1) + 1]
      BY <3>1, <1>1, <1>4, Zenon
    <3> QED
      BY <3>1, <3>2
  <2> QED
    BY <2>1, <2>2
<1>7. s = u
  BY <1>4, <1>5, <1>6, SeqEqual
<1> QED
  BY <1>1, <1>2, <1>3, <1>4, <1>7, Zenon DEF u

\* What comes later in two sequences one after the other.
LEMMA LaterInConcat ==
  ASSUME NEW S, NEW p \in Seq(S), NEW q \in Seq(S)
  PROVE  /\ \A i \in 1 .. Len(p) : Later(p \o q, i) = Later(p, i) \cup Range(q)
         /\ \A i \in 1 .. Len(q) : Later(p \o q, Len(p) + i) = Later(q, i)
<1> DEFINE u == p \o q
<1>1. /\ Len(p) \in Nat /\ Len(q) \in Nat /\ Len(u) = Len(p) + Len(q)
      /\ \A i \in 1 .. Len(p) + Len(q) : u[i] = IF i <= Len(p) THEN p[i] ELSE q[i - Len(p)]
  BY ConcatProperties, LenProperties
<1>2. Range(q) = {q[j] : j \in 1 .. Len(q)}
  BY ElementsOf, Zenon
<1> HIDE DEF u
<1>3. \A j \in 1 .. Len(p) : u[j] = p[j]
  BY <1>1
<1>4. \A j \in 1 .. Len(q) : u[Len(p) + j] = q[j]
  <2> TAKE j \in 1 .. Len(q)
  <2>1. Len(p) + j \in 1 .. Len(p) + Len(q) /\ ~(Len(p) + j <= Len(p)) /\ (Len(p) + j) - Len(p) = j
    BY <1>1
  <2> QED
    BY <1>1, <2>1
<1>5. \A j \in 1 .. Len(u) : j \in 1 .. Len(p) \/ \E k \in 1 .. Len(q) : j = Len(p) + k
  <2> TAKE j \in 1 .. Len(u)
  <2>1. j \in 1 .. Len(p) \/ (j - Len(p) \in 1 .. Len(q) /\ j = Len(p) + (j - Len(p)))
    BY <1>1
  <2> QED
    BY <2>1
<1>6. ASSUME NEW i \in 1 .. Len(p)
      PROVE  Later(u, i) = Later(p, i) \cup Range(q)
  <2>1. ASSUME NEW j \in i + 1 .. Len(u)
        PROVE  u[j] \in Later(p, i) \cup Range(q)
    <3>1. CASE j \in 1 .. Len(p)
      <4>1. j \in i + 1 .. Len(p)
        BY <1>1, <3>1
      <4> QED
        BY <4>1, <3>1, <1>3 DEF Later
    <3>2. CASE \E k \in 1 .. Len(q) : j = Len(p) + k
      BY <3>2, <1>2, <1>4
    <3> QED
      <4>1. j \in 1 .. Len(u)
        BY <1>1
      <4> QED
        BY <4>1, <3>1, <3>2, <1>5, Zenon
  <2>2. ASSUME NEW j \in i + 1 .. Len(p)
        PROVE  p[j] \in Later(u, i)
    <3>1. j \in i + 1 .. Len(u) /\ j \in 1 .. Len(p)
      BY <1>1
    <3> QED
      BY <3>1, <1>3 DEF Later
  <2>3. ASSUME NEW k \in 1 .. Len(q)
        PROVE  q[k] \in Later(u, i)
    <3>1. Len(p) + k \in i + 1 .. Len(u)
      BY <1>1
    <3> QED
      BY <3>1, <1>4 DEF Later
  <2>4. \A x \in Later(u, i) : x \in Later(p, i) \cup Range(q)
    BY <2>1 DEF Later
  <2>5. \A x \in Later(p, i) : x \in Later(u, i)
    BY <2>2 DEF Later
  <2>6. \A x \in Range(q) : x \in Later(u, i)
    BY <2>3, <1>2
  <2> QED
    BY <2>4, <2>5, <2>6
<1>7. ASSUME NEW i \in 1 .. Len(q)
      PROVE  Later(u, Len(p) + i) = Later(q, i)
  <2>1. ASSUME NEW j \in (Len(p) + i) + 1 .. Len(u)
        PROVE  \E k \in i + 1 .. Len(q) : u[j] = q[k]
    <3>1. /\ j - Len(p) \in i + 1 .. Len(q) /\ j - Len(p) \in 1 .. Len(q)
          /\ Len(p) + (j - Len(p)) = j
      BY <1>1
    <3> QED
      BY <3>1, <1>4
  <2>2. ASSUME NEW k \in i + 1 .. Len(q)
        PROVE  \E j \in (Len(p) + i) + 1 .. Len(u) : u[j] = q[k]
    <3>1. Len(p) + k \in (Len(p) + i) + 1 .. Len(u) /\ k \in 1 .. Len(q)
      BY <1>1
    <3> QED
      BY <3>1, <1>4
  <2>3. \A x \in Later(u, Len(p) + i) : x \in Later(q, i)
    BY <2>1 DEF Later
  <2>4. \A x \in Later(q, i) : x \in Later(u, Len(p) + i)
    BY <2>2 DEF Later
  <2> QED
    BY <2>3, <2>4
<1> QED
  BY <1>6, <1>7, Zenon DEF u

----------------------------------------------------------------------------
(* What is left of a call *)

LEMMA AllFitConcat ==
  ASSUME NEW S, NEW p \in Seq(S), NEW q \in Seq(S), NEW later
  PROVE  AllFit(p \o q, later) <=> AllFit(p, Range(q) \cup later) /\ AllFit(q, later)
<1> DEFINE u == p \o q
<1>1. /\ Len(p) \in Nat /\ Len(q) \in Nat /\ Len(u) = Len(p) + Len(q)
      /\ \A i \in 1 .. Len(p) + Len(q) : u[i] = IF i <= Len(p) THEN p[i] ELSE q[i - Len(p)]
  BY ConcatProperties, LenProperties
<1>2. /\ \A i \in 1 .. Len(p) : Later(u, i) = Later(p, i) \cup Range(q)
      /\ \A i \in 1 .. Len(q) : Later(u, Len(p) + i) = Later(q, i)
  BY LaterInConcat
<1> HIDE DEF u
<1>3. \A i \in 1 .. Len(p) :
        /\ i \in 1 .. Len(u) /\ u[i] = p[i]
        /\ Later(u, i) \cup later = Later(p, i) \cup (Range(q) \cup later)
  BY <1>1, <1>2
<1>4. \A i \in 1 .. Len(q) :
        /\ Len(p) + i \in 1 .. Len(u) /\ u[Len(p) + i] = q[i]
        /\ Later(u, Len(p) + i) \cup later = Later(q, i) \cup later
  <2> TAKE i \in 1 .. Len(q)
  <2>1. /\ Len(p) + i \in 1 .. Len(p) + Len(q) /\ ~(Len(p) + i <= Len(p))
        /\ (Len(p) + i) - Len(p) = i
    BY <1>1
  <2>2. u[Len(p) + i] = q[i]
    BY <1>1, <2>1
  <2>3. Later(u, Len(p) + i) = Later(q, i)
    BY <1>2
  <2> QED
    BY <1>1, <2>1, <2>2, <2>3
<1>5. \A j \in 1 .. Len(u) : j \in 1 .. Len(p) \/ \E k \in 1 .. Len(q) : j = Len(p) + k
  <2> TAKE j \in 1 .. Len(u)
  <2>1. j \in 1 .. Len(p) \/ (j - Len(p) \in 1 .. Len(q) /\ j = Len(p) + (j - Len(p)))
    BY <1>1
  <2> QED
    BY <2>1
<1>6. ASSUME AllFit(u, later)
      PROVE  AllFit(p, Range(q) \cup later) /\ AllFit(q, later)
  <2>1. \A i \in 1 .. Len(p) : Fits(p[i], Later(p, i) \cup (Range(q) \cup later))
    <3> TAKE i \in 1 .. Len(p)
    <3>1. Fits(u[i], Later(u, i) \cup later)
      BY <1>3, <1>6, Zenon DEF AllFit
    <3> QED
      BY <1>3, <3>1, Zenon
  <2>2. \A i \in 1 .. Len(q) : Fits(q[i], Later(q, i) \cup later)
    <3> TAKE i \in 1 .. Len(q)
    <3>1. Fits(u[Len(p) + i], Later(u, Len(p) + i) \cup later)
      BY <1>4, <1>6, Zenon DEF AllFit
    <3> QED
      BY <1>4, <3>1, Zenon
  <2> QED
    BY <2>1, <2>2, Zenon DEF AllFit
<1>7. ASSUME AllFit(p, Range(q) \cup later), AllFit(q, later)
      PROVE  AllFit(u, later)
  <2> SUFFICES ASSUME NEW j \in 1 .. Len(u)
               PROVE  Fits(u[j], Later(u, j) \cup later)
    BY DEF AllFit
  <2>1. CASE j \in 1 .. Len(p)
    BY <2>1, <1>3, <1>7, Zenon DEF AllFit
  <2>2. CASE \E k \in 1 .. Len(q) : j = Len(p) + k
    <3>1. PICK k \in 1 .. Len(q) : j = Len(p) + k
      BY <2>2
    <3>2. Fits(q[k], Later(q, k) \cup later)
      BY <1>7, Zenon DEF AllFit
    <3> QED
      BY <3>1, <3>2, <1>4, Zenon
  <2> QED
    BY <2>1, <2>2, <1>5
<1> QED
  BY <1>6, <1>7, Zenon DEF u

\* A call of one step.
LEMMA OneStep ==
  ASSUME NEW c \in Calls
  PROVE  /\ <<c>> \in Seq(Calls) /\ Range(<<c>>) = {c}
         /\ \A later : AllFit(<<c>>, later) <=> Fits(c, later)
<1>1. <<c>> \in Seq(Calls) /\ Len(<<c>>) = 1 /\ <<c>>[1] = c
  OBVIOUS
<1>2. \A i : i \in 1 .. 1 <=> i = 1
  OBVIOUS
<1>3. Range(<<c>>) = {c}
  BY <1>1, OneElement, Zenon
<1>4. Later(<<c>>, 1) = {}
  <2>1. 1 + 1 .. Len(<<c>>) = {}
    BY <1>1
  <2> QED
    BY <2>1 DEF Later
<1>5. ASSUME NEW later
      PROVE  AllFit(<<c>>, later) <=> Fits(c, later)
  <2>1. Later(<<c>>, 1) \cup later = later
    BY <1>4
  <2> QED
    BY <1>1, <1>2, <2>1, Zenon DEF AllFit
<1> QED
  BY <1>1, <1>3, <1>5, Zenon

\* The call goes on with its next step.
LEMMA CallGoesOn ==
  ASSUME NEW s \in Seq(Calls), Shaped(s), s # <<>>
  PROVE  /\ Head(s) \in Calls /\ Tail(s) \in Seq(Calls) /\ Shaped(Tail(s))
         /\ Fits(Head(s), Range(Tail(s)))
         /\ Range(s) = {Head(s)} \cup Range(Tail(s))
<1>1. /\ Head(s) \in Calls /\ Tail(s) \in Seq(Calls) /\ s = <<Head(s)>> \o Tail(s)
      /\ Range(s) = {Head(s)} \cup Range(Tail(s))
  BY HeadAndTail
<1>2. <<Head(s)>> \in Seq(Calls) /\ \A later : AllFit(<<Head(s)>>, later) <=> Fits(Head(s), later)
  BY <1>1, OneStep
<1>3. AllFit(<<Head(s)>>, Range(Tail(s)) \cup {}) /\ AllFit(Tail(s), {})
  BY <1>1, <1>2, AllFitConcat, Zenon DEF Shaped
<1>4. Range(Tail(s)) \cup {} = Range(Tail(s))
  OBVIOUS
<1> QED
  BY <1>1, <1>2, <1>3, <1>4, Zenon DEF Shaped

\* s is a call of these steps, which later may follow.
Call(s, steps, later) == s \in Seq(Calls) /\ Range(s) = steps /\ AllFit(s, later)

LEMMA CallOfOne ==
  ASSUME NEW step, NEW arg, NEW later,
         [step |-> step, arg |-> arg] \in Calls, Fits([step |-> step, arg |-> arg], later)
  PROVE  Call(DoFor(step, arg), {[step |-> step, arg |-> arg]}, later)
BY OneStep, Zenon DEF Call, DoFor

LEMMA CallOfNone ==
  ASSUME NEW later
  PROVE  Call(<<>>, {}, later)
<1>1. <<>> \in Seq(Calls) /\ Len(<<>>) = 0
  BY EmptySeq
<1>2. 1 .. Len(<<>>) = {}
  BY <1>1
<1> QED
  BY <1>1, <1>2, NoElements DEF Call, AllFit

LEMMA CallsInARow ==
  ASSUME NEW p, NEW q, NEW P, NEW Q, NEW later, Call(p, P, Q \cup later), Call(q, Q, later)
  PROVE  Call(p \o q, P \cup Q, later)
<1>1. p \in Seq(Calls) /\ q \in Seq(Calls) /\ Range(p) = P /\ Range(q) = Q
  BY DEF Call
<1>2. p \o q \in Seq(Calls)
  BY <1>1, ConcatProperties
<1>3. Range(p \o q) = P \cup Q
  BY <1>1, RangeConcatenation
<1>4. AllFit(p \o q, later)
  BY <1>1, AllFitConcat, Zenon DEF Call
<1> QED
  BY <1>2, <1>3, <1>4 DEF Call

\* The step at hand, and the others of its call.
LEMMA AtHand ==
  ASSUME todo \in Seq(Calls), Shaped(todo), NEW step, AtStep(step)
  PROVE  /\ [step |-> step, arg |-> Arg] \in Calls
         /\ Fits([step |-> step, arg |-> Arg], others)
         /\ left = {[step |-> step, arg |-> Arg]} \cup others
         /\ others \subseteq Calls
         /\ Call(Tail(todo), others, {})
<1>1. todo # <<>> /\ Head(todo).step = step
  BY DEF AtStep
<1>2. /\ Head(todo) \in Calls /\ Tail(todo) \in Seq(Calls) /\ Shaped(Tail(todo))
      /\ Fits(Head(todo), others) /\ left = {Head(todo)} \cup others
  BY <1>1, CallGoesOn, Zenon DEF left, others
<1>3. Head(todo) = [step |-> step, arg |-> Arg]
  BY <1>1, <1>2 DEF Calls, Arg
<1>4. others \subseteq Calls
  BY <1>2, RangeOfSeq DEF others
<1> QED
  BY <1>2, <1>3, <1>4, Zenon DEF Call, Shaped, others

\* The call goes on with these steps before the others.
LEMMA GoesOn ==
  ASSUME todo \in Seq(Calls), Shaped(todo), NEW step, AtStep(step),
         NEW p, NEW P, Call(p, P, others), Then(p)
  PROVE  todo' \in Seq(Calls) /\ Shaped(todo)' /\ left' = P \cup others
<1>1. Call(Tail(todo), others, {})
  BY AtHand
<1>2. others \cup {} = others
  OBVIOUS
<1>3. Call(p \o Tail(todo), P \cup others, {})
  BY <1>1, <1>2, CallsInARow, Zenon
<1>4. todo' = p \o Tail(todo)
  BY DEF Then
<1> QED
  BY <1>3, <1>4, Zenon DEF Call, Shaped, left

Plain(step) == [step |-> step, arg |-> None]

RestoreSteps == {Plain("RestoreToReceiving"), Plain("SetToReceiving")}

AddSteps(action) == {[step |-> step, arg |-> Event(action)] : step \in QueueSteps}

MayFollow(later) == \A d \in later : d.step \in Following

LEMMA CallOfRestore ==
  ASSUME NEW later, MayFollow(later)
  PROVE  Call(RestoreToReceiving, RestoreSteps, later)
<1> DEFINE r == Plain("RestoreToReceiving")
           s == Plain("SetToReceiving")
<1>1. r \in Calls /\ s \in Calls
  BY DEF Plain, Calls, PlainSteps, Steps, QueueSteps, SendSteps
<1>2. Fits(s, later) /\ Fits(r, {s} \cup later)
  <2>1. r.step = "RestoreToReceiving" /\ s.step = "SetToReceiving"
    BY DEF Plain
  <2> HIDE DEF r, s
  <2>2. Fits(s, later)
    BY <2>1 DEF Fits, MayFollow, Following, Alone
  <2>3. Fits(r, {s} \cup later)
    BY <2>1 DEF Fits, MayFollow, Following, Alone
  <2> QED
    BY <2>2, <2>3
<1>3. Call(Do("RestoreToReceiving"), {r}, {s} \cup later) /\ Call(Do("SetToReceiving"), {s}, later)
  BY <1>1, <1>2, CallOfOne, Zenon DEF Plain, Do
<1>4. Call(RestoreToReceiving, {r} \cup {s}, later)
  BY <1>3, CallsInARow, Zenon DEF RestoreToReceiving
<1> QED
  BY <1>4 DEF RestoreSteps

LEMMA CallOfAdd ==
  ASSUME NEW later, MayFollow(later), NEW action \in OwnActions
  PROVE  Call(AddAsyncAction(action), AddSteps(action), later)
<1> DEFINE At(step) == [step |-> step, arg |-> Event(action)]
           a == At("GruntAction")
           v == At("GruntValue")
           q == At("AppendToQueue")
<1>1. a \in Calls /\ v \in Calls /\ q \in Calls
  BY DEF Calls, QueueSteps
<1>2. Fits(q, later) /\ Fits(v, {q} \cup later) /\ Fits(a, {v} \cup ({q} \cup later))
  BY DEF Fits, MayFollow, Following, Alone, QueueSteps
<1>3. /\ Call(DoFor("GruntAction", Event(action)), {a}, {v} \cup ({q} \cup later))
      /\ Call(DoFor("GruntValue", Event(action)), {v}, {q} \cup later)
      /\ Call(DoFor("AppendToQueue", Event(action)), {q}, later)
  BY <1>1, <1>2, CallOfOne, Zenon
<1>4. Call(DoFor("GruntAction", Event(action)) \o DoFor("GruntValue", Event(action)),
           {a} \cup {v}, {q} \cup later)
  BY <1>3, CallsInARow, Zenon
<1>5. Call(AddAsyncAction(action), ({a} \cup {v}) \cup {q}, later)
  BY <1>3, <1>4, CallsInARow, Zenon DEF AddAsyncAction
<1>6. ({a} \cup {v}) \cup {q} = AddSteps(action)
  BY DEF AddSteps, QueueSteps
<1> QED
  BY <1>5, <1>6, Zenon

\* The call is of these steps and the others of the one before.
GoesOnWith(P) == todo' \in Seq(Calls) /\ Shaped(todo)' /\ left' = P \cup others

OnlyEnable(later) == \A d \in later : d.step = "EnableInterrupts"

RefusedSteps(h) == IF h = Ack THEN RestoreSteps ELSE {}

LEMMA CallOfRefused ==
  ASSUME NEW later, MayFollow(later), NEW h
  PROVE  Call(Refused(h), RefusedSteps(h), later)
BY CallOfRestore, CallOfNone, Zenon DEF Refused, RefusedSteps

LEMMA CallOfPlain ==
  ASSUME NEW step \in PlainSteps, NEW later, Fits(Plain(step), later)
  PROVE  Call(Do(step), {Plain(step)}, later)
<1>1. Plain(step) \in Calls
  BY DEF Plain, Calls
<1> QED
  BY <1>1, CallOfOne, Zenon DEF Plain, Do

LEMMA CallOfEnable == Call(Do("EnableInterrupts"), {Plain("EnableInterrupts")}, {})
<1>1. Fits(Plain("EnableInterrupts"), {}) /\ "EnableInterrupts" \in PlainSteps
  BY DEF Fits, Plain, PlainSteps, Steps, QueueSteps, SendSteps
<1> QED
  BY <1>1, CallOfPlain

\* A received packet is done with.
LEMMA CallOfTaken ==
  /\ Call(RestoreToReceiving \o Do("EnableInterrupts"),
          RestoreSteps \cup {Plain("EnableInterrupts")}, {})
  /\ Call(Do("OnTransmitPowerUpdated") \o RestoreToReceiving \o Do("EnableInterrupts"),
          {Plain("OnTransmitPowerUpdated")} \cup RestoreSteps \cup {Plain("EnableInterrupts")}, {})
  /\ Call(DoFor("SendPacket", Ack) \o Do("EnableInterrupts"),
          {[step |-> "SendPacket", arg |-> Ack], Plain("EnableInterrupts")}, {})
<1> DEFINE e == Plain("EnableInterrupts")
           o == Plain("OnTransmitPowerUpdated")
           p == [step |-> "SendPacket", arg |-> Ack]
<1>1. MayFollow({e} \cup {}) /\ MayFollow(RestoreSteps \cup ({e} \cup {}))
  BY DEF MayFollow, Following, Plain, RestoreSteps
<1>2. Call(RestoreToReceiving, RestoreSteps, {e} \cup {})
  BY <1>1, CallOfRestore
<1>3. Call(RestoreToReceiving \o Do("EnableInterrupts"), RestoreSteps \cup {e}, {})
  BY <1>2, CallOfEnable, CallsInARow, Zenon
<1>4. Fits(o, RestoreSteps \cup ({e} \cup {})) /\ "OnTransmitPowerUpdated" \in PlainSteps
  BY <1>1 DEF Fits, Plain, Alone, PlainSteps, Steps, QueueSteps, SendSteps, MayFollow
<1>5. Call(Do("OnTransmitPowerUpdated"), {o}, RestoreSteps \cup ({e} \cup {}))
  BY <1>4, CallOfPlain, Zenon
<1>6. Call(Do("OnTransmitPowerUpdated") \o RestoreToReceiving, {o} \cup RestoreSteps, {e} \cup {})
  BY <1>2, <1>5, CallsInARow, Zenon
<1>7. Call(Do("OnTransmitPowerUpdated") \o RestoreToReceiving \o Do("EnableInterrupts"),
           {o} \cup RestoreSteps \cup {e}, {})
  BY <1>6, CallOfEnable, CallsInARow, Zenon
<1>8. p \in Calls /\ Fits(p, {e} \cup {})
  BY DEF Calls, SendSteps, Fits, Plain, Following, Alone
<1>9. Call(DoFor("SendPacket", Ack), {p}, {e} \cup {})
  BY <1>8, CallOfOne, Zenon
<1>10. Call(DoFor("SendPacket", Ack) \o Do("EnableInterrupts"), {p} \cup {e}, {})
  BY <1>9, CallOfEnable, CallsInARow, Zenon
<1>11. {p} \cup {e} = {p, e}
  OBVIOUS
<1> QED
  BY <1>3, <1>7, <1>10, <1>11, Zenon

\* A packet is on its way.
TransmittedSteps(h) ==
  {[step |-> "OnTransmitted", arg |-> h], Plain("OnTransmitPowerUpdated"),
   [step |-> "AwaitTransmissionEnd", arg |-> h]}

LEMMA CallOfTransmitted ==
  ASSUME NEW h \in Headers \cup {Ack}, NEW later, OnlyEnable(later)
  PROVE  Call(DoFor("OnTransmitted", h) \o Do("OnTransmitPowerUpdated")
              \o DoFor("AwaitTransmissionEnd", h), TransmittedSteps(h), later)
<1> DEFINE o == [step |-> "OnTransmitted", arg |-> h]
           u == Plain("OnTransmitPowerUpdated")
           w == [step |-> "AwaitTransmissionEnd", arg |-> h]
<1>1. o \in Calls /\ w \in Calls /\ "OnTransmitPowerUpdated" \in PlainSteps
  BY DEF Calls, SendSteps, QueueSteps, PlainSteps, Steps
<1>2. Fits(w, later)
  BY DEF Fits, OnlyEnable, Following, Alone
<1>3. Fits(u, {w} \cup later)
  BY DEF Fits, OnlyEnable, Following, Alone, Plain
<1>4. Fits(o, {u} \cup ({w} \cup later))
  BY DEF Fits, OnlyEnable, Following, Alone, Plain
<1>5. /\ Call(DoFor("OnTransmitted", h), {o}, {u} \cup ({w} \cup later))
      /\ Call(Do("OnTransmitPowerUpdated"), {u}, {w} \cup later)
      /\ Call(DoFor("AwaitTransmissionEnd", h), {w}, later)
  BY <1>1, <1>2, <1>3, <1>4, CallOfOne, CallOfPlain, Zenon
<1>6. Call(DoFor("OnTransmitted", h) \o Do("OnTransmitPowerUpdated"), {o} \cup {u}, {w} \cup later)
  BY <1>5, CallsInARow, Zenon
<1>7. Call(DoFor("OnTransmitted", h) \o Do("OnTransmitPowerUpdated")
           \o DoFor("AwaitTransmissionEnd", h), ({o} \cup {u}) \cup {w}, later)
  BY <1>5, <1>6, CallsInARow, Zenon
<1>8. ({o} \cup {u}) \cup {w} = TransmittedSteps(h)
  BY DEF TransmittedSteps
<1> QED
  BY <1>7, <1>8, Zenon

\* What each form of Then leaves, in the words of the actions.
LEMMA WhatIsLeft ==
  ASSUME todo \in Seq(Calls), Shaped(todo), NEW step, AtStep(step)
  PROVE  /\ Then(<<>>) => GoesOnWith({})
         /\ Then(RestoreToReceiving) => GoesOnWith(RestoreSteps)
         /\ \A action \in OwnActions : Then(AddAsyncAction(action)) => GoesOnWith(AddSteps(action))
<1>1. MayFollow(others)
  BY AtHand DEF Fits, MayFollow
<1> QED
  BY <1>1, GoesOn, CallOfNone, CallOfRestore, CallOfAdd, Zenon DEF GoesOnWith

LEMMA WhatIsLeftToSend ==
  ASSUME todo \in Seq(Calls), Shaped(todo)
  PROVE  /\ AtStep("SendPacket") \/ AtStep("Claim") \/ AtStep("Transmit") =>
              OnlyEnable(others) /\ Arg \in Headers \cup {Ack}
         /\ AtStep("SendPacket") /\ Then(DoFor("Claim", Arg)) =>
              GoesOnWith({[step |-> "Claim", arg |-> Arg]})
         /\ AtStep("SendPacket") /\ Then(Refused(Arg)) => GoesOnWith(RefusedSteps(Arg))
         /\ AtStep("Claim") /\ Then(DoFor("Transmit", Arg)) =>
              GoesOnWith({[step |-> "Transmit", arg |-> Arg]})
         /\ AtStep("Transmit")
            /\ Then(DoFor("OnTransmitted", Arg) \o Do("OnTransmitPowerUpdated")
                    \o DoFor("AwaitTransmissionEnd", Arg)) => GoesOnWith(TransmittedSteps(Arg))
         /\ AtStep("Transmit") /\ Then(AddAsyncAction("AsyncRestore") \o Refused(Arg)) =>
              GoesOnWith(AddSteps("AsyncRestore") \cup RefusedSteps(Arg))
<1>1. ASSUME NEW step \in {"SendPacket", "Claim", "Transmit"}, AtStep(step)
      PROVE  OnlyEnable(others) /\ MayFollow(others) /\ Arg \in Headers \cup {Ack}
  <2>1. [step |-> step, arg |-> Arg] \in Calls /\ Fits([step |-> step, arg |-> Arg], others)
    BY <1>1, AtHand
  <2>2. OnlyEnable(others) /\ MayFollow(others)
    BY <2>1 DEF Fits, OnlyEnable, MayFollow
  <2>3. Arg \in Headers \cup {Ack}
    BY <2>1 DEF Calls, QueueSteps, SendSteps, PlainSteps, Steps
  <2> QED
    BY <2>2, <2>3
<1>2. ASSUME NEW step \in {"Claim", "Transmit"}, OnlyEnable(others), Arg \in Headers \cup {Ack}
      PROVE  Call(DoFor(step, Arg), {[step |-> step, arg |-> Arg]}, others)
  <2>1. [step |-> step, arg |-> Arg] \in Calls
    BY <1>2 DEF Calls, SendSteps
  <2>2. Fits([step |-> step, arg |-> Arg], others)
    BY <1>2 DEF Fits, OnlyEnable, Following, Alone
  <2> QED
    BY <2>1, <2>2, CallOfOne, Zenon
<1>3. ASSUME MayFollow(others), NEW h
      PROVE  Call(AddAsyncAction("AsyncRestore") \o Refused(h),
                  AddSteps("AsyncRestore") \cup RefusedSteps(h), others)
  <2>1. Call(Refused(h), RefusedSteps(h), others)
    BY <1>3, CallOfRefused
  <2>2. MayFollow(RefusedSteps(h) \cup others) /\ "AsyncRestore" \in OwnActions
    BY <1>3 DEF MayFollow, RefusedSteps, RestoreSteps, Plain, Following, OwnActions
  <2>3. Call(AddAsyncAction("AsyncRestore"), AddSteps("AsyncRestore"), RefusedSteps(h) \cup others)
    BY <2>2, CallOfAdd, Zenon
  <2> QED
    BY <2>1, <2>3, CallsInARow, Zenon
<1>4. AtStep("SendPacket") /\ Then(DoFor("Claim", Arg)) =>
        GoesOnWith({[step |-> "Claim", arg |-> Arg]})
  BY <1>1, <1>2, GoesOn, Zenon DEF GoesOnWith
<1>5. AtStep("SendPacket") /\ Then(Refused(Arg)) => GoesOnWith(RefusedSteps(Arg))
  BY <1>1, CallOfRefused, GoesOn, Zenon DEF GoesOnWith
<1>6. AtStep("Claim") /\ Then(DoFor("Transmit", Arg)) =>
        GoesOnWith({[step |-> "Transmit", arg |-> Arg]})
  BY <1>1, <1>2, GoesOn, Zenon DEF GoesOnWith
<1>7. AtStep("Transmit")
      /\ Then(DoFor("OnTransmitted", Arg) \o Do("OnTransmitPowerUpdated")
              \o DoFor("AwaitTransmissionEnd", Arg)) => GoesOnWith(TransmittedSteps(Arg))
  BY <1>1, CallOfTransmitted, GoesOn, Zenon DEF GoesOnWith
<1>8. AtStep("Transmit") /\ Then(AddAsyncAction("AsyncRestore") \o Refused(Arg)) =>
        GoesOnWith(AddSteps("AsyncRestore") \cup RefusedSteps(Arg))
  BY <1>1, <1>3, GoesOn, Zenon DEF GoesOnWith
<1> QED
  BY <1>1, <1>4, <1>5, <1>6, <1>7, <1>8, Zenon

LEMMA WhatIsLeftToReceive ==
  ASSUME todo \in Seq(Calls), Shaped(todo)
  PROVE  /\ \A step \in Alone : AtStep(step) => others = {}
         /\ AtStep("ProcessIncoming") /\ Then(Do("Received")) => GoesOnWith({Plain("Received")})
         /\ \A step \in Alone :
              /\ AtStep(step) /\ Then(RestoreToReceiving \o Do("EnableInterrupts")) =>
                   GoesOnWith(RestoreSteps \cup {Plain("EnableInterrupts")})
              /\ AtStep(step) /\ Then(Do("OnTransmitPowerUpdated") \o RestoreToReceiving
                                      \o Do("EnableInterrupts")) =>
                   GoesOnWith({Plain("OnTransmitPowerUpdated")} \cup RestoreSteps
                              \cup {Plain("EnableInterrupts")})
              /\ AtStep(step) /\ Then(DoFor("SendPacket", Ack) \o Do("EnableInterrupts")) =>
                   GoesOnWith({[step |-> "SendPacket", arg |-> Ack], Plain("EnableInterrupts")})
<1>1. ASSUME NEW step \in Alone, AtStep(step)
      PROVE  others = {}
  <2>1. Fits([step |-> step, arg |-> Arg], others)
    BY <1>1, AtHand
  <2> QED
    BY <2>1 DEF Fits
<1>2. Call(Do("Received"), {Plain("Received")}, {})
  <2>1. Fits(Plain("Received"), {}) /\ "Received" \in PlainSteps
    BY DEF Fits, Plain, PlainSteps, Steps, QueueSteps, SendSteps
  <2> QED
    BY <2>1, CallOfPlain
<1>3. "ProcessIncoming" \in Alone
  BY DEF Alone
<1> QED
  BY <1>1, <1>2, <1>3, CallOfTaken, GoesOn, Zenon DEF GoesOnWith

\* A call begins with these steps.
Begins(P) == todo' \in Seq(Calls) /\ Shaped(todo)' /\ left' = P

FirstSteps(e) ==
  CASE e.action = "ProcessIncomingPacket" -> {Plain("ProcessIncoming")}
    [] e.action = "ProcessSentOk"         -> {Telling(e.value)}
    [] e.action = "UpdatePower"           -> {Plain("OnTransmitPowerUpdated")}
    [] e.action = "UpdateChannel"         -> {Plain("OnChannelUpdated")}
    [] e.action = "AsyncRestore"          -> {Plain("OnAsyncRestore")}
    [] e.action = "ProcessBatteryAlarm"   -> {}

LEMMA WhatBegins ==
  /\ Idle => left = {}
  /\ todo' = RestoreToReceiving => Begins(RestoreSteps)
  /\ \A step \in {"OnTransmitPowerUpdated", "OnChannelUpdated", "Disable"} :
       todo' = Do(step) => Begins({Plain(step)})
  /\ \A h \in Headers : todo' = DoFor("SendPacket", h) =>
       Begins({[step |-> "SendPacket", arg |-> h]})
  /\ \A e \in Events : todo' = OnAsyncAction(e) => Begins(FirstSteps(e))
<1>1. ASSUME NEW p, NEW P, Call(p, P, {}), todo' = p
      PROVE  Begins(P)
  BY <1>1, Zenon DEF Begins, Call, Shaped, left
<1>2. Idle => left = {}
  BY NoElements, Zenon DEF Idle, left
<1>3. Call(RestoreToReceiving, RestoreSteps, {})
  <2>1. MayFollow({})
    BY DEF MayFollow
  <2> QED
    BY <2>1, CallOfRestore
<1>4. ASSUME NEW step \in {"OnTransmitPowerUpdated", "OnChannelUpdated", "Disable",
                           "ProcessIncoming", "OnAsyncRestore"}
      PROVE  Call(Do(step), {Plain(step)}, {})
  <2>1. Fits(Plain(step), {}) /\ step \in PlainSteps
    BY DEF Fits, Plain, PlainSteps, Steps, QueueSteps, SendSteps
  <2> QED
    BY <2>1, CallOfPlain
<1>5. ASSUME NEW h \in Headers
      PROVE  Call(DoFor("SendPacket", h), {[step |-> "SendPacket", arg |-> h]}, {})
  <2>1. [step |-> "SendPacket", arg |-> h] \in Calls /\ Fits([step |-> "SendPacket", arg |-> h], {})
    BY DEF Calls, SendSteps, Fits
  <2> QED
    BY <2>1, CallOfOne, Zenon
<1>6. ASSUME NEW h \in Headers \cup {Ack, None}
      PROVE  Call(DoFor("ProcessSent", h), {Telling(h)}, {})
  <2>1. [step |-> "ProcessSent", arg |-> h] \in Calls
    BY DEF Calls
  <2>2. Fits([step |-> "ProcessSent", arg |-> h], {})
    BY DEF Fits
  <2> QED
    BY <2>1, <2>2, CallOfOne, Zenon DEF Telling
<1>7. ASSUME NEW e \in Events
      PROVE  Call(OnAsyncAction(e), FirstSteps(e), {})
  <2>1. e.action \in DriverAsyncActions /\ e.value \in Headers \cup {Ack, None}
    BY DEF Events
  <2>2. CASE e.action = "ProcessIncomingPacket"
    <3>1. OnAsyncAction(e) = Do("ProcessIncoming") /\ FirstSteps(e) = {Plain("ProcessIncoming")}
      BY <2>2 DEF OnAsyncAction, FirstSteps
    <3> QED
      BY <3>1, <1>4
  <2>3. CASE e.action = "ProcessSentOk"
    <3>1. OnAsyncAction(e) = DoFor("ProcessSent", e.value) /\ FirstSteps(e) = {Telling(e.value)}
      BY <2>3 DEF OnAsyncAction, FirstSteps
    <3> QED
      BY <3>1, <1>6, <2>1
  <2>4. CASE e.action = "UpdatePower"
    <3>1. /\ OnAsyncAction(e) = Do("OnTransmitPowerUpdated")
          /\ FirstSteps(e) = {Plain("OnTransmitPowerUpdated")}
      BY <2>4 DEF OnAsyncAction, FirstSteps
    <3> QED
      BY <3>1, <1>4
  <2>5. CASE e.action = "UpdateChannel"
    <3>1. OnAsyncAction(e) = Do("OnChannelUpdated") /\ FirstSteps(e) = {Plain("OnChannelUpdated")}
      BY <2>5 DEF OnAsyncAction, FirstSteps
    <3> QED
      BY <3>1, <1>4
  <2>6. CASE e.action = "AsyncRestore"
    <3>1. OnAsyncAction(e) = Do("OnAsyncRestore") /\ FirstSteps(e) = {Plain("OnAsyncRestore")}
      BY <2>6 DEF OnAsyncAction, FirstSteps
    <3> QED
      BY <3>1, <1>4
  <2>7. CASE e.action = "ProcessBatteryAlarm"
    <3>1. OnAsyncAction(e) = <<>> /\ FirstSteps(e) = {}
      BY <2>7 DEF OnAsyncAction, FirstSteps
    <3> QED
      BY <3>1, CallOfNone
  <2> QED
    BY <2>1, <2>2, <2>3, <2>4, <2>5, <2>6, <2>7 DEF DriverAsyncActions
<1> QED
  BY <1>1, <1>2, <1>3, <1>4, <1>5, <1>7

----------------------------------------------------------------------------
(* The event queue *)

\* One more event at the end.
LEMMA AtTheEnd ==
  ASSUME NEW S, NEW s \in Seq(S), NEW e \in S
  PROVE  /\ Append(s, e) \in Seq(S) /\ Len(Append(s, e)) = Len(s) + 1
         /\ Range(Append(s, e)) = Range(s) \cup {e}
         /\ \A x : Once(s, x) /\ (e = x => x \notin Range(s)) => Once(Append(s, e), x)
<1> DEFINE u == Append(s, e)
<1>1. /\ u \in Seq(S) /\ Len(u) = Len(s) + 1 /\ Len(s) \in Nat
      /\ \A i \in 1 .. Len(s) : u[i] = s[i]
      /\ u[Len(s) + 1] = e
  BY AppendProperties, LenProperties
<1> HIDE DEF u
<1>2. \A i : i \in 1 .. Len(u) <=> i \in 1 .. Len(s) \/ i = Len(s) + 1
  BY <1>1
<1>3. /\ \A x : x \in Range(u) <=> \E i \in 1 .. Len(u) : u[i] = x
      /\ \A x : x \in Range(s) <=> \E i \in 1 .. Len(s) : s[i] = x
  BY <1>1, ElementsOf
<1>4. Range(u) = Range(s) \cup {e}
  <2>1. \A x : x \in Range(u) <=> x \in Range(s) \cup {e}
    BY <1>1, <1>2, <1>3
  <2> QED
    BY <2>1
<1>5. ASSUME NEW x, Once(s, x), e = x => x \notin Range(s)
      PROVE  Once(u, x)
  BY <1>1, <1>2, <1>3, <1>5 DEF Once
<1> QED
  BY <1>1, <1>4, <1>5, Zenon DEF u

\* The oldest event taken.
LEMMA WithoutOldest ==
  ASSUME NEW S, NEW s \in Seq(S), s # <<>>, NEW x, Once(s, x)
  PROVE  /\ Once(Tail(s), x)
         /\ Head(s) = x => x \notin Range(Tail(s))
<1>1. /\ Tail(s) \in Seq(S) /\ Len(s) \in Nat \ {0} /\ Len(Tail(s)) = Len(s) - 1
      /\ \A i \in 1 .. Len(Tail(s)) : Tail(s)[i] = s[i + 1]
      /\ Head(s) = s[1]
  BY HeadAndTail
<1>2. \A i \in 1 .. Len(Tail(s)) : i + 1 \in 1 .. Len(s) /\ i + 1 # 1
  BY <1>1
<1>3. ASSUME NEW i \in 1 .. Len(Tail(s)), NEW j \in 1 .. Len(Tail(s)),
             Tail(s)[i] = x, Tail(s)[j] = x
      PROVE  i = j
  <2>1. i + 1 = j + 1
    BY <1>1, <1>2, <1>3, Zenon DEF Once
  <2> QED
    BY <2>1
<1>4. ASSUME Head(s) = x, x \in Range(Tail(s))
      PROVE  FALSE
  <2>1. PICK i \in 1 .. Len(Tail(s)) : Tail(s)[i] = x
    <3>1. Range(Tail(s)) = {Tail(s)[i] : i \in 1 .. Len(Tail(s))}
      BY <1>1, RangeEquality, Zenon
    <3> QED
      BY <1>4, <3>1, Zenon
  <2>2. s[i + 1] = x /\ s[1] = x /\ i + 1 \in 1 .. Len(s) /\ 1 \in 1 .. Len(s)
    BY <1>1, <1>2, <1>4, <2>1
  <2> QED
    BY <2>2, <1>2, Zenon DEF Once
<1> QED
  BY <1>3, <1>4, Zenon DEF Once

\* A new event is queued, at the cost of the oldest when there is no room.
LEMMA Queueing ==
  ASSUME NEW S, NEW s \in Seq(S), Len(s) <= QueueSize, NEW e \in S
  PROVE  /\ AddForce(s, e) \in Seq(S) /\ Len(AddForce(s, e)) <= QueueSize
         /\ e \in Range(AddForce(s, e))
         /\ Range(AddForce(s, e)) \subseteq Range(s) \cup {e}
         /\ Range(s) \subseteq Range(AddForce(s, e)) \cup Dropped(s)
         /\ \A x : Once(s, x) /\ (e = x => x \notin Range(s)) => Once(AddForce(s, e), x)
<1>1. Len(s) \in Nat /\ QueueSize \in Nat \ {0}
  BY QueueAssumption, LenProperties
<1>2. CASE Len(s) < QueueSize
  <2>1. AddForce(s, e) = Append(s, e)
    BY <1>2 DEF AddForce
  <2>2. Len(s) + 1 <= QueueSize
    BY <1>1, <1>2
  <2>3. /\ Append(s, e) \in Seq(S) /\ Len(Append(s, e)) = Len(s) + 1
        /\ Range(Append(s, e)) = Range(s) \cup {e}
        /\ \A x : Once(s, x) /\ (e = x => x \notin Range(s)) => Once(Append(s, e), x)
    BY AtTheEnd
  <2> HIDE DEF Once
  <2> QED
    BY <2>1, <2>2, <2>3
<1>3. CASE ~(Len(s) < QueueSize)
  <2> DEFINE t == Tail(s)
  <2>1. s # <<>>
    BY <1>1, <1>3, EmptySeq
  <2>2. /\ t \in Seq(S) /\ Len(t) = Len(s) - 1
        /\ Range(s) = {Head(s)} \cup Range(t)
    BY <2>1, HeadAndTail
  <2>3. Len(t) + 1 <= QueueSize
    BY <1>1, <2>2
  <2>4. \A x : Once(s, x) => Once(t, x)
    BY <2>1, WithoutOldest
  <2>5. AddForce(s, e) = Append(t, e) /\ Dropped(s) = {Head(s)}
    BY <1>3 DEF AddForce, Dropped
  <2> HIDE DEF t
  <2>6. /\ Append(t, e) \in Seq(S) /\ Len(Append(t, e)) = Len(t) + 1
        /\ Range(Append(t, e)) = Range(t) \cup {e}
        /\ \A x : Once(t, x) /\ (e = x => x \notin Range(t)) => Once(Append(t, e), x)
    BY <2>2, AtTheEnd
  <2> QED
    BY <2>2, <2>3, <2>4, <2>5, <2>6
<1> QED
  BY <1>2, <1>3

----------------------------------------------------------------------------
(* The records *)

\* One field of the driver at a time; Booleans by name.
LEMMA DriverWith ==
  ASSUME NEW d \in Drivers
  PROVE  /\ \A v \in DriverActiveStates : [d EXCEPT !.state = v] \in Drivers
         /\ \A v \in Headers \cup {Ack, None} : [d EXCEPT !.lastSentHeader = v] \in Drivers
         /\ \A v \in Events : [d EXCEPT !.grunt = v] \in Drivers
         /\ \A v \in Powers \cup {None} : [d EXCEPT !.currentPower = v] \in Drivers
         /\ \A v \in Powers \cup {None} : [d EXCEPT !.lastPower = v] \in Drivers
         /\ \A v \in Channels : [d EXCEPT !.currentChannel = v] \in Drivers
         /\ \A v \in Channels \cup {None} : [d EXCEPT !.lastChannel = v] \in Drivers
         /\ \A v \in BOOLEAN : [d EXCEPT !.channelPending = v] \in Drivers
BY DEF Drivers

LEMMA DriverFields ==
  ASSUME NEW d \in Drivers
  PROVE  /\ d.state \in DriverActiveStates /\ d.lastSentHeader \in Headers \cup {Ack, None}
         /\ d.grunt \in Events
         /\ d.currentPower \in Powers \cup {None} /\ d.lastPower \in Powers \cup {None}
         /\ d.currentChannel \in Channels /\ d.lastChannel \in Channels \cup {None}
         /\ d.channelPending \in BOOLEAN
BY DEF Drivers

LEMMA EventTypes ==
  /\ \A action \in DriverAsyncActions : Event(action) \in Events
  /\ \A h \in Headers \cup {Ack, None} : SentOk(h) \in Events
  /\ OwnActions \subseteq DriverAsyncActions
BY DEF Events, Event, SentOk, DriverAsyncActions, OwnActions

----------------------------------------------------------------------------
(* Types *)

\* A step of the main loop goes on with a call, whose other steps stay.
LEMMA MainGoesOn ==
  ASSUME todo \in Seq(Calls), Shaped(todo), MainStep
  PROVE  todo # <<>> /\ \E P : GoesOnWith(P)
<1>1. todo \in Seq(Calls) /\ Shaped(todo)
  OBVIOUS
<1> DEFINE Done == todo # <<>> /\ \E P : GoesOnWith(P)
<1>2. ASSUME NEW step, AtStep(step), \E P : GoesOnWith(P)
      PROVE  Done
  BY <1>2, Zenon DEF AtStep
<1> HIDE DEF Done
<1>4. ASSUME NEW step, AtStep(step), Then(<<>>)
      PROVE  Done
  BY <1>1, <1>2, <1>4, WhatIsLeft, Zenon
<1>5. ASSUME NEW step, AtStep(step), Then(RestoreToReceiving)
      PROVE  Done
  BY <1>1, <1>2, <1>5, WhatIsLeft, Zenon
<1>6. ASSUME NEW step, AtStep(step), NEW action \in OwnActions, Then(AddAsyncAction(action))
      PROVE  Done
  BY <1>1, <1>2, <1>6, WhatIsLeft, Zenon
<1>7. ASSUME MainStep
      PROVE  Done
  <2>1. CASE WriteGruntAction
    BY <2>1, <1>4 DEF WriteGruntAction
  <2>2. CASE WriteGruntValue
    BY <2>2, <1>4 DEF WriteGruntValue
  <2>3. CASE AppendGrunt
    BY <2>3, <1>4 DEF AppendGrunt
  <2>4. CASE DisableTask
    BY <2>4, <1>4 DEF DisableTask
  <2>5. CASE MakeReady
    BY <2>5, <1>4 DEF MakeReady
  <2>6. CASE SetToReceiving
    BY <2>6, <1>4 DEF SetToReceiving
  <2>7. CASE EnableInterrupts
    BY <2>7, <1>4 DEF EnableInterrupts
  <2>8. CASE OnAsyncRestore
    BY <2>8, <1>5 DEF OnAsyncRestore
  <2>9. CASE OnTransmitPowerUpdated
    BY <2>9, <1>4, <1>5, <1>6, Zenon DEF OnTransmitPowerUpdated, OwnActions
  <2>10. CASE OnChannelUpdated
    BY <2>10, <1>4, <1>5, <1>6, Zenon DEF OnChannelUpdated, OwnActions
  <2>11. CASE SendPacket
    <3>1. AtStep("SendPacket") /\ (Then(DoFor("Claim", Arg)) \/ Then(Refused(Arg)))
      BY <2>11, Zenon DEF SendPacket
    <3> QED
      BY <3>1, <1>1, <1>2, WhatIsLeftToSend, Zenon
  <2>12. CASE Claim
    BY <2>12, <1>1, <1>2, WhatIsLeftToSend, Zenon DEF Claim
  <2>13. CASE Transmit
    BY <2>13, <1>1, <1>2, WhatIsLeftToSend, Zenon DEF Transmit
  <2>14. CASE OnTransmitted
    BY <2>14, <1>4 DEF OnTransmitted
  <2>15. CASE AwaitTransmissionEnd
    BY <2>15, <1>4 DEF AwaitTransmissionEnd
  <2>16. CASE ProcessSent
    BY <2>16, <1>5 DEF ProcessSent
  <2>17. CASE ProcessIncoming
    BY <2>17, <1>1, <1>2, WhatIsLeftToReceive, Zenon DEF ProcessIncoming, Alone
  <2>18. CASE PacketTaken
    BY <2>18, <1>1, <1>2, WhatIsLeftToReceive, Zenon DEF PacketTaken, Alone
  <2>19. CASE PacketAcked
    BY <2>19, <1>1, <1>2, WhatIsLeftToReceive, Zenon DEF PacketAcked, Alone
  <2>20. CASE \E p \in Powers : PacketSetsPower(p)
    BY <2>20, <1>1, <1>2, WhatIsLeftToReceive, Zenon DEF PacketSetsPower, Alone
  <2> QED
    BY <1>7, <2>1, <2>2, <2>3, <2>4, <2>5, <2>6, <2>7, <2>8, <2>9, <2>10, <2>11, <2>12, <2>13,
       <2>14, <2>15, <2>16, <2>17, <2>18, <2>19, <2>20 DEF MainStep
<1> QED
  BY <1>7, Zenon DEF Done

\* Every step leaves a call of steps that fit, or begins one.
LEMMA TodoTyped ==
  ASSUME Typed, [Next]_vars
  PROVE  todo' \in Seq(Calls) /\ Shaped(todo)'
<1>1. todo \in Seq(Calls) /\ Shaped(todo) /\ events \in Seq(Events)
  BY DEF Typed
<1> DEFINE Done == todo' \in Seq(Calls) /\ Shaped(todo)'
<1>2. (\E P : GoesOnWith(P) \/ Begins(P)) => Done
  BY Zenon DEF GoesOnWith, Begins
<1>3. UNCHANGED todo => Done
  BY <1>1, Zenon DEF Shaped
<1> HIDE DEF Done
<1>7. ASSUME MainStep
      PROVE  Done
  BY <1>1, <1>2, <1>7, MainGoesOn
<1>8. ASSUME Callback
      PROVE  Done
  <2>1. CASE Pull /\ todo' = OnAsyncAction(Head(events))
    <3>1. Head(events) \in Events
      BY <1>1, <2>1, HeadAndTail DEF Pull
    <3> QED
      BY <2>1, <3>1, <1>2, WhatBegins, Zenon
  <2>2. CASE PullFails /\ todo' = Do("Disable")
    BY <2>2, <1>2, WhatBegins, Zenon
  <2> QED
    BY <1>8, <2>1, <2>2 DEF Callback
<1>9. ASSUME ServiceStep
      PROVE  Done
  <2>1. CASE OnStart
    BY <2>1, <1>2, WhatBegins, Zenon DEF OnStart
  <2>2. CASE \E p \in Powers : SetTransmitPower(p)
    BY <2>2, <1>2, WhatBegins, Zenon DEF SetTransmitPower
  <2>3. CASE \E c \in Channels : SetChannel(c)
    BY <2>3, <1>2, WhatBegins, Zenon DEF SetChannel
  <2>4. ASSUME NEW h \in Headers, ServiceSends(h)
        PROVE  Done
    BY <2>4, <1>2, WhatBegins, Zenon DEF ServiceSends
  <2>5. ASSUME NEW h \in Headers, ServiceTimesOut(h)
        PROVE  Done
    BY <2>5, <1>3 DEF ServiceTimesOut
  <2> QED
    BY <1>9, <2>1, <2>2, <2>3, <2>4, <2>5 DEF ServiceStep
<1>10. ASSUME InterruptStep
       PROVE  Done
  <2>1. UNCHANGED todo
    BY <1>10 DEF InterruptStep, OnIncoming, OnReceiveBegin, OnReceivedFail, OnSentOk,
                 TransmissionEnds, OnBatteryAlarm
  <2> QED
    BY <2>1, <1>3
<1>11. ASSUME UNCHANGED vars
       PROVE  Done
  BY <1>11, <1>3 DEF vars
<1> QED
  BY <1>7, <1>8, <1>9, <1>10, <1>11, Zenon DEF Next, Done

QueueTyped == events \in Seq(Events) /\ Len(events) <= QueueSize /\ enabled \in BOOLEAN

LEMMA AppendTyped ==
  ASSUME QueueTyped, NEW e \in Events, AppendToQueue(e)
  PROVE  QueueTyped'
BY Queueing, Zenon DEF QueueTyped, AppendToQueue

\* The queue stays a queue of events, no longer than the ring buffer.
LEMMA EventsTyped ==
  ASSUME Typed, [Next]_vars
  PROVE  QueueTyped'
<1>1. /\ QueueTyped /\ driver \in Drivers
      /\ driver.grunt \in Events /\ driver.lastSentHeader \in Headers \cup {Ack, None}
  BY DriverFields DEF Typed, QueueTyped
<1>2. UNCHANGED callbackVars => QueueTyped'
  BY <1>1, Zenon DEF callbackVars, QueueTyped
<1>3. ASSUME NEW d, NEW e \in Events, Interrupt(d, e)
      PROVE  QueueTyped'
  BY <1>1, <1>3, AppendTyped DEF Interrupt
<1>4. ASSUME MainStep
      PROVE  QueueTyped'
  <2>1. CASE AppendGrunt
    BY <2>1, <1>1, AppendTyped DEF AppendGrunt
  <2>2. CASE DisableTask
    BY <2>2, <1>1 DEF DisableTask, Disable, QueueTyped
  <2>3. CASE UNCHANGED callbackVars
    BY <2>3, <1>2
  <2>4. AppendGrunt \/ DisableTask \/ UNCHANGED callbackVars
    BY <1>4, Zenon
       DEF MainStep, WriteGruntAction, WriteGruntValue, MakeReady, SetToReceiving,
           EnableInterrupts, OnAsyncRestore, OnTransmitPowerUpdated, OnChannelUpdated,
           SendPacket, Claim, Transmit, OnTransmitted, AwaitTransmissionEnd, ProcessSent,
           ProcessIncoming, PacketTaken, PacketAcked, PacketSetsPower
  <2> QED
    BY <2>1, <2>2, <2>3, <2>4
<1>5. ASSUME Callback
      PROVE  QueueTyped'
  <2>1. CASE Pull
    <3>1. /\ events # <<>> /\ events' = Tail(events) /\ enabled' = enabled
          /\ Tail(events) \in Seq(Events) /\ Len(events) \in Nat
          /\ Len(Tail(events)) = Len(events) - 1
      BY <2>1, <1>1, HeadAndTail DEF Pull, QueueTyped
    <3> QED
      BY <3>1, <1>1, QueueAssumption DEF QueueTyped
  <2>2. CASE PullFails
    BY <2>2, <1>2 DEF PullFails
  <2> QED
    BY <1>5, <2>1, <2>2 DEF Callback
<1>6. ASSUME ServiceStep
      PROVE  QueueTyped'
  <2>1. UNCHANGED callbackVars
    BY <1>6, Zenon DEF ServiceStep, OnStart, SetTransmitPower, SetChannel, ServiceSends, ServiceTimesOut
  <2> QED
    BY <2>1, <1>2
<1>7. ASSUME InterruptStep
      PROVE  QueueTyped'
  <2>1. /\ Event("ProcessIncomingPacket") \in Events /\ Event("AsyncRestore") \in Events
        /\ Event("ProcessBatteryAlarm") \in Events
        /\ [action |-> "ProcessSentOk", value |-> driver.lastSentHeader] \in Events
    BY <1>1, EventTypes DEF DriverAsyncActions, SentOk
  <2>2. UNCHANGED callbackVars \/ \E d, e : e \in Events /\ Interrupt(d, e)
    BY <1>7, <2>1, Zenon DEF InterruptStep, OnIncoming, OnReceiveBegin, OnReceivedFail, OnSentOk,
                             OnBatteryAlarm
  <2> QED
    BY <2>2, <1>2, <1>3
<1> QED
  BY <1>2, <1>4, <1>5, <1>6, <1>7, Zenon DEF Next, vars, callbackVars

\* The arguments of the steps that send, and of those that write ActionGrunt.
LEMMA Arguments ==
  ASSUME Typed, NEW step, AtStep(step)
  PROVE  /\ step \in SendSteps => Arg \in Headers \cup {Ack}
         /\ step \in QueueSteps => \E action \in OwnActions : Arg = Event(action)
         /\ step = "ProcessSent" => Arg \in Headers \cup {Ack, None}
<1>1. [step |-> step, arg |-> Arg] \in Calls
  BY AtHand DEF Typed
<1> QED
  BY <1>1 DEF Calls, QueueSteps, SendSteps, PlainSteps, Steps

LEMMA DriverTyped ==
  ASSUME Typed, [Next]_vars
  PROVE  driver' \in Drivers
<1>1. /\ driver \in Drivers /\ driver.grunt \in Events
      /\ driver.currentPower \in Powers \cup {None} /\ driver.currentChannel \in Channels
  BY DriverFields DEF Typed
<1>2. TRUE \in BOOLEAN /\ FALSE \in BOOLEAN
  OBVIOUS
<1>3. UNCHANGED driver => driver' \in Drivers
  BY <1>1
<1>4. ASSUME NEW d \in Drivers, NEW e \in Events, Interrupt(d, e)
      PROVE  driver' \in Drivers
  BY <1>4, DriverWith DEF Interrupt
<1>5. {Event("ProcessIncomingPacket"), Event("AsyncRestore"), Event("ProcessBatteryAlarm"),
       SentOk(driver.lastSentHeader)} \subseteq Events
  BY <1>1, EventTypes, DriverFields DEF DriverAsyncActions
<1>6. ASSUME NEW v \in DriverActiveStates
      PROVE  [driver EXCEPT !.state = v] \in Drivers
  BY <1>1, DriverWith
<1>7. ASSUME MainStep
      PROVE  driver' \in Drivers
  <2>1. CASE WriteGruntAction \/ WriteGruntValue
    <3>1. PICK step \in QueueSteps : AtStep(step)
      BY <2>1, Zenon DEF WriteGruntAction, WriteGruntValue, QueueSteps
    <3>2. PICK action \in OwnActions : Arg = Event(action)
      BY <3>1, Arguments
    <3>3. Arg \in Events
      BY <3>2, EventTypes
    <3>4. [driver.grunt EXCEPT !.action = Arg.action] \in Events
      BY <1>1, <3>3 DEF Events
    <3>5. [driver.grunt EXCEPT !.value = Arg.value] \in Events
      BY <1>1, <3>3 DEF Events
    <3>6. \/ driver' = [driver EXCEPT !.grunt = [driver.grunt EXCEPT !.action = Arg.action]]
          \/ driver' = [driver EXCEPT !.grunt = [driver.grunt EXCEPT !.value = Arg.value]]
      BY <2>1 DEF WriteGruntAction, WriteGruntValue
    <3> QED
      BY <1>1, <3>4, <3>5, <3>6, DriverWith, Zenon
  <2>2. CASE MakeReady
    <3> DEFINE a == [driver EXCEPT !.lastChannel = driver.currentChannel]
               b == [a EXCEPT !.channelPending = FALSE]
               c == [b EXCEPT !.state = "ReadyForAnything"]
    <3>1. a \in Drivers
      BY <1>1, DriverWith
    <3> HIDE DEF a
    <3>2. b \in Drivers
      BY <3>1, <1>2, DriverWith, Zenon
    <3> HIDE DEF b
    <3>3. c \in Drivers
      BY <3>2, DriverWith DEF DriverActiveStates
    <3> HIDE DEF c
    <3>4. driver' = c
      BY <2>2 DEF MakeReady, a, b, c
    <3> QED
      BY <3>3, <3>4
  <2>3. CASE OnAsyncRestore
    BY <2>3, <1>1, DriverWith DEF OnAsyncRestore
  <2>4. CASE OnTransmitPowerUpdated
    BY <2>4, <1>1, <1>3, DriverWith, Zenon DEF OnTransmitPowerUpdated
  <2>5. CASE OnChannelUpdated
    BY <2>5, <1>1, <1>2, <1>3, DriverWith, Zenon DEF OnChannelUpdated
  <2>6. CASE Claim
    BY <2>6, <1>6 DEF Claim, DriverActiveStates
  <2>7. CASE OnTransmitted
    <3> DEFINE a == [driver EXCEPT !.lastSentHeader = Arg]
               b == [a EXCEPT !.lastChannel = driver.currentChannel]
    <3>1. Arg \in Headers \cup {Ack, None}
      BY <2>7, Arguments DEF OnTransmitted, SendSteps
    <3>2. a \in Drivers
      BY <1>1, <3>1, DriverWith
    <3> HIDE DEF a
    <3>3. b \in Drivers
      BY <1>1, <3>2, DriverWith
    <3> HIDE DEF b
    <3>4. driver' = b
      BY <2>7 DEF OnTransmitted, a, b
    <3> QED
      BY <3>3, <3>4
  <2>8. CASE AwaitTransmissionEnd
    BY <2>8, <1>6 DEF AwaitTransmissionEnd, DriverActiveStates
  <2>9. CASE ProcessIncoming
    BY <2>9, <1>3, <1>6 DEF ProcessIncoming, DriverActiveStates
  <2>10. CASE PacketAcked
    BY <2>10, <1>6 DEF PacketAcked, DriverActiveStates
  <2>11. CASE \E p \in Powers : PacketSetsPower(p)
    BY <2>11, <1>1, DriverWith DEF PacketSetsPower
  <2>12. CASE UNCHANGED driver
    BY <2>12, <1>3
  <2> QED
    BY <1>7, <2>1, <2>2, <2>3, <2>4, <2>5, <2>6, <2>7, <2>8, <2>9, <2>10, <2>11, <2>12, Zenon
       DEF MainStep, AppendGrunt, DisableTask, driverVars, SetToReceiving, EnableInterrupts,
           SendPacket, Transmit, ProcessSent, PacketTaken
<1>8. ASSUME ServiceStep
      PROVE  driver' \in Drivers
  <2>1. CASE OnStart
    <3> DEFINE a == [driver EXCEPT !.lastChannel = None]
               b == [a EXCEPT !.lastPower = None]
               c == [b EXCEPT !.channelPending = FALSE]
    <3>1. a \in Drivers
      BY <1>1, DriverWith
    <3> HIDE DEF a
    <3>2. b \in Drivers
      BY <3>1, DriverWith
    <3> HIDE DEF b
    <3>3. c \in Drivers
      BY <3>2, <1>2, DriverWith, Zenon
    <3> HIDE DEF c
    <3>4. driver' = c
      BY <2>1 DEF OnStart, a, b, c
    <3> QED
      BY <3>3, <3>4
  <2>2. CASE \E p \in Powers : SetTransmitPower(p)
    BY <2>2, <1>1, DriverWith DEF SetTransmitPower
  <2>3. CASE \E c \in Channels : SetChannel(c)
    BY <2>3, <1>1, DriverWith DEF SetChannel
  <2>4. CASE UNCHANGED driver
    BY <2>4, <1>3
  <2> QED
    BY <1>8, <2>1, <2>2, <2>3, <2>4, Zenon
       DEF ServiceStep, ServiceSends, ServiceTimesOut, driverVars
<1>9. ASSUME InterruptStep
      PROVE  driver' \in Drivers
  <2>1. CASE OnIncoming
    <3>1. (IF driver.state = "ReadyForAnything" THEN "BlockedForIncoming" ELSE driver.state)
            \in DriverActiveStates
      BY <1>1, DriverFields DEF DriverActiveStates
    <3> QED
      BY <2>1, <3>1, <1>6 DEF OnIncoming
  <2>2. CASE OnReceiveBegin
    BY <2>2, <1>1, <1>4, <1>5, <1>6 DEF OnReceiveBegin, DriverActiveStates
  <2>3. CASE OnReceivedFail
    BY <2>3, <1>1, <1>4, <1>5 DEF OnReceivedFail
  <2>4. CASE OnSentOk
    <3>1. [driver EXCEPT !.lastSentHeader = None] \in Drivers
      BY <1>1, DriverWith
    <3> QED
      BY <2>4, <3>1, <1>1, <1>4, <1>5, Zenon DEF OnSentOk, SentOk
  <2>5. CASE OnBatteryAlarm
    BY <2>5, <1>1, <1>4, <1>5 DEF OnBatteryAlarm
  <2> QED
    BY <1>9, <2>1, <2>2, <2>3, <2>4, <2>5 DEF InterruptStep
<1> QED
  BY <1>3, <1>7, <1>8, <1>9, Zenon DEF Next, vars, driverVars, Callback

GhostsTyped == lost \in BOOLEAN /\ waiting \subseteq Headers /\ sent \subseteq Headers \cup {Ack}

RadioTyped ==
  /\ irq \in BOOLEAN
  /\ radio \in Radios /\ (radio.mode = "Transmitting" => radio.header \in Headers \cup {Ack})

LEMMA OthersTyped ==
  ASSUME Typed, [Next]_vars
  PROVE  RadioTyped' /\ GhostsTyped'
<1>1. /\ irq \in BOOLEAN /\ radio \in Radios
      /\ radio.mode = "Transmitting" => radio.header \in Headers \cup {Ack}
      /\ lost \in BOOLEAN /\ waiting \subseteq Headers /\ sent \subseteq Headers \cup {Ack}
      /\ driver.currentChannel \in Channels
  BY DriverFields DEF Typed
<1>2. /\ UNCHANGED <<irq, radio>> => RadioTyped'
      /\ UNCHANGED <<lost, waiting, sent>> => GhostsTyped'
  BY <1>1, Zenon DEF RadioTyped, GhostsTyped
<1>3. ASSUME NEW d, NEW e, Interrupt(d, e)
      PROVE  lost' \in BOOLEAN
  BY <1>3, <1>1 DEF Interrupt
<1>4. ASSUME MainStep
      PROVE  RadioTyped' /\ GhostsTyped'
  <2>1. CASE AppendGrunt
    <3>1. lost' \in BOOLEAN
      BY <2>1, <1>1 DEF AppendGrunt
    <3> QED
      BY <2>1, <3>1, <1>1, <1>2, Zenon DEF AppendGrunt, driverVars, GhostsTyped
  <2>2. CASE SetToReceiving
    <3>1. radio' \in Radios /\ radio'.mode # "Transmitting"
      BY <2>2, <1>1 DEF SetToReceiving, Radios
    <3> QED
      BY <2>2, <3>1, <1>1, <1>2, Zenon DEF SetToReceiving, RadioTyped
  <2>3. CASE EnableInterrupts
    <3>1. irq' \in BOOLEAN
      BY <2>3 DEF EnableInterrupts
    <3> QED
      BY <2>3, <3>1, <1>1, <1>2, Zenon DEF EnableInterrupts, RadioTyped
  <2>4. CASE Claim
    <3>1. sent' \subseteq Headers \cup {Ack}
      BY <2>4, <1>1 DEF Claim
    <3> QED
      BY <2>4, <3>1, <1>1, <1>2, Zenon DEF Claim, GhostsTyped
  <2>5. CASE Transmit
    <3>1. Arg \in Headers \cup {Ack}
      BY <2>5, Arguments DEF Transmit, SendSteps
    <3>2. radio' \in Radios /\ (radio'.mode = "Transmitting" => radio'.header \in Headers \cup {Ack})
      BY <2>5, <3>1, <1>1 DEF Transmit, Radios
    <3> QED
      BY <2>5, <3>2, <1>1, <1>2, Zenon DEF Transmit, RadioTyped
  <2>6. CASE AwaitTransmissionEnd
    <3>1. Arg \in Headers \cup {Ack}
      BY <2>6, Arguments DEF AwaitTransmissionEnd, SendSteps
    <3>2. waiting' \subseteq Headers
      BY <2>6, <3>1, <1>1 DEF AwaitTransmissionEnd
    <3> QED
      BY <2>6, <3>2, <1>1, <1>2, Zenon DEF AwaitTransmissionEnd, GhostsTyped
  <2>7. CASE ProcessSent
    <3>1. waiting' \subseteq Headers
      BY <2>7, <1>1 DEF ProcessSent
    <3> QED
      BY <2>7, <3>1, <1>1, <1>2, Zenon DEF ProcessSent, driverVars, GhostsTyped
  <2>8. CASE UNCHANGED <<irq, radio>> /\ UNCHANGED <<lost, waiting, sent>>
    BY <2>8, <1>2
  <2> QED
    BY <1>4, <2>1, <2>2, <2>3, <2>4, <2>5, <2>6, <2>7, <2>8, Zenon
       DEF MainStep, WriteGruntAction, WriteGruntValue, DisableTask, MakeReady, OnAsyncRestore,
           OnTransmitPowerUpdated, OnChannelUpdated, SendPacket, OnTransmitted, ProcessIncoming,
           PacketTaken, PacketAcked, PacketSetsPower, driverVars
<1>5. ASSUME Callback
      PROVE  RadioTyped' /\ GhostsTyped'
  BY <1>5, <1>2, Zenon DEF Callback, driverVars
<1>6. ASSUME ServiceStep
      PROVE  RadioTyped' /\ GhostsTyped'
  <2>1. CASE \E h \in Headers : ServiceTimesOut(h)
    <3>1. waiting' \subseteq Headers
      BY <2>1, <1>1 DEF ServiceTimesOut
    <3> QED
      BY <2>1, <3>1, <1>1, <1>2, Zenon DEF ServiceTimesOut, driverVars, GhostsTyped
  <2>2. CASE UNCHANGED <<irq, radio>> /\ UNCHANGED <<lost, waiting, sent>>
    BY <2>2, <1>2
  <2> QED
    BY <1>6, <2>1, <2>2, Zenon
       DEF ServiceStep, OnStart, SetTransmitPower, SetChannel, ServiceSends, driverVars
<1>7. ASSUME InterruptStep
      PROVE  RadioTyped' /\ GhostsTyped'
  <2>1. CASE OnIncoming
    <3>1. radio' \in Radios /\ radio'.mode # "Transmitting"
      BY <2>1, <1>1 DEF OnIncoming, Radios
    <3> QED
      BY <2>1, <3>1, <1>1, <1>2, Zenon DEF OnIncoming, RadioTyped
  <2>2. CASE OnReceiveBegin
    <3>1. radio' \in Radios /\ radio'.mode # "Transmitting" /\ irq' \in BOOLEAN
      BY <2>2, <1>1 DEF OnReceiveBegin, Radios
    <3> QED
      BY <2>2, <3>1, <1>1, <1>3, Zenon DEF OnReceiveBegin, RadioTyped, GhostsTyped
  <2>3. CASE OnReceivedFail
    <3>1. radio' \in Radios /\ radio'.mode # "Transmitting"
      BY <2>3, <1>1 DEF OnReceivedFail, Radios
    <3> QED
      BY <2>3, <3>1, <1>1, <1>3, Zenon DEF OnReceivedFail, RadioTyped, GhostsTyped
  <2>4. CASE OnSentOk
    <3>1. radio' \in Radios /\ radio'.mode # "Transmitting"
      BY <2>4, <1>1 DEF OnSentOk, TransmissionEnds, Radios
    <3>2. sent' \subseteq Headers \cup {Ack}
      BY <2>4, <1>1 DEF OnSentOk, TransmissionEnds
    <3> QED
      BY <2>4, <3>1, <3>2, <1>1, <1>3, Zenon DEF OnSentOk, TransmissionEnds, RadioTyped, GhostsTyped
  <2>5. CASE OnBatteryAlarm
    BY <2>5, <1>1, <1>2, <1>3, Zenon DEF OnBatteryAlarm, GhostsTyped
  <2> QED
    BY <1>7, <2>1, <2>2, <2>3, <2>4, <2>5 DEF InterruptStep
<1> QED
  BY <1>2, <1>4, <1>5, <1>6, <1>7, Zenon DEF Next, vars, driverVars

LEMMA TypesKept ==
  ASSUME Typed, [Next]_vars
  PROVE  Typed'
BY TodoTyped, EventsTyped, DriverTyped, OthersTyped, Zenon
   DEF Typed, QueueTyped, RadioTyped, GhostsTyped

----------------------------------------------------------------------------
(* What is left of a call finds the driver as it expects *)

\* The step at hand of a call, what is left after it when it adds nothing, and
\* when it restores the driver.
LEMMA AStep ==
  ASSUME Typed, NEW step, AtStep(step)
  PROVE  /\ left = {[step |-> step, arg |-> Arg]} \cup others
         /\ Fits([step |-> step, arg |-> Arg], others)
         /\ Then(<<>>) => left' = others
         /\ Then(RestoreToReceiving) => left' = RestoreSteps \cup others
         /\ \A action \in OwnActions :
              Then(AddAsyncAction(action)) => left' = AddSteps(action) \cup others
<1>1. todo \in Seq(Calls) /\ Shaped(todo)
  BY DEF Typed
<1>2. {} \cup others = others
  OBVIOUS
<1> QED
  BY <1>1, <1>2, AtHand, WhatIsLeft, Zenon DEF GoesOnWith

\* What StateFits looks at.
seen == <<driver.state, driver.lastSentHeader, driver.lastChannel, driver.currentChannel, radio>>

\* What is left keeps fitting when nothing else changes, if what is left of
\* RestoreToReceiving and of OnTransmitted stays left.
LEMMA FitsWhenUnseen ==
  ASSUME StateFits, UNCHANGED seen,
         \A c \in left' : c \in left \/ c.step \in QueueSteps \cup {"RestoreToReceiving",
                            "EnableInterrupts", "OnTransmitPowerUpdated", "Disable", "ProcessSent",
                            "OnChannelUpdated", "OnAsyncRestore", "ProcessIncoming"}
                          \/ (c.step = "SetToReceiving" /\ Remains({"RestoreToReceiving"})'),
         Remains({"RestoreToReceiving"}) => Remains({"RestoreToReceiving"})',
         Remains({"OnTransmitted"}) => Remains({"OnTransmitted"})',
         Remains({"RestoreToReceiving", "SetToReceiving"})' =>
           Remains({"RestoreToReceiving", "SetToReceiving"}) \/ ~Remains({"AwaitTransmissionEnd"})
  PROVE  StateFits'
<1>1. /\ driver'.state = driver.state /\ driver'.lastSentHeader = driver.lastSentHeader
      /\ driver'.lastChannel = driver.lastChannel /\ driver'.currentChannel = driver.currentChannel
      /\ radio' = radio
  BY DEF seen
<1>2. ASSUME NEW c \in left', c.step = "AwaitTransmissionEnd"
      PROVE  c \in left /\ ~Remains({"RestoreToReceiving", "SetToReceiving"})'
  <2>1. c \in left
    BY <1>2 DEF QueueSteps
  <2>2. Remains({"AwaitTransmissionEnd"}) /\ ~Remains({"RestoreToReceiving", "SetToReceiving"})
    BY <1>2, <2>1 DEF Remains, StateFits
  <2> QED
    BY <2>1, <2>2
<1> QED
  BY <1>1, <1>2 DEF StateFits, QueueSteps

LEMMA StepsOf ==
  /\ \A c : c \in RestoreSteps <=> c = Plain("RestoreToReceiving") \/ c = Plain("SetToReceiving")
  /\ \A step : Plain(step).step = step /\ Plain(step).arg = None
  /\ \A action : \A c \in AddSteps(action) : c.step \in QueueSteps /\ c.arg = Event(action)
BY DEF RestoreSteps, AddSteps, Plain, QueueSteps

LEMMA FitsKeptByMain ==
  ASSUME Typed, StateFits, MainStep
  PROVE  StateFits'
<1>1. todo \in Seq(Calls) /\ Shaped(todo) /\ driver \in Drivers
  BY DEF Typed
<1>2. ASSUME NEW step \in Steps \ {"RestoreToReceiving", "OnTransmitted"}, AtStep(step),
             UNCHANGED seen,
             \/ Then(<<>>)
             \/ Then(RestoreToReceiving) /\ ~Remains({"AwaitTransmissionEnd"})
             \/ \E action \in OwnActions : Then(AddAsyncAction(action))
      PROVE  StateFits'
  <2> DEFINE c0 == [step |-> step, arg |-> Arg]
  <2>1. left = {c0} \cup others /\ c0.step \notin {"RestoreToReceiving", "OnTransmitted"}
    BY <1>2, AStep
  <2> HIDE DEF c0
  <2>2. CASE left' = others
    <3>1. /\ Remains({"RestoreToReceiving"}) => Remains({"RestoreToReceiving"})'
          /\ Remains({"OnTransmitted"}) => Remains({"OnTransmitted"})'
          /\ Remains({"RestoreToReceiving", "SetToReceiving"})' =>
               Remains({"RestoreToReceiving", "SetToReceiving"})
      BY <2>1, <2>2 DEF Remains
    <3>2. \A c \in left' : c \in left
      BY <2>1, <2>2
    <3> QED
      BY <1>2, <3>1, <3>2, FitsWhenUnseen
  <2>3. ASSUME left' = RestoreSteps \cup others, ~Remains({"AwaitTransmissionEnd"})
        PROVE  StateFits'
    <3>1. Remains({"RestoreToReceiving"})'
      BY <2>3, StepsOf DEF Remains
    <3>2. Remains({"OnTransmitted"}) => Remains({"OnTransmitted"})'
      BY <2>1, <2>3 DEF Remains
    <3>3. \A c \in left' : c \in left \/ c.step \in {"RestoreToReceiving", "SetToReceiving"}
      BY <2>1, <2>3, StepsOf
    <3> QED
      BY <1>2, <2>3, <3>1, <3>2, <3>3, FitsWhenUnseen
  <2>4. ASSUME NEW action \in OwnActions, left' = AddSteps(action) \cup others
        PROVE  StateFits'
    <3>1. \A c \in left' : c \in left \/ c.step \in QueueSteps
      BY <2>1, <2>4, StepsOf
    <3>2. /\ Remains({"RestoreToReceiving"}) => Remains({"RestoreToReceiving"})'
          /\ Remains({"OnTransmitted"}) => Remains({"OnTransmitted"})'
          /\ Remains({"RestoreToReceiving", "SetToReceiving"})' =>
               Remains({"RestoreToReceiving", "SetToReceiving"})
      BY <2>1, <2>4, StepsOf DEF Remains, QueueSteps
    <3> QED
      BY <1>2, <3>1, <3>2, FitsWhenUnseen
  <2> QED
    BY <1>2, <2>2, <2>3, <2>4, AStep, Zenon
<1>3. ASSUME NEW step \in Alone, AtStep(step)
      PROVE  others = {} /\ ~Remains({"AwaitTransmissionEnd"})
  <2>1. others = {} /\ left = {[step |-> step, arg |-> Arg]}
    BY <1>1, <1>3, WhatIsLeftToReceive, AStep
  <2> QED
    BY <2>1 DEF Remains, Alone
<1>4. CASE WriteGruntAction \/ WriteGruntValue \/ AppendGrunt \/ DisableTask \/ EnableInterrupts
  <2>1. UNCHANGED seen
    BY <1>1, <1>4 DEF WriteGruntAction, WriteGruntValue, AppendGrunt, DisableTask, EnableInterrupts,
                      driverVars, seen, Drivers
  <2>2. PICK step \in {"GruntAction", "GruntValue", "AppendToQueue", "Disable", "EnableInterrupts"} :
               AtStep(step) /\ Then(<<>>)
    BY <1>4 DEF WriteGruntAction, WriteGruntValue, AppendGrunt, DisableTask, EnableInterrupts
  <2>3. step \in Steps \ {"RestoreToReceiving", "OnTransmitted"}
    BY DEF Steps
  <2> QED
    BY <2>1, <2>2, <2>3, <1>2, Zenon
<1>5. CASE OnTransmitPowerUpdated
  <2>1. UNCHANGED seen
    BY <1>1, <1>5 DEF OnTransmitPowerUpdated, seen, Drivers
  <2>2. driver.state = "ReadyForAnything" => ~Remains({"AwaitTransmissionEnd"})
    BY DEF StateFits, Remains
  <2>3. /\ AtStep("OnTransmitPowerUpdated")
        /\ \/ Then(<<>>)
           \/ Then(RestoreToReceiving) /\ ~Remains({"AwaitTransmissionEnd"})
           \/ \E action \in OwnActions : Then(AddAsyncAction(action))
    BY <1>5, <2>2, Zenon DEF OnTransmitPowerUpdated, OwnActions
  <2>4. "OnTransmitPowerUpdated" \in Steps \ {"RestoreToReceiving", "OnTransmitted"}
    BY DEF Steps
  <2> QED
    BY <2>1, <2>3, <2>4, <1>2, Zenon
<1>6. CASE OnChannelUpdated
  <2>1. UNCHANGED seen
    BY <1>1, <1>6 DEF OnChannelUpdated, seen, Drivers
  <2>2. AtStep("OnChannelUpdated") /\ ~Remains({"AwaitTransmissionEnd"})
    BY <1>6, <1>3 DEF OnChannelUpdated, Alone
  <2>3. \/ Then(<<>>)
        \/ Then(RestoreToReceiving) /\ ~Remains({"AwaitTransmissionEnd"})
        \/ \E action \in OwnActions : Then(AddAsyncAction(action))
    BY <1>6, <2>2, Zenon DEF OnChannelUpdated, OwnActions
  <2>4. "OnChannelUpdated" \in Steps \ {"RestoreToReceiving", "OnTransmitted"}
    BY DEF Steps
  <2> QED
    BY <2>1, <2>2, <2>3, <2>4, <1>2, Zenon
<1>7. CASE ProcessSent
  <2>1. UNCHANGED seen
    BY <1>7 DEF ProcessSent, driverVars, seen
  <2>2. AtStep("ProcessSent") /\ ~Remains({"AwaitTransmissionEnd"}) /\ Then(RestoreToReceiving)
    BY <1>7, <1>3 DEF ProcessSent, Alone
  <2>3. "ProcessSent" \in Steps \ {"RestoreToReceiving", "OnTransmitted"}
    BY DEF Steps
  <2> QED
    BY <2>1, <2>2, <2>3, <1>2, Zenon
<1>8. CASE MakeReady
  <2>1. /\ driver'.state = "ReadyForAnything" /\ driver'.lastChannel = driver'.currentChannel
    BY <1>1, <1>8 DEF MakeReady, Drivers
  <2>2. /\ left = {[step |-> "RestoreToReceiving", arg |-> Arg]} \cup others
        /\ Fits([step |-> "RestoreToReceiving", arg |-> Arg], others) /\ left' = others
    BY <1>8, AStep DEF MakeReady
  <2>3. \A c \in left' : c.step \in Following /\ c.step # "AwaitTransmissionEnd"
    BY <2>2 DEF StateFits, Remains, Fits
  <2> QED
    BY <2>1, <2>3 DEF StateFits, NotYetHeard, Following, QueueSteps
<1>9. CASE SetToReceiving
  <2>1. driver' = driver
    BY <1>9 DEF SetToReceiving
  <2>2. /\ left = {[step |-> "SetToReceiving", arg |-> Arg]} \cup others
        /\ Fits([step |-> "SetToReceiving", arg |-> Arg], others) /\ left' = others
    BY <1>9, AStep DEF SetToReceiving
  <2>3. \A c \in left' : c \in left /\ c.step \in Following /\ c.step # "AwaitTransmissionEnd"
    <3>1. Remains({"RestoreToReceiving", "SetToReceiving"})
      BY <2>2 DEF Remains
    <3>2. \A c \in left : c.step # "AwaitTransmissionEnd"
      BY <3>1, Zenon DEF StateFits
    <3> QED
      BY <2>2, <3>2 DEF Fits
  <2>4. Remains({"RestoreToReceiving"}) => Remains({"RestoreToReceiving"})'
    BY <2>2 DEF Remains
  <2> QED
    BY <2>1, <2>3, <2>4 DEF StateFits, Following, QueueSteps
<1>10. CASE OnAsyncRestore
  <2>1. left' = RestoreSteps
    BY <1>10, <1>3, AStep DEF OnAsyncRestore, Alone
  <2>2. Remains({"RestoreToReceiving"})'
    BY <2>1, StepsOf DEF Remains
  <2> QED
    BY <2>1, <2>2, StepsOf DEF StateFits
<1>11. CASE SendPacket
  <2>1. driver' = driver /\ radio' = radio
    BY <1>11 DEF SendPacket, driverVars
  <2>2. OnlyEnable(others) /\ [step |-> "SendPacket", arg |-> Arg] \in left
    BY <1>1, <1>11, WhatIsLeftToSend, AStep DEF SendPacket
  <2>3. left' = {[step |-> "Claim", arg |-> Arg]} \cup others \/ left' = RefusedSteps(Arg) \cup others
    BY <1>1, <1>11, WhatIsLeftToSend, Zenon DEF SendPacket, GoesOnWith
  <2>4. CASE left' = {[step |-> "Claim", arg |-> Arg]} \cup others
    BY <2>1, <2>2, <2>4 DEF StateFits, OnlyEnable
  <2>5. CASE left' = RefusedSteps(Arg) \cup others
    <3>1. (\E c \in left' : c.step = "SetToReceiving") => Remains({"RestoreToReceiving"})'
      BY <2>2, <2>5, StepsOf DEF RefusedSteps, OnlyEnable, Remains
    <3>2. \A c \in left' : c.step \in {"RestoreToReceiving", "SetToReceiving", "EnableInterrupts"}
      BY <2>2, <2>5, StepsOf DEF RefusedSteps, OnlyEnable
    <3> QED
      BY <3>1, <3>2 DEF StateFits
  <2> QED
    BY <2>3, <2>4, <2>5
<1>12. CASE Claim
  <2>1. driver'.state = "SendingOutgoing"
    BY <1>1, <1>12 DEF Claim, Drivers
  <2>2. OnlyEnable(others) /\ left' = {[step |-> "Transmit", arg |-> Arg]} \cup others
    BY <1>1, <1>12, WhatIsLeftToSend DEF Claim, GoesOnWith
  <2> QED
    BY <2>1, <2>2 DEF StateFits, OnlyEnable
<1>13. CASE Transmit
  <2>1. driver' = driver
    BY <1>13 DEF Transmit
  <2>2. OnlyEnable(others) /\ [step |-> "Transmit", arg |-> Arg] \in left
    BY <1>1, <1>13, WhatIsLeftToSend, AStep DEF Transmit
  <2>3. driver.state = "SendingOutgoing"
    BY <2>2 DEF StateFits
  <2>4. \/ radio'.header = Arg /\ left' = TransmittedSteps(Arg) \cup others
        \/ left' = AddSteps("AsyncRestore") \cup RefusedSteps(Arg) \cup others
    BY <1>1, <1>13, WhatIsLeftToSend DEF Transmit, GoesOnWith
  <2>5. CASE radio'.header = Arg /\ left' = TransmittedSteps(Arg) \cup others
    <3>1. \A c \in left' : \/ c.step \in {"OnTransmitPowerUpdated", "EnableInterrupts"}
                           \/ c.step \in {"OnTransmitted", "AwaitTransmissionEnd"} /\ c.arg = Arg
      BY <2>2, <2>5, StepsOf DEF TransmittedSteps, OnlyEnable
    <3>2. /\ Remains({"OnTransmitted"})'
          /\ ~Remains({"RestoreToReceiving", "SetToReceiving"})'
          /\ ~Remains({"RestoreToReceiving"})'
      <4>1. [step |-> "OnTransmitted", arg |-> Arg] \in left'
        BY <2>5 DEF TransmittedSteps
      <4>2. Remains({"OnTransmitted"})'
        BY <4>1 DEF Remains
      <4>3. ~Remains({"RestoreToReceiving", "SetToReceiving"})' /\ ~Remains({"RestoreToReceiving"})'
        BY <3>1 DEF Remains
      <4> QED
        BY <4>2, <4>3
    <3> QED
      BY <2>1, <2>3, <2>5, <3>1, <3>2 DEF StateFits
  <2>6. CASE left' = AddSteps("AsyncRestore") \cup RefusedSteps(Arg) \cup others
    <3>1. (\E c \in left' : c.step = "SetToReceiving") => Remains({"RestoreToReceiving"})'
      BY <2>2, <2>6, StepsOf DEF RefusedSteps, OnlyEnable, Remains, QueueSteps
    <3>2. \A c \in left' : c.step \in QueueSteps \cup {"RestoreToReceiving", "SetToReceiving",
                                                      "EnableInterrupts"}
      BY <2>2, <2>6, StepsOf DEF RefusedSteps, OnlyEnable
    <3> QED
      BY <3>1, <3>2 DEF StateFits, QueueSteps
  <2> QED
    BY <2>4, <2>5, <2>6
<1>14. CASE OnTransmitted
  <2>1. /\ driver'.state = driver.state /\ driver'.lastSentHeader = Arg /\ radio' = radio
    BY <1>1, <1>14 DEF OnTransmitted, Drivers
  <2>2. /\ left = {[step |-> "OnTransmitted", arg |-> Arg]} \cup others
        /\ Fits([step |-> "OnTransmitted", arg |-> Arg], others) /\ left' = others
    BY <1>14, AStep DEF OnTransmitted
  <2>3. \A c \in left' : c.step = "AwaitTransmissionEnd" => c.arg = Arg
    BY <2>2 DEF Fits
  <2>4. \A c \in left' : c.step \in Following /\ c.step # "SetToReceiving"
    BY <2>2 DEF Fits, StateFits, Remains
  <2>5. ~Remains({"RestoreToReceiving", "SetToReceiving"})'
    BY <2>2 DEF Fits, StateFits, Remains
  <2> QED
    BY <2>1, <2>2, <2>3, <2>4, <2>5 DEF StateFits, Following, QueueSteps
<1>15. CASE AwaitTransmissionEnd
  <2>1. Fits([step |-> "AwaitTransmissionEnd", arg |-> Arg], others) /\ left' = others
    BY <1>15, AStep DEF AwaitTransmissionEnd
  <2>2. \A c \in left' : c.step = "EnableInterrupts"
    BY <2>1 DEF Fits
  <2> QED
    BY <2>2 DEF StateFits
<1>16. CASE ProcessIncoming
  <2>1. AtStep("ProcessIncoming") /\ others = {}
    BY <1>16, <1>3 DEF ProcessIncoming, Alone
  <2>2. CASE driver'.state = "ProcessingIncoming" /\ Then(Do("Received"))
    <3>1. left' = {Plain("Received")}
      BY <1>1, <2>1, <2>2, WhatIsLeftToReceive DEF GoesOnWith
    <3> QED
      BY <2>2, <3>1, StepsOf DEF StateFits
  <2>3. CASE Then(RestoreToReceiving \o Do("EnableInterrupts"))
    <3>1. left' = RestoreSteps \cup {Plain("EnableInterrupts")}
      BY <1>1, <2>1, <2>3, WhatIsLeftToReceive DEF GoesOnWith, Alone
    <3>2. Remains({"RestoreToReceiving"})'
      BY <3>1, StepsOf DEF Remains
    <3> QED
      BY <3>1, <3>2, StepsOf DEF StateFits
  <2> QED
    BY <1>1, <1>16, <2>2, <2>3 DEF ProcessIncoming, Drivers
<1>17. CASE PacketTaken
  <2>1. AtStep("Received") /\ others = {}
    BY <1>17, <1>3 DEF PacketTaken, Alone
  <2>2. left' = RestoreSteps \cup {Plain("EnableInterrupts")}
    BY <1>1, <1>17, <2>1, WhatIsLeftToReceive DEF PacketTaken, GoesOnWith, Alone
  <2>3. Remains({"RestoreToReceiving"})'
    BY <2>2, StepsOf DEF Remains
  <2> QED
    BY <2>2, <2>3, StepsOf DEF StateFits
<1>18. CASE PacketAcked
  <2>1. AtStep("Received") /\ others = {} /\ driver'.state = "SendingAck"
    BY <1>1, <1>18, <1>3 DEF PacketAcked, Alone, Drivers
  <2>2. left' = {[step |-> "SendPacket", arg |-> Ack], Plain("EnableInterrupts")}
    BY <1>1, <1>18, <2>1, WhatIsLeftToReceive DEF PacketAcked, GoesOnWith, Alone
  <2> QED
    BY <2>1, <2>2, StepsOf DEF StateFits
<1>19. CASE \E p \in Powers : PacketSetsPower(p)
  <2>1. AtStep("Received") /\ others = {}
    BY <1>19, <1>3 DEF PacketSetsPower, Alone
  <2>2. left' = {Plain("OnTransmitPowerUpdated")} \cup RestoreSteps \cup {Plain("EnableInterrupts")}
    BY <1>1, <1>19, <2>1, WhatIsLeftToReceive DEF PacketSetsPower, GoesOnWith, Alone
  <2>3. Remains({"RestoreToReceiving"})'
    BY <2>2, StepsOf DEF Remains
  <2> QED
    BY <2>2, <2>3, StepsOf DEF StateFits
<1> QED
  BY <1>4, <1>5, <1>6, <1>7, <1>8, <1>9, <1>10, <1>11, <1>12, <1>13, <1>14, <1>15, <1>16, <1>17,
     <1>18, <1>19 DEF MainStep

LEMMA FitsKeptByCalls ==
  ASSUME Typed, StateFits, Callback \/ ServiceStep
  PROVE  StateFits'
<1>1. driver \in Drivers /\ events \in Seq(Events)
  BY DEF Typed
<1>2. CASE Callback
  <2>1. CASE Pull /\ todo' = OnAsyncAction(Head(events))
    <3>1. Head(events) \in Events
      BY <1>1, <2>1, HeadAndTail DEF Pull
    <3>2. Head(events).action \in DriverAsyncActions
      BY <3>1 DEF Events
    <3>3. left' = FirstSteps(Head(events))
      BY <2>1, <3>1, WhatBegins, Zenon DEF Begins
    <3>4. \A c \in left' : c.step \in {"ProcessIncoming", "ProcessSent", "OnTransmitPowerUpdated",
                                      "OnChannelUpdated", "OnAsyncRestore"}
      BY <3>2, <3>3, StepsOf DEF FirstSteps, DriverAsyncActions, Telling
    <3> QED
      BY <3>4 DEF StateFits
  <2>2. CASE PullFails /\ todo' = Do("Disable")
    <3>1. left' = {Plain("Disable")}
      BY <2>2, WhatBegins, Zenon DEF Begins
    <3> QED
      BY <3>1, StepsOf DEF StateFits
  <2> QED
    BY <1>2, <2>1, <2>2 DEF Callback
<1>3. CASE OnStart
  <2>1. left' = RestoreSteps
    BY <1>3, WhatBegins, Zenon DEF OnStart, Begins
  <2>2. Remains({"RestoreToReceiving"})'
    BY <2>1, StepsOf DEF Remains
  <2> QED
    BY <2>1, <2>2, StepsOf DEF StateFits
<1>4. CASE \E p \in Powers : SetTransmitPower(p)
  <2>1. left' = {Plain("OnTransmitPowerUpdated")}
    BY <1>4, WhatBegins, Zenon DEF SetTransmitPower, Begins
  <2> QED
    BY <2>1, StepsOf DEF StateFits
<1>5. CASE \E c \in Channels : SetChannel(c)
  <2>1. left' = {Plain("OnChannelUpdated")}
    BY <1>5, WhatBegins, Zenon DEF SetChannel, Begins
  <2> QED
    BY <2>1, StepsOf DEF StateFits
<1>6. ASSUME NEW h \in Headers, ServiceSends(h)
      PROVE  StateFits'
  <2>1. left' = {[step |-> "SendPacket", arg |-> h]}
    BY <1>6, WhatBegins, Zenon DEF ServiceSends, Begins
  <2>2. h # Ack /\ driver'.state = "ReadyForAnything"
    BY <1>6, HeaderAssumption DEF ServiceSends, AllowedSend, driverVars
  <2> QED
    BY <2>1, <2>2 DEF StateFits, NotYetHeard
<1>7. ASSUME NEW h \in Headers, ServiceTimesOut(h)
      PROVE  StateFits'
  BY <1>7, Zenon DEF ServiceTimesOut, driverVars, StateFits, Remains, left
<1> QED
  BY <1>2, <1>3, <1>4, <1>5, <1>6, <1>7 DEF ServiceStep

\* What the interrupt may make of the driver and the radio.
Interrupted ==
  /\ todo' = todo /\ lost' \in BOOLEAN
  /\ driver'.lastChannel = driver.lastChannel /\ driver'.currentChannel = driver.currentChannel
  /\ driver'.channelPending = driver.channelPending
  /\ driver'.state = driver.state
     \/ (driver.state = "ReadyForAnything" /\ driver'.state = "BlockedForIncoming")
     \/ (driver.state = "BlockedForIncoming" /\ driver'.state = "AwaitingProcessing")
  /\ driver'.lastSentHeader = driver.lastSentHeader \/ driver.state = "WaitingForTransmissionEnd"
  /\ radio'.mode = "Transmitting" => radio' = radio

LEMMA InterruptedBy ==
  ASSUME Typed, InterruptStep
  PROVE  Interrupted
<1>1. driver \in Drivers /\ radio \in Radios /\ lost \in BOOLEAN
  BY DEF Typed
<1>2. lost' \in BOOLEAN
  BY OthersTyped DEF GhostsTyped, Next
<1>3. CASE OnIncoming
  BY <1>1, <1>2, <1>3 DEF OnIncoming, Interrupted, Drivers, Radios
<1>4. CASE OnReceiveBegin
  BY <1>1, <1>2, <1>4 DEF OnReceiveBegin, Interrupt, Interrupted, Drivers, Radios
<1>5. CASE OnReceivedFail
  BY <1>1, <1>2, <1>5 DEF OnReceivedFail, Interrupt, Interrupted, Drivers, Radios
<1>6. CASE OnSentOk
  BY <1>1, <1>2, <1>6 DEF OnSentOk, TransmissionEnds, Interrupt, Interrupted, Drivers, Radios
<1>7. CASE OnBatteryAlarm
  BY <1>1, <1>2, <1>7 DEF OnBatteryAlarm, Interrupt, Interrupted, Drivers, Radios
<1> QED
  BY <1>3, <1>4, <1>5, <1>6, <1>7 DEF InterruptStep

LEMMA FitsKept ==
  ASSUME Typed, StateFits, [Next]_vars
  PROVE  StateFits'
<1>1. CASE InterruptStep
  <2>1. Interrupted /\ left' = left
    BY <1>1, InterruptedBy DEF Interrupted, left
  <2>2. \A steps : Remains(steps)' <=> Remains(steps)
    BY <2>1 DEF Remains
  <2> QED
    BY <2>1, <2>2 DEF StateFits, NotYetHeard, Interrupted
<1>2. CASE UNCHANGED vars
  BY <1>2, Zenon DEF vars, driverVars, StateFits, Remains, left
<1> QED
  BY <1>1, <1>2, FitsKeptByMain, FitsKeptByCalls, Zenon DEF Next

----------------------------------------------------------------------------
(* Nothing is lost on the way of an event *)

Served == Callback /\ Pull /\ todo' = OnAsyncAction(Head(events))

LEMMA AppendKeeps ==
  ASSUME Typed, NEW e \in Events, AppendToQueue(e)
  PROVE  /\ e \in Range(events)' /\ Range(events)' \subseteq Range(events) \cup {e}
         /\ \A actions : InQueue(actions) /\ ~Drops(actions) => InQueue(actions)'
         /\ \A x : Once(events, x) /\ (e = x => x \notin Range(events)) => Once(events, x)'
<1>1. /\ events' = AddForce(events, e)
      /\ e \in Range(AddForce(events, e))
      /\ Range(AddForce(events, e)) \subseteq Range(events) \cup {e}
      /\ Range(events) \subseteq Range(AddForce(events, e)) \cup Dropped(events)
      /\ \A x : Once(events, x) /\ (e = x => x \notin Range(events)) => Once(AddForce(events, e), x)
  BY Queueing DEF Typed, AppendToQueue
<1>2. \A actions : InQueue(actions) /\ ~Drops(actions) => InQueue(actions)'
  BY <1>1 DEF InQueue, Drops
<1>3. ASSUME NEW x, Once(events, x), e = x => x \notin Range(events)
      PROVE  Once(events, x)'
  <2>1. Once(events', x)
    BY <1>1, <1>3, Zenon
  <2> QED
    BY <2>1 DEF Once
<1> QED
  BY <1>1, <1>2, <1>3, Zenon

\* As long as nothing is lost, a restoring event stays queued until it is served.
LEMMA QueueKeeps ==
  ASSUME Typed, [Next]_vars, ~lost', NEW actions \in SUBSET Restoring
  PROVE  /\ ~lost
         /\ InQueue(actions) =>
              InQueue(actions)' \/ (Served /\ Head(events).action \in actions)
<1>1. /\ events \in Seq(Events) /\ driver.grunt \in Events
      /\ driver.lastSentHeader \in Headers \cup {Ack, None}
  BY DriverFields DEF Typed
<1>2. Drops(actions) => Drops(Restoring)
  BY DEF Drops
<1>3. ASSUME NEW e \in Events, AppendToQueue(e), ~Drops(Restoring)
      PROVE  InQueue(actions) => InQueue(actions)'
  BY <1>2, <1>3, AppendKeeps, Zenon
<1>4. ASSUME UNCHANGED events
      PROVE  InQueue(actions) => InQueue(actions)'
  BY <1>4 DEF InQueue
<1>5. ASSUME NEW d, NEW e \in Events, Interrupt(d, e)
      PROVE  ~lost /\ (InQueue(actions) => InQueue(actions)')
  BY <1>3, <1>5 DEF Interrupt
<1>6. CASE MainStep
  <2>1. CASE AppendGrunt
    BY <1>1, <1>3, <2>1 DEF AppendGrunt
  <2>2. CASE UNCHANGED <<events, lost>>
    BY <1>4, <2>2
  <2>3. AppendGrunt \/ UNCHANGED <<events, lost>>
    BY <1>6, Zenon
       DEF MainStep, WriteGruntAction, WriteGruntValue, DisableTask, Disable, MakeReady,
           SetToReceiving, EnableInterrupts, OnAsyncRestore, OnTransmitPowerUpdated,
           OnChannelUpdated, SendPacket, Claim, Transmit, OnTransmitted, AwaitTransmissionEnd,
           ProcessSent, ProcessIncoming, PacketTaken, PacketAcked, PacketSetsPower, callbackVars
  <2> QED
    BY <2>1, <2>2, <2>3
<1>7. CASE Callback
  <2>1. CASE Pull /\ todo' = OnAsyncAction(Head(events))
    <3>1. events # <<>> /\ events' = Tail(events) /\ Range(events) = {Head(events)} \cup Range(events')
      BY <1>1, <2>1, HeadAndTail DEF Pull
    <3>2. InQueue(actions) => InQueue(actions)' \/ Head(events).action \in actions
      BY <3>1 DEF InQueue
    <3> QED
      BY <1>7, <2>1, <3>2, Zenon DEF Served, Callback
  <2>2. CASE PullFails
    BY <1>4, <1>7, <2>2, Zenon DEF Callback, PullFails, callbackVars
  <2> QED
    BY <1>7, <2>1, <2>2 DEF Callback
<1>8. CASE ServiceStep
  <2>1. UNCHANGED <<events, lost>>
    BY <1>8, Zenon DEF ServiceStep, OnStart, SetTransmitPower, SetChannel, ServiceSends,
                       ServiceTimesOut, callbackVars
  <2> QED
    BY <1>4, <2>1
<1>9. CASE InterruptStep
  <2>1. /\ Event("ProcessIncomingPacket") \in Events /\ Event("AsyncRestore") \in Events
        /\ Event("ProcessBatteryAlarm") \in Events
        /\ [action |-> "ProcessSentOk", value |-> driver.lastSentHeader] \in Events
    BY <1>1, EventTypes DEF DriverAsyncActions, SentOk
  <2>2. UNCHANGED <<events, lost>> \/ \E d, e : e \in Events /\ Interrupt(d, e)
    BY <1>9, <2>1, Zenon DEF InterruptStep, OnIncoming, OnReceiveBegin, OnReceivedFail, OnSentOk,
                             OnBatteryAlarm, callbackVars
  <2> QED
    BY <2>2, <1>4, <1>5
<1>10. CASE UNCHANGED vars
  BY <1>10, <1>4, Zenon DEF vars, callbackVars
<1> QED
  BY <1>6, <1>7, <1>8, <1>9, <1>10 DEF Next

\* A step of the main loop takes the step at hand, and no event.
LEMMA OthersStay ==
  ASSUME Typed, MainStep
  PROVE  /\ todo # <<>> /\ left = {Head(todo)} \cup others /\ others \subseteq left'
         /\ ~Served
<1>1. todo # <<>> /\ \E P : GoesOnWith(P)
  BY MainGoesOn DEF Typed
<1>2. left = {Head(todo)} \cup others
  BY <1>1, CallGoesOn DEF Typed, left, others
<1>3. others \subseteq left'
  BY <1>1 DEF GoesOnWith
<1> QED
  BY <1>1, <1>2, <1>3 DEF Served, Callback, Idle

\* What the queue hands over is all that is left.
LEMMA WhatIsServed ==
  ASSUME Typed, Served
  PROVE  /\ left = {} /\ Head(events) \in Events /\ left' = FirstSteps(Head(events))
         /\ Range(events) = {Head(events)} \cup Range(events)'
         /\ \A x : Once(events, x) => Once(events, x)' /\ (Head(events) = x => x \notin Range(events)')
<1>1. /\ events \in Seq(Events) /\ events # <<>> /\ events' = Tail(events)
      /\ Idle /\ todo' = OnAsyncAction(Head(events))
  BY DEF Typed, Served, Callback, Pull
<1>2. Head(events) \in Events /\ Range(events) = {Head(events)} \cup Range(Tail(events))
  BY <1>1, HeadAndTail
<1>3. left = {} /\ left' = FirstSteps(Head(events))
  BY <1>1, <1>2, WhatBegins, Zenon DEF Begins
<1>4. ASSUME NEW x, Once(events, x)
      PROVE  Once(events, x)' /\ (Head(events) = x => x \notin Range(events)')
  <2>1. Once(Tail(events), x) /\ (Head(events) = x => x \notin Range(Tail(events)))
    BY <1>1, <1>4, WithoutOldest, Zenon
  <2>2. Once(events', x)
    BY <1>1, <2>1, Zenon
  <2> QED
    BY <1>1, <2>1, <2>2, Zenon DEF Once
<1> QED
  BY <1>1, <1>2, <1>3, <1>4, Zenon

\* The services call between two tasks, and touch neither the queue nor the radio.
LEMMA ServicesCall ==
  ASSUME ServiceStep
  PROVE  left = {} /\ UNCHANGED <<events, irq, radio, lost, sent>>
<1>1. Idle
  BY Zenon DEF ServiceStep, OnStart, SetTransmitPower, SetChannel, ServiceSends, ServiceTimesOut
<1>2. UNCHANGED <<callbackVars, irq, radio, lost, sent>>
  BY Zenon DEF ServiceStep, OnStart, SetTransmitPower, SetChannel, ServiceSends, ServiceTimesOut,
               driverVars
<1> QED
  BY <1>1, <1>2, WhatBegins, Zenon DEF callbackVars

----------------------------------------------------------------------------
(* A deaf driver will hear again *)

HearingSteps == {"ProcessIncoming", "Received", "EnableInterrupts"}

LEMMA HearsAgain ==
  ASSUME Typed, ~irq /\ ~lost => WillHear, [Next]_vars
  PROVE  ~irq' /\ ~lost' => WillHear'
<1> SUFFICES ASSUME ~irq', ~lost'
             PROVE  WillHear'
  OBVIOUS
<1>1. /\ todo \in Seq(Calls) /\ Shaped(todo) /\ events \in Seq(Events) /\ ~lost
      /\ InQueue({"ProcessIncomingPacket"}) =>
           \/ InQueue({"ProcessIncomingPacket"})'
           \/ Served /\ Head(events).action = "ProcessIncomingPacket"
  <2>1. {"ProcessIncomingPacket"} \in SUBSET Restoring
    BY DEF Restoring
  <2> QED
    BY <2>1, QueueKeeps DEF Typed
<1>2. CASE MainStep
  <2>1. ~irq /\ ~AtStep("EnableInterrupts")
    <3>1. CASE AtStep("EnableInterrupts")
      <4>1. irq'
        BY <1>2, <3>1 DEF MainStep, WriteGruntAction, WriteGruntValue, AppendGrunt, DisableTask,
            MakeReady, SetToReceiving, EnableInterrupts, OnAsyncRestore, OnTransmitPowerUpdated,
            OnChannelUpdated, SendPacket, Claim, Transmit, OnTransmitted, AwaitTransmissionEnd,
            ProcessSent, ProcessIncoming, PacketTaken, PacketAcked, PacketSetsPower, AtStep
      <4> QED
        BY <4>1
    <3>2. CASE ~AtStep("EnableInterrupts")
      <4>1. irq' = irq
        BY <1>2, <3>2, Zenon DEF MainStep, WriteGruntAction, WriteGruntValue, AppendGrunt,
            DisableTask, MakeReady, SetToReceiving, EnableInterrupts, OnAsyncRestore,
            OnTransmitPowerUpdated, OnChannelUpdated, SendPacket, Claim, Transmit, OnTransmitted,
            AwaitTransmissionEnd, ProcessSent, ProcessIncoming, PacketTaken, PacketAcked,
            PacketSetsPower, driverVars
      <4> QED
        BY <3>2, <4>1
    <3> QED
      BY <3>1, <3>2
  <2>2. CASE Remains(HearingSteps)
    <3>1. CASE AtStep("ProcessIncoming")
      <4>1. ProcessIncoming
        BY <1>2, <3>1 DEF MainStep, WriteGruntAction, WriteGruntValue, AppendGrunt, DisableTask,
            MakeReady, SetToReceiving, EnableInterrupts, OnAsyncRestore, OnTransmitPowerUpdated,
            OnChannelUpdated, SendPacket, Claim, Transmit, OnTransmitted, AwaitTransmissionEnd,
            ProcessSent, PacketTaken, PacketAcked, PacketSetsPower, AtStep
      <4>2. Plain("Received") \in left' \/ Plain("EnableInterrupts") \in left'
        BY <1>1, <4>1, WhatIsLeftToReceive DEF ProcessIncoming, GoesOnWith, Alone
      <4> QED
        BY <4>2, StepsOf DEF WillHear, Remains
    <3>2. CASE AtStep("Received")
      <4>1. PacketTaken \/ PacketAcked \/ \E p \in Powers : PacketSetsPower(p)
        BY <1>2, <3>2 DEF MainStep, WriteGruntAction, WriteGruntValue, AppendGrunt, DisableTask,
            MakeReady, SetToReceiving, EnableInterrupts, OnAsyncRestore, OnTransmitPowerUpdated,
            OnChannelUpdated, SendPacket, Claim, Transmit, OnTransmitted, AwaitTransmissionEnd,
            ProcessSent, ProcessIncoming, AtStep
      <4>2. Plain("EnableInterrupts") \in left'
        BY <1>1, <4>1, WhatIsLeftToReceive
           DEF PacketTaken, PacketAcked, PacketSetsPower, GoesOnWith, Alone
      <4> QED
        BY <4>2, StepsOf DEF WillHear, Remains
    <3>3. CASE ~AtStep("ProcessIncoming") /\ ~AtStep("Received")
      <4>1. others \subseteq left' /\ left = {Head(todo)} \cup others /\ todo # <<>>
        BY <1>2, OthersStay
      <4>2. PICK c \in left : c.step \in HearingSteps
        BY <2>2 DEF Remains
      <4>3. c \in others
        BY <2>1, <3>3, <4>1, <4>2 DEF HearingSteps, AtStep
      <4> QED
        BY <4>1, <4>2, <4>3 DEF WillHear, Remains, HearingSteps
    <3> QED
      BY <3>1, <3>2, <3>3
  <2>3. CASE InQueue({"ProcessIncomingPacket"})
    <3>1. ~Served
      BY <1>2, OthersStay
    <3> QED
      BY <1>1, <2>3, <3>1 DEF WillHear
  <2> QED
    BY <1>1, <2>1, <2>2, <2>3 DEF WillHear, HearingSteps
<1>3. CASE Callback
  <2>1. ~irq /\ left = {}
    BY <1>3, WhatBegins, Zenon DEF Callback, driverVars
  <2>2. InQueue({"ProcessIncomingPacket"})
    BY <1>1, <2>1 DEF WillHear, Remains
  <2>3. CASE Served /\ Head(events).action = "ProcessIncomingPacket"
    <3>1. left' = {Plain("ProcessIncoming")}
      BY <2>3, WhatIsServed DEF FirstSteps
    <3> QED
      BY <3>1, StepsOf DEF WillHear, Remains
  <2> QED
    BY <1>1, <2>2, <2>3 DEF WillHear
<1>4. CASE ServiceStep
  BY <1>1, <1>4, ServicesCall DEF WillHear, InQueue, Remains
<1>5. CASE InterruptStep
  <2>1. PICK d : Interrupt(d, Event("ProcessIncomingPacket"))
    BY <1>5 DEF InterruptStep, OnIncoming, OnReceiveBegin, OnReceivedFail, OnSentOk,
                TransmissionEnds, OnBatteryAlarm
  <2>2. Event("ProcessIncomingPacket") \in Range(events)'
    <3>1. Event("ProcessIncomingPacket") \in Events
      BY EventTypes DEF DriverAsyncActions
    <3> QED
      BY <2>1, <3>1, AppendKeeps, Zenon DEF Interrupt
  <2> QED
    BY <2>2 DEF WillHear, InQueue, Event
<1>6. CASE UNCHANGED vars
  BY <1>1, <1>6 DEF vars, callbackVars, driverVars, WillHear, InQueue, Remains, left
<1> QED
  BY <1>2, <1>3, <1>4, <1>5, <1>6 DEF Next

----------------------------------------------------------------------------
(* Credit goes to the packet that was sent *)

\* A step that another one may add to its call: never the news of a credit,
\* and no packet but an ack or the one at hand.
Adds(c) ==
  \/ c.step \notin SendSteps \cup {"ProcessSent"}
  \/ c.step \in SendSteps
     /\ (c.arg = Ack \/ (Head(todo).step \in SendSteps /\ c.arg = Head(todo).arg))

LEMMA WhatMainAdds ==
  ASSUME Typed, MainStep
  PROVE  \A c \in left' : c \in others \/ Adds(c)
<1> DEFINE Done == \A c \in left' : c \in others \/ Adds(c)
<1>1. todo \in Seq(Calls) /\ Shaped(todo)
  BY DEF Typed
<1>2. \A P : (\A c \in P : Adds(c)) /\ GoesOnWith(P) => Done
  BY DEF GoesOnWith
<1>3. \A c : c.step \notin SendSteps \cup {"ProcessSent"} => Adds(c)
  BY DEF Adds
<1>4. /\ \A c \in RestoreSteps : Adds(c)
      /\ Adds(Plain("OnTransmitPowerUpdated")) /\ Adds(Plain("EnableInterrupts"))
      /\ Adds(Plain("Received"))
  BY <1>3, StepsOf DEF SendSteps
<1>5. \A action : \A c \in AddSteps(action) : Adds(c)
  BY <1>3, StepsOf DEF SendSteps, QueueSteps
<1>6. \A h : \A c \in RefusedSteps(h) : Adds(c)
  BY <1>4 DEF RefusedSteps
<1>7. ASSUME NEW step \in SendSteps, AtStep(step)
      PROVE  \A next \in SendSteps : Adds([step |-> next, arg |-> Arg])
  BY <1>7 DEF Adds, AtStep, Arg
<1> SUFFICES Done
  OBVIOUS
<1> HIDE DEF Done
<1>8. ASSUME NEW step, AtStep(step),
             \/ Then(<<>>) \/ Then(RestoreToReceiving)
             \/ \E action \in OwnActions : Then(AddAsyncAction(action))
      PROVE  Done
  <2>1. \/ GoesOnWith({}) \/ GoesOnWith(RestoreSteps)
        \/ \E action \in OwnActions : GoesOnWith(AddSteps(action))
    BY <1>1, <1>8, WhatIsLeft, Zenon
  <2> QED
    BY <2>1, <1>2, <1>4, <1>5
<1>9. CASE \/ WriteGruntAction \/ WriteGruntValue \/ AppendGrunt \/ DisableTask \/ MakeReady
           \/ SetToReceiving \/ EnableInterrupts \/ OnAsyncRestore \/ OnTransmitted
           \/ AwaitTransmissionEnd \/ ProcessSent
  BY <1>8, <1>9, Zenon
     DEF WriteGruntAction, WriteGruntValue, AppendGrunt, DisableTask, MakeReady, SetToReceiving,
         EnableInterrupts, OnAsyncRestore, OnTransmitted, AwaitTransmissionEnd, ProcessSent
<1>10. CASE OnTransmitPowerUpdated \/ OnChannelUpdated
  BY <1>8, <1>10, Zenon DEF OnTransmitPowerUpdated, OnChannelUpdated, OwnActions
<1>11. CASE SendPacket
  <2>1. \A next \in SendSteps : Adds([step |-> next, arg |-> Arg])
    BY <1>7, <1>11 DEF SendPacket, SendSteps
  <2>2. GoesOnWith({[step |-> "Claim", arg |-> Arg]}) \/ GoesOnWith(RefusedSteps(Arg))
    BY <1>1, <1>11, WhatIsLeftToSend, Zenon DEF SendPacket
  <2> QED
    BY <2>1, <2>2, <1>2, <1>6 DEF SendSteps
<1>12. CASE Claim
  <2>1. \A next \in SendSteps : Adds([step |-> next, arg |-> Arg])
    BY <1>7, <1>12 DEF Claim, SendSteps
  <2>2. GoesOnWith({[step |-> "Transmit", arg |-> Arg]})
    BY <1>1, <1>12, WhatIsLeftToSend, Zenon DEF Claim
  <2> QED
    BY <2>1, <2>2, <1>2 DEF SendSteps
<1>13. CASE Transmit
  <2>1. \A next \in SendSteps : Adds([step |-> next, arg |-> Arg])
    BY <1>7, <1>13 DEF Transmit, SendSteps
  <2>2. GoesOnWith(TransmittedSteps(Arg)) \/ GoesOnWith(AddSteps("AsyncRestore") \cup RefusedSteps(Arg))
    BY <1>1, <1>13, WhatIsLeftToSend, Zenon DEF Transmit
  <2>3. \A c \in TransmittedSteps(Arg) : Adds(c)
    BY <2>1, <1>4 DEF TransmittedSteps, SendSteps
  <2>4. \A c \in AddSteps("AsyncRestore") \cup RefusedSteps(Arg) : Adds(c)
    BY <1>5, <1>6
  <2> QED
    BY <2>2, <2>3, <2>4, <1>2, Zenon
<1>14. CASE ProcessIncoming
  <2>1. GoesOnWith({Plain("Received")}) \/ GoesOnWith(RestoreSteps \cup {Plain("EnableInterrupts")})
    BY <1>1, <1>14, WhatIsLeftToReceive, Zenon DEF ProcessIncoming, Alone
  <2> QED
    BY <2>1, <1>2, <1>4
<1>15. CASE PacketTaken \/ PacketAcked \/ \E p \in Powers : PacketSetsPower(p)
  <2>1. \/ GoesOnWith(RestoreSteps \cup {Plain("EnableInterrupts")})
        \/ GoesOnWith({Plain("OnTransmitPowerUpdated")} \cup RestoreSteps \cup {Plain("EnableInterrupts")})
        \/ GoesOnWith({[step |-> "SendPacket", arg |-> Ack], Plain("EnableInterrupts")})
    BY <1>1, <1>15, WhatIsLeftToReceive, Zenon DEF PacketTaken, PacketAcked, PacketSetsPower, Alone
  <2>2. Adds([step |-> "SendPacket", arg |-> Ack])
    BY DEF Adds, SendSteps
  <2> QED
    BY <2>1, <2>2, <1>2, <1>4
<1> QED
  BY <1>9, <1>10, <1>11, <1>12, <1>13, <1>14, <1>15, Zenon DEF MainStep

\* A credit stays as it is when nothing it rests on is taken away.
LEMMA CreditStays ==
  ASSUME NEW h, CreditOf(h),
         Telling(h) \in left' => Telling(h) \in left,
         SentOk(h) \in Range(events)' => SentOk(h) \in Range(events),
         Once(events, SentOk(h)) => Once(events, SentOk(h))',
         Credited(h) =>
           /\ h \in waiting => h \in waiting'
           /\ h \in sent => h \in sent'
           /\ driver.lastSentHeader # h => driver'.lastSentHeader # h
  PROVE  CreditOf(h)'
BY Zenon DEF CreditOf, Credited

\* The steps of the main loop that a credit rests on.
LEMMA MainAndCredit ==
  ASSUME Typed, MainStep
  PROVE  \/ ProcessSent \/ Claim \/ OnTransmitted \/ AwaitTransmissionEnd \/ OnAsyncRestore
         \/ UNCHANGED <<waiting, sent, driver.lastSentHeader>>
<1>1. driver \in Drivers
  BY DEF Typed
<1> QED
  BY <1>1 DEF MainStep, WriteGruntAction, WriteGruntValue, AppendGrunt, DisableTask, MakeReady,
              SetToReceiving, EnableInterrupts, OnTransmitPowerUpdated, OnChannelUpdated, SendPacket,
              Transmit, ProcessIncoming, PacketTaken, PacketAcked, PacketSetsPower, driverVars, Drivers

\* The main loop queues no credit.
LEMMA MainQueuesNoCredit ==
  ASSUME Typed, MainStep, ~lost', NEW h
  PROVE  /\ SentOk(h) \in Range(events)' => SentOk(h) \in Range(events)
         /\ Once(events, SentOk(h)) => Once(events, SentOk(h))'
<1>1. CASE AppendGrunt
  <2>1. PICK action \in OwnActions : Arg = Event(action)
    BY <1>1, Arguments DEF AppendGrunt, QueueSteps
  <2>2. driver.grunt = Event(action) /\ AppendToQueue(driver.grunt)
    BY <1>1, <2>1 DEF AppendGrunt
  <2>3. driver.grunt # SentOk(h) /\ driver.grunt \in Events
    BY <2>2, EventTypes DEF SentOk, Event, OwnActions
  <2> QED
    BY <2>2, <2>3, AppendKeeps
<1>2. CASE UNCHANGED events
  BY <1>2 DEF Once
<1>3. AppendGrunt \/ UNCHANGED events
  BY Zenon
     DEF MainStep, WriteGruntAction, WriteGruntValue, DisableTask, Disable, MakeReady,
         SetToReceiving, EnableInterrupts, OnAsyncRestore, OnTransmitPowerUpdated,
         OnChannelUpdated, SendPacket, Claim, Transmit, OnTransmitted, AwaitTransmissionEnd,
         ProcessSent, ProcessIncoming, PacketTaken, PacketAcked, PacketSetsPower, callbackVars
<1> QED
  BY <1>1, <1>2, <1>3

LEMMA CreditOfByMain ==
  ASSUME Typed, Credit, MainStep, ~lost', NEW h \in Headers
  PROVE  CreditOf(h)'
<1>1. /\ todo \in Seq(Calls) /\ Shaped(todo) /\ driver \in Drivers /\ waiting \subseteq Headers
      /\ h # None
  BY HeaderAssumption DEF Typed
<1>2. Telling(h) \notin left'
  <2>1. \A c \in left' : c \in others \/ Adds(c)
    BY WhatMainAdds
  <2>2. \A c \in others : c.step \in Following
    BY <1>1, OthersStay, CallGoesOn DEF Fits, others
  <2>3. Telling(h).step = "ProcessSent"
    BY DEF Telling
  <2> QED
    BY <2>1, <2>2, <2>3 DEF Adds, Following, QueueSteps, SendSteps
<1>3. /\ SentOk(h) \in Range(events)' => SentOk(h) \in Range(events)
      /\ Once(events, SentOk(h)) => Once(events, SentOk(h))'
  BY MainQueuesNoCredit
<1>4. CreditOf(h) /\ SendsAnew
  BY Zenon DEF Credit
<1>5. ASSUME Credited(h) =>
               /\ h \in waiting => h \in waiting'
               /\ h \in sent => h \in sent'
               /\ driver.lastSentHeader # h => driver'.lastSentHeader # h
      PROVE  CreditOf(h)'
  BY <1>2, <1>3, <1>4, <1>5, CreditStays, Zenon
<1>6. ASSUME NEW step \in SendSteps, AtStep(step)
      PROVE  Credited(h) => Arg # h
  <2>1. [step |-> step, arg |-> Arg] \in left
    BY <1>6, AStep
  <2>2. Arg \notin waiting
    BY <2>1, <1>4 DEF SendsAnew
  <2> QED
    BY <2>2, <1>4 DEF CreditOf
<1>7. CASE ProcessSent
  <2>1. /\ driver' = driver /\ waiting' = waiting \ {Arg} /\ UNCHANGED <<events, sent>>
        /\ [step |-> "ProcessSent", arg |-> Arg] \in left
    BY <1>7, AStep DEF ProcessSent, driverVars, callbackVars
  <2>2. CASE Arg = h
    <3>1. Telling(h) \in left
      BY <2>1, <2>2 DEF Telling
    <3>2. SentOk(h) \notin Range(events)'
      BY <3>1, <1>3, <1>4 DEF CreditOf
    <3> QED
      BY <1>2, <1>3, <1>4, <3>2, Zenon DEF CreditOf, Credited
  <2>3. CASE Arg # h
    BY <2>1, <2>3, <1>5
  <2> QED
    BY <2>2, <2>3
<1>8. CASE Claim
  BY <1>5, <1>6, <1>8 DEF Claim, SendSteps, driverVars, Drivers
<1>9. CASE OnTransmitted
  BY <1>1, <1>5, <1>6, <1>9 DEF OnTransmitted, SendSteps, Drivers
<1>10. CASE AwaitTransmissionEnd
  BY <1>1, <1>5, <1>10 DEF AwaitTransmissionEnd, Drivers
<1>11. CASE OnAsyncRestore
  BY <1>1, <1>5, <1>11 DEF OnAsyncRestore, Drivers
<1>12. CASE UNCHANGED <<waiting, sent, driver.lastSentHeader>>
  BY <1>5, <1>12
<1> QED
  BY <1>7, <1>8, <1>9, <1>10, <1>11, <1>12, MainAndCredit, Zenon

LEMMA SendsAnewByMain ==
  ASSUME Typed, Credit, MainStep
  PROVE  SendsAnew'
<1>1. /\ todo \in Seq(Calls) /\ Shaped(todo) /\ waiting \subseteq Headers /\ SendsAnew
  BY DEF Typed, Credit
<1>2. /\ left = {Head(todo)} \cup others /\ \A c \in left' : c \in others \/ Adds(c)
  BY OthersStay, WhatMainAdds
<1>3. \A c \in left' : c.step \in SendSteps => c.arg \notin waiting
  BY <1>1, <1>2, HeaderAssumption DEF SendsAnew, Adds
<1>4. CASE AwaitTransmissionEnd
  <2>1. Fits([step |-> "AwaitTransmissionEnd", arg |-> Arg], others) /\ left' = others
    BY <1>4, AStep DEF AwaitTransmissionEnd
  <2>2. \A c \in left' : c.step = "EnableInterrupts"
    BY <2>1 DEF Fits
  <2> QED
    BY <2>2 DEF SendsAnew, SendSteps
<1>5. CASE waiting' \subseteq waiting
  BY <1>3, <1>5 DEF SendsAnew
<1>6. AwaitTransmissionEnd \/ waiting' \subseteq waiting
  BY MainAndCredit DEF ProcessSent, Claim, OnTransmitted, OnAsyncRestore
<1> QED
  BY <1>4, <1>5, <1>6

LEMMA CreditIsNextByMain ==
  ASSUME Typed, StateFits, Credit, MainStep
  PROVE  CreditIsNext'
<1>1. /\ todo \in Seq(Calls) /\ Shaped(todo) /\ driver \in Drivers /\ waiting \subseteq Headers
      /\ CreditIsNext /\ \A h \in Headers : CreditOf(h)
  BY DEF Typed, Credit
<1>2. CASE AwaitTransmissionEnd
  <2>1. /\ left = {[step |-> "AwaitTransmissionEnd", arg |-> Arg]} \cup others
        /\ \A c \in others : c.step = "EnableInterrupts"
    BY <1>2, AStep DEF AwaitTransmissionEnd, Fits
  <2>2. [step |-> "AwaitTransmissionEnd", arg |-> Arg] \in left /\ ~Remains({"OnTransmitted"})
    BY <2>1 DEF Remains
  <2>3. driver.lastSentHeader = Arg /\ (radio.mode = "Transmitting" => radio.header = Arg)
    BY <2>2 DEF StateFits
  <2>4. /\ driver'.lastSentHeader = driver.lastSentHeader /\ radio' = radio
        /\ waiting' = waiting \cup ({Arg} \ {Ack})
    BY <1>1, <1>2 DEF AwaitTransmissionEnd, Drivers
  <2> QED
    BY <2>3, <2>4 DEF CreditIsNext
<1>3. CASE ProcessSent
  <2>1. /\ driver' = driver /\ radio' = radio /\ waiting' = waiting \ {Arg}
        /\ Telling(Arg) \in left
    BY <1>3, AStep DEF ProcessSent, driverVars, Telling
  <2>2. Arg \in Headers => driver.lastSentHeader # Arg
    BY <1>1, <2>1 DEF CreditOf, Credited
  <2>3. Arg \in waiting => Arg \in Headers
    BY <1>1
  <2> QED
    BY <1>1, <2>1, <2>2, <2>3 DEF CreditIsNext
<1>4. CASE Transmit \/ OnTransmitted
  <2>1. \E step \in {"Transmit", "OnTransmitted"} : [step |-> step, arg |-> Arg] \in left
    BY <1>4, AStep DEF Transmit, OnTransmitted
  <2>2. driver.state = "SendingOutgoing"
    BY <2>1 DEF StateFits
  <2>3. driver'.state = driver.state
    BY <1>1, <1>4 DEF Transmit, OnTransmitted, Drivers
  <2> QED
    BY <2>2, <2>3 DEF CreditIsNext
<1>5. CASE driver'.state # "WaitingForTransmissionEnd" \/ driver'.lastSentHeader = None
           \/ radio'.mode # "Transmitting"
  BY <1>5 DEF CreditIsNext
<1>6. CASE UNCHANGED <<driver.state, driver.lastSentHeader, radio, waiting>>
  BY <1>1, <1>6 DEF CreditIsNext
<1>7. CASE MakeReady \/ Claim \/ OnAsyncRestore \/ SetToReceiving \/ PacketAcked
  <2>1. MakeReady \/ Claim \/ PacketAcked => driver'.state # "WaitingForTransmissionEnd"
    BY <1>1 DEF MakeReady, Claim, PacketAcked, Drivers
  <2>2. OnAsyncRestore => driver'.lastSentHeader = None
    BY <1>1 DEF OnAsyncRestore, Drivers
  <2>3. SetToReceiving => radio'.mode # "Transmitting"
    BY DEF SetToReceiving
  <2> QED
    BY <1>5, <1>7, <2>1, <2>2, <2>3
<1>8. CASE ProcessIncoming
  BY <1>1, <1>5, <1>6, <1>8 DEF ProcessIncoming, Drivers
<1>9. CASE \/ WriteGruntAction \/ WriteGruntValue \/ AppendGrunt \/ DisableTask \/ EnableInterrupts
           \/ OnTransmitPowerUpdated \/ OnChannelUpdated \/ SendPacket \/ PacketTaken
           \/ \E p \in Powers : PacketSetsPower(p)
  BY <1>1, <1>6, <1>9
     DEF WriteGruntAction, WriteGruntValue, AppendGrunt, DisableTask, EnableInterrupts,
         OnTransmitPowerUpdated, OnChannelUpdated, SendPacket, PacketTaken, PacketSetsPower,
         driverVars, Drivers
<1> QED
  BY <1>2, <1>3, <1>4, <1>7, <1>8, <1>9 DEF MainStep

LEMMA CreditByCalls ==
  ASSUME Typed, Credit, Callback \/ ServiceStep
  PROVE  Credit'
<1>1. /\ CreditIsNext /\ \A h \in Headers : CreditOf(h)
      /\ driver \in Drivers /\ waiting \subseteq Headers
  BY DEF Credit, Typed
<1>2. CASE Served
  <2>1. UNCHANGED <<driver, radio, waiting, sent>>
    BY <1>2 DEF Served, Callback, driverVars
  <2>2. /\ Head(events) \in Events /\ left' = FirstSteps(Head(events))
        /\ Range(events) = {Head(events)} \cup Range(events)'
        /\ \A x : Once(events, x) => Once(events, x)' /\ (Head(events) = x => x \notin Range(events)')
    BY <1>2, WhatIsServed, Zenon
  <2>3. \A c \in left' : c.step \in {"ProcessIncoming", "ProcessSent", "OnTransmitPowerUpdated",
                                      "OnChannelUpdated", "OnAsyncRestore"}
    BY <2>2, StepsOf DEF FirstSteps, DriverAsyncActions, Telling, Events
  <2>4. ASSUME NEW h \in Headers
        PROVE  CreditOf(h)'
    <3>1. Telling(h) \in left' => Head(events) = SentOk(h)
      BY <2>2, StepsOf DEF FirstSteps, DriverAsyncActions, Telling, Events, SentOk
    <3>2. Once(events, SentOk(h))' /\ (Head(events) = SentOk(h) => SentOk(h) \notin Range(events)')
      BY <1>1, <2>2, Zenon DEF CreditOf
    <3>3. Credited(h)' => Credited(h)
      BY <2>2, <3>1 DEF Credited
    <3>4. (Credited(h) => h \in waiting /\ h \in sent /\ driver.lastSentHeader # h)'
      BY <1>1, <2>1, <3>3 DEF CreditOf
    <3>5. (Telling(h) \in left => SentOk(h) \notin Range(events))'
      BY <3>1, <3>2
    <3> QED
      BY <3>2, <3>4, <3>5, Zenon DEF CreditOf
  <2>5. SendsAnew'
    BY <2>3 DEF SendsAnew, SendSteps
  <2>6. CreditIsNext'
    BY <1>1, <2>1, Zenon DEF CreditIsNext
  <2> QED
    BY <2>4, <2>5, <2>6 DEF Credit
<1>3. CASE ~Served
  <2>1. UNCHANGED <<events, driver.lastSentHeader, driver.state, radio, sent>>
    BY <1>1, <1>3
       DEF Callback, PullFails, Served, callbackVars, driverVars, ServiceStep, OnStart,
           SetTransmitPower, SetChannel, ServiceSends, ServiceTimesOut, Drivers
  <2>2. \A c \in left' : /\ c.step # "ProcessSent"
                         /\ c.step \in SendSteps => c.arg \notin waiting'
    <3>1. CASE Callback
      <4>1. todo' = Do("Disable")
        BY <1>3, <3>1 DEF Served, Callback
      <4>2. left' = {Plain("Disable")}
        BY <4>1, WhatBegins, Zenon DEF Begins
      <4> QED
        BY <4>2, StepsOf DEF SendSteps
    <3>2. CASE OnStart
      <4>1. left' = RestoreSteps
        BY <3>2, WhatBegins, Zenon DEF OnStart, Begins
      <4> QED
        BY <4>1, StepsOf DEF SendSteps
    <3>3. CASE (\E p \in Powers : SetTransmitPower(p)) \/ (\E c \in Channels : SetChannel(c))
      <4>1. left' = {Plain("OnTransmitPowerUpdated")} \/ left' = {Plain("OnChannelUpdated")}
        BY <3>3, WhatBegins, Zenon DEF SetTransmitPower, SetChannel, Begins
      <4> QED
        BY <4>1, StepsOf DEF SendSteps
    <3>4. ASSUME NEW h \in Headers, ServiceSends(h)
          PROVE  \A c \in left' : c.step # "ProcessSent" /\ c.arg \notin waiting'
      <4>1. left' = {[step |-> "SendPacket", arg |-> h]}
        BY <3>4, WhatBegins, Zenon DEF ServiceSends, Begins
      <4> QED
        BY <3>4, <4>1 DEF ServiceSends
    <3>5. ASSUME NEW h \in Headers, ServiceTimesOut(h)
          PROVE  left' = {}
      BY <3>5, WhatBegins, Zenon DEF ServiceTimesOut, left
    <3> QED
      BY <3>1, <3>2, <3>3, <3>4, <3>5 DEF ServiceStep
  <2>3. UNCHANGED waiting \/ \E h \in Headers : ServiceTimesOut(h)
    BY <1>3, Zenon DEF Callback, ServiceStep, OnStart, SetTransmitPower, SetChannel, ServiceSends
  <2>4. ASSUME NEW h \in Headers, ServiceTimesOut(h)
        PROVE  waiting' = waiting \ {h} /\ radio.header # h /\ SentOk(h) \notin Range(events)
    <3>1. Range(events) = {events[i] : i \in 1 .. Len(events)}
      BY ElementsOf DEF Typed
    <3>2. \A i \in 1 .. Len(events) : events[i] # SentOk(h)
      BY <2>4 DEF ServiceTimesOut, SentOk
    <3> QED
      BY <2>4, <3>1, <3>2 DEF ServiceTimesOut
  <2>5. ASSUME NEW h \in Headers
        PROVE  CreditOf(h)'
    <3>1. Telling(h) \notin left'
      BY <2>2 DEF Telling
    <3>2. Once(events, SentOk(h))'
      BY <1>1, <2>1 DEF CreditOf, Once
    <3>3. SentOk(h) \in Range(events)' => h \in waiting'
      BY <1>1, <2>1, <2>3, <2>4 DEF CreditOf, Credited
    <3> QED
      BY <1>1, <2>1, <3>1, <3>2, <3>3 DEF CreditOf, Credited
  <2>6. SendsAnew'
    BY <2>2 DEF SendsAnew
  <2>7. CreditIsNext'
    BY <1>1, <2>1, <2>3, <2>4 DEF CreditIsNext
  <2> QED
    BY <2>5, <2>6, <2>7 DEF Credit
<1> QED
  BY <1>2, <1>3

LEMMA CreditByInterrupt ==
  ASSUME Typed, Credit, InterruptStep
  PROVE  Credit'
<1>1. /\ CreditIsNext /\ SendsAnew /\ \A h \in Headers : CreditOf(h)
      /\ driver \in Drivers /\ radio \in Radios
      /\ driver.lastSentHeader \in Headers \cup {Ack, None}
  BY DriverFields DEF Credit, Typed
<1>2. left' = left /\ waiting' = waiting
  BY Zenon DEF InterruptStep, OnIncoming, OnReceiveBegin, OnReceivedFail, OnSentOk, TransmissionEnds,
               OnBatteryAlarm, left
<1>3. SendsAnew'
  BY <1>1, <1>2 DEF SendsAnew
<1>4. CreditIsNext'
  <2>1. CASE OnBatteryAlarm
    <3>1. /\ driver'.state = driver.state /\ driver'.lastSentHeader = driver.lastSentHeader
          /\ radio' = radio
      BY <1>1, <2>1 DEF OnBatteryAlarm, Interrupt, Drivers
    <3> QED
      BY <1>1, <1>2, <3>1 DEF CreditIsNext
  <2>2. CASE OnIncoming \/ OnReceiveBegin \/ OnReceivedFail \/ OnSentOk
    <3>1. radio'.mode # "Transmitting"
      BY <1>1, <2>2 DEF OnIncoming, OnReceiveBegin, OnReceivedFail, OnSentOk, TransmissionEnds, Radios
    <3> QED
      BY <3>1 DEF CreditIsNext
  <2> QED
    BY <2>1, <2>2 DEF InterruptStep
<1>5. ASSUME NEW h \in Headers, sent \subseteq sent', driver'.lastSentHeader = driver.lastSentHeader,
             \/ UNCHANGED events
             \/ \E action \in DriverAsyncActions \ {"ProcessSentOk"} : AppendToQueue(Event(action))
      PROVE  CreditOf(h)'
  <2>1. /\ SentOk(h) \in Range(events)' => SentOk(h) \in Range(events)
        /\ Once(events, SentOk(h)) => Once(events, SentOk(h))'
    <3>1. CASE UNCHANGED events
      BY <3>1 DEF Once
    <3>2. ASSUME NEW action \in DriverAsyncActions \ {"ProcessSentOk"}, AppendToQueue(Event(action))
          PROVE  /\ SentOk(h) \in Range(events)' => SentOk(h) \in Range(events)
                 /\ Once(events, SentOk(h)) => Once(events, SentOk(h))'
      <4>1. Event(action) \in Events /\ Event(action) # SentOk(h)
        BY EventTypes DEF Event, SentOk
      <4> QED
        BY <3>2, <4>1, AppendKeeps
    <3> QED
      BY <1>5, <3>1, <3>2
  <2> QED
    BY <1>1, <1>2, <1>5, <2>1, CreditStays
<1>6. ASSUME NEW h \in Headers
      PROVE  CreditOf(h)'
  <2>1. CASE OnIncoming \/ OnReceiveBegin \/ OnReceivedFail \/ OnBatteryAlarm
    <3>1. sent' = sent /\ driver'.lastSentHeader = driver.lastSentHeader
      BY <1>1, <2>1 DEF OnIncoming, OnReceiveBegin, OnReceivedFail, OnBatteryAlarm, Interrupt, Drivers
    <3>2. \/ UNCHANGED events
          \/ \E action \in DriverAsyncActions \ {"ProcessSentOk"} : AppendToQueue(Event(action))
      BY <2>1 DEF OnIncoming, OnReceiveBegin, OnReceivedFail, OnBatteryAlarm, Interrupt, callbackVars,
                  DriverAsyncActions
    <3> QED
      BY <3>1, <3>2, <1>5
  <2>2. CASE OnSentOk /\ driver.state # "WaitingForTransmissionEnd"
    <3>1. sent \subseteq sent' /\ driver'.lastSentHeader = driver.lastSentHeader
      BY <1>1, <2>2 DEF OnSentOk, TransmissionEnds, Interrupt, Drivers
    <3>2. AppendToQueue(Event("AsyncRestore"))
      BY <2>2 DEF OnSentOk, Interrupt
    <3> QED
      BY <3>1, <3>2, <1>5 DEF DriverAsyncActions
  <2>3. CASE OnSentOk /\ driver.state = "WaitingForTransmissionEnd"
    <3> DEFINE e == SentOk(driver.lastSentHeader)
    <3>1. /\ AppendToQueue(e) /\ driver'.lastSentHeader = None /\ sent' = sent \cup {radio.header}
          /\ radio.mode = "Transmitting"
      BY <1>1, <2>3 DEF OnSentOk, TransmissionEnds, Interrupt, SentOk, Drivers
    <3>2. e \in Events /\ h # None
      BY <1>1, EventTypes, HeaderAssumption
    <3>3. SentOk(h) = e <=> driver.lastSentHeader = h
      BY DEF SentOk
    <3>4. /\ Range(events)' \subseteq Range(events) \cup {e}
          /\ \A x : Once(events, x) /\ (e = x => x \notin Range(events)) => Once(events, x)'
      BY <3>1, <3>2, AppendKeeps
    <3> HIDE DEF e
    <3>5. CreditOf(h)
      BY <1>1
    <3>6. CASE driver.lastSentHeader = h
      <4>1. radio.header = h /\ h \in waiting
        BY <1>1, <2>3, <3>1, <3>2, <3>6, HeaderAssumption DEF CreditIsNext
      <4>2. SentOk(h) \notin Range(events) /\ Telling(h) \notin left
        BY <3>5, <3>6 DEF CreditOf, Credited
      <4>3. (Telling(h) \in left => SentOk(h) \notin Range(events))'
        BY <1>2, <4>2
      <4>4. Once(events, SentOk(h))'
        BY <3>4, <3>5, <4>2 DEF CreditOf
      <4>5. h \in waiting' /\ h \in sent' /\ driver'.lastSentHeader # h
        BY <1>2, <3>1, <3>2, <4>1
      <4> QED
        BY <4>3, <4>4, <4>5 DEF CreditOf
    <3>7. CASE driver.lastSentHeader # h
      <4>1. SentOk(h) \in Range(events)' => SentOk(h) \in Range(events)
        BY <3>3, <3>4, <3>7
      <4>2. Once(events, SentOk(h)) => Once(events, SentOk(h))'
        BY <3>3, <3>4, <3>7
      <4> QED
        BY <1>2, <3>1, <3>2, <3>5, <4>1, <4>2, CreditStays
    <3> QED
      BY <3>6, <3>7
  <2> QED
    BY <2>1, <2>2, <2>3 DEF InterruptStep
<1> QED
  BY <1>3, <1>4, <1>6 DEF Credit

LEMMA CreditKept ==
  ASSUME Typed, StateFits, ~lost => Credit, [Next]_vars
  PROVE  ~lost' => Credit'
<1> SUFFICES ASSUME ~lost'
             PROVE  Credit'
  OBVIOUS
<1>1. ~lost /\ Credit
  <2>1. {} \in SUBSET Restoring
    OBVIOUS
  <2> QED
    BY <2>1, QueueKeeps
<1>2. CASE MainStep
  BY <1>1, <1>2, CreditOfByMain, SendsAnewByMain, CreditIsNextByMain DEF Credit
<1>3. CASE UNCHANGED vars
  <2>1. UNCHANGED <<events, driver, radio, left, waiting, sent>>
    BY <1>3 DEF vars, callbackVars, driverVars, left
  <2>2. \A h \in Headers : CreditOf(h)'
    BY <1>1, <2>1 DEF Credit, CreditOf, Credited, Once
  <2>3. SendsAnew' /\ CreditIsNext'
    BY <1>1, <2>1 DEF Credit, SendsAnew, CreditIsNext
  <2> QED
    BY <2>2, <2>3 DEF Credit
<1> QED
  BY <1>1, <1>2, <1>3, CreditByCalls, CreditByInterrupt, Zenon DEF Next

----------------------------------------------------------------------------
(* The radio is attended *)

RestoringSteps == {"ProcessIncoming", "Received", "ProcessSent", "OnAsyncRestore", "RestoreToReceiving"}

\* Steps that Attended waits for.
AwaitedSteps ==
  {"SetToReceiving", "SendPacket", "Claim", "Transmit", "AwaitTransmissionEnd", "OnChannelUpdated"}

tuning ==
  <<driver.state, driver.lastChannel, driver.currentChannel, driver.channelPending, radio>>

LEMMA AttendedStays ==
  ASSUME Attended, UNCHANGED tuning,
         \A c \in left : c.step \in AwaitedSteps => c \in left'
  PROVE  Attended'
<1>1. \A steps \in SUBSET AwaitedSteps : Remains(steps) => Remains(steps)'
  BY DEF Remains
<1>2. /\ Remains({"SetToReceiving"}) => Remains({"SetToReceiving"})'
      /\ Remains({"SendPacket", "Claim"}) => Remains({"SendPacket", "Claim"})'
      /\ Remains({"Transmit"}) => Remains({"Transmit"})'
      /\ Remains({"AwaitTransmissionEnd"}) => Remains({"AwaitTransmissionEnd"})'
      /\ Remains({"OnChannelUpdated"}) => Remains({"OnChannelUpdated"})'
  BY <1>1 DEF AwaitedSteps
<1>3. /\ driver'.state = driver.state /\ driver'.lastChannel = driver.lastChannel
      /\ driver'.currentChannel = driver.currentChannel
      /\ driver'.channelPending = driver.channelPending /\ radio' = radio
  BY DEF tuning
<1> QED
  BY <1>2, <1>3 DEF Attended, Tuned

\* What is to restore the driver does, or puts it to sending an ack.
LEMMA RestoreStays ==
  ASSUME Typed, MainStep, ~lost', WillRestore
  PROVE  WillRestore' \/ MakeReady \/ PacketAcked
<1> DEFINE q == [step |-> "AppendToQueue", arg |-> Event("AsyncRestore")]
<1>1. /\ todo \in Seq(Calls) /\ Shaped(todo) /\ driver \in Drivers
      /\ todo # <<>> /\ left = {Head(todo)} \cup others /\ others \subseteq left' /\ ~Served
  BY OthersStay, Zenon DEF Typed
<1>2. CASE InQueue(Restoring)
  <2>1. InQueue(Restoring)'
    BY <1>1, <1>2, QueueKeeps, Zenon DEF Next
  <2> QED
    BY <2>1 DEF WillRestore
<1>3. \A c \in left' : c.step \in RestoringSteps \/ c = q => WillRestore'
  BY DEF WillRestore, Remains, RestoringSteps
<1>4. ASSUME NEW c \in left, c.step \in RestoringSteps \/ c = q
      PROVE  WillRestore' \/ MakeReady \/ PacketAcked
  <2>1. CASE c \in others
    BY <1>1, <1>3, <1>4, <2>1
  <2>2. CASE c = Head(todo) /\ c = q
    <3>1. AppendGrunt
      BY <1>1, <2>2 DEF MainStep, WriteGruntAction, WriteGruntValue, DisableTask, MakeReady,
          SetToReceiving, EnableInterrupts, OnAsyncRestore, OnTransmitPowerUpdated, OnChannelUpdated,
          SendPacket, Claim, Transmit, OnTransmitted, AwaitTransmissionEnd, ProcessSent,
          ProcessIncoming, PacketTaken, PacketAcked, PacketSetsPower, AtStep
    <3>2. driver.grunt = Event("AsyncRestore") /\ AppendToQueue(driver.grunt)
      <4>1. Arg = Event("AsyncRestore")
        BY <2>2 DEF Arg
      <4>2. driver.grunt = Arg /\ AppendToQueue(driver.grunt)
        BY <3>1 DEF AppendGrunt
      <4> QED
        BY <4>1, <4>2
    <3>3. Event("AsyncRestore") \in Events
      BY EventTypes DEF DriverAsyncActions
    <3>4. Event("AsyncRestore") \in Range(events)'
      BY <3>2, <3>3, AppendKeeps, Zenon
    <3> QED
      BY <3>4 DEF WillRestore, InQueue, Event, Restoring
  <2>3. CASE c = Head(todo) /\ c.step \in RestoringSteps
    <3>1. \/ MakeReady \/ OnAsyncRestore \/ ProcessSent \/ ProcessIncoming \/ PacketTaken
          \/ PacketAcked \/ \E p \in Powers : PacketSetsPower(p)
      BY <1>1, <2>3 DEF RestoringSteps, MainStep, WriteGruntAction, WriteGruntValue, AppendGrunt,
          DisableTask, SetToReceiving, EnableInterrupts, OnTransmitPowerUpdated, OnChannelUpdated,
          SendPacket, Claim, Transmit, OnTransmitted, AwaitTransmissionEnd, AtStep
    <3>2. CASE OnAsyncRestore \/ ProcessSent
      <4>1. left' = RestoreSteps \cup others
        BY <3>2, AStep DEF OnAsyncRestore, ProcessSent
      <4> QED
        BY <4>1, <1>3, StepsOf DEF RestoringSteps
    <3>3. CASE ProcessIncoming \/ PacketTaken \/ \E p \in Powers : PacketSetsPower(p)
      <4>1. \/ GoesOnWith({Plain("Received")})
            \/ GoesOnWith(RestoreSteps \cup {Plain("EnableInterrupts")})
            \/ GoesOnWith({Plain("OnTransmitPowerUpdated")} \cup RestoreSteps
                          \cup {Plain("EnableInterrupts")})
        BY <1>1, <3>3, WhatIsLeftToReceive, Zenon
           DEF ProcessIncoming, PacketTaken, PacketSetsPower, Alone
      <4> QED
        BY <4>1, <1>3, StepsOf DEF RestoringSteps, GoesOnWith
    <3> QED
      BY <3>1, <3>2, <3>3
  <2> QED
    BY <1>1, <1>4, <2>1, <2>2, <2>3
<1>5. InQueue(Restoring) \/ \E c \in left : c.step \in RestoringSteps \/ c = q
  BY DEF WillRestore, Remains, RestoringSteps
<1> QED
  BY <1>2, <1>4, <1>5, Zenon

\* The steps of a packet on its way out.
LEMMA AttendedBySending ==
  ASSUME Typed, StateFits, Attended, ~WillRestore',
         SendPacket \/ Claim \/ Transmit \/ OnTransmitted \/ AwaitTransmissionEnd
  PROVE  Attended'
<1>1. /\ todo \in Seq(Calls) /\ Shaped(todo) /\ driver \in Drivers
      /\ \A c \in left' : c.step \notin RestoringSteps
      /\ [step |-> "AppendToQueue", arg |-> Event("AsyncRestore")] \notin left'
  BY DEF Typed, WillRestore, Remains, RestoringSteps
<1>2. CASE SendPacket
  <2>1. /\ UNCHANGED tuning /\ left = {[step |-> "SendPacket", arg |-> Arg]} \cup others
        /\ OnlyEnable(others)
    BY <1>1, <1>2, AStep, WhatIsLeftToSend DEF SendPacket, driverVars, tuning
  <2>2. GoesOnWith({[step |-> "Claim", arg |-> Arg]}) \/ GoesOnWith(RefusedSteps(Arg))
    BY <1>1, <1>2, WhatIsLeftToSend, Zenon DEF SendPacket
  <2>3. /\ ~Remains({"SetToReceiving"}) /\ ~Remains({"OnChannelUpdated"})
        /\ ~Remains({"Transmit"}) /\ ~Remains({"AwaitTransmissionEnd"})
    BY <2>1 DEF OnlyEnable, Remains
  <2>4. /\ driver'.state = driver.state /\ driver'.lastChannel = driver.lastChannel
        /\ driver'.currentChannel = driver.currentChannel
        /\ driver'.channelPending = driver.channelPending /\ radio' = radio
    BY <2>1 DEF tuning
  <2>5. driver.state = "SendingAck" => Remains({"SendPacket", "Claim"})'
    <3>1. CASE GoesOnWith({[step |-> "Claim", arg |-> Arg]})
      <4>1. [step |-> "Claim", arg |-> Arg] \in left'
        BY <3>1 DEF GoesOnWith
      <4> QED
        BY <4>1 DEF Remains
    <3>2. CASE GoesOnWith(RefusedSteps(Arg))
      <4>1. Arg # Ack
        BY <1>1, <3>2, StepsOf DEF GoesOnWith, RefusedSteps, RestoringSteps
      <4>2. [step |-> "SendPacket", arg |-> Arg] \in left
        BY <2>1
      <4>3. driver.state \in NotYetHeard
        BY <4>1, <4>2 DEF StateFits
      <4> QED
        BY <4>3 DEF NotYetHeard
    <3> QED
      BY <2>2, <3>1, <3>2
  <2> QED
    BY <2>3, <2>4, <2>5 DEF Attended, Tuned
<1>3. CASE Claim
  <2>1. driver'.state = "SendingOutgoing" /\ [step |-> "Transmit", arg |-> Arg] \in left'
    BY <1>1, <1>3, WhatIsLeftToSend DEF Claim, GoesOnWith, Drivers
  <2> QED
    BY <2>1 DEF Attended, Remains
<1>4. CASE Transmit
  <2>1. [step |-> "Transmit", arg |-> Arg] \in left /\ driver' = driver
    BY <1>4, AStep DEF Transmit
  <2>2. driver.state = "SendingOutgoing"
    BY <2>1 DEF StateFits
  <2>3. \/ radio'.mode = "Transmitting" /\ GoesOnWith(TransmittedSteps(Arg))
        \/ GoesOnWith(AddSteps("AsyncRestore") \cup RefusedSteps(Arg))
    BY <1>1, <1>4, WhatIsLeftToSend DEF Transmit
  <2>4. radio'.mode = "Transmitting" /\ [step |-> "AwaitTransmissionEnd", arg |-> Arg] \in left'
    BY <1>1, <2>3 DEF GoesOnWith, TransmittedSteps, AddSteps, QueueSteps
  <2> QED
    BY <2>1, <2>2, <2>4 DEF Attended, Remains
<1>5. CASE OnTransmitted
  <2>1. /\ left = {[step |-> "OnTransmitted", arg |-> Arg]} \cup others /\ left' = others
        /\ Fits([step |-> "OnTransmitted", arg |-> Arg], others)
    BY <1>5, AStep DEF OnTransmitted
  <2>2. driver.state = "SendingOutgoing" /\ driver'.state = driver.state /\ radio' = radio
    BY <1>1, <1>5, <2>1 DEF OnTransmitted, StateFits, Drivers
  <2>3. ~Remains({"Transmit"})
    BY <2>1 DEF Remains, Fits, Following, QueueSteps
  <2>4. radio.mode = "Transmitting" /\ [step |-> "AwaitTransmissionEnd", arg |-> Arg] \in left'
    BY <2>1, <2>2, <2>3 DEF Attended, Fits
  <2> QED
    BY <2>2, <2>4 DEF Attended, Remains
<1>6. CASE AwaitTransmissionEnd
  <2>1. /\ left = {[step |-> "AwaitTransmissionEnd", arg |-> Arg]} \cup others
        /\ Fits([step |-> "AwaitTransmissionEnd", arg |-> Arg], others)
    BY <1>6, AStep DEF AwaitTransmissionEnd
  <2>2. driver.state = "SendingOutgoing" /\ ~Remains({"Transmit"})
    <3>1. [step |-> "AwaitTransmissionEnd", arg |-> Arg] \in left
      BY <2>1
    <3>2. driver.state = "SendingOutgoing"
      BY <3>1 DEF StateFits
    <3> QED
      BY <2>1, <3>2 DEF Remains, Fits
  <2>3. driver'.state = "WaitingForTransmissionEnd" /\ radio' = radio /\ radio.mode = "Transmitting"
    BY <1>1, <1>6, <2>2 DEF AwaitTransmissionEnd, Attended, Drivers
  <2> QED
    BY <2>3 DEF Attended
<1> QED
  BY <1>2, <1>3, <1>4, <1>5, <1>6

\* Its other steps.
LEMMA AttendedByOthers ==
  ASSUME Typed, StateFits, Attended, ~WillRestore, ~WillRestore',
         \/ WriteGruntAction \/ WriteGruntValue \/ AppendGrunt \/ DisableTask \/ EnableInterrupts
         \/ SetToReceiving \/ OnTransmitPowerUpdated \/ OnChannelUpdated
  PROVE  Attended'
<1>1. /\ todo \in Seq(Calls) /\ Shaped(todo) /\ driver \in Drivers
      /\ \A c \in left' : c.step \notin RestoringSteps
      /\ ~Remains({"RestoreToReceiving"})
  BY DEF Typed, WillRestore, Remains, RestoringSteps
<1>2. ASSUME NEW step \in Steps \ AwaitedSteps, AtStep(step), UNCHANGED tuning, others \subseteq left'
      PROVE  Attended'
  <2>1. left = {[step |-> step, arg |-> Arg]} \cup others
    BY <1>2, AStep
  <2> QED
    BY <1>2, <2>1, AttendedStays
<1>3. CASE WriteGruntAction \/ WriteGruntValue \/ AppendGrunt \/ DisableTask \/ EnableInterrupts
  <2>1. UNCHANGED tuning
    BY <1>1, <1>3 DEF WriteGruntAction, WriteGruntValue, AppendGrunt, DisableTask, EnableInterrupts,
                      driverVars, tuning, Drivers
  <2>2. PICK step \in {"GruntAction", "GruntValue", "AppendToQueue", "Disable", "EnableInterrupts"} :
               AtStep(step) /\ Then(<<>>)
    BY <1>3 DEF WriteGruntAction, WriteGruntValue, AppendGrunt, DisableTask, EnableInterrupts
  <2>3. step \in Steps \ AwaitedSteps
    BY DEF Steps, AwaitedSteps
  <2>4. left' = others
    BY <2>2, AStep
  <2> QED
    BY <2>1, <2>2, <2>3, <2>4, <1>2
<1>4. CASE SetToReceiving
  <2>1. /\ left = {[step |-> "SetToReceiving", arg |-> Arg]} \cup others /\ driver' = driver
        /\ radio'.mode = "Listening" /\ radio'.channel = driver.currentChannel
    BY <1>4, AStep DEF SetToReceiving
  <2>2. driver.state \in NotYetHeard /\ driver.lastChannel = driver.currentChannel
    <3>1. [step |-> "SetToReceiving", arg |-> Arg] \in left
      BY <2>1
    <3> QED
      BY <1>1, <3>1 DEF StateFits
  <2>3. driver.state \in {"ReadyForAnything", "BlockedForIncoming"}
    BY <2>2 DEF Attended, NotYetHeard
  <2> QED
    BY <2>1, <2>2, <2>3 DEF Attended, Tuned
<1>5. CASE OnTransmitPowerUpdated
  <2>1. UNCHANGED tuning /\ AtStep("OnTransmitPowerUpdated")
    BY <1>1, <1>5 DEF OnTransmitPowerUpdated, tuning, Drivers
  <2>2. others \subseteq left'
    BY <1>5, OthersStay DEF MainStep
  <2> QED
    BY <2>1, <2>2, <1>2 DEF Steps, AwaitedSteps
<1>6. CASE OnChannelUpdated
  <2>1. AtStep("OnChannelUpdated") /\ left = {[step |-> "OnChannelUpdated", arg |-> Arg]}
    BY <1>1, <1>6, AStep, WhatIsLeftToReceive DEF OnChannelUpdated, Alone
  <2>2. \A c \in left : c.step = "OnChannelUpdated"
    BY <2>1
  <2>3. ~Then(RestoreToReceiving)
    BY <1>1, <2>1, AStep, StepsOf DEF RestoringSteps
  <2>4. /\ driver'.state = driver.state /\ driver'.lastChannel = driver.lastChannel
        /\ driver'.currentChannel = driver.currentChannel /\ radio' = radio
        /\ driver'.channelPending \/ (driver.lastChannel = driver.currentChannel)
    BY <1>1, <1>6, <2>3 DEF OnChannelUpdated, Drivers
  <2>5. /\ ~Remains({"SetToReceiving"}) /\ ~Remains({"SendPacket", "Claim"})
        /\ ~Remains({"Transmit"}) /\ ~Remains({"AwaitTransmissionEnd"})
    BY <2>2 DEF Remains
  <2> QED
    BY <2>4, <2>5 DEF Attended, Tuned
<1> QED
  BY <1>3, <1>4, <1>5, <1>6

LEMMA AttendedByMain ==
  ASSUME Typed, StateFits, IfAttended, MainStep, ~lost'
  PROVE  IfAttended'
<1>1. /\ todo \in Seq(Calls) /\ Shaped(todo) /\ driver \in Drivers
  BY DEF Typed
<1>2. CASE MakeReady
  <2>1. /\ Fits([step |-> "RestoreToReceiving", arg |-> Arg], others) /\ left' = others
        /\ driver'.state = "ReadyForAnything"
    BY <1>1, <1>2, AStep DEF MakeReady, Drivers
  <2>2. Remains({"SetToReceiving"})'
    BY <2>1 DEF Fits, Remains
  <2> QED
    BY <2>1, <2>2 DEF IfAttended, Attended
<1>3. CASE PacketAcked
  <2>1. driver'.state = "SendingAck" /\ [step |-> "SendPacket", arg |-> Ack] \in left'
    BY <1>1, <1>3, WhatIsLeftToReceive DEF PacketAcked, GoesOnWith, Alone, Drivers
  <2> QED
    BY <2>1 DEF IfAttended, Attended, Remains
<1>4. CASE WillRestore
  BY <1>2, <1>3, <1>4, RestoreStays DEF IfAttended
<1>5. CASE ~WillRestore /\ ~WillRestore' /\ ~MakeReady /\ ~PacketAcked
  <2>1. \/ SendPacket \/ Claim \/ Transmit \/ OnTransmitted \/ AwaitTransmissionEnd
        \/ WriteGruntAction \/ WriteGruntValue \/ AppendGrunt \/ DisableTask \/ EnableInterrupts
        \/ SetToReceiving \/ OnTransmitPowerUpdated \/ OnChannelUpdated
    <3>1. ASSUME NEW step \in RestoringSteps \ {"RestoreToReceiving"}, AtStep(step)
          PROVE  FALSE
      <4>1. [step |-> step, arg |-> Arg] \in left
        BY <3>1, AStep
      <4> QED
        BY <3>1, <4>1, <1>5 DEF WillRestore, Remains, RestoringSteps
    <3> QED
      BY <1>5, <3>1 DEF MainStep, RestoringSteps, OnAsyncRestore, ProcessSent, ProcessIncoming,
                        PacketTaken, PacketSetsPower
  <2>2. ASSUME Started'
        PROVE  Started
    <3>1. CASE Claim \/ AwaitTransmissionEnd
      <4>1. \E step \in {"Claim", "AwaitTransmissionEnd"} : [step |-> step, arg |-> Arg] \in left
        BY <3>1, AStep DEF Claim, AwaitTransmissionEnd
      <4> QED
        BY <4>1 DEF StateFits, Started, NotYetHeard
    <3>2. CASE ~Claim /\ ~AwaitTransmissionEnd
      <4>1. driver'.state = driver.state
        BY <1>1, <2>1, <3>2
           DEF SendPacket, Transmit, OnTransmitted, WriteGruntAction, WriteGruntValue, AppendGrunt,
               DisableTask, EnableInterrupts, SetToReceiving, OnTransmitPowerUpdated,
               OnChannelUpdated, driverVars, Drivers
      <4> QED
        BY <2>2, <4>1 DEF Started
    <3> QED
      BY <3>1, <3>2
  <2> QED
    BY <1>5, <2>1, <2>2, AttendedBySending, AttendedByOthers, Zenon DEF IfAttended
<1> QED
  BY <1>2, <1>3, <1>4, <1>5 DEF IfAttended

\* Between two tasks nothing of a call is left, so the radio is tuned already.
LEMMA AttendedByCalls ==
  ASSUME Typed, IfAttended, Callback \/ ServiceStep, ~lost', [Next]_vars
  PROVE  IfAttended'
<1>1. /\ driver \in Drivers
      /\ InQueue(Restoring) =>
           InQueue(Restoring)' \/ (Served /\ Head(events).action \in Restoring)
  BY QueueKeeps DEF Typed
<1>2. left = {}
  BY ServicesCall, WhatBegins, Zenon DEF Callback
<1>3. /\ WillRestore <=> InQueue(Restoring)
      /\ \A steps : ~Remains(steps)
  BY <1>2 DEF WillRestore, Remains
<1>4. ASSUME Served, Head(events).action \in Restoring
      PROVE  WillRestore'
  <2>1. Head(events) \in Events /\ left' = FirstSteps(Head(events))
    BY <1>4, WhatIsServed
  <2>2. \E c \in left' : c.step \in {"ProcessIncoming", "ProcessSent", "OnAsyncRestore"}
    BY <1>4, <2>1, StepsOf DEF FirstSteps, Restoring, Telling
  <2> QED
    BY <2>2 DEF WillRestore, Remains
<1>5. CASE InQueue(Restoring)
  BY <1>1, <1>4, <1>5 DEF WillRestore, IfAttended
<1>6. CASE OnStart
  <2>1. left' = RestoreSteps
    BY <1>6, WhatBegins, Zenon DEF OnStart, Begins
  <2>2. WillRestore'
    BY <2>1, StepsOf DEF WillRestore, Remains
  <2> QED
    BY <2>2 DEF IfAttended
<1>7. CASE \E c \in Channels : SetChannel(c)
  <2>1. left' = {Plain("OnChannelUpdated")}
    BY <1>7, WhatBegins, Zenon DEF SetChannel, Begins
  <2>2. Remains({"OnChannelUpdated"})'
    BY <2>1, StepsOf DEF Remains
  <2>3. /\ driver'.state = driver.state /\ driver'.lastChannel = driver.lastChannel
        /\ radio' = radio
    BY <1>1, <1>7 DEF SetChannel, Drivers
  <2>4. ~InQueue(Restoring) /\ Started' => Attended'
    BY <1>3, <2>2, <2>3 DEF IfAttended, Started, Attended, Tuned
  <2> QED
    BY <1>5, <2>4 DEF IfAttended
<1>8. CASE ~OnStart /\ ~(\E c \in Channels : SetChannel(c)) /\ ~InQueue(Restoring)
  <2>1. UNCHANGED tuning
    BY <1>1, <1>8
       DEF Callback, driverVars, ServiceStep, SetTransmitPower, ServiceSends, ServiceTimesOut,
           tuning, Drivers
  <2>2. Started' => Started
    BY <2>1 DEF tuning, Started
  <2>3. \A c \in left : c.step \in AwaitedSteps => c \in left'
    BY <1>2
  <2> QED
    BY <1>3, <1>8, <2>1, <2>2, <2>3, AttendedStays, Zenon DEF IfAttended
<1> QED
  BY <1>5, <1>6, <1>7, <1>8

LEMMA AttendedByInterrupt ==
  ASSUME Typed, IfAttended, InterruptStep, ~lost'
  PROVE  IfAttended'
<1>1. driver \in Drivers /\ radio \in Radios
  BY DEF Typed
<1>2. left' = left /\ (\A steps : Remains(steps)' <=> Remains(steps))
  <2>1. left' = left
    BY Zenon DEF InterruptStep, OnIncoming, OnReceiveBegin, OnReceivedFail, OnSentOk, TransmissionEnds,
                 OnBatteryAlarm, left
  <2> QED
    BY <2>1 DEF Remains
<1>3. ASSUME OnIncoming \/ OnBatteryAlarm
      PROVE  WillRestore => WillRestore'
  <2>1. InQueue(Restoring) => InQueue(Restoring)'
    <3>1. CASE OnIncoming
      BY <3>1 DEF OnIncoming, callbackVars, InQueue
    <3>2. CASE OnBatteryAlarm
      <4>1. AppendToQueue(Event("ProcessBatteryAlarm")) /\ ~Drops(Restoring)
        BY <3>2 DEF OnBatteryAlarm, Interrupt
      <4>2. Event("ProcessBatteryAlarm") \in Events
        BY EventTypes DEF DriverAsyncActions
      <4> QED
        BY <4>1, <4>2, AppendKeeps, Zenon
    <3> QED
      BY <1>3, <3>1, <3>2
  <2> QED
    BY <1>2, <2>1 DEF WillRestore
<1>4. CASE OnIncoming
  <2>1. /\ radio.mode = "Listening" /\ radio'.mode = "Receiving" /\ radio'.channel = radio.channel
        /\ driver'.lastChannel = driver.lastChannel /\ driver'.currentChannel = driver.currentChannel
        /\ driver'.channelPending = driver.channelPending
        /\ \/ driver'.state = driver.state
           \/ driver.state = "ReadyForAnything" /\ driver'.state = "BlockedForIncoming"
    BY <1>1, <1>4 DEF OnIncoming, Drivers, Radios
  <2> QED
    BY <1>2, <1>3, <1>4, <2>1 DEF IfAttended, Started, Attended, Tuned
<1>5. CASE OnReceiveBegin \/ OnReceivedFail \/ OnSentOk
  <2>1. PICK e \in Events : AppendToQueue(e) /\ e.action \in Restoring
    <3>1. /\ Event("ProcessIncomingPacket") \in Events /\ Event("AsyncRestore") \in Events
          /\ SentOk(driver.lastSentHeader) \in Events
          /\ Event("ProcessIncomingPacket").action \in Restoring
          /\ Event("AsyncRestore").action \in Restoring
          /\ SentOk(driver.lastSentHeader).action \in Restoring
      BY <1>1, EventTypes, DriverFields DEF DriverAsyncActions, Event, SentOk, Restoring
    <3>2. \/ AppendToQueue(Event("ProcessIncomingPacket")) \/ AppendToQueue(Event("AsyncRestore"))
          \/ AppendToQueue(SentOk(driver.lastSentHeader))
      BY <1>5, Zenon DEF OnReceiveBegin, OnReceivedFail, OnSentOk, Interrupt, SentOk
    <3> QED
      BY <3>1, <3>2
  <2>2. e \in Range(events)'
    BY <2>1, AppendKeeps, Zenon
  <2> QED
    BY <2>1, <2>2 DEF IfAttended, WillRestore, InQueue
<1>6. CASE OnBatteryAlarm
  <2>1. UNCHANGED tuning
    BY <1>1, <1>6 DEF OnBatteryAlarm, Interrupt, tuning, Drivers
  <2>2. Started' => Started
    BY <2>1 DEF tuning, Started
  <2>3. \A c \in left : c.step \in AwaitedSteps => c \in left'
    BY <1>2
  <2> QED
    BY <1>3, <1>6, <2>1, <2>2, <2>3, AttendedStays, Zenon DEF IfAttended
<1> QED
  BY <1>4, <1>5, <1>6 DEF InterruptStep

LEMMA AttendedKept ==
  ASSUME Typed, StateFits, ~lost => IfAttended, [Next]_vars
  PROVE  ~lost' => IfAttended'
<1> SUFFICES ASSUME ~lost'
             PROVE  IfAttended'
  OBVIOUS
<1>1. ~lost /\ IfAttended
  <2>1. {} \in SUBSET Restoring
    OBVIOUS
  <2> QED
    BY <2>1, QueueKeeps
<1>2. CASE UNCHANGED vars
  BY <1>1, <1>2 DEF vars, callbackVars, driverVars, IfAttended, Started, WillRestore, InQueue, Attended,
                    Tuned, Remains, left
<1> QED
  BY <1>1, <1>2, AttendedByMain, AttendedByCalls, AttendedByInterrupt, Zenon DEF Next

----------------------------------------------------------------------------
(* The theorems *)

LEMMA InitImpliesDriverInv == Init => DriverInv
<1> SUFFICES ASSUME Init
             PROVE  DriverInv
  OBVIOUS
<1>1. /\ events = <<>> /\ todo = <<>> /\ enabled = FALSE /\ lost = FALSE /\ irq = TRUE
      /\ radio = [mode |-> "Sleep", channel |-> None, header |-> None]
      /\ waiting = {} /\ sent = {}
  BY DEF Init
<1>2. PICK c \in Channels : driver = InitialDriver(c)
  BY DEF Init
<1>3. left = {} /\ Range(events) = {} /\ todo \in Seq(Calls) /\ Shaped(todo)
  <2>1. MayFollow({})
    BY DEF MayFollow
  <2>2. Call(<<>>, {}, {})
    BY CallOfNone
  <2> QED
    BY <1>1, <2>2, NoElements, Zenon DEF left, Call, Shaped
<1>4. Typed
  <2>1. driver \in Drivers
    <3>1. Event("ProcessIncomingPacket") \in Events
      BY EventTypes DEF DriverAsyncActions
    <3> QED
      BY <1>2, <3>1 DEF InitialDriver, Drivers, DriverActiveStates
  <2>2. events \in Seq(Events) /\ Len(events) <= QueueSize
    BY <1>1, QueueAssumption
  <2>3. radio \in Radios /\ radio.mode # "Transmitting"
    BY <1>1 DEF Radios
  <2> QED
    BY <1>1, <1>3, <2>1, <2>2, <2>3 DEF Typed
<1>5. StateFits
  BY <1>3 DEF StateFits
<1>6. driver.state = "DriverDisabled"
  BY <1>2 DEF InitialDriver
<1>7. Credit
  <2>1. \A h \in Headers : CreditOf(h)
    <3>1. Len(events) = 0
      BY <1>1
    <3> QED
      BY <1>3, <3>1 DEF CreditOf, Credited, Once
  <2> QED
    BY <1>3, <1>6, <2>1 DEF Credit, SendsAnew, CreditIsNext
<1> QED
  BY <1>1, <1>4, <1>5, <1>6, <1>7 DEF DriverInv, IfAttended, Started

\* Every step of the main loop, of a service and of the interrupt keeps the
\* invariant of the driver.
LEMMA NextKeepsDriverInv == DriverInv /\ [Next]_vars => DriverInv'
BY TypesKept, FitsKept, HearsAgain, CreditKept, AttendedKept DEF DriverInv

\* The invariant of the driver holds for any packets, channels, powers and
\* length of the event queue.
THEOREM DriverInvariant == Spec => []DriverInv
<1>1. Init => DriverInv
  BY InitImpliesDriverInv
<1>2. DriverInv /\ [Next]_vars => DriverInv'
  BY NextKeepsDriverInv
<1> QED
  BY <1>1, <1>2, PTL DEF Spec

\* The queue and the rest of a call, as TypeOK and the properties read them.
LEMMA QueuedIsInQueue ==
  ASSUME Typed, NEW actions
  PROVE  Queued(actions) <=> InQueue(actions)
BY ElementsOf DEF Typed, Queued, InQueue

LEMMA DoingIsLeft ==
  ASSUME Typed, NEW steps
  PROVE  Doing(steps) <=> Remains(steps)
BY ElementsOf DEF Typed, Doing, Remains, left

\* TypeOK: the fields keep their types, and the event queue its length, with
\* both sides adding to it.
THEOREM DriverTypeCorrect == Spec => []TypeOK
<1>1. DriverInv => TypeOK
  <2> SUFFICES ASSUME Typed
               PROVE  TypeOK
    BY DEF DriverInv
  <2> DEFINE steps == [step : Steps, arg : Events \cup Headers \cup {Ack, None}]
  <2>1. Calls \subseteq steps
    BY EventTypes DEF Calls, OwnActions, PlainSteps, QueueSteps, SendSteps, Steps
  <2>2. todo \in Seq(steps)
    <3>1. /\ Len(todo) \in Nat /\ todo = [i \in 1 .. Len(todo) |-> todo[i]]
          /\ \A i \in 1 .. Len(todo) : todo[i] \in Calls
      BY ElementOfSeq, LenProperties DEF Typed
    <3> HIDE DEF steps
    <3>2. \A i \in 1 .. Len(todo) : todo[i] \in steps
      BY <2>1, <3>1
    <3> QED
      BY <3>1, <3>2
  <2> QED
    BY <2>2 DEF Typed, TypeOK
<1> QED
  BY <1>1, DriverInvariant, PTL

\* DeafIsServed: while the interrupts of the radio are off, the event that
\* will turn them on is in the queue or being served, whatever the order in
\* which the two sides add to the queue.
THEOREM DeafDriverIsServed == Spec => []DeafIsServed
<1>1. DriverInv => DeafIsServed
  <2> SUFFICES ASSUME DriverInv, ~irq, ~lost
               PROVE  \/ Queued({"ProcessIncomingPacket"})
                      \/ Doing({"ProcessIncoming", "Received", "EnableInterrupts"})
    BY DEF DeafIsServed
  <2> QED
    BY QueuedIsInQueue, DoingIsLeft DEF DriverInv, WillHear
<1> QED
  BY <1>1, DriverInvariant, PTL

\* CreditIsEarned: a service is told that its packet was sent only when the
\* transmission of that packet has ended, for any number of services.
THEOREM CreditsAreEarned == Spec => []CreditIsEarned
<1>1. DriverInv => CreditIsEarned
  <2> SUFFICES ASSUME DriverInv, ~lost, NEW i \in 1 .. Len(events),
                      events[i].action = "ProcessSentOk", events[i].value \in waiting
               PROVE  events[i].value \in sent
    BY DEF CreditIsEarned
  <2> DEFINE h == events[i].value
  <2>1. Typed /\ h \in Headers /\ CreditOf(h)
    BY DEF DriverInv, Typed, Credit
  <2>2. events[i] = SentOk(h)
    <3>1. events[i] \in Events
      BY <2>1, ElementOfSeq DEF Typed
    <3> QED
      BY <3>1 DEF Events, SentOk
  <2>3. events[i] \in Range(events)
    BY <2>1, ElementsOf DEF Typed
  <2> QED
    BY <2>1, <2>2, <2>3 DEF CreditOf, Credited
<1> QED
  BY <1>1, DriverInvariant, PTL

\* RadioAttended: between two tasks, with no restoring event queued, the radio
\* receives on its channel or the end of a transmission is to come.
THEOREM RadioIsAttended == Spec => []RadioAttended
<1>1. DriverInv => RadioAttended
  <2> SUFFICES ASSUME DriverInv, Idle, Started, ~lost, ~Queued(Restoring)
               PROVE  IF driver.state \in {"ReadyForAnything", "BlockedForIncoming"}
                      THEN /\ radio.mode \in {"Listening", "Receiving"}
                           /\ driver.channelPending \/ radio.channel = driver.currentChannel
                      ELSE driver.state = "WaitingForTransmissionEnd" /\ radio.mode = "Transmitting"
    BY DEF RadioAttended
  <2>1. left = {} /\ ~InQueue(Restoring) /\ driver.state \in DriverActiveStates
    BY WhatBegins, QueuedIsInQueue, DriverFields DEF DriverInv, Typed
  <2>2. Attended
    BY <2>1 DEF DriverInv, IfAttended, WillRestore, Remains
  <2>3. \A steps : ~Remains(steps)
    BY <2>1 DEF Remains
  <2> QED
    BY <2>1, <2>2, <2>3 DEF Attended, Tuned, Started, DriverActiveStates
<1> QED
  BY <1>1, DriverInvariant, PTL

=============================================================================
