-------------------------- MODULE LoLaPacketDriver --------------------------
(***************************************************************************)
(* The driver of one node (PacketDriver/LoLaPacketDriver.h and the Si446x  *)
(* driver below it): the main loop, one step for each access to what it    *)
(* shares with the interrupt of the radio, and the callbacks of that       *)
(* interrupt, each of them atomic and free to come between any two steps   *)
(* of the main loop while interrupts are on.                               *)
(*                                                                         *)
(* todo is what is left of the call the main loop is in: the names of the  *)
(* methods, or parts of a method, still to run. It is empty between two    *)
(* tasks of the scheduler.                                                 *)
(*                                                                         *)
(* Slots, back-off and slot collisions are timing: a send may be refused   *)
(* by the service's own clock at any time, so a service sends when it may. *)
(***************************************************************************)
EXTENDS AsyncActionCallback

CONSTANTS
  None,
  Ack,        \* PACKET_DEFINITION_ACK_HEADER, 0: also an event's default value
  Headers,    \* headers of the packets the services send
  Channels,
  Powers

ASSUME HeaderAssumption == Ack \notin Headers /\ None \notin Headers \cup {Ack}
ASSUME SettingAssumption == None \notin Channels \cup Powers

VARIABLES
  driver,     \* the fields of LoLaPacketDriver
  irq,        \* interrupts of the radio are on
  radio,      \* the radio chip
  todo,       \* the rest of the call the main loop is in
  waiting,    \* services in WaitingForSentOk, by the header of their packet
  sent,       \* ghost: headers whose last transmission has ended
  lost        \* ghost: an event that restores the driver was dropped from the
              \* queue, or the interrupt overwrote the main loop's ActionGrunt

driverVars == <<driver, radio, irq>>
vars == <<callbackVars, driverVars, todo, waiting, sent, lost>>

DriverActiveStates ==
  {"DriverDisabled", "ReadyForAnything", "BlockedForIncoming", "AwaitingProcessing",
   "ProcessingIncoming", "SendingOutgoing", "SendingAck", "WaitingForTransmissionEnd"}

DriverAsyncActions ==
  {"ProcessIncomingPacket", "ProcessSentOk", "UpdatePower", "UpdateChannel",
   "AsyncRestore", "ProcessBatteryAlarm"}

Events == [action : DriverAsyncActions, value : Headers \cup {Ack, None}]

Event(action) == [action |-> action, value |-> Ack]

\* Power 0, which is below the lowest power of the radio, and channel 0xFF are
\* None: no setting at all.
InitialDriver(c) ==
  [state |-> "DriverDisabled", lastSentHeader |-> None, grunt |-> Event("ProcessIncomingPacket"),
   currentPower |-> None, lastPower |-> None,
   currentChannel |-> c, lastChannel |-> c, channelPending |-> FALSE]

\* The events whose handling ends with RestoreToReceiving.
Restoring == {"ProcessIncomingPacket", "ProcessSentOk", "AsyncRestore"}

Drops(actions) == \E e \in Dropped(events) : e.action \in actions

Init ==
  /\ events = <<>> /\ enabled = FALSE /\ lost = FALSE
  /\ \E c \in Channels : driver = InitialDriver(c)
  /\ irq = TRUE /\ radio = [mode |-> "Sleep", channel |-> None, header |-> None]
  /\ todo = <<>> /\ waiting = {} /\ sent = {}

----------------------------------------------------------------------------
(* The main loop, step by step *)

DoFor(step, arg) == <<[step |-> step, arg |-> arg]>>
Do(step) == DoFor(step, None)

\* ActionGrunt is a field: its two bytes are written, then it is copied.
AddAsyncAction(action) ==
  DoFor("GruntAction", Event(action)) \o DoFor("GruntValue", Event(action))
  \o DoFor("AppendToQueue", Event(action))

RestoreToReceiving == Do("RestoreToReceiving") \o Do("SetToReceiving")

Arg == Head(todo).arg

AtStep(step) == todo # <<>> /\ Head(todo).step = step

\* The step at hand is done, steps come next, then the rest of the call.
Then(steps) == todo' = steps \o Tail(todo)

Idle == todo = <<>>

----------------------------------------------------------------------------
(* The event queue, from the main loop *)

WriteGruntAction ==
  /\ AtStep("GruntAction") /\ Then(<<>>)
  /\ driver' = [driver EXCEPT !.grunt.action = Arg.action]
  /\ UNCHANGED <<callbackVars, lost, irq, radio, waiting, sent>>

WriteGruntValue ==
  /\ AtStep("GruntValue") /\ Then(<<>>)
  /\ driver' = [driver EXCEPT !.grunt.value = Arg.value]
  /\ UNCHANGED <<callbackVars, lost, irq, radio, waiting, sent>>

AppendGrunt ==
  /\ AtStep("AppendToQueue") /\ Then(<<>>)
  /\ AppendToQueue(driver.grunt)
  /\ lost' = (lost \/ Drops(Restoring) \/ driver.grunt # Arg)
  /\ UNCHANGED <<driverVars, waiting, sent>>

OnAsyncAction(e) ==
  CASE e.action = "ProcessIncomingPacket" -> Do("ProcessIncoming")
    [] e.action = "ProcessSentOk"         -> DoFor("ProcessSent", e.value)
    [] e.action = "UpdatePower"           -> Do("OnTransmitPowerUpdated")
    [] e.action = "UpdateChannel"         -> Do("OnChannelUpdated")
    [] e.action = "AsyncRestore"          -> Do("OnAsyncRestore")
    [] e.action = "ProcessBatteryAlarm"   -> <<>>

Callback ==
  /\ Idle
  /\ \/ Pull /\ todo' = OnAsyncAction(Head(events))
     \/ PullFails /\ todo' = Do("Disable")
  /\ UNCHANGED <<driverVars, lost, waiting, sent>>

DisableTask ==
  /\ AtStep("Disable") /\ Then(<<>>)
  /\ Disable
  /\ UNCHANGED <<driverVars, lost, waiting, sent>>

----------------------------------------------------------------------------
(* Receiving again *)

MakeReady ==
  /\ AtStep("RestoreToReceiving") /\ Then(<<>>)
  /\ driver' = [driver EXCEPT !.lastChannel = driver.currentChannel,
                              !.channelPending = FALSE, !.state = "ReadyForAnything"]
  /\ UNCHANGED <<callbackVars, lost, irq, radio, waiting, sent>>

\* The radio gives up what it was doing: a frame half received, or on its way out.
SetToReceiving ==
  /\ AtStep("SetToReceiving") /\ Then(<<>>)
  /\ radio' = [mode |-> "Listening", channel |-> driver.currentChannel, header |-> None]
  /\ UNCHANGED <<callbackVars, lost, driver, irq, waiting, sent>>

EnableInterrupts ==
  /\ AtStep("EnableInterrupts") /\ Then(<<>>)
  /\ irq' = TRUE
  /\ UNCHANGED <<callbackVars, lost, driver, radio, waiting, sent>>

OnAsyncRestore ==
  /\ AtStep("OnAsyncRestore") /\ Then(RestoreToReceiving)
  /\ driver' = [driver EXCEPT !.lastSentHeader = None]
  /\ UNCHANGED <<callbackVars, lost, irq, radio, waiting, sent>>

\* The link service (re)starts the driver.
OnStart ==
  /\ Idle /\ todo' = RestoreToReceiving
  /\ driver' = [driver EXCEPT !.lastChannel = None, !.lastPower = None, !.channelPending = FALSE]
  /\ UNCHANGED <<callbackVars, lost, irq, radio, waiting, sent>>

----------------------------------------------------------------------------
(* Power and channel *)

\* The link service starts the driver before it calls it.
Started == driver.state # "DriverDisabled"

SetTransmitPower(p) ==
  /\ Started /\ Idle /\ todo' = Do("OnTransmitPowerUpdated")
  /\ driver' = [driver EXCEPT !.currentPower = p]
  /\ UNCHANGED <<callbackVars, lost, irq, radio, waiting, sent>>

OnTransmitPowerUpdated ==
  /\ AtStep("OnTransmitPowerUpdated")
  /\ \/ /\ driver.lastPower = driver.currentPower
        /\ Then(<<>>) /\ UNCHANGED driver
     \/ /\ driver.lastPower # driver.currentPower /\ driver.state = "ReadyForAnything"
        /\ driver' = [driver EXCEPT !.lastPower = driver.currentPower]
        /\ Then(RestoreToReceiving)
     \/ /\ driver.lastPower # driver.currentPower /\ driver.state # "ReadyForAnything"
        /\ Then(AddAsyncAction("UpdatePower")) /\ UNCHANGED driver
  /\ UNCHANGED <<callbackVars, lost, irq, radio, waiting, sent>>

SetChannel(c) ==
  /\ Started /\ Idle /\ todo' = Do("OnChannelUpdated")
  /\ driver' = [driver EXCEPT !.currentChannel = c]
  /\ UNCHANGED <<callbackVars, lost, irq, radio, waiting, sent>>

OnChannelUpdated ==
  /\ AtStep("OnChannelUpdated")
  /\ \/ /\ driver.lastChannel = driver.currentChannel
        /\ Then(<<>>) /\ UNCHANGED driver
     \/ /\ driver.lastChannel # driver.currentChannel /\ driver.state = "ReadyForAnything"
        /\ Then(RestoreToReceiving) /\ UNCHANGED driver
     \/ /\ driver.lastChannel # driver.currentChannel /\ driver.state # "ReadyForAnything"
        /\ driver' = [driver EXCEPT !.channelPending = TRUE]
        /\ Then(AddAsyncAction("UpdateChannel"))
  /\ UNCHANGED <<callbackVars, lost, irq, radio, waiting, sent>>

----------------------------------------------------------------------------
(* Sending *)

AllowedSend == driver.state = "ReadyForAnything" /\ ~driver.channelPending

MaySend == driver.state \in {"ReadyForAnything", "SendingAck"} /\ ~driver.channelPending

\* A service in SendingPacket finds the driver free and calls SendPacket.
ServiceSends(h) ==
  /\ Idle /\ h \notin waiting /\ AllowedSend
  /\ todo' = DoFor("SendPacket", h)
  /\ UNCHANGED <<callbackVars, lost, driverVars, waiting, sent>>

\* A refused ack leaves the driver to ProcessIncoming, which restores it.
Refused(h) == IF h = Ack THEN RestoreToReceiving ELSE <<>>

SendPacket ==
  /\ AtStep("SendPacket")
  /\ Then(IF MaySend THEN DoFor("Claim", Arg) ELSE Refused(Arg))
  /\ UNCHANGED <<callbackVars, lost, driverVars, waiting, sent>>

Claim ==
  /\ AtStep("Claim") /\ Then(DoFor("Transmit", Arg))
  /\ driver' = [driver EXCEPT !.state = "SendingOutgoing"]
  /\ sent' = sent \ {Arg}
  /\ UNCHANGED <<callbackVars, lost, irq, radio, waiting>>

Transmit ==
  /\ AtStep("Transmit")
  /\ \/ /\ radio' = [mode |-> "Transmitting", channel |-> driver.currentChannel, header |-> Arg]
        /\ Then(DoFor("OnTransmitted", Arg) \o Do("OnTransmitPowerUpdated")
                \o DoFor("AwaitTransmissionEnd", Arg))
     \/ /\ UNCHANGED radio          \* the radio would not
        /\ Then(AddAsyncAction("AsyncRestore") \o Refused(Arg))
  /\ UNCHANGED <<callbackVars, lost, driver, irq, waiting, sent>>

OnTransmitted ==
  /\ AtStep("OnTransmitted") /\ Then(<<>>)
  /\ driver' = [driver EXCEPT !.lastSentHeader = Arg,
                              !.lastChannel = driver.currentChannel]
  /\ UNCHANGED <<callbackVars, lost, irq, radio, waiting, sent>>

\* SendPacket returns true: the service waits for the sent-ok.
AwaitTransmissionEnd ==
  /\ AtStep("AwaitTransmissionEnd") /\ Then(<<>>)
  /\ driver' = [driver EXCEPT !.state = "WaitingForTransmissionEnd"]
  /\ waiting' = waiting \cup ({Arg} \ {Ack})
  /\ UNCHANGED <<callbackVars, lost, irq, radio, sent>>

\* ServicesManager.ProcessSent: no service sends acks.
ProcessSent ==
  /\ AtStep("ProcessSent") /\ Then(RestoreToReceiving)
  /\ waiting' = waiting \ {Arg}
  /\ UNCHANGED <<callbackVars, lost, driverVars, sent>>

\* The time-out of a service, 100 ms, is long after its packet left the air and
\* the event of it the queue.
ServiceTimesOut(h) ==
  /\ Idle /\ h \in waiting
  /\ radio.header # h /\ \A i \in 1..Len(events) : events[i].value # h
  /\ waiting' = waiting \ {h}
  /\ UNCHANGED <<callbackVars, lost, driverVars, todo, sent>>

----------------------------------------------------------------------------
(* Processing a received packet, interrupts off *)

\* Fault: a packet that is no longer awaited leaves the interrupts off.
ProcessIncomingStayingDeaf ==
  /\ AtStep("ProcessIncoming")
  /\ \/ /\ driver.state # "AwaitingProcessing"
        /\ Then(RestoreToReceiving)
        /\ UNCHANGED driver
     \/ /\ driver.state = "AwaitingProcessing"
        /\ driver' = [driver EXCEPT !.state = "ProcessingIncoming"]
        /\ Then(Do("Received"))
  /\ UNCHANGED <<callbackVars, lost, irq, radio, waiting, sent>>

ProcessIncoming ==
  /\ AtStep("ProcessIncoming")
  /\ \/ /\ driver.state # "AwaitingProcessing"
        /\ Then(RestoreToReceiving \o Do("EnableInterrupts"))
        /\ UNCHANGED driver
     \/ /\ driver.state = "AwaitingProcessing"
        /\ driver' = [driver EXCEPT !.state = "ProcessingIncoming"]
        /\ Then(Do("Received"))
  /\ UNCHANGED <<callbackVars, lost, irq, radio, waiting, sent>>

\* Rejected, an ack, or a packet for the services, accepted or not.
PacketTaken ==
  /\ AtStep("Received") /\ Then(RestoreToReceiving \o Do("EnableInterrupts"))
  /\ UNCHANGED <<callbackVars, lost, driverVars, waiting, sent>>

\* A host id broadcast wakes the remote, which asks for full power at once.
PacketSetsPower(p) ==
  /\ AtStep("Received")
  /\ Then(Do("OnTransmitPowerUpdated") \o RestoreToReceiving \o Do("EnableInterrupts"))
  /\ driver' = [driver EXCEPT !.currentPower = p]
  /\ UNCHANGED <<callbackVars, lost, irq, radio, waiting, sent>>

\* A service accepts a packet with ack.
PacketAcked ==
  /\ AtStep("Received")
  /\ driver' = [driver EXCEPT !.state = "SendingAck"]
  /\ Then(DoFor("SendPacket", Ack) \o Do("EnableInterrupts"))
  /\ UNCHANGED <<callbackVars, lost, irq, radio, waiting, sent>>

----------------------------------------------------------------------------
(* The interrupt of the radio *)

\* AddAsyncAction in the interrupt, which leaves the other fields as in d.
Interrupt(d, e) ==
  /\ driver' = [d EXCEPT !.grunt = e]
  /\ AppendToQueue(e)
  /\ lost' = (lost \/ Drops(Restoring))

\* The radio has found the start of a frame.
OnIncoming ==
  /\ irq /\ radio.mode = "Listening"
  /\ radio' = [radio EXCEPT !.mode = "Receiving"]
  /\ driver' = [driver EXCEPT !.state = IF @ = "ReadyForAnything" THEN "BlockedForIncoming" ELSE @]
  /\ UNCHANGED <<callbackVars, lost, irq, todo, waiting, sent>>

\* It holds the whole of it, and listens no more.
OnReceiveBegin ==
  /\ irq /\ radio.mode = "Receiving"
  /\ radio' = [radio EXCEPT !.mode = "Holding"]
  /\ \/ /\ driver.state = "BlockedForIncoming"
        /\ irq' = FALSE
        /\ Interrupt([driver EXCEPT !.state = "AwaitingProcessing"], Event("ProcessIncomingPacket"))
     \/ /\ driver.state # "BlockedForIncoming"
        /\ Interrupt(driver, Event("AsyncRestore")) /\ UNCHANGED irq
  /\ UNCHANGED <<todo, waiting, sent>>

\* The frame is garbled: the radio goes to sleep.
OnReceivedFail ==
  /\ irq /\ radio.mode = "Receiving"
  /\ radio' = [radio EXCEPT !.mode = "Sleep"]
  /\ Interrupt(driver, Event("AsyncRestore"))
  /\ UNCHANGED <<irq, todo, waiting, sent>>

\* The transmission is over: the radio goes to sleep.
TransmissionEnds ==
  /\ irq /\ radio.mode = "Transmitting"
  /\ radio' = [radio EXCEPT !.mode = "Sleep", !.header = None]
  /\ sent' = sent \cup {radio.header}
  /\ UNCHANGED <<irq, todo, waiting>>

\* Fault: an end of transmission that comes early is ignored.
OnSentOkIgnoringEarly ==
  /\ TransmissionEnds
  /\ IF driver.state = "WaitingForTransmissionEnd"
     THEN Interrupt([driver EXCEPT !.lastSentHeader = None],
                    [action |-> "ProcessSentOk", value |-> driver.lastSentHeader])
     ELSE UNCHANGED <<callbackVars, lost, driver>>

\* Fault: it is credited without a look at the state.
OnUncheckedSentOk ==
  /\ TransmissionEnds
  /\ Interrupt([driver EXCEPT !.lastSentHeader = None],
               [action |-> "ProcessSentOk", value |-> driver.lastSentHeader])

OnSentOk ==
  /\ TransmissionEnds
  /\ \/ /\ driver.state = "WaitingForTransmissionEnd"
        /\ Interrupt([driver EXCEPT !.lastSentHeader = None],
                     [action |-> "ProcessSentOk", value |-> driver.lastSentHeader])
     \/ /\ driver.state # "WaitingForTransmissionEnd"
        /\ Interrupt(driver, Event("AsyncRestore"))

OnBatteryAlarm ==
  /\ irq
  /\ Interrupt(driver, Event("ProcessBatteryAlarm"))
  /\ UNCHANGED <<irq, radio, todo, waiting, sent>>

----------------------------------------------------------------------------
(* The driver *)

\* What the main loop does once it has been called.
MainStep ==
  \/ WriteGruntAction \/ WriteGruntValue \/ AppendGrunt \/ DisableTask
  \/ MakeReady \/ SetToReceiving \/ EnableInterrupts \/ OnAsyncRestore
  \/ OnTransmitPowerUpdated \/ OnChannelUpdated
  \/ SendPacket \/ Claim \/ Transmit \/ OnTransmitted \/ AwaitTransmissionEnd
  \/ ProcessSent \/ ProcessIncoming \/ PacketTaken \/ PacketAcked
  \/ \E p \in Powers : PacketSetsPower(p)

\* Calls of the services.
ServiceStep ==
  \/ OnStart
  \/ \E p \in Powers : SetTransmitPower(p)
  \/ \E c \in Channels : SetChannel(c)
  \/ \E h \in Headers : ServiceSends(h) \/ ServiceTimesOut(h)

InterruptStep ==
  \/ OnIncoming \/ OnReceiveBegin \/ OnReceivedFail \/ OnSentOk \/ OnBatteryAlarm

Next == MainStep \/ Callback \/ ServiceStep \/ InterruptStep

Spec == Init /\ [][Next]_vars

\* The main loop goes on with the call it is in, and the scheduler runs the
\* task of the queue while it is enabled: the interrupt cannot hold it up for
\* ever, nor can the services, whose tasks have a lower priority.
Fairness == WF_vars(MainStep) /\ SF_vars(Callback)

FairSpec == Spec /\ Fairness

----------------------------------------------------------------------------
(* Properties *)

Steps ==
  {"GruntAction", "GruntValue", "AppendToQueue", "Disable", "RestoreToReceiving",
   "SetToReceiving", "EnableInterrupts", "OnAsyncRestore", "OnTransmitPowerUpdated",
   "OnChannelUpdated", "SendPacket", "Claim", "Transmit", "OnTransmitted",
   "AwaitTransmissionEnd", "ProcessSent", "ProcessIncoming", "Received"}

Drivers ==
  [state : DriverActiveStates, lastSentHeader : Headers \cup {Ack, None}, grunt : Events,
   currentPower : Powers \cup {None}, lastPower : Powers \cup {None},
   currentChannel : Channels, lastChannel : Channels \cup {None}, channelPending : BOOLEAN]

Radios ==
  [mode : {"Sleep", "Listening", "Receiving", "Holding", "Transmitting"},
   channel : Channels \cup {None}, header : Headers \cup {Ack, None}]

\* The types of the fields, and a queue that never outgrows its ring buffer.
TypeOK ==
  /\ events \in Seq(Events) /\ Len(events) <= QueueSize /\ enabled \in BOOLEAN
  /\ driver \in Drivers /\ radio \in Radios /\ irq \in BOOLEAN /\ lost \in BOOLEAN
  /\ todo \in Seq([step : Steps, arg : Events \cup Headers \cup {Ack, None}])
  /\ waiting \subseteq Headers /\ sent \subseteq Headers \cup {Ack}

Queued(actions) == \E i \in 1..Len(events) : events[i].action \in actions

Doing(steps) == \E i \in 1..Len(todo) : todo[i].step \in steps

\* While the interrupts of the radio are off, the event that will turn them on
\* is in the queue or being served, however the events of both sides mix in it
\* (OnReceiveBegin turns them off, ProcessIncoming on).
DeafIsServed ==
  ~irq /\ ~lost =>
    Queued({"ProcessIncomingPacket"}) \/ Doing({"ProcessIncoming", "Received", "EnableInterrupts"})

\* Between two tasks of the main loop the driver is never in a state it cannot
\* leave: with no restoring event queued, it is receiving, on its channel
\* unless a change of it is pending, or the end of a transmission is to come.
RadioAttended ==
  Idle /\ Started /\ ~lost /\ ~Queued(Restoring) =>
    IF driver.state \in {"ReadyForAnything", "BlockedForIncoming"}
    THEN /\ radio.mode \in {"Listening", "Receiving"}
         /\ driver.channelPending \/ radio.channel = driver.currentChannel
    ELSE driver.state = "WaitingForTransmissionEnd" /\ radio.mode = "Transmitting"

\* A service is told that its packet was sent only when its own transmission
\* has ended: never for one the driver cut short, nor for another's
\* (LastSentHeader, written by both sides).
CreditIsEarned ==
  ~lost =>
    \A i \in 1..Len(events) :
      events[i].action = "ProcessSentOk" /\ events[i].value \in waiting => events[i].value \in sent

\* Once a packet has turned the interrupts off, it is processed and they come
\* back on, whatever else keeps coming into the queue, as long as the task of
\* the queue is enabled.
ReceptionComesBack == ~irq ~> irq \/ lost \/ ~enabled

\* The README: "When receiving, it tries to throw the incoming packet to one of
\* the registered LoLa Services." The packet the interrupt queued is processed.
ReceptionIsProcessed == ~irq ~> irq \/ lost

=============================================================================
