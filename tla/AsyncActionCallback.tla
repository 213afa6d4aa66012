------------------------ MODULE AsyncActionCallback ------------------------
(***************************************************************************)
(* The event queue between the radio interrupt and the main loop, and the  *)
(* scheduler task that serves it (PacketDriver/AsyncActionCallback.h, over *)
(* the ring buffer and the scheduler, which are libraries). The interrupt  *)
(* and the main loop both append; only the task removes.                   *)
(***************************************************************************)
EXTENDS Naturals, Sequences

CONSTANT QueueSize      \* elements of the ring buffer

ASSUME QueueAssumption == QueueSize \in Nat \ {0}

VARIABLES
  events,               \* EventQueue
  enabled               \* the task is enabled: the scheduler will run it

callbackVars == <<events, enabled>>

\* Fault: the newest event is served first.
AddForceInFront(s, e) == IF Len(s) < QueueSize THEN <<e>> \o s ELSE <<e>> \o Tail(s)

\* Fault: the queue grows without a bound.
AddForceUnbounded(s, e) == Append(s, e)

\* A full ring buffer makes room by dropping its oldest element.
AddForce(s, e) == IF Len(s) < QueueSize THEN Append(s, e) ELSE Append(Tail(s), e)

Dropped(s) == IF Len(s) < QueueSize THEN {} ELSE {Head(s)}

\* Easing the next event only delays the task.
AppendToQueue(e) == events' = AddForce(events, e) /\ enabled' = TRUE

\* Callback takes the oldest event, which it then fires.
Pull == enabled /\ events # <<>> /\ events' = Tail(events) /\ UNCHANGED enabled

\* Callback finds none: it goes on to Disable, and an interrupt may come first.
PullFails == enabled /\ events = <<>> /\ UNCHANGED callbackVars

Disable == enabled' = FALSE /\ UNCHANGED events

=============================================================================
