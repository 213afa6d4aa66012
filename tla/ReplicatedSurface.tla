-------------------------- MODULE ReplicatedSurface --------------------------
(***************************************************************************)
(* What a synchronised surface promises to the applications at its two     *)
(* ends: a replica that follows its source block by block, never ahead and *)
(* never back, and a confirmation given only while the two are the same.   *)
(***************************************************************************)

CONSTANTS
  Blocks,
  Values,
  InitialValue,
  After         \* <<v, w>>: w is v, or may be written some time after v

VARIABLES source, replica, confirmed

vars == <<source, replica, confirmed>>

Init ==
  /\ source = [i \in Blocks |-> InitialValue]
  /\ replica = source
  /\ confirmed = FALSE

Write(i, v) ==
  /\ <<source[i], v>> \in After
  /\ source' = [source EXCEPT ![i] = v]
  /\ confirmed' = FALSE
  /\ UNCHANGED replica

\* A block of the replica takes a value the source has, or has had since the
\* one the replica holds.
Copy(i, v) ==
  /\ <<replica[i], v>> \in After /\ <<v, source[i]>> \in After
  /\ replica' = [replica EXCEPT ![i] = v]
  /\ UNCHANGED <<source, confirmed>>

Confirm ==
  /\ replica = source
  /\ confirmed' = TRUE
  /\ UNCHANGED <<source, replica>>

\* The link is lost, or an end starts over.
Doubt ==
  /\ confirmed' = FALSE
  /\ UNCHANGED <<source, replica>>

Next ==
  \/ \E i \in Blocks, v \in Values : Write(i, v) \/ Copy(i, v)
  \/ Confirm \/ Doubt

Spec == Init /\ [][Next]_vars

=============================================================================
