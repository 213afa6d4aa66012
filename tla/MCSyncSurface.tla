---------------------------- MODULE MCSyncSurface ----------------------------
(***************************************************************************)
(* SyncSurface for TLC: two blocks of small numbers.                       *)
(***************************************************************************)
EXTENDS SyncSurface, Functions

\* A number in base 4: no two of the surfaces have the same hash.
SmallCrc(d) == d[0] + 4 * (IF 1 \in DOMAIN d THEN d[1] ELSE 0)

\* Every write adds one.
WriteCount(d) == FoldFunction(+, 0, d)

\* Two writes, the first block twice or each block once; no value comes back.
TwoWrites ==
  {w \in Surfaces \X Surfaces :
     /\ \A i \in Blocks : w[1][i] <= w[2][i]
     /\ WriteCount(w[2]) = WriteCount(w[1]) + 1 /\ WriteCount(w[2]) <= 2
     /\ w[2][1] < 2}

\* A value comes back.
AnyWrites == Surfaces \X Surfaces

Upwards == {w \in Values \X Values : w[1] <= w[2]}
AnyAfter == Values \X Values

=============================================================================
