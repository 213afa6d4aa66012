---------------------------- MODULE MCDuplexLink ----------------------------
(***************************************************************************)
(* DuplexLink for TLC: a period of ten units, a second of twenty.          *)
(***************************************************************************)
EXTENDS DuplexLink

\* Both counters wrap on the way; the clock of the host does not.
WrappingMicros == {<<60, 57>>, <<60, 3>>}

\* Before the next interrupts of the two RTCs; a clock on micros() has none.
SomePhases == {<<0, 0>>, <<7, 3>>, <<3, 12>>}

OffsetsAtStart == {4, 6}

=============================================================================
