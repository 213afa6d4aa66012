----------------------------- MODULE SyncSurface -----------------------------
(***************************************************************************)
(* A writer and a reader of one surface, each on one end of a link that    *)
(* comes and goes, over a radio that loses packets. A packet is heard only *)
(* while both ends are in the same link and the receiver holds none.       *)
(***************************************************************************)
EXTENDS SyncSurfaceWriter, SyncSurfaceReader

CONSTANTS
  InitialValue,   \* of every block, at both ends
  Writes,         \* <<old, new>>: the surfaces the application may change, and into what
  After           \* <<v, w>>: a block that holds v may hold w at that time or later

ASSUME WriteAssumption ==
  /\ InitialValue \in Values /\ Writes \subseteq Surfaces \X Surfaces
  /\ \A v \in Values : <<v, v>> \in After
  /\ \A u, v, w \in Values : <<u, v>> \in After /\ <<v, w>> \in After => <<u, w>> \in After
  /\ \A w \in Writes, i \in Blocks : <<w[1][i], w[2][i]>> \in After

\* A block never gets back a value it had before.
NoValueComesBack ==
  \A v, w \in Values : <<v, w>> \in After /\ <<w, v>> \in After => v = w

VARIABLES
  writer,
  reader,
  joinable        \* one end is in a link that the other has still to enter

vars == <<writer, reader, joinable>>

InitialSurface == [i \in Blocks |-> InitialValue]

Init ==
  /\ writer = InitialWriter(InitialSurface)
  /\ reader = InitialReader(InitialSurface)
  /\ joinable = FALSE

----------------------------------------------------------------------------
(* The link *)

\* Setting a link up takes longer than a packet waits for the radio, and goes
\* through the same driver.
Idle(s) == s.out = None /\ s.inbox = None

\* An end enters a link when the other is in none, or has entered this one.
MayLink(me, other) == ~HasLink(me) /\ Idle(me) /\ (HasLink(other) => joinable)

WriterLinkEstablished ==
  /\ MayLink(writer, reader)
  /\ writer' = UpdateWriterState(writer, "WaitingForServiceDiscovery")
  /\ joinable' = ~HasLink(reader)
  /\ UNCHANGED reader

ReaderLinkEstablished ==
  /\ MayLink(reader, writer)
  /\ reader' = UpdateReaderState(reader, "WaitingForServiceDiscovery")
  /\ joinable' = ~HasLink(writer)
  /\ UNCHANGED writer

WriterLinkLost ==
  /\ HasLink(writer)
  /\ writer' = UpdateWriterState(writer, "Disabled")
  /\ joinable' = FALSE
  /\ UNCHANGED reader

ReaderLinkLost ==
  /\ HasLink(reader)
  /\ reader' = UpdateReaderState(reader, "Disabled")
  /\ joinable' = FALSE
  /\ UNCHANGED writer

----------------------------------------------------------------------------
(* The writer *)

Write(i, v) ==
  /\ <<writer.data, [writer.data EXCEPT ![i] = v]>> \in Writes
  /\ writer' = SetBlock(writer, i, v)
  /\ UNCHANGED <<reader, joinable>>

WriterService ==
  /\ Runs(writer, "Done")
  /\ writer' = WriterOnService(writer)
  /\ UNCHANGED <<reader, joinable>>

Linked == HasLink(writer) /\ HasLink(reader)

Hears(s) == Linked /\ s.inbox = None

MaySend(s) == Runs(s, "SendingPacket") /\ AllowedSend(s)

Sending(s) == [s EXCEPT !.status = "WaitingForSentOk"]

WriterSend ==
  /\ MaySend(writer)
  /\ writer' = Sending(writer)
  /\ UNCHANGED <<reader, joinable>>

WriterSendHeard ==
  /\ MaySend(writer) /\ Hears(reader)
  /\ writer' = Sending(writer)
  /\ reader' = [reader EXCEPT !.inbox = writer.out]
  /\ UNCHANGED joinable

WriterSendDelayed ==
  /\ Runs(writer, "SendingPacket")
  /\ writer' = RefreshPacket(writer)
  /\ UNCHANGED <<reader, joinable>>

WriterSendOk ==
  /\ Runs(writer, "WaitingForSentOk")
  /\ writer' = WriterSentOk(writer)
  /\ UNCHANGED <<reader, joinable>>

\* The driver stayed busy, refused the packet, or never told that it was sent.
WriterSendFails ==
  /\ writer.enabled /\ writer.status # "Done"
  /\ writer' = ClearSendRequest(writer)
  /\ UNCHANGED <<reader, joinable>>

WriterReceive ==
  /\ writer.inbox # None
  /\ LET s == [writer EXCEPT !.inbox = None]
     IN  writer' = IF HasLink(s) THEN WriterProcessPacket(s, writer.inbox) ELSE s
  /\ UNCHANGED <<reader, joinable>>

----------------------------------------------------------------------------
(* The reader *)

ReaderService ==
  /\ Runs(reader, "Done")
  /\ reader' \in ReaderOnService(reader)
  /\ UNCHANGED <<writer, joinable>>

ReaderSend ==
  /\ MaySend(reader)
  /\ reader' = Sending(reader)
  /\ UNCHANGED <<writer, joinable>>

ReaderSendHeard ==
  /\ MaySend(reader) /\ Hears(writer)
  /\ reader' = Sending(reader)
  /\ writer' = [writer EXCEPT !.inbox = reader.out]
  /\ UNCHANGED joinable

\* Sent or not, a packet of the reader is forgotten.
ReaderSendEnds ==
  /\ reader.enabled /\ reader.status # "Done"
  /\ reader' = ClearSendRequest(reader)
  /\ UNCHANGED <<writer, joinable>>

ReaderReceive ==
  /\ reader.inbox # None
  /\ LET s == [reader EXCEPT !.inbox = None]
     IN  reader' = IF HasLink(s) THEN ReaderProcessPacket(s, reader.inbox) ELSE s
  /\ UNCHANGED <<writer, joinable>>

----------------------------------------------------------------------------
(* The pair *)

Next ==
  \/ WriterLinkEstablished \/ ReaderLinkEstablished \/ WriterLinkLost \/ ReaderLinkLost
  \/ \E i \in Blocks, v \in Values : Write(i, v)
  \/ WriterService \/ WriterSend \/ WriterSendHeard \/ WriterSendDelayed
  \/ WriterSendOk \/ WriterSendFails \/ WriterReceive
  \/ ReaderService \/ ReaderSend \/ ReaderSendHeard \/ ReaderSendEnds \/ ReaderReceive

Spec == Init /\ [][Next]_vars

Asks(s, kinds) == Linked /\ s.out # None /\ s.out.kind \in kinds

AsksBlock(i) == Asks(writer, {"Block"}) /\ writer.out.id = i

AsksToFinish == Asks(writer, {"UpdateFinished"})

Replies == Asks(reader, {"UpdateFinishedReply", "InvalidateRequest"})

\* Every task of the main loop that can run does. The radio and its slots delay
\* and lose packets, not all of those of a kind that are asked for again and
\* again, and the driver does tell, now and then, that a packet was sent.
Fairness ==
  /\ WF_vars(WriterService) /\ WF_vars(WriterSend \/ WriterSendFails)
  /\ WF_vars(WriterReceive) /\ WF_vars(ReaderReceive)
  /\ WF_vars(ReaderSend \/ ReaderSendEnds)
  /\ SF_vars(WriterSendOk)
  /\ \A i \in Blocks : []<>AsksBlock(i) => []<><<WriterSendHeard /\ AsksBlock(i)>>_vars
  /\ []<>AsksToFinish => []<><<WriterSendHeard /\ AsksToFinish>>_vars
  /\ []<>Replies => []<><<ReaderSendHeard /\ Replies>>_vars

FairSpec == Spec /\ Fairness

----------------------------------------------------------------------------
(* Properties *)

TypeOK == writer \in Writers /\ reader \in Readers /\ joinable \in BOOLEAN

Same == reader.data = writer.data

\* A writer that holds the surface for synchronised, and will send no more, is
\* right: no write got lost on the way, whether it came before, while or after
\* its block was sent, or during another link (OnSendOk unmarks a block that may
\* have been written since; only the hashes tell).
SyncedMeansSame == writer.sync = "Synced" => Same

\* The surface is replicated as its applications expect, over a radio that loses
\* packets and links that come and go: the reader never shows a block that was
\* not written or an older one after a newer, and the writer is Synced only
\* from a moment when both ends held the same data until its next write.
Replicated ==
  INSTANCE ReplicatedSurface
    WITH source    <- writer.data,
         replica   <- reader.data,
         confirmed <- (writer.sync = "Synced")

Replicates == Replicated!Spec

\* Once the writer has begun to synchronise, the reader gets every block and
\* calls its data good, unless the link goes.
ReaderCatchesUp == writer.sync = "Syncing" ~> (Same /\ reader.good) \/ ~Linked

\* The README: "There's a 2-way protocol to ensure data integrity". When the
\* writer is done and no packet is left, the reader has the writer's data.
IntegrityEnsured ==
  writer.sync = "Synced" /\ Idle(writer) /\ Idle(reader) /\ Linked => Same

=============================================================================
