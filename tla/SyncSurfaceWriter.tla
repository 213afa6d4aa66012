-------------------------- MODULE SyncSurfaceWriter --------------------------
(***************************************************************************)
(* The end whose application writes the surface                            *)
(* (SyncSurface/SyncSurfaceWriter.h), as operators on its record, which    *)
(* also has the fields tracker (the blocks marked as changed), writerState *)
(* and index (SurfaceSendingIndex).                                        *)
(***************************************************************************)
EXTENDS AbstractSync

SyncWriterState == {"UpdatingBlocks", "SendingBlock", "SendingFinished"}

InitialWriter(d) ==
  [data |-> d, crc |-> None, sync |-> "Disabled", enabled |-> FALSE,
   status |-> "Done", out |-> None, inbox |-> None,
   tracker |-> {}, writerState |-> "UpdatingBlocks", index |-> 0]

Writers ==
  [data : Surfaces, crc : Hashes \cup {None}, sync : SyncStateEnum, enabled : BOOLEAN,
   status : SendStatusEnum, out : Packets \cup {None}, inbox : Packets \cup {None},
   tracker : SUBSET Blocks, writerState : SyncWriterState, index : 0 .. BlockCount]

UpdateSyncingState(s, newState) == [s EXCEPT !.writerState = newState]

SetAll(s) == [s EXCEPT !.tracker = Blocks]

\* The case of WaitingForServiceDiscovery falls through into that of Syncing.
WriterStateUpdated(s) ==
  CASE s.sync = "WaitingForServiceDiscovery" -> UpdateSyncingState(Disable(s), "UpdatingBlocks")
    [] s.sync = "Syncing"                    -> UpdateSyncingState(s, "UpdatingBlocks")
    [] OTHER                                 -> s

UpdateWriterState(s, newState) ==
  IF s.sync = newState THEN s ELSE WriterStateUpdated(Enter(s, newState))

----------------------------------------------------------------------------
(* The application *)

\* Fault: the cached hash outlives the data it was computed from.
WriterDataChangedKeepingHash(s) ==
  IF s.sync = "Synced" THEN UpdateWriterState(s, "Syncing") ELSE s

\* SurfaceDataChangedEvent, fired by every write.
WriterDataChanged(s) ==
  LET u == InvalidateHash(s)
  IN  IF s.sync = "Synced" THEN UpdateWriterState(u, "Syncing") ELSE u

SetBlock(s, i, v) ==
  WriterDataChanged([s EXCEPT !.data[i] = v, !.tracker = @ \cup {i}])

----------------------------------------------------------------------------
(* Its task *)

\* The first marked block from start on, or else from the first block on.
GetNextSetIndex(tracker, start) ==
  LET ahead      == {i \in tracker : i >= start}
      candidates == IF ahead # {} THEN ahead ELSE tracker
  IN  CHOOSE i \in candidates : \A j \in candidates : i <= j

FirstIndex(s) == IF s.index >= BlockCount THEN 0 ELSE s.index

BlockPacket(s, i) == [kind |-> "Block", id |-> i, payload |-> s.data[i]]

SendNextPendingBlock(s) ==
  LET i == GetNextSetIndex(s.tracker, FirstIndex(s))
  IN  UpdateSyncingState(RequestSendPacket([s EXCEPT !.index = i], BlockPacket(s, i)),
                         "SendingBlock")

HasSet(s) == s.tracker # {}

\* LastSent is never stamped: the confirmation is sent again on every run.
OnSyncActive(s) ==
  CASE s.writerState = "UpdatingBlocks" ->
         IF HasSet(s) THEN SendNextPendingBlock(s) ELSE UpdateSyncingState(s, "SendingFinished")
    [] s.writerState = "SendingBlock" -> UpdateSyncingState(s, "UpdatingBlocks")
    [] s.writerState = "SendingFinished" ->
         IF HasSet(s) THEN UpdateSyncingState(s, "UpdatingBlocks")
         ELSE RequestMetaPacket(s, "UpdateFinished")

WriterOnService(s) ==
  LET u == UpdateHash(s)
  IN  CASE s.sync = "Syncing" -> OnSyncActive(u)
        [] s.sync = "Synced"  -> u
        [] OTHER              -> Disable(u)

SendsBlock(s) == s.sync = "Syncing" /\ s.writerState = "SendingBlock"

\* Fault: whatever was sent counts as the block.
WriterSentOkUnchecked(s) ==
  ClearSendRequest([s EXCEPT !.tracker = @ \ {s.index}, !.index = @ + 1])

\* OnSendOk: the block is no longer marked, even if it was written since.
WriterSentOk(s) ==
  ClearSendRequest(IF SendsBlock(s)
                   THEN [s EXCEPT !.tracker = @ \ {s.index}, !.index = @ + 1]
                   ELSE s)

\* OnSendDelayed and OnSendRetrying: the waiting block takes the latest data.
RefreshPacket(s) ==
  IF SendsBlock(s) THEN [s EXCEPT !.out.payload = s.data[s.index]] ELSE s

----------------------------------------------------------------------------
(* Packets from the reader *)

OnServiceDiscoveryReceived(s) ==
  IF s.sync \in {"Syncing", "Disabled"} THEN s ELSE UpdateWriterState(s, "Syncing")

Restart(s) == UpdateSyncingState(s, "UpdatingBlocks")

\* Fault: a mismatch does not mark the blocks again.
OnReplyWithoutSetAll(s, hash) ==
  LET u == UpdateHash(s)
  IN  CASE s.sync = "Syncing" /\ s.writerState = "SendingFinished" ->
             IF HasSet(u) THEN Restart(u)
             ELSE IF u.crc = hash THEN UpdateWriterState(u, "Synced")
             ELSE Restart(u)
        [] s.sync = "Synced" /\ u.crc # hash -> UpdateWriterState(u, "Syncing")
        [] OTHER -> u

OnUpdateFinishedReplyReceived(s, hash) ==
  LET u == UpdateHash(s)
  IN  CASE s.sync = "Syncing" /\ s.writerState = "SendingFinished" ->
             IF HasSet(u) THEN Restart(u)
             ELSE IF u.crc = hash THEN UpdateWriterState(u, "Synced")
             ELSE Restart(SetAll(u))
        [] s.sync = "Synced" /\ u.crc # hash -> UpdateWriterState(SetAll(u), "Syncing")
        [] OTHER -> u

OnInvalidateRequestReceived(s) ==
  CASE s.sync = "Syncing" -> Restart(SetAll(s))
    [] s.sync = "Synced"  -> UpdateWriterState(SetAll(s), "Syncing")
    [] OTHER              -> s

WriterProcessPacket(s, p) ==
  CASE p.kind = "ServiceDiscovery"    -> OnServiceDiscoveryReceived(s)
    [] p.kind = "UpdateFinishedReply" -> OnUpdateFinishedReplyReceived(s, p.payload)
    [] p.kind = "InvalidateRequest"   -> OnInvalidateRequestReceived(s)
    [] OTHER                          -> s

=============================================================================
