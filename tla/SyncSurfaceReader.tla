-------------------------- MODULE SyncSurfaceReader --------------------------
(***************************************************************************)
(* The end whose surface follows the writer's                              *)
(* (SyncSurface/SyncSurfaceReader.h), as operators on its record, which    *)
(* also has the field good (DataGood). Its tracker is left out: it is only *)
(* ever written.                                                           *)
(***************************************************************************)
EXTENDS AbstractSync

InitialReader(d) ==
  [data |-> d, crc |-> None, sync |-> "Disabled", enabled |-> FALSE,
   status |-> "Done", out |-> None, inbox |-> None, good |-> FALSE]

Readers ==
  [data : Surfaces, crc : Hashes \cup {None}, sync : SyncStateEnum, enabled : BOOLEAN,
   status : SendStatusEnum, out : Packets \cup {None}, inbox : Packets \cup {None},
   good : BOOLEAN]

\* OnStateUpdated. The first time the data is good the application is told, and
\* so is this service itself (SurfaceDataChangedEvent): it is Syncing again.
ReaderStateUpdated(s) ==
  CASE s.sync = "Synced" /\ s.good  -> UpdateHash(s)
    [] s.sync = "Synced" /\ ~s.good -> Enter([s EXCEPT !.good = TRUE], "Syncing")
    [] s.sync = "Disabled"          -> [s EXCEPT !.good = FALSE]
    [] OTHER                        -> s

UpdateReaderState(s, newState) ==
  IF s.sync = newState THEN s ELSE ReaderStateUpdated(Enter(s, newState))

\* A block takes a reader that was Synced back to Syncing (SurfaceDataChangedEvent).
OnBlockReceived(s, i, v) ==
  LET u == InvalidateHash([s EXCEPT !.data[i] = v])
  IN  CASE s.sync = "WaitingForServiceDiscovery" ->
             [UpdateReaderState(u, "Syncing") EXCEPT !.good = FALSE]
        [] s.sync = "Synced" -> UpdateReaderState(u, "Syncing")
        [] OTHER             -> u

OnUpdateFinishedReceived(s, hash) ==
  LET replied == RequestMetaPacket(s, "UpdateFinishedReply")
      match   == replied.crc = hash
  IN  CASE s.sync = "Synced" /\ match -> replied
        [] s.sync = "Synced" /\ ~match ->
             UpdateReaderState(RequestMetaPacket(s, "InvalidateRequest"), "Syncing")
        [] OTHER -> UpdateReaderState(replied, IF match THEN "Synced" ELSE "Syncing")

ReaderProcessPacket(s, p) ==
  CASE p.kind = "Block"          -> OnBlockReceived(s, p.id, p.payload)
    [] p.kind = "UpdateFinished" -> OnUpdateFinishedReceived(s, p.payload)
    [] OTHER                     -> s

\* LastSent is never stamped: a discovery is sent on every run, until half a
\* second has passed.
SendServiceDiscovery(s) == RequestMetaPacket(s, "ServiceDiscovery")

ReaderOnService(s) ==
  LET u == UpdateHash(s)
  IN  CASE s.sync = "WaitingForServiceDiscovery" -> {Disable(u), SendServiceDiscovery(u)}
        [] s.sync \in {"Syncing", "Synced"}      -> {u}
        [] OTHER                                 -> {Disable(u)}

=============================================================================
