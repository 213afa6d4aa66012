---------------------------- MODULE AbstractSync ----------------------------
(***************************************************************************)
(* What the two ends of a synchronised surface share: the surface and its  *)
(* cached hash (SyncSurface/ITrackedSurface.h), the synchronisation state  *)
(* (AbstractSync.h, SyncSurfaceBase.h) and the one packet each end may     *)
(* have on its way (IPacketSendService.h).                                 *)
(*                                                                         *)
(* An end is a record with at least the fields                             *)
(*   data     the blocks of the surface                                    *)
(*   crc      LastCRC, None when HashNeedsUpdate                           *)
(*   sync     SyncState                                                    *)
(*   enabled  the scheduler runs its task                                  *)
(*   status   SendStatus                                                   *)
(*   out      Packet, None when it has no definition                       *)
(*   inbox    the packet its driver holds, None when free                  *)
(*                                                                         *)
(* LastRemoteHash is left out: every meta packet sets it, and it is read   *)
(* only while the packet that set it is processed.                         *)
(***************************************************************************)
EXTENDS Integers

CONSTANTS
  None,
  BlockCount,
  Values,         \* what a block may hold
  Crc(_)          \* hash of the blocks of a surface

ASSUME BlockAssumption == BlockCount \in Nat \ {0}

Blocks == 0 .. BlockCount - 1

Surfaces == [Blocks -> Values]

\* An idealisation: the code's hash is a CRC-8, which has collisions as soon as
\* there are more than 256 surfaces. What is checked and proved holds for a hash
\* that tells the surfaces of an instance apart.
ASSUME CrcAssumption == \A d, e \in Surfaces : Crc(d) = Crc(e) => d = e

Hashes == {Crc(d) : d \in Surfaces}

SyncStateEnum == {"WaitingForServiceDiscovery", "Syncing", "Synced", "Disabled"}

MetaKinds == {"ServiceDiscovery", "UpdateFinished", "UpdateFinishedReply", "InvalidateRequest"}

BlockPackets == [kind : {"Block"}, id : Blocks, payload : Values]

Packets == [kind : MetaKinds, payload : Hashes] \cup BlockPackets

ASSUME NoneAssumption == None \notin Hashes \cup Packets

SendStatusEnum == {"Done", "SendingPacket", "WaitingForSentOk"}

UpdateHash(s) == [s EXCEPT !.crc = IF @ = None THEN Crc(s.data) ELSE @]

InvalidateHash(s) == [s EXCEPT !.crc = None]

\* UpdateSyncState for a new state, up to the OnStateUpdated of the end.
Enter(s, newState) ==
  [s EXCEPT !.sync = newState, !.enabled = TRUE,
            !.crc = IF newState \in {"Syncing", "Synced"} THEN None ELSE @]

\* The link of this end is up: it takes packets.
HasLink(s) == s.sync # "Disabled"

RequestSendPacket(s, p) == [s EXCEPT !.out = p, !.status = "SendingPacket"]

ClearSendRequest(s) == [s EXCEPT !.out = None, !.status = "Done"]

\* The hash of a meta packet is that of the moment it is prepared.
RequestMetaPacket(s, kind) ==
  LET u == UpdateHash(s) IN RequestSendPacket(u, [kind |-> kind, payload |-> u.crc])

\* AllowedSend: the driver of this end holds no packet.
AllowedSend(s) == s.inbox = None

Runs(s, status) == s.enabled /\ s.status = status

\* OnService of an end in WaitingForServiceDiscovery or Disabled may end so.
Disable(s) == [s EXCEPT !.enabled = FALSE]

=============================================================================
