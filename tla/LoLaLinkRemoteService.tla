----------------------- MODULE LoLaLinkRemoteService -----------------------
(***************************************************************************)
(* The remote end of a link: it looks for a host, asks it for a link, and  *)
(* follows the stages the host drives                                      *)
(* (Services/Link/LoLaLinkRemoteService.h).                                *)
(***************************************************************************)
EXTENDS LoLaLinkService

\* Stages of AwaitingLink. Those of Linking are 0..3, as on the host.
SearchingForHost == 0
RemoteValidatingPartner == 1
AwaitingHostPublicKey == 2
ProcessingSharedKey == 3
RemoteSendingPublicKey == 4
RemoteLinkingSwitchOver == 5

RemoteIs(r, state, stage) == r \in Remotes /\ AtStage(r, state, stage)

\* ClearSession and SetLinkingState(SearchingForHost).
SearchAgain(s) == SetLinkingState(ClearSession(s), SearchingForHost)

LinkDiscovery(s) == Packet("Short", "LinkDiscovery", s.session)

PKCStartRequest(r, s) == [Packet("Short", "PkcStartRequest", s.session) EXCEPT !.peer = r]

RemotePublicKey(s) == [Packet("Long", "RemotePublicKey", s.session) EXCEPT !.key = s.kx.local]

----------------------------------------------------------------------------
(* OnAwaitingLink *)

RemoteSearches(r) ==
  /\ RemoteIs(r, "AwaitingLink", SearchingForHost)
  /\ Become(r, RequestSendPacket(node[r], LinkDiscovery(node[r])))

RemoteValidatesPartner(r) ==
  /\ RemoteIs(r, "AwaitingLink", RemoteValidatingPartner)
  /\ Become(r, [SetLinkingState(node[r], AwaitingHostPublicKey) EXCEPT
                  !.enc = SetIvData(@, node[r].session, node[r].partner, r)])

RemoteRequestsPKC(r) ==
  /\ RemoteIs(r, "AwaitingLink", AwaitingHostPublicKey)
  /\ Become(r, RequestSendPacket(node[r], PKCStartRequest(r, node[r])))

RemoteProcessesPKC(r) ==
  /\ RemoteIs(r, "AwaitingLink", ProcessingSharedKey)
  /\ CanGenerateSharedKey(node[r].kx)
  /\ Become(r, [SetLinkingState(node[r], RemoteSendingPublicKey) EXCEPT
                  !.kx = GenerateSharedKey(@),
                  !.enc = SetSecretKey(@, SharedKey(node[r].kx))])

\* The key pair was renewed before the shared key was computed.
RemoteFailsPKC(r) ==
  /\ RemoteIs(r, "AwaitingLink", ProcessingSharedKey)
  /\ ~CanGenerateSharedKey(node[r].kx)
  /\ Become(r, SearchAgain(node[r]))

\* LOLA_LINK_SERVICE_UNLINK_MAX_BEFORE_PKC_CANCEL has passed.
RemoteCancelsPKC(r) ==
  /\ r \in Impatient
  /\ \/ RemoteIs(r, "AwaitingLink", AwaitingHostPublicKey)
     \/ RemoteIs(r, "AwaitingLink", RemoteSendingPublicKey)
  /\ Become(r, SearchAgain(node[r]))

RemoteSendsPublicKey(r) ==
  /\ RemoteIs(r, "AwaitingLink", RemoteSendingPublicKey)
  /\ Become(r, RequestSendPacket(node[r], RemotePublicKey(node[r])))

----------------------------------------------------------------------------
(* OnLinking *)

RemoteSendsInfo(r) ==
  /\ RemoteIs(r, "Linking", 0) /\ node[r].infoStage = 1
  /\ Become(r, RequestSendPacket(node[r], Packet("Report", "InfoSyncRemote", INVALID_SESSION)))

RemoteHasInfo(r) ==
  /\ RemoteIs(r, "Linking", 0) /\ node[r].infoStage = 2
  /\ Become(r, SetLinkingState(node[r], 1))

RequestClock(s, sub, id) ==
  RequestSendPacket([s EXCEPT !.txn = [stage |-> "Requested", id |-> id]],
                    Packet("Short", sub, id))

\* A request out is not repeated: its lifetime is that of the whole Linking
\* state, which is cancelled first.
RemoteSyncsClock(r) ==
  /\ RemoteIs(r, "Linking", 1) /\ node[r].txn.stage # "Requested"
  /\ \/ /\ node[r].txn.stage = "ResultIn"
        /\ Become(r, [node[r] EXCEPT !.txn = ClearTransaction])
     \/ \E id \in RequestIds : Become(r, RequestClock(node[r], "NtpRequest", id))

\* Fault: the remote moves on once its own clock is synchronised.
RemoteSwitchesOverEarly(r) ==
  /\ RemoteIs(r, "Linking", 1)
  /\ Become(r, SetLinkingState(node[r], 3))

RemoteSwitchesOver(r) ==
  /\ RemoteIs(r, "Linking", 2)
  /\ Become(r, SetLinkingState(node[r], 3))

\* OnKeepingLink: unlike OnClockSync, no lifetime bounds a request.
RemoteTunesClock(r) ==
  /\ r \in Remotes /\ Serving(r, "Linked") /\ ~node[r].reportPending
  /\ \/ /\ node[r].txn.stage = "ResultIn"
        /\ Become(r, [node[r] EXCEPT !.txn = ClearTransaction])
     \/ /\ node[r].txn.stage = "Clear"
        /\ \E id \in RequestIds : Become(r, RequestClock(node[r], "NtpTuneRequest", id))

----------------------------------------------------------------------------
(* Packets received *)

\* The broadcast also moves a remote whose host opened another session.
OnIdBroadcastReceived(s, p) ==
  IF /\ s.linkState = "AwaitingLink"
     /\ \/ s.linkingState = SearchingForHost /\ ~HasSession(s)
        \/ /\ s.linkingState \in {RemoteValidatingPartner, AwaitingHostPublicKey}
           /\ HasSession(s) /\ s.partner = p.peer
  THEN IF p.id = INVALID_SESSION
       THEN [s EXCEPT !.session = p.id]
       ELSE [SetLinkingState(s, RemoteValidatingPartner) EXCEPT
               !.session = p.id, !.partner = p.peer]
  ELSE s

OnHostPublicKeyReceived(s, p) ==
  IF /\ s.linkState = "AwaitingLink" /\ s.linkingState = AwaitingHostPublicKey
     /\ HasSession(s) /\ s.session = p.id /\ s.kx.stage = "LocalKey"
  THEN [SetLinkingState(s, ProcessingSharedKey) EXCEPT !.kx = SetPartnerPublicKey(@, p.key)]
  ELSE s

RemoteInfoSyncAt(s, stage) ==
  s.linkState = "Linking" /\ s.linkingState = 0 /\ s.infoStage = stage

OnHostInfoSyncRequestReceived(s) ==
  IF RemoteInfoSyncAt(s, 0) THEN [s EXCEPT !.infoStage = 1] ELSE s

\* Fault: every copy of the information of the host moves the exchange on.
OnEveryHostInfoSyncReceived(s) ==
  IF s.linkState = "Linking" /\ s.linkingState = 0
  THEN [s EXCEPT !.infoStage = @ + 1, !.hasRssi = TRUE]
  ELSE s

OnHostInfoSyncReceived(s) ==
  IF RemoteInfoSyncAt(s, 1) THEN [s EXCEPT !.infoStage = 2, !.hasRssi = TRUE] ELSE s

SetResult(s, id) ==
  IF s.txn = [stage |-> "Requested", id |-> id] THEN [s EXCEPT !.txn.stage = "ResultIn"] ELSE s

OnClockSyncResponseReceived(s, p) ==
  IF s.linkState = "Linking" /\ s.linkingState = 1 THEN SetResult(s, p.id) ELSE s

OnClockSyncTuneResponseReceived(s, p) ==
  IF s.linkState = "Linked" THEN SetResult(s, p.id) ELSE s

RemoteProcessPacket(s, p) ==
  CASE p.sub = "HostIdBroadcast" -> OnIdBroadcastReceived(s, p)
    [] p.sub = "HostPublicKey"   -> OnHostPublicKeyReceived(s, p)
    [] p.sub = "InfoSyncRequest" -> OnHostInfoSyncRequestReceived(s)
    [] p.sub = "InfoSyncHost"    -> OnHostInfoSyncReceived(s)
    [] p.sub = "NtpReply"        -> OnClockSyncResponseReceived(s, p)
    [] p.sub = "NtpTuneReply"    -> OnClockSyncTuneResponseReceived(s, p)
    [] p.sub \in {"LinkReport", "LinkReportWithReply"} -> OnLinkInfoReportReceived(s, p)
    [] OTHER -> s

\* Fault: the challenge is not decoded.
OnUncheckedCryptoStart(r, s, p) ==
  /\ s.linkState = "AwaitingLink" /\ s.linkingState = RemoteSendingPublicKey
  /\ HasSessionId(s) /\ s.session = p.id /\ p.peer = r

\* The challenge: the payload, decoded under the block of this remote, must
\* be its own id. Under another block it decodes to some other number.
OnCryptoStartReceived(r, s, p) ==
  /\ s.linkState = "AwaitingLink" /\ s.linkingState = RemoteSendingPublicKey
  /\ HasSessionId(s) /\ s.session = p.id
  /\ p.seal = s.enc.block /\ p.peer = r

OnLinkProtocolReceived(r, s, p) ==
  /\ s.linkState = "Linking" /\ s.linkingState = 1
  /\ s.session = p.id /\ p.seal = None /\ p.peer = r

\* The state after a packet with ack this remote answers, for the others the
\* ack is withheld (OnAckedPacketReceived).
RemoteAcks(r, s, p) ==
  p.header = "ShortWithAck" /\ (OnCryptoStartReceived(r, s, p) \/ OnLinkProtocolReceived(r, s, p))

\* Fault: the request to switch over is acknowledged and forgotten.
OnForgottenPacketReceived(s) ==
  IF s.linkState = "AwaitingLink" THEN SetLinkingState(s, RemoteLinkingSwitchOver) ELSE s

OnAckedPacketReceived(s) ==
  SetLinkingState(s, IF s.linkState = "AwaitingLink" THEN RemoteLinkingSwitchOver ELSE 2)

=============================================================================
