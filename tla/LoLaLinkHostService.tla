------------------------ MODULE LoLaLinkHostService ------------------------
(***************************************************************************)
(* The host end of a link: it opens sessions, answers the remote that asks *)
(* for one, measures the latency and closes the handshake                  *)
(* (Services/Link/LoLaLinkHostService.h).                                  *)
(***************************************************************************)
EXTENDS LoLaLinkService

\* Stages of AwaitingLink.
BroadcastingOpenSession == 0
HostValidatingPartner == 1
HostSendingPublicKey == 2
ProcessingPKC == 3
GotSharedKey == 4
LinkingSwitchOver == 5

\* Stages of Linking, on both ends.
InfoSyncStage == 0
ClockSyncStage == 1
LinkProtocolSwitchOver == 2
LinkingDone == 3

HostIs(h, state, stage) == h \in Hosts /\ AtStage(h, state, stage)

NewSession(s, id) == [ClearSession(s) EXCEPT !.session = id]

\* Fault: an attempt is given up without clearing its session.
RestartKeepingSession(s) == SetLinkingState(s, BroadcastingOpenSession)

RestartAwaitingLink(s) == SetLinkingState(ClearSession(s), BroadcastingOpenSession)

IdBroadcast(h, s) == [Packet("Short", "HostIdBroadcast", s.session) EXCEPT !.peer = h]

HostPublicKey(s) == [Packet("Long", "HostPublicKey", s.session) EXCEPT !.key = s.kx.local]

SwitchOverRequest(s) == [Packet("ShortWithAck", None, s.session) EXCEPT !.peer = s.partner]

CryptoStartRequest(s) == [SwitchOverRequest(s) EXCEPT !.seal = s.enc.block]

----------------------------------------------------------------------------
(* OnAwaitingLink *)

\* The session is missing, was never stamped or is over: open another one,
\* and broadcast it in the same run if the broadcast period has passed.
HostOpensSession(h) ==
  /\ HostIs(h, "AwaitingLink", BroadcastingOpenSession)
  /\ \E id \in Sessions :
       LET s == [NewSession(node[h], id) EXCEPT !.sessionStamped = TRUE]
       IN  Become(h, s) \/ Become(h, RequestSendPacket(s, IdBroadcast(h, s)))

HostBroadcasts(h) ==
  /\ HostIs(h, "AwaitingLink", BroadcastingOpenSession)
  /\ HasSessionId(node[h]) /\ node[h].sessionStamped
  /\ Become(h, RequestSendPacket(node[h], IdBroadcast(h, node[h])))

HostValidatesPartner(h) ==
  /\ HostIs(h, "AwaitingLink", HostValidatingPartner)
  /\ Become(h, [SetLinkingState(node[h], HostSendingPublicKey) EXCEPT
                  !.enc = SetIvData(@, node[h].session, h, node[h].partner)])

HostSendsPublicKey(h) ==
  /\ HostIs(h, "AwaitingLink", HostSendingPublicKey)
  /\ Become(h, RequestSendPacket(node[h], HostPublicKey(node[h])))

HostProcessesPKC(h) ==
  /\ HostIs(h, "AwaitingLink", ProcessingPKC)
  /\ CanGenerateSharedKey(node[h].kx)
  /\ Become(h, [SetLinkingState(node[h], GotSharedKey) EXCEPT
                  !.kx = GenerateSharedKey(@),
                  !.enc = SetSecretKey(@, SharedKey(node[h].kx))])

\* The key pair was renewed before the shared key was computed.
HostFailsPKC(h) ==
  /\ HostIs(h, "AwaitingLink", ProcessingPKC)
  /\ ~CanGenerateSharedKey(node[h].kx)
  /\ Become(h, RestartAwaitingLink(node[h]))

\* LOLA_LINK_SERVICE_UNLINK_MAX_BEFORE_PKC_CANCEL has passed.
HostCancelsPKC(h) ==
  /\ h \in Impatient
  /\ \/ HostIs(h, "AwaitingLink", HostSendingPublicKey)
     \/ HostIs(h, "AwaitingLink", GotSharedKey)
  /\ Become(h, RestartAwaitingLink(node[h]))

HostRequestsCryptoStart(h) ==
  /\ HostIs(h, "AwaitingLink", GotSharedKey)
  /\ Become(h, RequestSendPacket(node[h], CryptoStartRequest(node[h])))

----------------------------------------------------------------------------
(* OnLinking *)

HostPings(h) ==
  /\ HostIs(h, "Linking", InfoSyncStage)
  /\ node[h].infoStage = 0 /\ node[h].samples < MinLatencySamples
  /\ \E id \in RequestIds : Become(h, RequestSendPacket(node[h], Packet("Ping", None, id)))

HostSetsLatency(h) ==
  /\ HostIs(h, "Linking", InfoSyncStage)
  /\ node[h].infoStage = 0 /\ node[h].samples >= MinLatencySamples
  /\ Become(h, [node[h] EXCEPT !.infoStage = 1])

HostRequestsInfo(h) ==
  /\ HostIs(h, "Linking", InfoSyncStage)
  /\ node[h].infoStage = 1 /\ ~node[h].hasRssi
  /\ Become(h, RequestSendPacket(node[h], Packet("Report", "InfoSyncRequest", INVALID_SESSION)))

HostHasInfo(h) ==
  /\ HostIs(h, "Linking", InfoSyncStage)
  /\ node[h].infoStage = 1 /\ node[h].hasRssi
  /\ Become(h, [node[h] EXCEPT !.infoStage = 2])

HostSendsInfo(h) ==
  /\ HostIs(h, "Linking", InfoSyncStage)
  /\ node[h].infoStage = 2
  /\ Become(h, RequestSendPacket(node[h], Packet("Report", "InfoSyncHost", INVALID_SESSION)))

HostIsSynced(s) == s.goodCount > MinClockSamples

\* Estimations are counted up to what IsSynced asks for; a bad one starts the
\* count over until then.
OnEstimationReceived(s, good) ==
  [s EXCEPT !.goodCount = IF HostIsSynced(s) THEN @ ELSE IF good THEN @ + 1 ELSE 0]

HostAnswersClock(h, sub) ==
  /\ node[h].txn.stage = "ResultIn"
  /\ \E good \in BOOLEAN :
       Become(h, RequestSendPacket(
                   [OnEstimationReceived(node[h], good) EXCEPT !.txn = ClearTransaction],
                   Packet("Short", sub, node[h].txn.id)))

HostSyncsClock(h) ==
  /\ HostIs(h, "Linking", ClockSyncStage) /\ ~HostIsSynced(node[h])
  /\ HostAnswersClock(h, "NtpReply")

HostClockSynced(h) ==
  /\ HostIs(h, "Linking", ClockSyncStage) /\ HostIsSynced(node[h])
  /\ Become(h, SetLinkingState(node[h], LinkProtocolSwitchOver))

HostRequestsSwitchOver(h) ==
  /\ HostIs(h, "Linking", LinkProtocolSwitchOver)
  /\ Become(h, RequestSendPacket(node[h], SwitchOverRequest(node[h])))

\* OnKeepingLink, once no report is pending.
HostTunesClock(h) ==
  /\ h \in Hosts /\ Serving(h, "Linked") /\ ~node[h].reportPending
  /\ HostAnswersClock(h, "NtpTuneReply")

----------------------------------------------------------------------------
(* Packets received *)

OnLinkDiscoveryReceived(s) ==
  [s EXCEPT !.awake = @ \/ s.linkState = "AwaitingSleeping"]

OnPKCRequestReceived(s, p) ==
  IF /\ s.linkState = "AwaitingLink" /\ s.linkingState = BroadcastingOpenSession
     /\ HasSessionId(s) /\ s.session = p.id
  THEN [SetLinkingState(s, HostValidatingPartner) EXCEPT !.partner = p.peer]
  ELSE s

\* Any remote that knows the session is listened to, not only the partner.
OnRemotePublicKeyReceived(s, p) ==
  IF /\ s.linkState = "AwaitingLink" /\ s.linkingState = HostSendingPublicKey
     /\ HasSessionId(s) /\ s.session = p.id /\ s.kx.stage = "LocalKey"
  THEN [SetLinkingState(s, ProcessingPKC) EXCEPT !.kx = SetPartnerPublicKey(@, p.key)]
  ELSE s

OnRemoteInfoSyncReceived(s) ==
  [s EXCEPT !.hasRssi = @ \/ (s.linkState = "Linking" /\ s.linkingState = InfoSyncStage)]

\* The request that finds the information complete opens the clock sync.
OnClockSyncRequestReceived(s, p) ==
  LET asked == [s EXCEPT !.txn = [stage |-> "ResultIn", id |-> p.id]]
      ready == s.samples >= MinLatencySamples /\ s.hasRssi
  IN  IF s.linkState # "Linking" THEN s
      ELSE CASE s.linkingState = InfoSyncStage ->
                  IF ready THEN SetLinkingState(asked, ClockSyncStage) ELSE asked
             [] s.linkingState = ClockSyncStage -> asked
             [] OTHER -> [s EXCEPT !.txn = ClearTransaction]

OnClockSyncTuneRequestReceived(s, p) ==
  IF s.linkState = "Linked"
  THEN [s EXCEPT !.txn = [stage |-> "ResultIn", id |-> p.id]]
  ELSE s

HostProcessPacket(s, p) ==
  CASE p.sub = "LinkDiscovery"    -> OnLinkDiscoveryReceived(s)
    [] p.sub = "PkcStartRequest"  -> OnPKCRequestReceived(s, p)
    [] p.sub = "RemotePublicKey"  -> OnRemotePublicKeyReceived(s, p)
    [] p.sub = "InfoSyncRemote"   -> OnRemoteInfoSyncReceived(s)
    [] p.sub = "NtpRequest"       -> OnClockSyncRequestReceived(s, p)
    [] p.sub = "NtpTuneRequest"   -> OnClockSyncTuneRequestReceived(s, p)
    [] p.sub \in {"LinkReport", "LinkReportWithReply"} -> OnLinkInfoReportReceived(s, p)
    [] OTHER -> s

\* OnAckReceived: the answer to the packet in hand. Only a host sends packets
\* with ack. A ping answered too late gives no sample.
HostAckReceived(s) ==
  CASE s.out.header = "Ping" /\ s.linkState = "Linking" /\ s.linkingState = InfoSyncStage ->
         {s, [s EXCEPT !.samples = IF @ < MinLatencySamples THEN @ + 1 ELSE @]}
    [] /\ s.out.header = "ShortWithAck" /\ s.linkState = "AwaitingLink"
       /\ s.linkingState = GotSharedKey /\ s.session = s.out.id ->
         {SetLinkingState(s, LinkingSwitchOver)}
    [] /\ s.out.header = "ShortWithAck" /\ s.linkState = "Linking"
       /\ s.linkingState = LinkProtocolSwitchOver /\ s.session = s.out.id ->
         {SetLinkingState(s, LinkingDone)}
    [] OTHER -> {s}

=============================================================================
