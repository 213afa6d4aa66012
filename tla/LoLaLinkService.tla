-------------------------- MODULE LoLaLinkService --------------------------
(***************************************************************************)
(* What the host and the remote link services share: the state of a node,  *)
(* the transitions of UpdateLinkState, the send service with its one       *)
(* pending packet, and the packets of the protocol                         *)
(* (Services/Link/LoLaLinkService.h, Services/Link/AbstractLinkService.h,  *)
(* Services/IPacketSendService.h, LoLaLinkInfo.h).                         *)
(*                                                                         *)
(* A node is a record; the operators below take the record of a node and   *)
(* return the updated one, as the methods of the service update its fields.*)
(* Every clock comparison of the code ("elapsed > period") is a choice:    *)
(* a time-out may fire at any run of the service.                          *)
(***************************************************************************)
EXTENDS LoLaCrypto

CONSTANTS
  RequestIds,         \* ids random() can give to a ping or a transaction
  MinLatencySamples,  \* LOLA_LINK_SERVICE_UNLINK_MIN_LATENCY_SAMPLES
  MinClockSamples,    \* LOLA_LINK_SERVICE_UNLINK_MIN_CLOCK_SAMPLES
  Stoppable,          \* bound: nodes whose application may call Stop
  Expiring,           \* bound: nodes whose key pair reaches its lifetime
  Impatient           \* bound: nodes whose stage and state time-outs fire

ASSUME RoleAssumption == Hosts \cap Remotes = {}
ASSUME IdAssumption == INVALID_SESSION \in Ids /\ RequestIds \subseteq Ids
ASSUME SampleAssumption == MinLatencySamples \in Nat /\ MinClockSamples \in Nat

VARIABLE node         \* node[n] is the state of node n

Sessions == Ids \ {INVALID_SESSION}

----------------------------------------------------------------------------
(* Packets *)

Headers == {"Ack", "Ping", "Short", "ShortWithAck", "Long", "Report"}

SubHeaders ==
  {"LinkDiscovery", "HostIdBroadcast", "HostPublicKey", "PkcStartRequest",
   "RemotePublicKey", "InfoSyncRequest", "InfoSyncHost", "NtpReply",
   "InfoSyncRemote", "NtpRequest", "NtpTuneRequest", "NtpTuneReply",
   "LinkReport", "LinkReportWithReply"}

ASSUME NoneAssumption == None \notin Nodes \cup Headers \cup SubHeaders \cup CipherBlocks

\* The sub-header of an ack is the header of the packet it answers. Only a
\* crypto start request is sealed: EncodeDirect covers its payload.
Packets == [header : Headers,
            sub    : SubHeaders \cup Headers \cup {None},
            id     : Ids,
            peer   : Nodes \cup {None},
            key    : KeyPairs \cup {None},
            seal   : CipherBlocks \cup {None}]

\* A packet on the air, under the cipher block its sender encoded it with.
Frames == [packet : Packets, cipher : CipherBlocks \cup {None}]

Packet(header, sub, id) ==
  [header |-> header, sub |-> sub, id |-> id, peer |-> None, key |-> None, seal |-> None]

HasACK(p) == p.header \in {"Ping", "ShortWithAck"}

----------------------------------------------------------------------------
(* The state of a node *)

LinkStates == {"Disabled", "Setup", "AwaitingLink", "AwaitingSleeping", "Linking", "Linked"}

SendStatuses == {"Done", "SendingPacket", "SentOk", "WaitingForAck", "AckOk"}

Transactions == [stage : {"Clear", "Requested", "ResultIn"}, id : Ids]

ClearTransaction == [stage |-> "Clear", id |-> INVALID_SESSION]

\* LinkingState counts the stages of AwaitingLink and, again, those of Linking.
NodeStates ==
  [linkState      : LinkStates,
   linkingState   : 0..5,
   infoStage      : 0..2,
   awake          : BOOLEAN,            \* the next run of a sleeping host is due
   session        : Ids,
   sessionStamped : BOOLEAN,            \* SessionLastStarted is set
   partner        : Nodes \cup {None},
   hasRssi        : BOOLEAN,            \* PartnerRSSISamples is not empty
   samples        : 0..MinLatencySamples,
   goodCount      : 0..(MinClockSamples + 1),
   txn            : Transactions,
   kx             : KeyExchangers,
   keysStamped    : BOOLEAN,            \* KeysLastGenerated is set
   enc            : Encoders,
   reportPending  : BOOLEAN,
   status         : SendStatuses,
   out            : Packets \cup {None},  \* OutPacket, None without definition
   inbox          : Frames \cup {None}]   \* IncomingPacket of the driver

\* A node after Setup, before it is first enabled.
InitialNode ==
  [linkState |-> "Disabled", linkingState |-> 0, infoStage |-> 0, awake |-> TRUE,
   session |-> INVALID_SESSION, sessionStamped |-> FALSE, partner |-> None,
   hasRssi |-> FALSE, samples |-> 0, goodCount |-> 0, txn |-> ClearTransaction,
   kx |-> ClearKeyExchanger, keysStamped |-> FALSE, enc |-> ClearEncoder,
   reportPending |-> FALSE, status |-> "Done", out |-> None, inbox |-> None]

HasSessionId(s) == s.session # INVALID_SESSION

HasSession(s) == HasSessionId(s) /\ s.partner # None

\* LinkInfo.Reset: the id of the partner outlives it.
ResetLinkInfo(s) == [s EXCEPT !.session = INVALID_SESSION, !.hasRssi = FALSE]

\* Fault: the session is cleared, the encoder is not.
ClearSessionKeepingCipher(s) ==
  [ResetLinkInfo(s) EXCEPT
     !.reportPending = FALSE, !.goodCount = 0, !.txn = ClearTransaction,
     !.kx = ClearPartner(@), !.infoStage = 0, !.samples = 0, !.sessionStamped = FALSE]

ClearSession(s) ==
  [ResetLinkInfo(s) EXCEPT
     !.reportPending = FALSE, !.goodCount = 0, !.txn = ClearTransaction,
     !.enc = ClearEncoder, !.kx = ClearPartner(@), !.infoStage = 0,
     !.samples = 0, !.sessionStamped = FALSE]

SetLinkingState(s, stage) == [s EXCEPT !.linkingState = stage]

RequestSendPacket(s, p) == [s EXCEPT !.out = p, !.status = "SendingPacket"]

ClearSendRequest(s) == [s EXCEPT !.out = None, !.status = "Done"]

----------------------------------------------------------------------------
(* UpdateLinkState, one operator per new state *)

\* OnStart restores the receiver: a packet not yet processed is dropped.
RestartDriver(s) == [s EXCEPT !.inbox = None]

LeaveLinked(s) == IF s.linkState = "Linked" THEN RestartDriver(ClearSession(s)) ELSE s

ToSetup(s) ==
  [RestartDriver(ClearSession(SetLinkingState(s, 0))) EXCEPT !.linkState = "Setup"]

\* The host opens a random session, the remote generates a key pair.
ToAwaitingLink(n, s) ==
  LET cleared == [SetLinkingState(ClearSession(LeaveLinked(s)), 0)
                    EXCEPT !.linkState = "AwaitingLink"]
  IN  IF n \in Hosts
      THEN {[cleared EXCEPT !.session = id] : id \in Sessions}
      ELSE {[cleared EXCEPT !.kx = GenerateNewKeyPair(@, k)] : k \in FreshPairs(n, s.kx)}

\* A host sleeps until a discovery wakes it, a remote for a while.
ToAwaitingSleeping(n, s) ==
  [RestartDriver(SetLinkingState(ClearSession(s), 0))
     EXCEPT !.linkState = "AwaitingSleeping", !.awake = n \in Remotes]

\* Fault: Linking starts without the cipher.
ToLinkingUnencrypted(s) ==
  [SetLinkingState(s, 0) EXCEPT !.infoStage = 0, !.linkState = "Linking"]

\* When SetEnabled fails the nested UpdateLinkState(AwaitingLink) finds the
\* state unchanged and does nothing: the outer call still goes to Linking.
ToLinking(s) ==
  [SetLinkingState(s, 0) EXCEPT !.enc = SetEnabled(@), !.infoStage = 0, !.linkState = "Linking"]

ToLinked(s) ==
  [s EXCEPT !.enc = SetToken(@), !.txn = ClearTransaction, !.linkState = "Linked"]

ToDisabled(s) == [ResetLinkInfo(LeaveLinked(s)) EXCEPT !.linkState = "Disabled"]

----------------------------------------------------------------------------
(* Steps of the service common to both ends (OnService) *)

Become(n, s) == node' = [node EXCEPT ![n] = s]

\* OnService runs only when no packet is being sent, and looks after an
\* AwaitingLink stage only once a key pair was generated.
Serving(n, state) == node[n].status = "Done" /\ node[n].linkState = state

AtStage(n, state, stage) ==
  /\ Serving(n, state)
  /\ state = "AwaitingLink" => node[n].keysStamped
  /\ node[n].linkingState = stage

\* LoLaManager.Start and Stop.
Start(n) == node[n].linkState = "Disabled" /\ Become(n, ToSetup(node[n]))

Stop(n) ==
  /\ n \in Stoppable /\ node[n].linkState # "Disabled"
  /\ Become(n, ToDisabled(node[n]))

AwaitLink(n) ==
  /\ \/ Serving(n, "Setup")
     \/ Serving(n, "AwaitingSleeping") /\ node[n].awake
  /\ \E s \in ToAwaitingLink(n, node[n]) : Become(n, s)

\* The first run of AwaitingLink, or the pair has reached its lifetime,
\* whatever stage the handshake is in.
RenewKeyPair(n) ==
  /\ Serving(n, "AwaitingLink")
  /\ node[n].keysStamped => n \in Expiring
  /\ \E k \in FreshPairs(n, node[n].kx) :
       Become(n, [node[n] EXCEPT !.kx = GenerateNewKeyPair(@, k), !.keysStamped = TRUE])

FallAsleep(n) ==
  /\ n \in Impatient /\ Serving(n, "AwaitingLink")
  /\ node[n].keysStamped
  /\ Become(n, ToAwaitingSleeping(n, node[n]))

StartLinking(n) == AtStage(n, "AwaitingLink", 5) /\ Become(n, ToLinking(node[n]))

CancelLinking(n) ==
  /\ n \in Impatient /\ Serving(n, "Linking")
  /\ \E s \in ToAwaitingLink(n, node[n]) : Become(n, s)

EstablishLink(n) == AtStage(n, "Linking", 3) /\ Become(n, ToLinked(node[n]))

LoseLink(n) ==
  /\ n \in Impatient /\ Serving(n, "Linked")
  /\ \E s \in ToAwaitingLink(n, node[n]) : Become(n, s)

\* The partner went quiet, or the report it holds of this node is due.
ReportDue(n) ==
  /\ Serving(n, "Linked") /\ ~node[n].reportPending
  /\ Become(n, [node[n] EXCEPT !.reportPending = TRUE])

SendReport(n) ==
  /\ Serving(n, "Linked") /\ node[n].reportPending
  /\ \E sub \in {"LinkReport", "LinkReportWithReply"} :
       Become(n, RequestSendPacket(node[n], Packet("Report", sub, INVALID_SESSION)))

----------------------------------------------------------------------------
(* Packets received by both ends *)

\* A report asking for a reply leaves one pending in any state.
OnLinkInfoReportReceived(s, p) ==
  [s EXCEPT !.reportPending = @ \/ p.sub = "LinkReportWithReply",
            !.hasRssi = @ \/ s.linkState = "Linked"]

AcksPing(s, p) == p.header = "Ping" /\ s.linkState \in {"Linking", "Linked"}

=============================================================================
