------------------------------ MODULE LoLaLink ------------------------------
(***************************************************************************)
(* Hosts and remotes sharing one radio channel.                            *)
(*                                                                         *)
(* A transmission reaches any set of the nodes that can read it and whose  *)
(* receiver is free: the others lose it, to interference, to a collision,  *)
(* to their cipher block or because they hold a packet already. The driver *)
(* of a node holds one incoming packet, with its interrupts off, until it  *)
(* processes it.                                                           *)
(***************************************************************************)
EXTENDS LoLaLinkHostService, LoLaLinkRemoteService

vars == node

Init == node = [n \in Nodes |-> InitialNode]

----------------------------------------------------------------------------
(* The radio *)

\* A frame its receiver would reject only keeps its driver busy: it is lost.
Hearers(n, f) ==
  {m \in Nodes \ {n} : node[m].inbox = None /\ FrameCipher(node[m].enc) = f.cipher}

\* Node n becomes s, and the nodes of a set that hear it receive frame f.
Transmit(n, s, f) ==
  \E heard \in SUBSET Hearers(n, f) :
    node' = [m \in Nodes |-> IF m = n THEN s
                             ELSE IF m \in heard THEN [node[m] EXCEPT !.inbox = f]
                             ELSE node[m]]

Frame(n, p) == [packet |-> p, cipher |-> FrameCipher(node[n].enc)]

----------------------------------------------------------------------------
(* The send service (IPacketSendService.Callback) *)

Running(n, status) == node[n].linkState # "Disabled" /\ node[n].status = status

\* The driver is free: no incoming packet holds it.
SendPacket(n) ==
  /\ Running(n, "SendingPacket") /\ node[n].inbox = None
  /\ \/ Transmit(n, [node[n] EXCEPT !.status = "SentOk"], Frame(n, node[n].out))
     \/ Transmit(n, ClearSendRequest(node[n]), Frame(n, node[n].out))   \* no sent-ok came

\* The driver stayed busy, or refused the packet too many times.
SendTimesOut(n) ==
  /\ Running(n, "SendingPacket")
  /\ Become(n, ClearSendRequest(node[n]))

\* OnSendOk: a report sent while linked is no longer pending, even if another
\* was asked for since.
SentOk(n) ==
  /\ Running(n, "SentOk")
  /\ LET s == [node[n] EXCEPT
                 !.reportPending = @ /\ ~(node[n].out.header = "Report" /\ node[n].linkState = "Linked")]
     IN  Become(n, IF HasACK(s.out) THEN [s EXCEPT !.status = "WaitingForAck"]
                   ELSE ClearSendRequest(s))

AckTimesOut(n) ==
  /\ Running(n, "WaitingForAck")
  /\ Become(n, ClearSendRequest(node[n]))

AckReceived(n) ==
  /\ Running(n, "AckOk")
  /\ \E s \in HostAckReceived(node[n]) : Become(n, ClearSendRequest(s))

----------------------------------------------------------------------------
(* The driver processes its incoming packet (LoLaPacketDriver.ProcessIncoming) *)

Holds(n, headers) ==
  /\ node[n].inbox # None
  /\ node[n].inbox.cipher = FrameCipher(node[n].enc)
  /\ node[n].inbox.packet.header \in headers

Received(n) == node[n].inbox.packet

\* The state of n with its receiver free again.
Restored(n) == [node[n] EXCEPT !.inbox = None]

\* A frame under another cipher block reads as a header no packet has.
RejectFrame(n) ==
  /\ node[n].inbox # None
  /\ node[n].inbox.cipher # FrameCipher(node[n].enc)
  /\ Become(n, Restored(n))

\* An ack for a packet not waiting for one, or with another id, is eaten.
ProcessAck(n) ==
  /\ Holds(n, {"Ack"})
  /\ LET a == Received(n)
         mine == node[n].status = "WaitingForAck" /\ node[n].out.header = a.sub
                 /\ node[n].out.id = a.id
     IN  Become(n, [Restored(n) EXCEPT !.status = IF mine THEN "AckOk" ELSE @])

WokenByBroadcast(r) ==
  /\ r \in Remotes /\ node[r].linkState = "AwaitingSleeping"
  /\ Received(r).sub = "HostIdBroadcast"

ProcessPacket(n) ==
  /\ Holds(n, {"Short", "Long", "Report"})
  /\ \/ /\ n \in Hosts
        /\ Become(n, HostProcessPacket(Restored(n), Received(n)))
     \/ /\ n \in Remotes /\ ~WokenByBroadcast(n)
        /\ Become(n, RemoteProcessPacket(Restored(n), Received(n)))
     \/ /\ WokenByBroadcast(n)
        /\ \E s \in ToAwaitingLink(n, Restored(n)) :
             Become(n, OnIdBroadcastReceived(s, Received(n)))

\* A packet with ack: the service accepts it, then the driver answers at once.
\* The ack leaves under the encoder as the service left it.
ProcessAckedPacket(n) ==
  /\ Holds(n, {"Ping", "ShortWithAck"})
  /\ LET p == Received(n)
         ack == Frame(n, Packet("Ack", p.header, p.id))
     IN  \/ /\ AcksPing(node[n], p)
            /\ Transmit(n, Restored(n), ack)
         \/ /\ n \in Remotes /\ RemoteAcks(n, node[n], p)
            /\ Transmit(n, OnAckedPacketReceived(Restored(n)), ack)
         \/ /\ ~AcksPing(node[n], p)
            /\ ~(n \in Remotes /\ RemoteAcks(n, node[n], p))
            /\ Become(n, Restored(n))

----------------------------------------------------------------------------
(* The system *)

ManagerStep(n) == Start(n) \/ Stop(n)

DriverStep(n) ==
  \/ RejectFrame(n)
  \/ ProcessAck(n)
  \/ ProcessPacket(n)
  \/ ProcessAckedPacket(n)

SendStep(n) ==
  \/ SendPacket(n)
  \/ SendTimesOut(n)
  \/ SentOk(n)
  \/ AckTimesOut(n)
  \/ AckReceived(n)

LinkStep(n) ==
  \/ AwaitLink(n)
  \/ RenewKeyPair(n)
  \/ FallAsleep(n)
  \/ StartLinking(n)
  \/ CancelLinking(n)
  \/ EstablishLink(n)
  \/ LoseLink(n)
  \/ ReportDue(n)
  \/ SendReport(n)

HostStep(h) ==
  \/ HostOpensSession(h)
  \/ HostBroadcasts(h)
  \/ HostValidatesPartner(h)
  \/ HostSendsPublicKey(h)
  \/ HostProcessesPKC(h)
  \/ HostFailsPKC(h)
  \/ HostCancelsPKC(h)
  \/ HostRequestsCryptoStart(h)
  \/ HostPings(h)
  \/ HostSetsLatency(h)
  \/ HostRequestsInfo(h)
  \/ HostHasInfo(h)
  \/ HostSendsInfo(h)
  \/ HostSyncsClock(h)
  \/ HostClockSynced(h)
  \/ HostRequestsSwitchOver(h)
  \/ HostTunesClock(h)

RemoteStep(r) ==
  \/ RemoteSearches(r)
  \/ RemoteValidatesPartner(r)
  \/ RemoteRequestsPKC(r)
  \/ RemoteProcessesPKC(r)
  \/ RemoteFailsPKC(r)
  \/ RemoteCancelsPKC(r)
  \/ RemoteSendsPublicKey(r)
  \/ RemoteSendsInfo(r)
  \/ RemoteHasInfo(r)
  \/ RemoteSyncsClock(r)
  \/ RemoteSwitchesOver(r)
  \/ RemoteTunesClock(r)

Next == \E n \in Nodes : \/ ManagerStep(n)
                         \/ DriverStep(n)
                         \/ SendStep(n)
                         \/ LinkStep(n)
                         \/ HostStep(n)
                         \/ RemoteStep(n)

Spec == Init /\ [][Next]_vars

----------------------------------------------------------------------------
(* Properties *)

TypeOK == node \in [Nodes -> NodeStates]

\* The IV of the link of n: both ends hash the session, the host, the remote.
LinkIv(n) ==
  [session |-> node[n].session,
   id1     |-> IF n \in Hosts THEN n ELSE node[n].partner,
   id2     |-> IF n \in Hosts THEN node[n].partner ELSE n]

InLink(n) == node[n].linkState \in {"Linking", "Linked"}

\* A node that is linking or linked encrypts, under the IV of its session and
\* its partner, and under the token exactly when it is linked.
EncryptedLink ==
  \A n \in Nodes :
    InLink(n) =>
      /\ node[n].enc.state = "FullPower"
      /\ node[n].enc.block.iv = LinkIv(n)
      /\ node[n].enc.block.token = IF node[n].linkState = "Linked" THEN LinkIv(n) ELSE None

\* Whatever ended the attempt before it, a node at the first stage of
\* AwaitingLink starts from nothing: no cipher, no partner key, no latency,
\* no clock transaction, and, on a remote, no session.
FreshAttempt ==
  \A n \in Nodes :
    node[n].linkState = "AwaitingLink" /\ node[n].linkingState = 0 =>
      /\ node[n].enc = ClearEncoder
      /\ node[n].kx.stage \in {"Clear", "LocalKey"}
      /\ node[n].samples = 0 /\ node[n].goodCount = 0 /\ node[n].txn = ClearTransaction
      /\ n \in Remotes => ~HasSession(node[n])

Partners(h, r) == node[h].partner = r /\ node[r].partner = h

\* Two partners that are both linking or linked are in one session under one
\* key and one IV, although each of them may have restarted the handshake,
\* renewed its key pair or moved to another session while the packets of the
\* attempt before were on the air.
LinkAgreement ==
  \A h \in Hosts, r \in Remotes :
    InLink(h) /\ InLink(r) /\ Partners(h, r) =>
      /\ node[h].session = node[r].session
      /\ node[h].enc.block.key = node[r].enc.block.key
      /\ node[h].enc.block.iv = node[r].enc.block.iv

\* A host takes the link for established.
Committed(h) ==
  \/ node[h].linkState = "Linked"
  \/ node[h].linkState = "Linking" /\ node[h].linkingState = LinkingDone

\* The key of a link was agreed with the partner it names, not with another
\* node that answered in the same session: the services take a public key from
\* whoever sends it. The challenge tells a remote before it links. A host goes
\* on to Linking on an ack in plain text, which may answer an offer before, but
\* it commits only to a partner that shares its key.
AuthenticLink ==
  \A n \in Nodes :
    (IF n \in Remotes THEN InLink(n) ELSE Committed(n)) =>
      \E mine, theirs \in node[n].enc.block.key :
        mine.owner = n /\ theirs.owner = node[n].partner

\* A host takes the link for established only after its partner has switched
\* over: whatever acks were lost, late or repeated, a partner still linking is
\* past its clock synchronisation, so it never waits for a host that stopped
\* answering clock requests.
HostCommitsLast ==
  \A h \in Hosts, r \in Remotes :
    Committed(h) /\ node[r].linkState = "Linking" /\ Partners(h, r)
    => node[r].linkingState >= LinkProtocolSwitchOver

\* A remote switches over only on the request of its host: a host still
\* linking with it has its clock, its latency and its information complete.
RemoteCommitsOnRequest ==
  \A h \in Hosts, r \in Remotes :
    /\ \/ node[r].linkState = "Linked"
       \/ node[r].linkState = "Linking" /\ node[r].linkingState >= LinkProtocolSwitchOver
    /\ node[h].linkState = "Linking" /\ Partners(h, r)
    => node[h].linkingState >= LinkProtocolSwitchOver

\* A cipher in use is never rekeyed: it stays as it is until it is cleared,
\* save for the token, which is set once, when the link is made.
CipherIsFrozen ==
  [][\A n \in Nodes :
       node[n].enc.state = "FullPower" =>
         \/ node'[n].enc \in {node[n].enc, ClearEncoder}
         \/ /\ node[n].linkState = "Linking" /\ node'[n].linkState = "Linked"
            /\ node'[n].enc = SetToken(node[n].enc)
    ]_vars

----------------------------------------------------------------------------
(* What one host and one remote promise together *)

\* A node is in an attempt from its last stage of AwaitingLink on. It joins
\* when it is Linking and goes on to the next phase with the switch-over.
HostPhase(s) ==
  CASE s.linkState = "AwaitingLink" /\ s.linkingState = LinkingSwitchOver    -> "Entered"
    [] s.linkState = "Linking" /\ s.linkingState < LinkProtocolSwitchOver   -> "Joining"
    [] s.linkState = "Linking" /\ s.linkingState = LinkProtocolSwitchOver   -> "Asking"
    [] s.linkState = "Linking" /\ s.linkingState > LinkProtocolSwitchOver   -> "Committed"
    [] s.linkState = "Linked"                                               -> "Committed"
    [] OTHER                                                                -> "Apart"

RemotePhase(s) ==
  CASE s.linkState = "AwaitingLink" /\ s.linkingState = RemoteLinkingSwitchOver -> "Entered"
    [] s.linkState = "Linking" /\ s.linkingState < LinkProtocolSwitchOver      -> "Joining"
    [] s.linkState = "Linking" /\ s.linkingState >= LinkProtocolSwitchOver     -> "Committed"
    [] s.linkState = "Linked"                                                  -> "Committed"
    [] OTHER                                                                   -> "Apart"

TermsOf(s) == [key |-> s.enc.block.key, iv |-> s.enc.block.iv]

Attempt(s, phase) ==
  [phase |-> phase, terms |-> IF phase = "Apart" THEN None ELSE TermsOf(s)]

HostAttempt == LET s == node[CHOOSE h \in Hosts : TRUE] IN Attempt(s, HostPhase(s))

RemoteAttempt == LET s == node[CHOOSE r \in Remotes : TRUE] IN Attempt(s, RemotePhase(s))

Agreed ==
  INSTANCE AgreedLink
    WITH Terms   <- [key : SUBSET (KeyPairs \cup {None}), iv : Ivs],
         NoTerms <- None,
         host    <- HostAttempt,
         remote  <- RemoteAttempt

\* A host and a remote agree as AgreedLink promises, over a radio that loses,
\* delays and repeats packets, and whoever is stopped or gives up on the way.
Agrees == Agreed!Spec

=============================================================================
