---------------------- MODULE LoLaLinkAuthentic_proof ----------------------
(***************************************************************************)
(* A link is under a key its two ends agreed on, for any number of hosts   *)
(* and remotes on the channel.                                             *)
(*                                                                         *)
(* A node takes a public key from whoever sends one in its session, so the *)
(* key it computes may be of any two nodes; but it is always of itself and *)
(* another (OwnKeysInv). That alone makes an offer worth what it says: the *)
(* host that seals it has its own pair in the key (OfferInv), and a remote *)
(* accepts it only if it is sealed with its own block, whose key holds its *)
(* own pair and whose IV names both (RemoteMoverTrusts).                   *)
(*                                                                         *)
(* A host learns nothing from the ack of an offer, which is in plain text: *)
(* it may be the late answer of another remote to an offer before. It does *)
(* from the ack of the switch-over, which it can read only if the remote   *)
(* that sent it is in the link under the cipher of the host (HearerKeys).  *)
(* So Trusts(n, s) begins for a remote with the offer it accepts, and for  *)
(* a host with the packet that lets it commit.                             *)
(*                                                                         *)
(* KeyInv(n, s) is of one node, as EndInv is. A step does SameKeys to the  *)
(* node that takes it, save where a pair is renewed, a key is computed or  *)
(* an offer is sealed; what it does to its trust follows from Moves.       *)
(***************************************************************************)
EXTENDS LoLaLinkAgreement_proof

----------------------------------------------------------------------------
(* The inductive invariant *)

HasPairOf(key, n) == \E k \in key : k.owner = n

\* The key was agreed between the two nodes the IV names.
AuthenticBlock(b) == HasPairOf(b.key, b.iv.id1) /\ HasPairOf(b.key, b.iv.id2)

\* A node computes no key without its own pair, and seals no other key.
OwnKeysInv(n, s) ==
  /\ s.kx.stage # "Clear" => s.kx.local.owner = n
  /\ s.enc.state # "AllClear" => HasPairOf(s.enc.block.key, n)
  /\ s.status = "SendingPacket" /\ IsOffer(s.out) => HasPairOf(s.out.seal.key, n)

\* An offer was sealed under a key of the host it names.
OfferInv(s) ==
  s.inbox # None /\ IsOffer(s.inbox.packet) =>
    HasPairOf(s.inbox.packet.seal.key, s.inbox.packet.seal.iv.id1)

\* A remote has accepted an offer, a host holds what lets it commit.
Trusts(n, s) ==
  \/ n \in Remotes /\ (InTheLink(s) \/ (s.linkState = "AwaitingLink" /\ s.linkingState = 5))
  \/ n \in Hosts /\ MayCommit(s)

KeyInv(n, s) ==
  /\ OwnKeysInv(n, s)
  /\ OfferInv(s)
  /\ Trusts(n, s) => AuthenticBlock(s.enc.block)

AuthenticInv ==
  /\ AgreementInv
  /\ \A n \in Nodes : KeyInv(n, node[n])

----------------------------------------------------------------------------
(* What a step does to the keys of a node *)

\* The node has the pair it had, or none in use, the key it had, or none in
\* use, and the offer it had, or sends none.
SameKeys(s, u) ==
  /\ u.kx.stage # "Clear" => s.kx.stage # "Clear" /\ u.kx.local = s.kx.local
  /\ u.enc.state # "AllClear" => /\ s.enc.state # "AllClear"
                                 /\ u.enc.block.key = s.enc.block.key
  /\ u.status = "SendingPacket" =>
       \/ s.status = "SendingPacket" /\ u.out = s.out
       \/ ~IsOffer(u.out)

LEMMA OwnKeysKept ==
  ASSUME NEW n \in Nodes, NEW s, OwnKeysInv(n, s), NEW u, SameKeys(s, u)
  PROVE  OwnKeysInv(n, u)
BY DEF OwnKeysInv, SameKeys

LEMMA SameKeysTwice ==
  ASSUME NEW s, NEW t, NEW u, SameKeys(s, t), SameKeys(t, u)
  PROVE  SameKeys(s, u)
BY DEF SameKeys

\* A step that is not about keys.
LEMMA SameKeysWhenAlike ==
  ASSUME NEW s, NEW u, u.kx = s.kx, u.enc = s.enc,
         \/ u.status = s.status /\ u.out = s.out
         \/ u.status # "SendingPacket"
         \/ ~IsOffer(u.out)
  PROVE  SameKeys(s, u)
BY DEF SameKeys

LEMMA ClearSessionSameKeys ==
  ASSUME NEW s \in NodeStates
  PROVE  SameKeys(s, ClearSession(s)) /\ ClearSession(s) \in NodeStates
<1> DEFINE r == ResetLinkInfo(s)
           u == [r EXCEPT
                   !.reportPending = FALSE, !.goodCount = 0, !.txn = ClearTransaction,
                   !.enc = ClearEncoder, !.kx = ClearPartner(@), !.infoStage = 0,
                   !.samples = 0, !.sessionStamped = FALSE]
<1>1. r \in NodeStates /\ r.kx = s.kx
  BY ResetLinkInfoType DEF ResetLinkInfo, NodeStates
<1>2. /\ ClearPartner(s.kx).local = s.kx.local
      /\ ClearPartner(s.kx).stage # "Clear" => s.kx.stage # "Clear"
  BY DEF ClearPartner, NodeStates, KeyExchangers
<1> HIDE DEF r
<1>3. u.kx = ClearPartner(s.kx) /\ u.enc = ClearEncoder
  BY <1>1 DEF NodeStates
<1>4. u = ClearSession(s)
  BY DEF ClearSession, r
<1> HIDE DEF u
<1>5. ClearSession(s).status = s.status /\ ClearSession(s).out = s.out
  BY ClearSessionType DEF Cleared
<1> QED
  BY <1>2, <1>3, <1>4, <1>5, ClearSessionType DEF SameKeys, ClearEncoder

LEMMA SetLinkingStateSameKeys ==
  ASSUME NEW s \in NodeStates, NEW stage \in 0..5
  PROVE  SameKeys(s, SetLinkingState(s, stage)) /\ SetLinkingState(s, stage) \in NodeStates
<1>1. SetLinkingState(s, stage) \in NodeStates
  BY SetLinkingStateType
<1> QED
  BY <1>1, SameKeysWhenAlike DEF SetLinkingState, NodeStates

LEMMA LeaveLinkedSameKeys ==
  ASSUME NEW s \in NodeStates
  PROVE  SameKeys(s, LeaveLinked(s)) /\ LeaveLinked(s) \in NodeStates
<1>1. CASE s.linkState = "Linked"
  <2> DEFINE c == ClearSession(s)
             u == RestartDriver(c)
  <2>1. SameKeys(s, c) /\ c \in NodeStates
    BY ClearSessionSameKeys
  <2>2. LeaveLinked(s) = u
    BY <1>1 DEF LeaveLinked
  <2> HIDE DEF c
  <2>3. u \in NodeStates
    BY <2>1, RestartDriverType
  <2>4. u.kx = c.kx /\ u.enc = c.enc /\ u.status = c.status /\ u.out = c.out
    BY <2>1 DEF RestartDriver, NodeStates
  <2> HIDE DEF u
  <2>5. SameKeys(s, u)
    BY <2>1, <2>4, SameKeysWhenAlike, SameKeysTwice
  <2> QED
    BY <2>2, <2>3, <2>5
<1>2. CASE s.linkState # "Linked"
  BY <1>2, SameKeysWhenAlike DEF LeaveLinked
<1> QED
  BY <1>1, <1>2

\* A fresh pair is the own pair of the node.
LEMMA RenewedKeys ==
  ASSUME NEW n \in Nodes, NEW s \in NodeStates, OwnKeysInv(n, s), NEW k, k.owner = n,
         NEW u, u.kx = GenerateNewKeyPair(s.kx, k), u.enc = s.enc,
         u.status = s.status, u.out = s.out
  PROVE  OwnKeysInv(n, u)
<1>1. u.kx.local = k
  BY DEF GenerateNewKeyPair, NodeStates, KeyExchangers
<1> QED
  BY <1>1 DEF OwnKeysInv

----------------------------------------------------------------------------
(* The transitions of UpdateLinkState *)

LEMMA ToAwaitingLinkOwnKeys ==
  ASSUME NEW n \in Nodes, NEW s \in NodeStates, OwnKeysInv(n, s), NEW t \in ToAwaitingLink(n, s)
  PROVE  OwnKeysInv(n, t)
<1> DEFINE l == LeaveLinked(s)
           u == ClearSession(l)
           v == SetLinkingState(u, 0)
           c == [v EXCEPT !.linkState = "AwaitingLink"]
<1>1. SameKeys(s, l) /\ l \in NodeStates
  BY LeaveLinkedSameKeys
<1>2. SameKeys(l, u) /\ u \in NodeStates
  BY <1>1, ClearSessionSameKeys
<1> HIDE DEF u
<1>3. SameKeys(u, v) /\ v \in NodeStates
  BY <1>2, SetLinkingStateSameKeys
<1> HIDE DEF l, v
<1>4. /\ c \in NodeStates
      /\ c.kx = v.kx /\ c.enc = v.enc /\ c.status = v.status /\ c.out = v.out
  BY <1>3 DEF NodeStates, LinkStates
<1>5. t \in IF n \in Hosts
            THEN {[c EXCEPT !.session = id] : id \in Sessions}
            ELSE {[c EXCEPT !.kx = GenerateNewKeyPair(@, k)] : k \in FreshPairs(n, s.kx)}
  BY DEF ToAwaitingLink, c, v, u, l
<1> HIDE DEF c
<1>6. OwnKeysInv(n, v)
  BY <1>1, <1>2, <1>3, OwnKeysKept
<1>7. OwnKeysInv(n, c)
  BY <1>4, <1>6, SameKeysWhenAlike, OwnKeysKept
<1>8. CASE \E id : t = [c EXCEPT !.session = id]
  <2>1. t.kx = c.kx /\ t.enc = c.enc /\ t.status = c.status /\ t.out = c.out
    BY <1>4, <1>8 DEF NodeStates
  <2> QED
    BY <1>7, <2>1, SameKeysWhenAlike, OwnKeysKept
<1>9. CASE \E k \in FreshPairs(n, s.kx) : t = [c EXCEPT !.kx = GenerateNewKeyPair(@, k)]
  <2>1. PICK k \in FreshPairs(n, s.kx) : t = [c EXCEPT !.kx = GenerateNewKeyPair(@, k)]
    BY <1>9
  <2>2. k.owner = n
    BY DEF FreshPairs
  <2>3. /\ t.kx = GenerateNewKeyPair(c.kx, k)
        /\ t.enc = c.enc /\ t.status = c.status /\ t.out = c.out
    BY <1>4, <2>1 DEF NodeStates
  <2> QED
    BY <1>4, <1>7, <2>2, <2>3, RenewedKeys
<1> QED
  BY <1>5, <1>8, <1>9

LEMMA ToSetupOwnKeys ==
  ASSUME NEW n \in Nodes, NEW s \in NodeStates, OwnKeysInv(n, s)
  PROVE  OwnKeysInv(n, ToSetup(s))
<1> DEFINE v == SetLinkingState(s, 0)
           w == ClearSession(v)
           u == ToSetup(s)
<1>1. SameKeys(s, v) /\ v \in NodeStates
  BY SetLinkingStateSameKeys
<1> HIDE DEF v
<1>2. SameKeys(v, w) /\ w \in NodeStates
  BY <1>1, ClearSessionSameKeys
<1>3. u = [RestartDriver(w) EXCEPT !.linkState = "Setup"]
  BY DEF ToSetup, v
<1> HIDE DEF u, w
<1>4. u.kx = w.kx /\ u.enc = w.enc /\ u.status = w.status /\ u.out = w.out
  BY <1>2, <1>3 DEF RestartDriver, NodeStates
<1>5. OwnKeysInv(n, u)
  BY <1>1, <1>2, <1>4, SameKeysWhenAlike, OwnKeysKept
<1> QED
  BY <1>5 DEF u

LEMMA ToDisabledOwnKeys ==
  ASSUME NEW n \in Nodes, NEW s \in NodeStates, OwnKeysInv(n, s)
  PROVE  OwnKeysInv(n, ToDisabled(s))
<1> DEFINE l == LeaveLinked(s)
           u == ToDisabled(s)
<1>1. SameKeys(s, l) /\ l \in NodeStates
  BY LeaveLinkedSameKeys
<1>2. u = [ResetLinkInfo(l) EXCEPT !.linkState = "Disabled"]
  BY DEF ToDisabled
<1> HIDE DEF l, u
<1>3. u.kx = l.kx /\ u.enc = l.enc /\ u.status = l.status /\ u.out = l.out
  BY <1>1, <1>2 DEF ResetLinkInfo, NodeStates
<1>4. OwnKeysInv(n, u)
  BY <1>1, <1>3, SameKeysWhenAlike, OwnKeysKept
<1> QED
  BY <1>4 DEF u

LEMMA ToAwaitingSleepingOwnKeys ==
  ASSUME NEW n \in Nodes, NEW s \in NodeStates, OwnKeysInv(n, s)
  PROVE  OwnKeysInv(n, ToAwaitingSleeping(n, s))
<1> DEFINE w == ClearSession(s)
           v == SetLinkingState(w, 0)
           u == ToAwaitingSleeping(n, s)
<1>1. SameKeys(s, w) /\ w \in NodeStates
  BY ClearSessionSameKeys
<1> HIDE DEF w
<1>2. SameKeys(w, v) /\ v \in NodeStates
  BY <1>1, SetLinkingStateSameKeys
<1>3. u = [RestartDriver(v) EXCEPT !.linkState = "AwaitingSleeping", !.awake = n \in Remotes]
  BY DEF ToAwaitingSleeping, w
<1> HIDE DEF u, v
<1>4. u.kx = v.kx /\ u.enc = v.enc /\ u.status = v.status /\ u.out = v.out
  BY <1>2, <1>3 DEF RestartDriver, NodeStates
<1>5. OwnKeysInv(n, u)
  BY <1>1, <1>2, <1>4, SameKeysWhenAlike, OwnKeysKept
<1> QED
  BY <1>5 DEF u

\* Linking turns the cipher on and Linked gives it its token: the key stays.
LEMMA ToLinkingOwnKeys ==
  ASSUME NEW n \in Nodes, NEW s \in NodeStates, OwnKeysInv(n, s)
  PROVE  OwnKeysInv(n, ToLinking(s))
<1> DEFINE u == ToLinking(s)
<1>1. u.kx = s.kx /\ u.enc = SetEnabled(s.enc) /\ u.status = s.status /\ u.out = s.out
  BY DEF ToLinking, SetLinkingState, NodeStates
<1>2. /\ SetEnabled(s.enc).block = s.enc.block
      /\ SetEnabled(s.enc).state # "AllClear" => s.enc.state # "AllClear"
  BY DEF SetEnabled, NodeStates, Encoders
<1> HIDE DEF u
<1>3. OwnKeysInv(n, u)
  BY <1>1, <1>2, OwnKeysKept DEF SameKeys
<1> QED
  BY <1>3 DEF u

LEMMA ToLinkedOwnKeys ==
  ASSUME NEW n \in Nodes, NEW s \in NodeStates, OwnKeysInv(n, s)
  PROVE  OwnKeysInv(n, ToLinked(s))
<1> DEFINE u == ToLinked(s)
<1>1. u.kx = s.kx /\ u.enc = SetToken(s.enc) /\ u.status = s.status /\ u.out = s.out
  BY DEF ToLinked, NodeStates
<1>2. SetToken(s.enc).block.key = s.enc.block.key /\ SetToken(s.enc).state = s.enc.state
  BY DEF SetToken, NodeStates, Encoders, CipherBlocks
<1> HIDE DEF u
<1>3. OwnKeysInv(n, u)
  BY <1>1, <1>2, OwnKeysKept DEF SameKeys
<1> QED
  BY <1>3 DEF u

----------------------------------------------------------------------------
(* What a step is to the keys of the system *)

\* What a node that becomes u may say: an offer under a key of its own, an ack
\* that lets a host commit only under the cipher it shares with that host.
Truthful(n, u, f) ==
  /\ IsOffer(f.packet) => HasPairOf(f.packet.seal.key, f.packet.seal.iv.id1)
  /\ IsSwitchOverAck(f.packet) /\ f.cipher # None =>
       n \in Remotes /\ InTheLink(u) /\ f.cipher = u.enc.block

\* Node n keeps its own keys; the others hear at most what it truly says.
KeepsOwnKeys(n) ==
  /\ OwnKeysInv(n, node'[n])
  /\ \A m \in Nodes \ {n} :
       \/ node'[m] = node[m]
       \/ \E f : /\ Truthful(n, node'[n], f)
                 /\ f.cipher = FrameCipher(node[m].enc)
                 /\ node'[m] = [node[m] EXCEPT !.inbox = f]

LEMMA BecomeKeepsOwnKeys ==
  ASSUME LinkInv, NEW n \in Nodes, NEW u, OwnKeysInv(n, u), Become(n, u)
  PROVE  KeepsOwnKeys(n)
<1>1. node' = [m \in Nodes |-> IF m = n THEN u ELSE node[m]]
  BY DEF LinkInv, Become
<1> QED
  BY <1>1 DEF KeepsOwnKeys

LEMMA TransmitKeepsOwnKeys ==
  ASSUME LinkInv, NEW n \in Nodes, NEW u, OwnKeysInv(n, u),
         NEW f, Truthful(n, u, f), Transmit(n, u, f)
  PROVE  KeepsOwnKeys(n)
<1>1. PICK heard \in SUBSET Hearers(n, f) :
        node' = [m \in Nodes |-> IF m = n THEN u
                                  ELSE IF m \in heard THEN [node[m] EXCEPT !.inbox = f]
                                  ELSE node[m]]
  BY DEF Transmit
<1>2. \A m \in heard : f.cipher = FrameCipher(node[m].enc)
  BY DEF Hearers
<1>3. node'[n] = u
  BY <1>1
<1> QED
  BY <1>1, <1>2, <1>3 DEF KeepsOwnKeys

\* A step that is not about keys, and a packet that is no offer.
LEMMA AlikeKeepsOwnKeys ==
  ASSUME LinkInv, NEW n \in Nodes, OwnKeysInv(n, node[n]), NEW u, SameKeys(node[n], u),
         Become(n, u)
  PROVE  KeepsOwnKeys(n)
BY OwnKeysKept, BecomeKeepsOwnKeys

LEMMA RequestSameKeys ==
  ASSUME NEW s, NEW w \in NodeStates, SameKeys(s, w), NEW p, ~IsOffer(p)
  PROVE  SameKeys(s, RequestSendPacket(w, p))
<1> DEFINE u == RequestSendPacket(w, p)
<1>1. u.kx = w.kx /\ u.enc = w.enc /\ u.out = p
  BY DEF RequestSendPacket, NodeStates
<1> HIDE DEF u
<1>2. SameKeys(s, u)
  BY <1>1 DEF SameKeys
<1> QED
  BY <1>2 DEF u

LEMMA ClearSendRequestSameKeys ==
  ASSUME NEW s, NEW w \in NodeStates, SameKeys(s, w)
  PROVE  SameKeys(s, ClearSendRequest(w))
<1> DEFINE u == ClearSendRequest(w)
<1>1. u.kx = w.kx /\ u.enc = w.enc /\ u.status = "Done"
  BY DEF ClearSendRequest, NodeStates
<1> HIDE DEF u
<1>2. SameKeys(s, u)
  BY <1>1 DEF SameKeys
<1> QED
  BY <1>2 DEF u

----------------------------------------------------------------------------
(* The steps of the manager and of the link services *)

LEMMA ManagerStepOwnKeys ==
  ASSUME LinkInv, NEW n \in Nodes, OwnKeysInv(n, node[n]), ManagerStep(n)
  PROVE  KeepsOwnKeys(n)
<1>1. node[n] \in NodeStates
  BY DEF LinkInv, NodeInv
<1>2. CASE Start(n)
  BY <1>1, <1>2, ToSetupOwnKeys, BecomeKeepsOwnKeys DEF Start
<1>3. CASE Stop(n)
  BY <1>1, <1>3, ToDisabledOwnKeys, BecomeKeepsOwnKeys DEF Stop
<1> QED
  BY <1>2, <1>3 DEF ManagerStep

LEMMA LinkStepOwnKeys ==
  ASSUME LinkInv, NEW n \in Nodes, OwnKeysInv(n, node[n]), LinkStep(n)
  PROVE  KeepsOwnKeys(n)
<1> DEFINE s == node[n]
<1>1. s \in NodeStates
  BY DEF LinkInv, NodeInv
<1>2. CASE AwaitLink(n) \/ CancelLinking(n) \/ LoseLink(n)
  <2>1. PICK t \in ToAwaitingLink(n, s) : Become(n, t)
    BY <1>2 DEF AwaitLink, CancelLinking, LoseLink
  <2> QED
    BY <1>1, <2>1, ToAwaitingLinkOwnKeys, BecomeKeepsOwnKeys
<1>3. CASE RenewKeyPair(n)
  <2>1. PICK k \in FreshPairs(n, s.kx) :
          Become(n, [s EXCEPT !.kx = GenerateNewKeyPair(@, k), !.keysStamped = TRUE])
    BY <1>3 DEF RenewKeyPair
  <2> DEFINE u == [s EXCEPT !.kx = GenerateNewKeyPair(@, k), !.keysStamped = TRUE]
  <2>2. k.owner = n
    BY DEF FreshPairs
  <2>3. /\ u.kx = GenerateNewKeyPair(s.kx, k)
        /\ u.enc = s.enc /\ u.status = s.status /\ u.out = s.out
    BY <1>1 DEF NodeStates
  <2> HIDE DEF u
  <2>4. OwnKeysInv(n, u)
    BY <1>1, <2>2, <2>3, RenewedKeys
  <2> QED
    BY <2>1, <2>4, BecomeKeepsOwnKeys DEF u
<1>4. CASE FallAsleep(n)
  BY <1>1, <1>4, ToAwaitingSleepingOwnKeys, BecomeKeepsOwnKeys DEF FallAsleep
<1>5. CASE StartLinking(n)
  BY <1>1, <1>5, ToLinkingOwnKeys, BecomeKeepsOwnKeys DEF StartLinking
<1>6. CASE EstablishLink(n)
  BY <1>1, <1>6, ToLinkedOwnKeys, BecomeKeepsOwnKeys DEF EstablishLink
<1>7. CASE ReportDue(n)
  <2> DEFINE u == [s EXCEPT !.reportPending = TRUE]
  <2>1. u.kx = s.kx /\ u.enc = s.enc /\ u.status = s.status /\ u.out = s.out
    BY <1>1 DEF NodeStates
  <2>2. Become(n, u)
    BY <1>7 DEF ReportDue
  <2> HIDE DEF u
  <2> QED
    BY <2>1, <2>2, SameKeysWhenAlike, AlikeKeepsOwnKeys
<1>8. CASE SendReport(n)
  <2>1. PICK sub \in {"LinkReport", "LinkReportWithReply"} :
          Become(n, RequestSendPacket(s, Packet("Report", sub, INVALID_SESSION)))
    BY <1>8 DEF SendReport
  <2>2. ~IsOffer(Packet("Report", sub, INVALID_SESSION))
    BY DEF Packet, IsOffer
  <2>3. SameKeys(s, s)
    BY SameKeysWhenAlike
  <2> QED
    BY <1>1, <2>1, <2>2, <2>3, RequestSameKeys, AlikeKeepsOwnKeys
<1> QED
  BY <1>2, <1>3, <1>4, <1>5, <1>6, <1>7, <1>8 DEF LinkStep

----------------------------------------------------------------------------
(* The steps of the send service *)

LEMMA HostAckReceivedSameKeys ==
  ASSUME NEW s \in NodeStates, NEW t \in HostAckReceived(s)
  PROVE  t \in NodeStates /\ SameKeys(s, t)
<1> DEFINE sample == [s EXCEPT !.samples = IF @ < MinLatencySamples THEN @ + 1 ELSE @]
<1>1. t = s \/ t = sample \/ t = SetLinkingState(s, 5) \/ t = SetLinkingState(s, 3)
  <2> HIDE DEF sample
  <2>1. HostAckReceived(s) \subseteq
          {s, sample, SetLinkingState(s, 5), SetLinkingState(s, 3)}
    BY DEF HostAckReceived, sample, LinkingSwitchOver, LinkingDone
  <2> QED
    BY <2>1
<1>2. sample \in NodeStates
  <2>1. (IF s.samples < MinLatencySamples THEN s.samples + 1 ELSE s.samples)
          \in 0..MinLatencySamples
    BY SampleAssumption DEF NodeStates
  <2> QED
    BY <2>1 DEF NodeStates
<1>3. SameKeys(s, sample)
  BY SameKeysWhenAlike DEF NodeStates
<1>4. SameKeys(s, s)
  BY SameKeysWhenAlike
<1> HIDE DEF sample
<1> QED
  BY <1>1, <1>2, <1>3, <1>4, SetLinkingStateSameKeys

\* An offer that leaves was sealed when the host had its key.
LEMMA SendStepOwnKeys ==
  ASSUME LinkInv, NEW n \in Nodes, EndInv(n, node[n]), OwnKeysInv(n, node[n]), SendStep(n)
  PROVE  KeepsOwnKeys(n)
<1> DEFINE s == node[n]
<1>1. s \in NodeStates
  BY DEF LinkInv, NodeInv
<1>2. SameKeys(s, s)
  BY SameKeysWhenAlike
<1>3. SameKeys(s, ClearSendRequest(s))
  BY <1>1, <1>2, ClearSendRequestSameKeys
<1>4. CASE SendPacket(n)
  <2> DEFINE sent == [s EXCEPT !.status = "SentOk"]
             f == Frame(n, s.out)
  <2>1. Transmit(n, sent, f) \/ Transmit(n, ClearSendRequest(s), f)
    BY <1>4 DEF SendPacket
  <2>2. SameKeys(s, sent)
    BY <1>1, SameKeysWhenAlike DEF NodeStates
  <2>3. s.status = "SendingPacket" /\ f.packet = s.out
    BY <1>4 DEF SendPacket, Running, Frame
  <2>4. IsOffer(s.out) => HasPairOf(s.out.seal.key, s.out.seal.iv.id1)
    BY <2>3 DEF EndInv, WaitingInv, MaySend, OwnKeysInv
  <2>5. ~IsSwitchOverAck(s.out)
    BY <2>3 DEF EndInv, WaitingInv, OwnPacket, IsSwitchOverAck
  <2>6. \A u : Truthful(n, u, f)
    BY <2>3, <2>4, <2>5 DEF Truthful
  <2>7. OwnKeysInv(n, sent) /\ OwnKeysInv(n, ClearSendRequest(s))
    BY <1>3, <2>2, OwnKeysKept
  <2> HIDE DEF sent, f
  <2> QED
    BY <2>1, <2>6, <2>7, TransmitKeepsOwnKeys
<1>5. CASE SendTimesOut(n) \/ AckTimesOut(n)
  BY <1>3, <1>5, AlikeKeepsOwnKeys DEF SendTimesOut, AckTimesOut
<1>6. CASE SentOk(n)
  <2> DEFINE pending == s.reportPending /\ ~(s.out.header = "Report" /\ s.linkState = "Linked")
             w == [s EXCEPT !.reportPending = pending]
             u == [w EXCEPT !.status = "WaitingForAck"]
  <2>1. Become(n, u) \/ Become(n, ClearSendRequest(w))
    BY <1>6 DEF SentOk
  <2>2. pending \in BOOLEAN
    OBVIOUS
  <2> HIDE DEF pending
  <2>3. w \in NodeStates /\ SameKeys(s, w)
    BY <1>1, <2>2, SameKeysWhenAlike DEF NodeStates
  <2> HIDE DEF w
  <2>4. SameKeys(w, u)
    BY <2>3, SameKeysWhenAlike DEF NodeStates
  <2>5. SameKeys(s, u) /\ SameKeys(s, ClearSendRequest(w))
    BY <2>3, <2>4, SameKeysTwice, ClearSendRequestSameKeys
  <2> HIDE DEF u
  <2> QED
    BY <2>1, <2>5, AlikeKeepsOwnKeys
<1>7. CASE AckReceived(n)
  <2>1. PICK t \in HostAckReceived(s) : Become(n, ClearSendRequest(t))
    BY <1>7 DEF AckReceived
  <2>2. SameKeys(s, ClearSendRequest(t))
    BY <1>1, HostAckReceivedSameKeys, ClearSendRequestSameKeys
  <2> QED
    BY <2>1, <2>2, AlikeKeepsOwnKeys
<1> QED
  BY <1>4, <1>5, <1>6, <1>7 DEF SendStep

----------------------------------------------------------------------------
(* The packets a node receives *)

\* A handler that touches neither keys nor the packet in hand.
Alike(s, u) == u.kx = s.kx /\ u.enc = s.enc /\ u.status = s.status /\ u.out = s.out

LEMMA AlikeSameKeys ==
  ASSUME NEW s, NEW u, Alike(s, u)
  PROVE  SameKeys(s, u)
BY SameKeysWhenAlike DEF Alike

LEMMA RestoredAlike ==
  ASSUME NEW n, node[n] \in NodeStates
  PROVE  Restored(n) \in NodeStates /\ Alike(node[n], Restored(n))
BY DEF Restored, NodeStates, Alike

LEMMA OnLinkInfoReportReceivedAlike ==
  ASSUME NEW s \in NodeStates, NEW p
  PROVE  Alike(s, OnLinkInfoReportReceived(s, p))
BY DEF OnLinkInfoReportReceived, NodeStates, Alike

LEMMA OnClockSyncRequestReceivedAlike ==
  ASSUME NEW s \in NodeStates, NEW p
  PROVE  Alike(s, OnClockSyncRequestReceived(s, p))
<1> DEFINE asked == [s EXCEPT !.txn = [stage |-> "ResultIn", id |-> p.id]]
           u == OnClockSyncRequestReceived(s, p)
<1>1. \/ u \in {s, asked, SetLinkingState(asked, 1)}
      \/ u = [s EXCEPT !.txn = ClearTransaction]
  BY DEF OnClockSyncRequestReceived, InfoSyncStage, ClockSyncStage
<1>2. Alike(s, asked)
  BY DEF Alike, NodeStates
<1>3. Alike(asked, SetLinkingState(asked, 1))
  BY DEF Alike, NodeStates, SetLinkingState
<1>4. Alike(s, [s EXCEPT !.txn = ClearTransaction]) /\ Alike(s, s)
  BY DEF Alike, NodeStates
<1> HIDE DEF u, asked
<1>5. Alike(s, u)
  BY <1>1, <1>2, <1>3, <1>4 DEF Alike
<1> QED
  BY <1>5 DEF u

\* A host takes a partner, a remote a partner and its session.
LEMMA PartnerAlike ==
  ASSUME NEW s \in NodeStates, NEW id, NEW peer, NEW u,
         \/ u = [SetLinkingState(s, 1) EXCEPT !.partner = peer]
         \/ u = [SetLinkingState(s, 1) EXCEPT !.session = id, !.partner = peer]
  PROVE  Alike(s, u)
<1> DEFINE v == SetLinkingState(s, 1)
<1>1. v \in NodeStates /\ Alike(s, v)
  BY SetLinkingStateType DEF SetLinkingState, NodeStates, Alike
<1>2. \/ u = [v EXCEPT !.partner = peer]
      \/ u = [v EXCEPT !.session = id, !.partner = peer]
  OBVIOUS
<1> HIDE DEF v
<1>3. Alike(v, u)
  BY <1>1, <1>2 DEF Alike, NodeStates
<1> QED
  BY <1>1, <1>3 DEF Alike

\* A public key is taken only beside a pair of its own.
LEMMA PartnerKeySameKeys ==
  ASSUME NEW s \in NodeStates, s.kx.stage = "LocalKey", NEW key
  PROVE  SameKeys(s, [SetLinkingState(s, 3) EXCEPT !.kx = SetPartnerPublicKey(@, key)])
<1> DEFINE v == SetLinkingState(s, 3)
           u == [v EXCEPT !.kx = SetPartnerPublicKey(@, key)]
<1>1. v \in NodeStates /\ v.kx = s.kx /\ v.enc = s.enc /\ v.status = s.status /\ v.out = s.out
  BY SetLinkingStateType DEF SetLinkingState, NodeStates
<1> HIDE DEF v
<1>2. /\ u.kx = SetPartnerPublicKey(s.kx, key)
      /\ u.enc = s.enc /\ u.status = s.status /\ u.out = s.out
  BY <1>1 DEF NodeStates
<1>3. SetPartnerPublicKey(s.kx, key).local = s.kx.local
  BY DEF SetPartnerPublicKey, NodeStates, KeyExchangers
<1> HIDE DEF u
<1>4. SameKeys(s, u)
  BY <1>2, <1>3 DEF SameKeys
<1> QED
  BY <1>4 DEF u, v

LEMMA HostProcessPacketSameKeys ==
  ASSUME NEW s \in NodeStates, NEW p
  PROVE  SameKeys(s, HostProcessPacket(s, p))
<1> DEFINE u == HostProcessPacket(s, p)
<1>1. CASE p.sub = "LinkDiscovery"
  <2>1. u = OnLinkDiscoveryReceived(s)
    BY <1>1 DEF HostProcessPacket
  <2> QED
    BY <2>1, AlikeSameKeys DEF OnLinkDiscoveryReceived, Alike, NodeStates
<1>2. CASE p.sub = "PkcStartRequest"
  <2>1. u = s \/ u = [SetLinkingState(s, 1) EXCEPT !.partner = p.peer]
    BY <1>2 DEF HostProcessPacket, OnPKCRequestReceived, HostValidatingPartner
  <2> HIDE DEF u
  <2>2. Alike(s, s)
    BY DEF Alike
  <2>3. Alike(s, u)
    BY <2>1, <2>2, PartnerAlike
  <2>4. SameKeys(s, u)
    BY <2>3, AlikeSameKeys
  <2> QED
    BY <2>4 DEF u
<1>3. CASE p.sub = "RemotePublicKey"
  <2>1. \/ u = s
        \/ /\ s.kx.stage = "LocalKey"
           /\ u = [SetLinkingState(s, 3) EXCEPT !.kx = SetPartnerPublicKey(@, p.key)]
    BY <1>3 DEF HostProcessPacket, OnRemotePublicKeyReceived, ProcessingPKC
  <2> QED
    BY <2>1, PartnerKeySameKeys, SameKeysWhenAlike
<1>4. CASE p.sub = "InfoSyncRemote"
  <2>1. u = OnRemoteInfoSyncReceived(s)
    BY <1>4 DEF HostProcessPacket
  <2> QED
    BY <2>1, AlikeSameKeys DEF OnRemoteInfoSyncReceived, Alike, NodeStates
<1>5. CASE p.sub = "NtpRequest"
  <2>1. u = OnClockSyncRequestReceived(s, p)
    BY <1>5 DEF HostProcessPacket
  <2> QED
    BY <2>1, OnClockSyncRequestReceivedAlike, AlikeSameKeys
<1>6. CASE p.sub = "NtpTuneRequest"
  <2>1. u = s \/ u = [s EXCEPT !.txn = [stage |-> "ResultIn", id |-> p.id]]
    BY <1>6 DEF HostProcessPacket, OnClockSyncTuneRequestReceived
  <2> HIDE DEF u
  <2>2. Alike(s, u)
    BY <2>1 DEF Alike, NodeStates
  <2>3. SameKeys(s, u)
    BY <2>2, AlikeSameKeys
  <2> QED
    BY <2>3 DEF u
<1>7. CASE p.sub \in {"LinkReport", "LinkReportWithReply"}
  <2>1. u = OnLinkInfoReportReceived(s, p)
    BY <1>7 DEF HostProcessPacket
  <2> QED
    BY <2>1, OnLinkInfoReportReceivedAlike, AlikeSameKeys
<1>8. CASE p.sub \notin {"LinkDiscovery", "PkcStartRequest", "RemotePublicKey",
                         "InfoSyncRemote", "NtpRequest", "NtpTuneRequest", "LinkReport",
                         "LinkReportWithReply"}
  <2>1. u = s
    BY <1>8 DEF HostProcessPacket
  <2> QED
    BY <2>1, SameKeysWhenAlike
<1> QED
  BY <1>1, <1>2, <1>3, <1>4, <1>5, <1>6, <1>7, <1>8

LEMMA OnIdBroadcastReceivedAlike ==
  ASSUME NEW s \in NodeStates, NEW p
  PROVE  Alike(s, OnIdBroadcastReceived(s, p))
<1>1. \/ OnIdBroadcastReceived(s, p) = s
      \/ OnIdBroadcastReceived(s, p) = [s EXCEPT !.session = p.id]
      \/ OnIdBroadcastReceived(s, p) =
           [SetLinkingState(s, 1) EXCEPT !.session = p.id, !.partner = p.peer]
  BY DEF OnIdBroadcastReceived, RemoteValidatingPartner
<1>2. Alike(s, s) /\ Alike(s, [s EXCEPT !.session = p.id])
  BY DEF Alike, NodeStates
<1>3. Alike(s, [SetLinkingState(s, 1) EXCEPT !.session = p.id, !.partner = p.peer])
  BY PartnerAlike
<1> QED
  BY <1>1, <1>2, <1>3

LEMMA SetResultAlike ==
  ASSUME NEW s \in NodeStates, NEW id
  PROVE  Alike(s, SetResult(s, id))
BY DEF SetResult, Alike, NodeStates

LEMMA RemoteProcessPacketSameKeys ==
  ASSUME NEW s \in NodeStates, NEW p
  PROVE  SameKeys(s, RemoteProcessPacket(s, p))
<1> DEFINE u == RemoteProcessPacket(s, p)
<1>1. SameKeys(s, s)
  BY SameKeysWhenAlike
<1>2. CASE p.sub = "HostIdBroadcast"
  <2>1. u = OnIdBroadcastReceived(s, p)
    BY <1>2 DEF RemoteProcessPacket
  <2> QED
    BY <2>1, OnIdBroadcastReceivedAlike, AlikeSameKeys
<1>3. CASE p.sub = "HostPublicKey"
  <2>1. \/ u = s
        \/ /\ s.kx.stage = "LocalKey"
           /\ u = [SetLinkingState(s, 3) EXCEPT !.kx = SetPartnerPublicKey(@, p.key)]
    BY <1>3 DEF RemoteProcessPacket, OnHostPublicKeyReceived, ProcessingSharedKey
  <2> QED
    BY <1>1, <2>1, PartnerKeySameKeys
<1>4. CASE p.sub = "InfoSyncRequest"
  <2>1. u = OnHostInfoSyncRequestReceived(s)
    BY <1>4 DEF RemoteProcessPacket
  <2> QED
    BY <2>1, AlikeSameKeys DEF OnHostInfoSyncRequestReceived, Alike, NodeStates
<1>5. CASE p.sub = "InfoSyncHost"
  <2>1. u = OnHostInfoSyncReceived(s)
    BY <1>5 DEF RemoteProcessPacket
  <2> QED
    BY <2>1, AlikeSameKeys DEF OnHostInfoSyncReceived, Alike, NodeStates
<1>6. CASE p.sub = "NtpReply"
  <2>1. u = s \/ u = SetResult(s, p.id)
    BY <1>6 DEF RemoteProcessPacket, OnClockSyncResponseReceived
  <2> QED
    BY <1>1, <2>1, SetResultAlike, AlikeSameKeys
<1>7. CASE p.sub = "NtpTuneReply"
  <2>1. u = s \/ u = SetResult(s, p.id)
    BY <1>7 DEF RemoteProcessPacket, OnClockSyncTuneResponseReceived
  <2> QED
    BY <1>1, <2>1, SetResultAlike, AlikeSameKeys
<1>8. CASE p.sub \in {"LinkReport", "LinkReportWithReply"}
  <2>1. u = OnLinkInfoReportReceived(s, p)
    BY <1>8 DEF RemoteProcessPacket
  <2> QED
    BY <2>1, OnLinkInfoReportReceivedAlike, AlikeSameKeys
<1>9. CASE p.sub \notin {"HostIdBroadcast", "HostPublicKey", "InfoSyncRequest",
                         "InfoSyncHost", "NtpReply", "NtpTuneReply", "LinkReport",
                         "LinkReportWithReply"}
  <2>1. u = s
    BY <1>9 DEF RemoteProcessPacket
  <2> QED
    BY <1>1, <2>1
<1> QED
  BY <1>2, <1>3, <1>4, <1>5, <1>6, <1>7, <1>8, <1>9

LEMMA ProcessPacketOwnKeys ==
  ASSUME LinkInv, NEW n \in Nodes, OwnKeysInv(n, node[n]), ProcessPacket(n)
  PROVE  KeepsOwnKeys(n)
<1> DEFINE s == node[n]
           r == Restored(n)
           p == Received(n)
<1>1. SameKeys(s, r) /\ r \in NodeStates
  BY RestoredAlike, AlikeSameKeys DEF LinkInv, NodeInv
<1>2. \/ Become(n, HostProcessPacket(r, p))
      \/ Become(n, RemoteProcessPacket(r, p))
      \/ \E t \in ToAwaitingLink(n, r) : Become(n, OnIdBroadcastReceived(t, p))
  BY DEF ProcessPacket
<1>3. NodeInv(n, r)
  BY RestoredKeeps DEF LinkInv, Keeps
<1> HIDE DEF r, p
<1>4. SameKeys(s, HostProcessPacket(r, p)) /\ SameKeys(s, RemoteProcessPacket(r, p))
  BY <1>1, HostProcessPacketSameKeys, RemoteProcessPacketSameKeys, SameKeysTwice
<1>5. ASSUME NEW t \in ToAwaitingLink(n, r), Become(n, OnIdBroadcastReceived(t, p))
      PROVE  KeepsOwnKeys(n)
  <2>1. t \in NodeStates
    BY <1>3, ToAwaitingLinkStarts
  <2>2. OwnKeysInv(n, r)
    BY <1>1, OwnKeysKept
  <2>3. OwnKeysInv(n, t)
    BY <1>1, <2>2, ToAwaitingLinkOwnKeys
  <2>4. OwnKeysInv(n, OnIdBroadcastReceived(t, p))
    BY <2>1, <2>3, OnIdBroadcastReceivedAlike, AlikeSameKeys, OwnKeysKept
  <2> QED
    BY <1>5, <2>4, BecomeKeepsOwnKeys
<1> QED
  BY <1>2, <1>4, <1>5, AlikeKeepsOwnKeys

\* A remote that answers under a cipher is linking, under that very cipher.
LEMMA ProcessAckedPacketOwnKeys ==
  ASSUME LinkInv, NEW n \in Nodes, OwnKeysInv(n, node[n]), ProcessAckedPacket(n)
  PROVE  KeepsOwnKeys(n)
<1> DEFINE s == node[n]
           r == Restored(n)
           p == Received(n)
           f == Frame(n, Packet("Ack", p.header, p.id))
           u == OnAckedPacketReceived(r)
<1>1. NodeInv(n, s) /\ r \in NodeStates /\ Alike(s, r)
  BY RestoredAlike DEF LinkInv, NodeInv
<1>2. f.cipher = FrameCipher(s.enc) /\ ~IsOffer(f.packet) /\ f.packet.sub = p.header
  BY DEF Frame, Packet, IsOffer
<1>3. \/ AcksPing(s, p) /\ Transmit(n, r, f)
      \/ n \in Remotes /\ RemoteAcks(n, s, p) /\ Transmit(n, u, f)
      \/ Become(n, r)
  BY DEF ProcessAckedPacket
<1>4. r.linkState = s.linkState
  BY <1>1 DEF Restored, NodeInv, NodeStates
<1>5. Alike(s, u) /\ u.linkState = s.linkState
  BY <1>1, <1>4 DEF OnAckedPacketReceived, SetLinkingState, Alike, NodeStates
<1> HIDE DEF r, p, f, u
<1>6. OwnKeysInv(n, r) /\ OwnKeysInv(n, u) /\ SameKeys(s, r)
  BY <1>1, <1>5, AlikeSameKeys, OwnKeysKept
<1>7. CASE AcksPing(s, p) /\ Transmit(n, r, f)
  <2>1. Truthful(n, r, f)
    BY <1>2, <1>7 DEF AcksPing, Truthful, IsSwitchOverAck
  <2> QED
    BY <1>6, <1>7, <2>1, TransmitKeepsOwnKeys
<1>8. CASE n \in Remotes /\ RemoteAcks(n, s, p) /\ Transmit(n, u, f)
  <2>1. s.linkState \in {"AwaitingLink", "Linking"}
    BY <1>8 DEF RemoteAcks, OnCryptoStartReceived, OnLinkProtocolReceived
  <2>2. f.cipher # None => InTheLink(u) /\ f.cipher = u.enc.block
    BY <1>1, <1>2, <1>5, <2>1 DEF NodeInv, CipherInv, FrameCipher, InTheLink, Alike
  <2>3. Truthful(n, u, f)
    BY <1>2, <1>8, <2>2 DEF Truthful
  <2> QED
    BY <1>6, <1>8, <2>3, TransmitKeepsOwnKeys
<1>9. CASE Become(n, r)
  BY <1>6, <1>9, AlikeKeepsOwnKeys
<1> QED
  BY <1>3, <1>7, <1>8, <1>9

LEMMA DriverStepOwnKeys ==
  ASSUME LinkInv, NEW n \in Nodes, OwnKeysInv(n, node[n]), DriverStep(n)
  PROVE  KeepsOwnKeys(n)
<1> DEFINE r == Restored(n)
<1>1. SameKeys(node[n], r) /\ r \in NodeStates
  BY RestoredAlike, AlikeSameKeys DEF LinkInv, NodeInv
<1>2. CASE RejectFrame(n)
  BY <1>1, <1>2, AlikeKeepsOwnKeys DEF RejectFrame
<1>3. CASE ProcessAck(n)
  <2>1. \/ Become(n, [r EXCEPT !.status = "AckOk"])
        \/ Become(n, [r EXCEPT !.status = @])
    BY <1>3 DEF ProcessAck
  <2> HIDE DEF r
  <2>2. SameKeys(r, [r EXCEPT !.status = "AckOk"]) /\ SameKeys(r, [r EXCEPT !.status = @])
    BY <1>1, SameKeysWhenAlike DEF NodeStates
  <2>3. /\ SameKeys(node[n], [r EXCEPT !.status = "AckOk"])
        /\ SameKeys(node[n], [r EXCEPT !.status = @])
    BY <1>1, <2>2, SameKeysTwice
  <2> QED
    BY <2>1, <2>3, AlikeKeepsOwnKeys
<1> QED
  BY <1>2, <1>3, ProcessPacketOwnKeys, ProcessAckedPacketOwnKeys DEF DriverStep

----------------------------------------------------------------------------
(* The steps of a host and of a remote *)

LEMMA StartOverOwnKeys ==
  ASSUME LinkInv, NEW n \in Nodes, OwnKeysInv(n, node[n]),
         Become(n, SetLinkingState(ClearSession(node[n]), 0))
  PROVE  KeepsOwnKeys(n)
<1> DEFINE c == ClearSession(node[n])
<1>1. SameKeys(node[n], c) /\ c \in NodeStates
  BY ClearSessionSameKeys DEF LinkInv, NodeInv
<1> HIDE DEF c
<1>2. SameKeys(node[n], SetLinkingState(c, 0))
  BY <1>1, SetLinkingStateSameKeys, SameKeysTwice
<1> QED
  BY <1>2, AlikeKeepsOwnKeys DEF c

\* The IV is no part of the key.
LEMMA SetIvOwnKeys ==
  ASSUME LinkInv, NEW n \in Nodes, OwnKeysInv(n, node[n]), NEW id1, NEW id2,
         Become(n, [SetLinkingState(node[n], 2) EXCEPT
                      !.enc = SetIvData(@, node[n].session, id1, id2)])
  PROVE  KeepsOwnKeys(n)
<1> DEFINE s == node[n]
           v == SetLinkingState(s, 2)
           e == SetIvData(s.enc, s.session, id1, id2)
           u == [v EXCEPT !.enc = SetIvData(@, s.session, id1, id2)]
<1>1. s \in NodeStates
  BY DEF LinkInv, NodeInv
<1>2. /\ v \in NodeStates
      /\ v.kx = s.kx /\ v.enc = s.enc /\ v.status = s.status /\ v.out = s.out
  BY <1>1, SetLinkingStateType DEF SetLinkingState, NodeStates
<1>3. e.state = s.enc.state /\ e.block.key = s.enc.block.key
  BY <1>1 DEF SetIvData, NodeStates, Encoders, CipherBlocks
<1> HIDE DEF v
<1>4. u.kx = s.kx /\ u.enc = e /\ u.status = s.status /\ u.out = s.out
  BY <1>2 DEF NodeStates
<1> HIDE DEF u, e
<1>5. SameKeys(s, u)
  BY <1>3, <1>4 DEF SameKeys
<1> QED
  BY <1>5, AlikeKeepsOwnKeys DEF u, v

\* The shared key holds the own pair of the node that computes it.
LEMMA SetKeyOwnKeys ==
  ASSUME LinkInv, NEW n \in Nodes, OwnKeysInv(n, node[n]),
         CanGenerateSharedKey(node[n].kx), node[n].status = "Done",
         Become(n, [SetLinkingState(node[n], 4) EXCEPT
                      !.kx = GenerateSharedKey(@),
                      !.enc = SetSecretKey(@, SharedKey(node[n].kx))])
  PROVE  KeepsOwnKeys(n)
<1> DEFINE s == node[n]
           v == SetLinkingState(s, 4)
           x == GenerateSharedKey(s.kx)
           e == SetSecretKey(s.enc, SharedKey(s.kx))
           u == [v EXCEPT !.kx = GenerateSharedKey(@), !.enc = SetSecretKey(@, SharedKey(s.kx))]
<1>1. s \in NodeStates
  BY DEF LinkInv, NodeInv
<1>2. v \in NodeStates /\ v.kx = s.kx /\ v.enc = s.enc /\ v.status = s.status
  BY <1>1, SetLinkingStateType DEF SetLinkingState, NodeStates
<1>3. x.local = s.kx.local
  BY <1>1 DEF GenerateSharedKey, NodeStates, KeyExchangers
<1>4. e.block.key = SharedKey(s.kx)
  BY <1>1 DEF SetSecretKey, NodeStates, Encoders, CipherBlocks
<1> HIDE DEF v
<1>5. u.kx = x /\ u.enc = e /\ u.status = s.status
  BY <1>2 DEF NodeStates
<1> HIDE DEF u, x, e
<1>6. s.kx.local.owner = n
  BY DEF OwnKeysInv, CanGenerateSharedKey
<1>7. HasPairOf(SharedKey(s.kx), n)
  BY <1>6 DEF HasPairOf, SharedKey
<1>8. OwnKeysInv(n, u)
  BY <1>3, <1>4, <1>5, <1>6, <1>7 DEF OwnKeysInv
<1> QED
  BY <1>8, BecomeKeepsOwnKeys DEF u, v

\* A packet that is no offer, sent by a node whose keys stay as they are.
LEMMA RequestOwnKeys ==
  ASSUME LinkInv, NEW n \in Nodes, OwnKeysInv(n, node[n]),
         NEW w \in NodeStates, SameKeys(node[n], w),
         NEW p, ~IsOffer(p), Become(n, RequestSendPacket(w, p))
  PROVE  KeepsOwnKeys(n)
BY RequestSameKeys, AlikeKeepsOwnKeys

\* A host that starts over, as a remote does, or goes on with its keys.
LEMMA HostAwaitingLinkOwnKeys ==
  ASSUME LinkInv, NEW h \in Hosts, OwnKeysInv(h, node[h]),
         \/ HostOpensSession(h) \/ HostValidatesPartner(h) \/ HostProcessesPKC(h)
         \/ HostFailsPKC(h) \/ HostCancelsPKC(h)
  PROVE  KeepsOwnKeys(h)
<1> DEFINE s == node[h]
<1>1. h \in Nodes /\ s \in NodeStates
  BY DEF LinkInv, NodeInv, Nodes
<1>2. CASE HostOpensSession(h)
  <2> DEFINE c == ClearSession(s)
             w(id) == [NewSession(s, id) EXCEPT !.sessionStamped = TRUE]
  <2>1. PICK id \in Sessions :
          Become(h, w(id)) \/ Become(h, RequestSendPacket(w(id), IdBroadcast(h, w(id))))
    BY <1>2 DEF HostOpensSession
  <2>2. SameKeys(s, c) /\ c \in NodeStates
    BY <1>1, ClearSessionSameKeys
  <2>3. w(id) = [c EXCEPT !.session = id, !.sessionStamped = TRUE]
    BY <2>2 DEF NewSession, NodeStates
  <2> DEFINE opened == [c EXCEPT !.session = id]
  <2> HIDE DEF c, w
  <2>4. opened \in NodeStates /\ SameKeys(c, opened)
    BY <2>2, SameKeysWhenAlike DEF NodeStates, Sessions
  <2>5. w(id) = [opened EXCEPT !.sessionStamped = TRUE]
    BY <2>2, <2>3 DEF NodeStates
  <2> HIDE DEF opened
  <2>6. w(id) \in NodeStates /\ SameKeys(opened, w(id))
    BY <2>4, <2>5, SameKeysWhenAlike DEF NodeStates
  <2>7. SameKeys(s, w(id))
    BY <2>2, <2>4, <2>6, SameKeysTwice
  <2>8. ~IsOffer(IdBroadcast(h, w(id)))
    BY DEF IdBroadcast, Packet, IsOffer
  <2> QED
    BY <1>1, <2>1, <2>6, <2>7, <2>8, RequestOwnKeys, AlikeKeepsOwnKeys
<1>3. CASE HostValidatesPartner(h)
  <2>1. Become(h, [SetLinkingState(s, 2) EXCEPT !.enc = SetIvData(@, s.session, h, s.partner)])
    BY <1>3 DEF HostValidatesPartner, HostSendingPublicKey
  <2> QED
    BY <1>1, <2>1, SetIvOwnKeys
<1>4. CASE HostProcessesPKC(h)
  <2>1. /\ CanGenerateSharedKey(s.kx) /\ s.status = "Done"
        /\ Become(h, [SetLinkingState(s, 4) EXCEPT !.kx = GenerateSharedKey(@),
                                                   !.enc = SetSecretKey(@, SharedKey(s.kx))])
    BY <1>4 DEF HostProcessesPKC, GotSharedKey, HostIs, AtStage, Serving
  <2> QED
    BY <1>1, <2>1, SetKeyOwnKeys
<1>5. CASE HostFailsPKC(h) \/ HostCancelsPKC(h)
  <2>1. Become(h, SetLinkingState(ClearSession(s), 0))
    BY <1>5 DEF HostFailsPKC, HostCancelsPKC, RestartAwaitingLink, BroadcastingOpenSession
  <2> QED
    BY <1>1, <2>1, StartOverOwnKeys
<1> QED
  BY <1>2, <1>3, <1>4, <1>5

\* Of the packets a host sends only the crypto start request is sealed, with
\* the key the host has computed.
LEMMA HostSendsOwnKeys ==
  ASSUME LinkInv, NEW h \in Hosts, OwnKeysInv(h, node[h]),
         \/ HostBroadcasts(h) \/ HostSendsPublicKey(h) \/ HostRequestsCryptoStart(h)
         \/ HostPings(h) \/ HostRequestsInfo(h) \/ HostSendsInfo(h)
         \/ HostRequestsSwitchOver(h)
  PROVE  KeepsOwnKeys(h)
<1> DEFINE s == node[h]
<1>1. h \in Nodes /\ s \in NodeStates
  BY DEF LinkInv, NodeInv, Nodes
<1>2. ASSUME NEW p, ~IsOffer(p), Become(h, RequestSendPacket(s, p))
      PROVE  KeepsOwnKeys(h)
  BY <1>1, <1>2, SameKeysWhenAlike, RequestOwnKeys
<1>3. CASE HostBroadcasts(h)
  <2>1. ~IsOffer(IdBroadcast(h, s))
    BY DEF IdBroadcast, Packet, IsOffer
  <2> QED
    BY <1>2, <1>3, <2>1 DEF HostBroadcasts
<1>4. CASE HostSendsPublicKey(h)
  <2>1. ~IsOffer(HostPublicKey(s))
    BY DEF HostPublicKey, Packet, IsOffer
  <2> QED
    BY <1>2, <1>4, <2>1 DEF HostSendsPublicKey
<1>5. CASE HostPings(h)
  <2>1. \A id : ~IsOffer(Packet("Ping", None, id))
    BY DEF Packet, IsOffer
  <2> QED
    BY <1>2, <1>5, <2>1 DEF HostPings
<1>6. CASE HostRequestsInfo(h) \/ HostSendsInfo(h)
  <2>1. \A sub : ~IsOffer(Packet("Report", sub, INVALID_SESSION))
    BY DEF Packet, IsOffer
  <2> QED
    BY <1>2, <1>6, <2>1 DEF HostRequestsInfo, HostSendsInfo
<1>7. CASE HostRequestsSwitchOver(h)
  <2>1. ~IsOffer(SwitchOverRequest(s))
    BY DEF SwitchOverRequest, Packet, IsOffer
  <2> QED
    BY <1>2, <1>7, <2>1 DEF HostRequestsSwitchOver
<1>8. CASE HostRequestsCryptoStart(h)
  <2> DEFINE p == CryptoStartRequest(s)
             u == RequestSendPacket(s, p)
  <2>1. s.linkState = "AwaitingLink" /\ s.linkingState = 4 /\ Become(h, u)
    BY <1>8 DEF HostRequestsCryptoStart, HostIs, AtStage, Serving, GotSharedKey
  <2>2. s.enc.state = "AllReady"
    BY <1>1, <2>1 DEF LinkInv, NodeInv, CipherInv
  <2>3. HasPairOf(p.seal.key, h)
    BY <2>2 DEF OwnKeysInv, CryptoStartRequest, SwitchOverRequest, Packet
  <2> HIDE DEF p
  <2>4. u.kx = s.kx /\ u.enc = s.enc /\ u.out = p
    BY <1>1 DEF RequestSendPacket, NodeStates
  <2> HIDE DEF u
  <2>5. OwnKeysInv(h, u)
    BY <2>3, <2>4 DEF OwnKeysInv
  <2> QED
    BY <1>1, <2>1, <2>5, BecomeKeepsOwnKeys
<1> QED
  BY <1>3, <1>4, <1>5, <1>6, <1>7, <1>8

LEMMA HostAnswersClockOwnKeys ==
  ASSUME LinkInv, NEW h \in Nodes, OwnKeysInv(h, node[h]), NEW sub, HostAnswersClock(h, sub)
  PROVE  KeepsOwnKeys(h)
<1> DEFINE s == node[h]
<1>1. s \in NodeStates
  BY DEF LinkInv, NodeInv
<1>2. PICK good \in BOOLEAN :
        Become(h, RequestSendPacket([OnEstimationReceived(s, good) EXCEPT !.txn = ClearTransaction],
                                    Packet("Short", sub, s.txn.id)))
  BY DEF HostAnswersClock
<1> DEFINE count == IF HostIsSynced(s) THEN s.goodCount
                    ELSE IF good THEN s.goodCount + 1 ELSE 0
           u == [s EXCEPT !.goodCount = count]
           v == [u EXCEPT !.txn = ClearTransaction]
           p == Packet("Short", sub, s.txn.id)
<1>3. count \in 0..(MinClockSamples + 1)
  BY <1>1, SampleAssumption DEF HostIsSynced, NodeStates
<1>4. Become(h, RequestSendPacket(v, p))
  BY <1>2 DEF OnEstimationReceived
<1>5. ~IsOffer(p)
  BY DEF Packet, IsOffer
<1> HIDE DEF count, p
<1>6. u \in NodeStates /\ SameKeys(s, u)
  BY <1>1, <1>3, SameKeysWhenAlike DEF NodeStates
<1> HIDE DEF u
<1>7. v \in NodeStates /\ SameKeys(u, v)
  BY <1>6, ClearedTypes, SameKeysWhenAlike DEF NodeStates
<1>8. SameKeys(s, v)
  BY <1>6, <1>7, SameKeysTwice
<1> HIDE DEF v
<1> QED
  BY <1>4, <1>5, <1>7, <1>8, RequestOwnKeys

LEMMA HostStepOwnKeys ==
  ASSUME LinkInv, NEW h \in Nodes, OwnKeysInv(h, node[h]), HostStep(h)
  PROVE  KeepsOwnKeys(h)
<1> DEFINE s == node[h]
<1>1. s \in NodeStates
  BY DEF LinkInv, NodeInv
<1>2. h \in Hosts
  BY DEF HostStep, HostOpensSession, HostBroadcasts, HostValidatesPartner, HostSendsPublicKey,
         HostProcessesPKC, HostFailsPKC, HostCancelsPKC, HostRequestsCryptoStart, HostPings,
         HostSetsLatency, HostRequestsInfo, HostHasInfo, HostSendsInfo, HostSyncsClock,
         HostClockSynced, HostRequestsSwitchOver, HostTunesClock, HostIs
<1>3. CASE HostSetsLatency(h) \/ HostHasInfo(h)
  <2>1. PICK stage \in {1, 2} : Become(h, [s EXCEPT !.infoStage = stage])
    BY <1>3 DEF HostSetsLatency, HostHasInfo
  <2>2. SameKeys(s, [s EXCEPT !.infoStage = stage])
    BY <1>1, SameKeysWhenAlike DEF NodeStates
  <2> QED
    BY <2>1, <2>2, AlikeKeepsOwnKeys
<1>4. CASE HostSyncsClock(h) \/ HostTunesClock(h)
  BY <1>4, HostAnswersClockOwnKeys DEF HostSyncsClock, HostTunesClock
<1>5. CASE HostClockSynced(h)
  <2>1. Become(h, SetLinkingState(s, 2))
    BY <1>5 DEF HostClockSynced, LinkProtocolSwitchOver
  <2> QED
    BY <1>1, <2>1, SetLinkingStateSameKeys, AlikeKeepsOwnKeys
<1> QED
  BY <1>2, <1>3, <1>4, <1>5, HostAwaitingLinkOwnKeys, HostSendsOwnKeys DEF HostStep

LEMMA RemoteSendsOwnKeys ==
  ASSUME LinkInv, NEW r \in Nodes, OwnKeysInv(r, node[r]),
         \/ RemoteSearches(r) \/ RemoteRequestsPKC(r) \/ RemoteSendsPublicKey(r)
         \/ RemoteSendsInfo(r)
  PROVE  KeepsOwnKeys(r)
<1> DEFINE s == node[r]
<1>1. s \in NodeStates
  BY DEF LinkInv, NodeInv
<1>2. PICK p \in {LinkDiscovery(s), PKCStartRequest(r, s), RemotePublicKey(s),
                  Packet("Report", "InfoSyncRemote", INVALID_SESSION)} :
        Become(r, RequestSendPacket(s, p))
  BY DEF RemoteSearches, RemoteRequestsPKC, RemoteSendsPublicKey, RemoteSendsInfo
<1>3. ~IsOffer(p)
  BY DEF LinkDiscovery, PKCStartRequest, RemotePublicKey, Packet, IsOffer
<1>4. SameKeys(s, s)
  BY SameKeysWhenAlike
<1> QED
  BY <1>1, <1>2, <1>3, <1>4, RequestOwnKeys

LEMMA RemoteStepOwnKeys ==
  ASSUME LinkInv, NEW r \in Nodes, OwnKeysInv(r, node[r]), RemoteStep(r)
  PROVE  KeepsOwnKeys(r)
<1> DEFINE s == node[r]
<1>1. s \in NodeStates
  BY DEF LinkInv, NodeInv
<1>2. CASE RemoteValidatesPartner(r)
  <2>1. Become(r, [SetLinkingState(s, 2) EXCEPT !.enc = SetIvData(@, s.session, s.partner, r)])
    BY <1>2 DEF RemoteValidatesPartner, AwaitingHostPublicKey
  <2> QED
    BY <2>1, SetIvOwnKeys
<1>3. CASE RemoteProcessesPKC(r)
  <2>1. /\ CanGenerateSharedKey(s.kx) /\ s.status = "Done"
        /\ Become(r, [SetLinkingState(s, 4) EXCEPT !.kx = GenerateSharedKey(@),
                                                   !.enc = SetSecretKey(@, SharedKey(s.kx))])
    BY <1>3 DEF RemoteProcessesPKC, RemoteSendingPublicKey, RemoteIs, AtStage, Serving
  <2> QED
    BY <2>1, SetKeyOwnKeys
<1>4. CASE RemoteFailsPKC(r) \/ RemoteCancelsPKC(r)
  <2>1. Become(r, SetLinkingState(ClearSession(s), 0))
    BY <1>4 DEF RemoteFailsPKC, RemoteCancelsPKC, SearchAgain, SearchingForHost
  <2> QED
    BY <2>1, StartOverOwnKeys
<1>5. CASE RemoteHasInfo(r) \/ RemoteSwitchesOver(r)
  <2>1. PICK stage \in {1, 3} : Become(r, SetLinkingState(s, stage))
    BY <1>5 DEF RemoteHasInfo, RemoteSwitchesOver
  <2>2. stage \in 0..5
    OBVIOUS
  <2> QED
    BY <1>1, <2>1, <2>2, SetLinkingStateSameKeys, AlikeKeepsOwnKeys
<1>6. CASE RemoteSyncsClock(r) \/ RemoteTunesClock(r)
  <2>1. \/ Become(r, [s EXCEPT !.txn = ClearTransaction])
        \/ \E id \in RequestIds, sub \in {"NtpRequest", "NtpTuneRequest"} :
             Become(r, RequestClock(s, sub, id))
    BY <1>6 DEF RemoteSyncsClock, RemoteTunesClock
  <2>2. CASE Become(r, [s EXCEPT !.txn = ClearTransaction])
    <3>1. SameKeys(s, [s EXCEPT !.txn = ClearTransaction])
      BY <1>1, SameKeysWhenAlike DEF NodeStates
    <3> QED
      BY <2>2, <3>1, AlikeKeepsOwnKeys
  <2>3. ASSUME NEW id \in RequestIds, NEW sub \in {"NtpRequest", "NtpTuneRequest"},
               Become(r, RequestClock(s, sub, id))
        PROVE  KeepsOwnKeys(r)
    <3> DEFINE u == [s EXCEPT !.txn = [stage |-> "Requested", id |-> id]]
               p == Packet("Short", sub, id)
    <3>1. Become(r, RequestSendPacket(u, p))
      BY <2>3 DEF RequestClock
    <3>2. [stage |-> "Requested", id |-> id] \in Transactions
      BY IdAssumption DEF Transactions
    <3>3. u \in NodeStates /\ SameKeys(s, u)
      BY <1>1, <3>2, SameKeysWhenAlike DEF NodeStates
    <3>4. ~IsOffer(p)
      BY DEF Packet, IsOffer
    <3> HIDE DEF u, p
    <3> QED
      BY <3>1, <3>3, <3>4, RequestOwnKeys
  <2> QED
    BY <2>1, <2>2, <2>3
<1> QED
  BY <1>2, <1>3, <1>4, <1>5, <1>6, RemoteSendsOwnKeys DEF RemoteStep

----------------------------------------------------------------------------
(* From the keys of a node to those of a link *)

\* A remote trusts the offer of a host, sealed under the key both computed; it
\* goes on trusting it along the attempt.
LEMMA RemoteMoverTrusts ==
  ASSUME NEW n \in Remotes, NEW s, NEW u, NodeInv(n, u), Moves(n, s, u),
         KeyInv(n, s), OwnKeysInv(n, u), Trusts(n, u)
  PROVE  AuthenticBlock(u.enc.block)
<1> DEFINE h == u.partner
<1>1. n \in Nodes /\ n \notin Hosts
  BY RoleAssumption DEF Nodes
<1>2. InTheLink(u) \/ (u.linkState = "AwaitingLink" /\ u.linkingState = 5)
  BY <1>1 DEF Trusts
<1>3. h \in Hosts /\ Accepted(u, h)
  BY <1>2 DEF Moves, EndInv, PartnerInv, Accepted
<1>4. u.enc.state # "AllClear" /\ u.enc.block.iv = LinkIvOf(n, u)
  BY <1>2 DEF NodeInv, CipherInv, InTheLink
<1>5. u.enc.block.iv.id1 = h /\ u.enc.block.iv.id2 = n
  BY <1>1, <1>4 DEF LinkIvOf
<1>6. CASE /\ Offered(s, h, n)
           /\ SameTerms(s.inbox.packet.seal, u.enc.block)
  <2>1. HasPairOf(u.enc.block.key, h)
    BY <1>6 DEF Offered, SameTerms, KeyInv, OfferInv
  <2>2. HasPairOf(u.enc.block.key, n)
    BY <1>4 DEF OwnKeysInv
  <2> QED
    BY <1>5, <2>1, <2>2 DEF AuthenticBlock
<1>7. CASE Accepted(s, h) /\ SameTerms(s.enc.block, u.enc.block)
  <2>1. AuthenticBlock(s.enc.block)
    BY <1>7 DEF Accepted, Trusts, KeyInv
  <2> QED
    BY <1>7, <2>1 DEF SameTerms, AuthenticBlock
<1> QED
  BY <1>3, <1>6, <1>7 DEF Moves, RemoteMoves

\* A host may commit only if it could before its step, on the same terms.
LEMMA HostMoverTrusts ==
  ASSUME NEW n \in Hosts, NEW s, NEW u, Moves(n, s, u), KeyInv(n, s), Trusts(n, u)
  PROVE  AuthenticBlock(u.enc.block)
<1> DEFINE r == u.partner
<1>1. n \notin Remotes
  BY RoleAssumption
<1>2. MayCommit(u) /\ InTheLink(u)
  BY <1>1 DEF Trusts, MayCommit, InTheLink
<1>3. r \in Remotes /\ Engaged(u, r)
  BY <1>2 DEF Moves, EndInv, PartnerInv, Engaged
<1>4. u.linkState # "AwaitingLink"
  BY <1>2 DEF InTheLink
<1>5. MayCommit(s) /\ (Keyed(s) => SameTerms(s.enc.block, u.enc.block))
  BY <1>2, <1>3, <1>4 DEF Moves, HostMoves
<1>6. Keyed(s) /\ AuthenticBlock(s.enc.block)
  BY <1>5 DEF MayCommit, Keyed, InTheLink, KeyInv, Trusts
<1> QED
  BY <1>5, <1>6 DEF SameTerms, AuthenticBlock

LEMMA MoverKeys ==
  ASSUME NEW n \in Nodes, NEW s, NEW u, NodeInv(n, u), Moves(n, s, u),
         KeyInv(n, s), OwnKeysInv(n, u)
  PROVE  KeyInv(n, u)
<1>1. OfferInv(u)
  BY DEF Moves, KeyInv, OfferInv
<1>2. Trusts(n, u) => AuthenticBlock(u.enc.block)
  BY RemoteMoverTrusts, HostMoverTrusts DEF Nodes
<1> QED
  BY <1>1, <1>2 DEF KeyInv

\* What a node hears lets it commit only when it comes from the one other node
\* of its cipher, a remote that trusts that very cipher.
LEMMA HearerKeys ==
  ASSUME NEW m \in Nodes, NEW s, NodeInv(m, s), KeyInv(m, s),
         NEW n \in Nodes, NEW u, KeyInv(n, u),
         NEW f, Truthful(n, u, f), f.cipher = FrameCipher(s.enc)
  PROVE  KeyInv(m, [s EXCEPT !.inbox = f])
<1> DEFINE v == [s EXCEPT !.inbox = f]
<1>1. /\ v.linkState = s.linkState /\ v.linkingState = s.linkingState
      /\ v.kx = s.kx /\ v.enc = s.enc /\ v.status = s.status /\ v.out = s.out
      /\ v.inbox = f
  BY DEF NodeInv, NodeStates
<1> HIDE DEF v
<1>2. OwnKeysInv(m, v)
  BY <1>1 DEF KeyInv, OwnKeysInv
<1>3. OfferInv(v)
  BY <1>1 DEF OfferInv, Truthful
<1>4. ASSUME MayCommit(v), ~MayCommit(s) PROVE AuthenticBlock(v.enc.block)
  <2>1. s.linkState = "Linking" /\ IsSwitchOverAck(f.packet)
    BY <1>1, <1>4 DEF MayCommit, Reads
  <2>2. f.cipher = s.enc.block /\ f.cipher # None
    BY <2>1, CipherInTheLink DEF InTheLink
  <2>3. Trusts(n, u) /\ u.enc.block = s.enc.block
    BY <2>1, <2>2 DEF Truthful, Trusts
  <2> QED
    BY <1>1, <2>3 DEF KeyInv
<1>5. Trusts(m, v) => AuthenticBlock(v.enc.block)
  BY <1>1, <1>4 DEF Trusts, InTheLink, KeyInv
<1>6. KeyInv(m, v)
  BY <1>2, <1>3, <1>5 DEF KeyInv
<1> QED
  BY <1>6 DEF v

----------------------------------------------------------------------------
(* The theorems *)

LEMMA InitAuthentic == Init => AuthenticInv
<1> SUFFICES ASSUME Init PROVE AuthenticInv
  OBVIOUS
<1>1. \A n \in Nodes : node[n] = InitialNode
  BY DEF Init
<1>2. \A n : OwnKeysInv(n, InitialNode)
  BY DEF InitialNode, OwnKeysInv, ClearKeyExchanger, ClearEncoder
<1>3. OfferInv(InitialNode)
  BY DEF InitialNode, OfferInv
<1>4. \A n : ~Trusts(n, InitialNode)
  BY DEF InitialNode, Trusts, InTheLink, MayCommit
<1> QED
  BY <1>1, <1>2, <1>3, <1>4, InitAgreementInv DEF AuthenticInv, KeyInv

LEMMA StepAuthentic ==
  ASSUME AuthenticInv, NEW n \in Nodes, AgreesAgain(n), KeepsOwnKeys(n)
  PROVE  AuthenticInv'
<1>1. AgreementInv' /\ LinkInv' /\ Moves(n, node[n], node'[n])
  BY DEF AgreesAgain, AgreementInv, Stepped
<1>2. NodeInv(n, node'[n])
  BY <1>1 DEF LinkInv
<1>3. KeyInv(n, node'[n])
  BY <1>1, <1>2, MoverKeys DEF AuthenticInv, KeepsOwnKeys
<1>4. ASSUME NEW m \in Nodes, m # n PROVE KeyInv(m, node'[m])
  <2>1. NodeInv(m, node[m]) /\ KeyInv(m, node[m])
    BY DEF AuthenticInv, AgreementInv, LinkInv
  <2>2. \/ node'[m] = node[m]
        \/ \E f : /\ Truthful(n, node'[n], f)
                  /\ f.cipher = FrameCipher(node[m].enc)
                  /\ node'[m] = [node[m] EXCEPT !.inbox = f]
    BY <1>4 DEF KeepsOwnKeys
  <2>3. ASSUME NEW f, Truthful(n, node'[n], f), f.cipher = FrameCipher(node[m].enc)
        PROVE  KeyInv(m, [node[m] EXCEPT !.inbox = f])
    <3> DEFINE s == node[m]
               u == node'[n]
    <3>1. /\ NodeInv(m, s) /\ KeyInv(m, s) /\ KeyInv(n, u)
          /\ Truthful(n, u, f) /\ f.cipher = FrameCipher(s.enc)
      BY <1>3, <2>1, <2>3
    <3> HIDE DEF s, u
    <3>2. KeyInv(m, [s EXCEPT !.inbox = f])
      BY <3>1, HearerKeys
    <3> QED
      BY <3>2 DEF s
  <2> QED
    BY <2>1, <2>2, <2>3
<1> QED
  BY <1>1, <1>3, <1>4 DEF AuthenticInv

LEMMA NextAuthentic == AuthenticInv /\ [Next]_vars => AuthenticInv'
<1> SUFFICES ASSUME AuthenticInv, [Next]_vars PROVE AuthenticInv'
  OBVIOUS
<1>1. AgreementInv /\ LinkInv /\ \A n \in Nodes : EndInv(n, node[n]) /\ OwnKeysInv(n, node[n])
  BY DEF AuthenticInv, AgreementInv, KeyInv
<1>2. LinkInv'
  BY <1>1, NextKept DEF Kept
<1>3. CASE UNCHANGED vars
  BY <1>3, <1>1, NextAgrees DEF vars, AuthenticInv
<1>4. CASE Next
  <2>1. PICK n \in Nodes : \/ ManagerStep(n) \/ DriverStep(n) \/ SendStep(n)
                           \/ LinkStep(n) \/ HostStep(n) \/ RemoteStep(n)
    BY <1>4 DEF Next
  <2>2. AgreesAgain(n)
    BY <1>1, <1>2, <2>1, ManagerStepAgrees, DriverStepAgrees, SendStepAgrees, LinkStepAgrees,
       HostStepAgrees, RemoteStepAgrees
  <2>3. KeepsOwnKeys(n)
    BY <1>1, <2>1, ManagerStepOwnKeys, DriverStepOwnKeys, SendStepOwnKeys, LinkStepOwnKeys,
       HostStepOwnKeys, RemoteStepOwnKeys
  <2> QED
    BY <2>2, <2>3, StepAuthentic
<1> QED
  BY <1>3, <1>4

\* The pair of its own in every key a node uses, and that of its partner in
\* the key of a remote that accepted an offer or of a host about to commit.
THEOREM AuthenticInvariant == Spec => []AuthenticInv
<1> QED
  BY InitAuthentic, NextAuthentic, PTL DEF Spec

\* A remote in the link, and a host that has committed, share their key with
\* their partner and no other node: among any number of hosts and remotes.
THEOREM LinkIsAuthentic == Spec => []AuthenticLink
<1>1. AuthenticInv => AuthenticLink
  <2> SUFFICES ASSUME AuthenticInv, NEW n \in Nodes,
                      IF n \in Remotes THEN InLink(n) ELSE Committed(n)
               PROVE  \E mine, theirs \in node[n].enc.block.key :
                        mine.owner = n /\ theirs.owner = node[n].partner
    BY DEF AuthenticLink
  <2>1. NodeInv(n, node[n]) /\ KeyInv(n, node[n])
    BY DEF AuthenticInv, AgreementInv, LinkInv
  <2>2. InTheLink(node[n])
    BY DEF InLink, Committed, InTheLink
  <2>3. Trusts(n, node[n])
    BY <2>2 DEF Nodes, Trusts, Committed, LinkingDone, MayCommit
  <2>4. AuthenticBlock(node[n].enc.block)
    BY <2>1, <2>3 DEF KeyInv
  <2>5. node[n].enc.block.iv = LinkIvOf(n, node[n])
    BY <2>1, <2>2, CipherInTheLink
  <2>6. /\ HasPairOf(node[n].enc.block.key, n)
        /\ HasPairOf(node[n].enc.block.key, node[n].partner)
    BY <2>4, <2>5 DEF AuthenticBlock, LinkIvOf
  <2> QED
    BY <2>6 DEF HasPairOf
<1> QED
  BY <1>1, AuthenticInvariant, PTL

=============================================================================
