---------------------- MODULE LoLaLinkAgreement_proof ----------------------
(***************************************************************************)
(* The two ends of a link agree, for any number of hosts and remotes on    *)
(* the channel: theorems on pairs of nodes, from those of LoLaLink_proof   *)
(* on each node.                                                           *)
(*                                                                         *)
(* Acks and public keys name no sender and a session is a byte: what keeps *)
(* the two ends together is that a node holds one incoming packet and      *)
(* sends nothing until it has processed it. A host that seals an offer (a  *)
(* crypto start request) for a remote holds no packet then, and a remote   *)
(* that holds or has accepted one asks for no link. So as long as the      *)
(* remote is in the attempt the host is either in the same attempt, on the *)
(* terms it sealed, or in none with it, for it needs to be asked again.    *)
(* The switch-over is told the same way, under a cipher only the two have. *)
(*                                                                         *)
(* PairInv(h, s, r, t) says so of the states s and t of h and r. A step    *)
(* of a node is summarised by Moves, what it does to its own part of the   *)
(* pairs it is in, and Says, what the frame it puts on the air may be; the *)
(* pairs are shown to survive any step that has these two properties.      *)
(*                                                                         *)
(* With one host and one remote the pair goes through an attempt as        *)
(* AgreedLink has it: a step that Moves goes from a phase to the next      *)
(* (HostGoes, RemoteGoes), and PairInv before and after the step says in   *)
(* which phase the other end is.                                           *)
(***************************************************************************)
EXTENDS LoLaLink_proof

----------------------------------------------------------------------------
(* What an end is to another *)

InTheLink(s) == s.linkState \in {"Linking", "Linked"}

\* A host has a remote as its partner in the attempt it is in.
Engaged(s, r) ==
  /\ s.partner = r
  /\ InTheLink(s) \/ (s.linkState = "AwaitingLink" /\ s.linkingState >= 1)

\* It has computed the shared key.
Keyed(s) == InTheLink(s) \/ (s.linkState = "AwaitingLink" /\ s.linkingState >= 4)

\* A remote has accepted the offer of a host.
Accepted(t, h) ==
  /\ t.partner = h
  /\ InTheLink(t) \/ (t.linkState = "AwaitingLink" /\ t.linkingState = 5)

PastClockSync(s) == s.linkState = "Linked" \/ (s.linkState = "Linking" /\ s.linkingState >= 2)

\* Nothing is computed or answered before the node is started again.
Out(s) == s.linkState \in {"Disabled", "Setup"}

IsAsk(p) == p.sub = "PkcStartRequest"
IsOffer(p) == p.seal # None
IsSwitchOver(p) == p.header = "ShortWithAck" /\ p.seal = None
IsSwitchOverAck(p) == p.header = "Ack" /\ p.sub = "ShortWithAck"

\* The node can read the packet it holds.
Reads(s) == s.inbox # None /\ s.inbox.cipher = FrameCipher(s.enc)

Asked(s, r) == s.inbox # None /\ IsAsk(s.inbox.packet) /\ s.inbox.packet.peer = r

Offered(t, h, r) ==
  /\ t.inbox # None /\ IsOffer(t.inbox.packet)
  /\ t.inbox.packet.peer = r /\ t.inbox.packet.seal.iv.id1 = h

\* The host is committed, or holds what lets it commit.
MayCommit(s) ==
  \/ s.linkState = "Linked"
  \/ /\ s.linkState = "Linking"
     /\ \/ s.linkingState >= 3
        \/ s.status = "AckOk" /\ s.out.header = "ShortWithAck"
        \/ Reads(s) /\ IsSwitchOverAck(s.inbox.packet)

\* The host has been answered, or holds the answer: an ack in plain text says
\* neither who sends it nor what about.
MayEnter(s) ==
  \/ InTheLink(s)
  \/ /\ s.linkState = "AwaitingLink"
     /\ \/ s.linkingState = 5
        \/ s.status = "AckOk" /\ s.out.header = "ShortWithAck"
        \/ s.inbox # None /\ IsSwitchOverAck(s.inbox.packet)

\* The remote has switched over, or holds what lets it.
MaySwitchOver(t) ==
  \/ t.linkState = "Linked"
  \/ /\ t.linkState = "Linking"
     /\ \/ t.linkingState >= 2
        \/ Reads(t) /\ IsSwitchOver(t.inbox.packet)

SameTerms(a, b) == a.key = b.key /\ a.iv = b.iv

\* There are no others on the channel.
Alone(h, r) == Hosts = {h} /\ Remotes = {r}

----------------------------------------------------------------------------
(* The inductive invariant *)

PairInv(h, s, r, t) ==
  /\ Offered(t, h, r) =>
       /\ ~Asked(s, r)
       /\ Engaged(s, r) => /\ Keyed(s)
                           /\ SameTerms(s.enc.block, t.inbox.packet.seal)
                           /\ ~MayCommit(s)
                           /\ Alone(h, r) => ~MayEnter(s)
  /\ Accepted(t, h) =>
       /\ ~Asked(s, r)
       /\ Engaged(s, r) => /\ Keyed(s)
                           /\ SameTerms(s.enc.block, t.enc.block)
                           /\ MayCommit(s) => PastClockSync(t)
                           /\ MaySwitchOver(t) => PastClockSync(s)

\* A remote never waits for an ack, and no service sends one by itself.
OwnPacket(n, p) == p.header # "Ack" /\ (n \in Remotes => ~HasACK(p))

\* A packet a node may be about to send: what it says is still true of the
\* node, unless the node was stopped since and its state is gone.
MaySend(n, s, p) ==
  /\ IsAsk(p) =>
       /\ n \in Remotes /\ p.peer = n /\ ~InTheLink(s)
       /\ s.linkState = "AwaitingLink" => s.linkingState <= 3
  /\ IsOffer(p) =>
       /\ n \in Hosts /\ p.header = "ShortWithAck" /\ p.seal.iv.id1 = n
       /\ Out(s) \/ /\ s.linkState = "AwaitingLink" /\ s.linkingState = 4
                    /\ p.seal = s.enc.block /\ p.peer = s.partner
  /\ IsSwitchOver(p) =>
       /\ n \in Hosts
       /\ Out(s) \/ (s.linkState = "Linking" /\ s.linkingState = 2)

WaitingInv(n, s) ==
  /\ s.status # "Done" => OwnPacket(n, s.out)
  /\ s.status = "SendingPacket" => MaySend(n, s, s.out)

\* Past the first stage a node holds a packet it could read when it came, and
\* it is in plain text wherever it has no cipher to use.
PlainInv(s) ==
  /\ s.linkState = "AwaitingLink" /\ s.linkingState >= 1 /\ s.inbox # None
       => s.inbox.cipher = None
  /\ s.linkState \in {"Setup", "AwaitingSleeping"} => s.enc.state # "FullPower"

\* A host is asked by a remote, a remote accepts the offer of a host.
PartnerInv(n, s) ==
  /\ s.inbox # None =>
       /\ IsAsk(s.inbox.packet) => s.inbox.packet.peer \in Remotes
       /\ IsOffer(s.inbox.packet) => s.inbox.packet.seal.iv.id1 \in Hosts
  /\ n \in Hosts /\ (InTheLink(s) \/ (s.linkState = "AwaitingLink" /\ s.linkingState >= 1))
       => s.partner \in Remotes
  /\ n \in Remotes /\ (InTheLink(s) \/ (s.linkState = "AwaitingLink" /\ s.linkingState = 5))
       => s.partner \in Hosts

EndInv(n, s) == WaitingInv(n, s) /\ PlainInv(s) /\ PartnerInv(n, s)

AgreementInv ==
  /\ LinkInv
  /\ \A n \in Nodes : EndInv(n, node[n])
  /\ \A h \in Hosts, r \in Remotes : PairInv(h, node[h], r, node[r])

----------------------------------------------------------------------------
(* What a step of a node is to the others *)

\* A host that is engaged was so before, or was just asked; what it is agreed
\* on stays as it was, and only a packet lets it commit.
HostMoves(s, u) ==
  \A r \in Remotes : Engaged(u, r) =>
    \/ Asked(s, r) /\ u.inbox = None /\ u.linkState = "AwaitingLink"
    \/ /\ Engaged(s, r)
       /\ Keyed(s) => /\ Keyed(u) /\ SameTerms(s.enc.block, u.enc.block)
                      /\ MayEnter(u) => MayEnter(s)
       /\ MayCommit(u) => MayCommit(s)
       /\ PastClockSync(s) => PastClockSync(u)

\* A remote that has accepted had done so before, or held the offer.
RemoteMoves(n, s, u) ==
  \A h \in Hosts : Accepted(u, h) =>
    \/ /\ Offered(s, h, n)
       /\ SameTerms(s.inbox.packet.seal, u.enc.block)
       /\ ~MaySwitchOver(u)
    \/ /\ Accepted(s, h)
       /\ SameTerms(s.enc.block, u.enc.block)
       /\ MaySwitchOver(u) => MaySwitchOver(s)
       /\ PastClockSync(s) => PastClockSync(u)

\* An end goes through an attempt by one phase at a time, on the same terms.
HostGoes(s, u) ==
  \/ HostPhase(u) = "Apart"
  \/ HostPhase(s) = "Apart" /\ HostPhase(u) = "Entered"
  \/ /\ SameTerms(s.enc.block, u.enc.block)
     /\ \/ HostPhase(u) = HostPhase(s)
        \/ HostPhase(s) = "Entered" /\ HostPhase(u) = "Joining"
        \/ HostPhase(s) = "Joining" /\ HostPhase(u) = "Asking"
        \/ HostPhase(s) = "Asking" /\ HostPhase(u) = "Committed"

RemoteGoes(s, u) ==
  \/ RemotePhase(u) = "Apart"
  \/ RemotePhase(s) = "Apart" /\ RemotePhase(u) = "Entered"
  \/ /\ SameTerms(s.enc.block, u.enc.block)
     /\ \/ RemotePhase(u) = RemotePhase(s)
        \/ RemotePhase(s) = "Entered" /\ RemotePhase(u) = "Joining"
        \/ RemotePhase(s) = "Joining" /\ RemotePhase(u) = "Committed"

Moves(n, s, u) ==
  /\ EndInv(n, u)
  /\ u.inbox \in {s.inbox, None}
  /\ n \in Hosts => HostMoves(s, u) /\ HostGoes(s, u)
  /\ n \in Remotes => RemoteMoves(n, s, u) /\ RemoteGoes(s, u)

\* One node moves; the others hear it at most.
Stepped(n) ==
  /\ Moves(n, node[n], node'[n])
  /\ \A m \in Nodes \ {n} : /\ node'[m].linkState = node[m].linkState
                           /\ node'[m].linkingState = node[m].linkingState
                           /\ node'[m].enc = node[m].enc

AgreesAgain(n) == AgreementInv' /\ Stepped(n)

\* A frame that node n puts on the air when it becomes u.
Says(n, u, f) ==
  /\ f.cipher # None => /\ n \in Hosts => f.cipher.iv.id1 = n
                        /\ n \in Remotes => f.cipher.iv.id2 = n
  /\ IsAsk(f.packet) =>
       n \in Remotes /\ f.packet.peer = n /\ u.inbox = None /\ \A h \in Hosts : ~Accepted(u, h)
  /\ IsOffer(f.packet) =>
       /\ n \in Hosts /\ f.packet.seal.iv.id1 = n /\ u.inbox = None
       /\ \A r \in Remotes : Engaged(u, r) => /\ Keyed(u)
                                              /\ SameTerms(u.enc.block, f.packet.seal)
                                              /\ ~MayCommit(u) /\ ~MayEnter(u)
  /\ IsSwitchOver(f.packet) /\ f.cipher # None => n \in Hosts /\ PastClockSync(u)
  /\ IsSwitchOverAck(f.packet) => /\ n \in Remotes /\ u.inbox = None
                                  /\ f.cipher # None => PastClockSync(u)

----------------------------------------------------------------------------
(* A pair survives what its two ends and the others do *)

LEMMA PairKeptByHost ==
  ASSUME NEW h \in Hosts, NEW r \in Remotes, NEW s, NEW u, NEW t,
         PairInv(h, s, r, t), Moves(h, s, u)
  PROVE  PairInv(h, u, r, t)
<1>1. ~Asked(s, r) => ~Asked(u, r)
  BY DEF Moves, Asked
<1>2. Engaged(u, r) =>
        \/ Asked(s, r) /\ u.inbox = None
        \/ /\ Engaged(s, r)
           /\ Keyed(s) => /\ Keyed(u) /\ SameTerms(s.enc.block, u.enc.block)
                          /\ MayEnter(u) => MayEnter(s)
           /\ MayCommit(u) => MayCommit(s)
           /\ PastClockSync(s) => PastClockSync(u)
  BY DEF Moves, HostMoves
<1> QED
  BY <1>1, <1>2 DEF PairInv, SameTerms

LEMMA PairKeptByRemote ==
  ASSUME NEW h \in Hosts, NEW r \in Remotes, NEW s, NEW t, NEW u,
         PairInv(h, s, r, t), Moves(r, t, u)
  PROVE  PairInv(h, s, r, u)
<1>1. Offered(u, h, r) => Offered(t, h, r) /\ u.inbox = t.inbox
  BY DEF Moves, Offered
<1>2. Accepted(u, h) =>
        \/ /\ Offered(t, h, r)
           /\ SameTerms(t.inbox.packet.seal, u.enc.block)
           /\ ~MaySwitchOver(u)
        \/ /\ Accepted(t, h)
           /\ SameTerms(t.enc.block, u.enc.block)
           /\ MaySwitchOver(u) => MaySwitchOver(t)
           /\ PastClockSync(t) => PastClockSync(u)
  BY DEF Moves, RemoteMoves
<1> QED
  BY <1>1, <1>2 DEF PairInv, SameTerms

\* The cipher of a node in a link is its block, under the IV of its link.
LEMMA CipherInTheLink ==
  ASSUME NEW n \in Nodes, NEW s, NodeInv(n, s), InTheLink(s)
  PROVE  /\ FrameCipher(s.enc) = s.enc.block /\ s.enc.block # None
         /\ s.enc.block.iv = LinkIvOf(n, s)
BY NoneAssumption DEF InTheLink, NodeInv, CipherInv, FrameCipher, NodeStates, Encoders

\* A frame a host hears: the asking remote has accepted nothing, and an answer
\* under the cipher of the host comes from its partner.
LEMMA PairKeptWhenHostHears ==
  ASSUME NEW h \in Hosts, NEW r \in Remotes, NEW s, NEW t, NodeInv(h, s), PairInv(h, s, r, t),
         NEW n \in Nodes, NEW u, NEW f, Says(n, u, f), n # h, n = r => t = u,
         s.inbox = None, f.cipher = FrameCipher(s.enc)
  PROVE  PairInv(h, [s EXCEPT !.inbox = f], r, t)
<1> DEFINE v == [s EXCEPT !.inbox = f]
<1>1. /\ v.linkState = s.linkState /\ v.linkingState = s.linkingState
      /\ v.partner = s.partner /\ v.enc = s.enc /\ v.status = s.status /\ v.out = s.out
      /\ v.inbox = f
  BY DEF NodeInv, NodeStates
<1> HIDE DEF v
<1>2. ASSUME Asked(v, r) PROVE ~Offered(t, h, r) /\ ~Accepted(t, h)
  <2>1. n = r /\ t.inbox = None /\ ~Accepted(t, h)
    BY <1>1, <1>2 DEF Asked, Says
  <2> QED
    BY <2>1 DEF Offered
<1>3. ASSUME Engaged(s, r), MayCommit(v), ~MayCommit(s)
      PROVE  n = r /\ PastClockSync(t) /\ ~Offered(t, h, r)
  <2>1. s.linkState = "Linking" /\ IsSwitchOverAck(f.packet)
    BY <1>1, <1>3 DEF MayCommit, Reads
  <2>2. f.cipher = s.enc.block /\ f.cipher # None /\ f.cipher.iv = LinkIvOf(h, s)
    BY <2>1, CipherInTheLink DEF InTheLink, Nodes
  <2>3. n \in Remotes /\ PastClockSync(u) /\ u.inbox = None /\ f.cipher.iv.id2 = n
    BY <2>1, <2>2 DEF Says
  <2>4. n = r
    BY <1>3, <2>2, <2>3 DEF LinkIvOf, Engaged
  <2> QED
    BY <2>3, <2>4 DEF Offered
<1>4. /\ Engaged(v, r) <=> Engaged(s, r)
      /\ Keyed(v) <=> Keyed(s)
      /\ PastClockSync(v) <=> PastClockSync(s)
  BY <1>1 DEF Engaged, InTheLink, Keyed, PastClockSync
<1>5. ASSUME Offered(t, h, r)
      PROVE  /\ ~Asked(v, r)
             /\ Engaged(v, r) => /\ Keyed(v)
                                 /\ SameTerms(v.enc.block, t.inbox.packet.seal)
                                 /\ ~MayCommit(v)
                                 /\ Alone(h, r) => ~MayEnter(v)
  <2>1. ASSUME Alone(h, r), MayEnter(v) PROVE MayEnter(s)
    <3>1. IsSwitchOverAck(f.packet) => n = r /\ ~Offered(t, h, r)
      BY <2>1, RoleAssumption DEF Says, Alone, Offered
    <3> QED
      BY <1>1, <1>5, <2>1, <3>1 DEF MayEnter, InTheLink
  <2> QED
    BY <1>1, <1>2, <1>3, <1>4, <1>5, <2>1 DEF PairInv
<1>6. ASSUME Accepted(t, h)
      PROVE  /\ ~Asked(v, r)
             /\ Engaged(v, r) => /\ Keyed(v)
                                 /\ SameTerms(v.enc.block, t.enc.block)
                                 /\ MayCommit(v) => PastClockSync(t)
                                 /\ MaySwitchOver(t) => PastClockSync(v)
  BY <1>1, <1>2, <1>3, <1>4, <1>6 DEF PairInv
<1>7. PairInv(h, v, r, t)
  BY <1>5, <1>6 DEF PairInv
<1> QED
  BY <1>7 DEF v

\* A frame a remote hears: the host that seals an offer holds no packet, and a
\* request under the cipher of the remote comes from its partner.
LEMMA PairKeptWhenRemoteHears ==
  ASSUME NEW h \in Hosts, NEW r \in Remotes, NEW s, NEW t, NodeInv(r, t), PairInv(h, s, r, t),
         NEW n \in Nodes, NEW u, NEW f, Says(n, u, f), n # r, n = h => s = u,
         t.inbox = None, f.cipher = FrameCipher(t.enc)
  PROVE  PairInv(h, s, r, [t EXCEPT !.inbox = f])
<1> DEFINE v == [t EXCEPT !.inbox = f]
<1>1. /\ v.linkState = t.linkState /\ v.linkingState = t.linkingState
      /\ v.partner = t.partner /\ v.enc = t.enc /\ v.inbox = f
  BY DEF NodeInv, NodeStates
<1> HIDE DEF v
<1>2. ASSUME Offered(v, h, r)
      PROVE  /\ ~Asked(s, r)
             /\ Engaged(s, r) => /\ Keyed(s)
                                 /\ SameTerms(s.enc.block, v.inbox.packet.seal)
                                 /\ ~MayCommit(s)
                                 /\ Alone(h, r) => ~MayEnter(s)
  <2>1. n = h /\ s.inbox = None
    BY <1>1, <1>2 DEF Offered, Says
  <2>2. IsOffer(f.packet)
    BY <1>1, <1>2 DEF Offered
  <2> QED
    BY <1>1, <2>1, <2>2 DEF Says, Asked
<1>3. ASSUME Accepted(t, h), MaySwitchOver(v), ~MaySwitchOver(t)
      PROVE  PastClockSync(s)
  <2>1. t.linkState = "Linking" /\ IsSwitchOver(f.packet)
    BY <1>1, <1>3 DEF MaySwitchOver, Reads
  <2>2. f.cipher = t.enc.block /\ f.cipher # None /\ f.cipher.iv = LinkIvOf(r, t)
    BY <2>1, CipherInTheLink DEF InTheLink, Nodes
  <2>3. n \in Hosts /\ PastClockSync(u) /\ f.cipher.iv.id1 = n
    BY <2>1, <2>2 DEF Says
  <2>4. r \notin Hosts
    BY RoleAssumption
  <2>5. n = h
    BY <1>3, <2>2, <2>3, <2>4 DEF LinkIvOf, Accepted
  <2> QED
    BY <2>3, <2>5
<1>4. /\ Accepted(v, h) <=> Accepted(t, h)
      /\ PastClockSync(v) <=> PastClockSync(t)
  BY <1>1 DEF Accepted, InTheLink, PastClockSync
<1>5. ASSUME Accepted(v, h)
      PROVE  /\ ~Asked(s, r)
             /\ Engaged(s, r) => /\ Keyed(s)
                                 /\ SameTerms(s.enc.block, v.enc.block)
                                 /\ MayCommit(s) => PastClockSync(v)
                                 /\ MaySwitchOver(v) => PastClockSync(s)
  BY <1>1, <1>3, <1>4, <1>5 DEF PairInv
<1>6. PairInv(h, s, r, v)
  BY <1>2, <1>5 DEF PairInv
<1> QED
  BY <1>6 DEF v

----------------------------------------------------------------------------
(* From the states of the ends to the system *)

\* What a node holds does not tell what it may send.
LEMMA EndKeptWhenHearing ==
  ASSUME NEW n \in Nodes, NEW s, NodeInv(n, s), EndInv(n, s), NEW f,
         f.cipher = FrameCipher(s.enc), NEW m \in Nodes, NEW u, Says(m, u, f)
  PROVE  EndInv(n, [s EXCEPT !.inbox = f])
<1> DEFINE v == [s EXCEPT !.inbox = f]
<1>1. /\ v.linkState = s.linkState /\ v.linkingState = s.linkingState
      /\ v.partner = s.partner /\ v.enc = s.enc /\ v.status = s.status /\ v.out = s.out
      /\ v.inbox = f
  BY DEF NodeInv, NodeStates
<1> HIDE DEF v
<1>2. WaitingInv(n, v)
  BY <1>1 DEF EndInv, WaitingInv, MaySend, InTheLink, Out
<1>3. PlainInv(v)
  BY <1>1 DEF EndInv, PlainInv, NodeInv, CipherInv, FrameCipher
<1>4. PartnerInv(n, v)
  BY <1>1 DEF EndInv, PartnerInv, Says, InTheLink
<1>5. EndInv(n, v)
  BY <1>2, <1>3, <1>4 DEF EndInv
<1> QED
  BY <1>5 DEF v

LEMMA BecomeAgrees ==
  ASSUME AgreementInv, LinkInv', NEW n \in Nodes, NEW u, Moves(n, node[n], u), Become(n, u)
  PROVE  AgreesAgain(n)
<1>1. node' = [m \in Nodes |-> IF m = n THEN u ELSE node[m]]
  BY DEF AgreementInv, LinkInv, Become
<1>2. ASSUME NEW m \in Nodes PROVE EndInv(m, node'[m])
  BY <1>1 DEF AgreementInv, Moves
<1>3. ASSUME NEW h \in Hosts, NEW r \in Remotes PROVE PairInv(h, node'[h], r, node'[r])
  <2>1. PairInv(h, node[h], r, node[r]) /\ h \in Nodes /\ r \in Nodes /\ h # r
    BY RoleAssumption DEF AgreementInv, Nodes
  <2>2. CASE n = h
    BY <1>1, <2>1, <2>2, PairKeptByHost
  <2>3. CASE n = r
    BY <1>1, <2>1, <2>3, PairKeptByRemote
  <2>4. CASE n # h /\ n # r
    BY <1>1, <2>1, <2>4
  <2> QED
    BY <2>2, <2>3, <2>4
<1>4. Stepped(n)
  BY <1>1 DEF Stepped
<1> QED
  BY <1>2, <1>3, <1>4 DEF AgreementInv, AgreesAgain

LEMMA TransmitAgrees ==
  ASSUME AgreementInv, LinkInv', NEW n \in Nodes, NEW u, Moves(n, node[n], u),
         NEW f, Says(n, u, f), Transmit(n, u, f)
  PROVE  AgreesAgain(n)
<1>1. PICK heard \in SUBSET Hearers(n, f) :
        node' = [m \in Nodes |-> IF m = n THEN u
                                  ELSE IF m \in heard THEN [node[m] EXCEPT !.inbox = f]
                                  ELSE node[m]]
  BY DEF Transmit
<1>2. \A m \in heard : /\ m \in Nodes /\ m # n
                       /\ node[m].inbox = None /\ f.cipher = FrameCipher(node[m].enc)
  BY DEF Hearers
<1>3. ASSUME NEW m \in Nodes PROVE EndInv(m, node'[m])
  <2>1. NodeInv(m, node[m]) /\ EndInv(m, node[m])
    BY DEF AgreementInv, LinkInv
  <2>2. CASE m = n
    BY <1>1, <2>2 DEF Moves
  <2>3. CASE m # n /\ m \in heard
    BY <1>1, <1>2, <2>1, <2>3, EndKeptWhenHearing
  <2>4. CASE m # n /\ m \notin heard
    BY <1>1, <2>1, <2>4
  <2> QED
    BY <2>2, <2>3, <2>4
<1>4. ASSUME NEW h \in Hosts, NEW r \in Remotes PROVE PairInv(h, node'[h], r, node'[r])
  <2> DEFINE s == IF n = h THEN u ELSE node[h]
             t == IF n = r THEN u ELSE node[r]
  <2>1. /\ PairInv(h, node[h], r, node[r]) /\ h \in Nodes /\ r \in Nodes /\ h # r
        /\ NodeInv(h, node[h]) /\ NodeInv(r, node[r])
    BY RoleAssumption DEF AgreementInv, LinkInv, Nodes
  <2>2. PairInv(h, s, r, t)
    BY <2>1, PairKeptByHost, PairKeptByRemote
  <2>3. PairInv(h, node'[h], r, t)
    <3>1. CASE h \in heard
      <4>1. /\ n # h /\ node'[h] = [node[h] EXCEPT !.inbox = f] /\ s = node[h]
            /\ node[h].inbox = None /\ f.cipher = FrameCipher(node[h].enc)
            /\ n = r => t = u
        BY <1>1, <1>2, <2>1, <3>1
      <4> HIDE DEF s, t
      <4>2. NodeInv(h, s)
        BY <2>1, <4>1
      <4> QED
        BY <2>2, <4>1, <4>2, PairKeptWhenHostHears
    <3>2. CASE h \notin heard
      BY <1>1, <2>1, <2>2, <3>2
    <3> QED
      BY <3>1, <3>2
  <2>4. CASE r \in heard
    <3>1. /\ n # r /\ node'[r] = [node[r] EXCEPT !.inbox = f] /\ t = node[r]
          /\ node[r].inbox = None /\ f.cipher = FrameCipher(node[r].enc)
          /\ n = h => node'[h] = u
      BY <1>1, <1>2, <2>1, <2>4
    <3> HIDE DEF s, t
    <3>2. NodeInv(r, t)
      BY <2>1, <3>1
    <3> QED
      BY <2>3, <3>1, <3>2, PairKeptWhenRemoteHears
  <2>5. CASE r \notin heard
    BY <1>1, <2>1, <2>3, <2>5
  <2> QED
    BY <2>4, <2>5
<1>5. Stepped(n)
  <2>1. ASSUME NEW m \in Nodes \ {n}
        PROVE  /\ node'[m].linkState = node[m].linkState
               /\ node'[m].linkingState = node[m].linkingState
               /\ node'[m].enc = node[m].enc
    BY <1>1 DEF AgreementInv, LinkInv, NodeInv, NodeStates
  <2> QED
    BY <1>1, <2>1 DEF Stepped
<1> QED
  BY <1>3, <1>4, <1>5 DEF AgreementInv, AgreesAgain

----------------------------------------------------------------------------
(* The kinds of moves *)

\* The attempt, its stage and its cipher are left alone.
SameAttempt(s, u) ==
  /\ u.linkState = s.linkState /\ u.linkingState = s.linkingState
  /\ u.partner = s.partner /\ u.enc = s.enc
  /\ u.inbox \in {s.inbox, None}

\* The packet in hand is left alone, or its turn is over.
SamePacket(s, u) ==
  \/ u.status = s.status /\ u.out = s.out
  \/ u.status \in {"SentOk", "WaitingForAck"} /\ u.out = s.out /\ s.status # "Done"
  \/ u.status = "Done"

LEMMA WaitingKept ==
  ASSUME NEW n \in Nodes, NEW s, NEW u, WaitingInv(n, s), SameAttempt(s, u), SamePacket(s, u)
  PROVE  WaitingInv(n, u)
<1>1. MaySend(n, s, s.out) => MaySend(n, u, s.out)
  BY DEF SameAttempt, MaySend, InTheLink, Out
<1> QED
  BY <1>1 DEF WaitingInv, SamePacket

LEMMA SameAttemptMoves ==
  ASSUME NEW n \in Nodes, NEW s, NEW u, EndInv(n, s), SameAttempt(s, u), WaitingInv(n, u),
         u.status = "AckOk" /\ u.out.header = "ShortWithAck"
         => \/ s.status = "AckOk" /\ s.out.header = "ShortWithAck"
            \/ Reads(s) /\ IsSwitchOverAck(s.inbox.packet)
  PROVE  Moves(n, s, u)
<1>1. EndInv(n, u)
  <2>1. PlainInv(u)
    BY DEF EndInv, PlainInv, SameAttempt
  <2>2. PartnerInv(n, u)
    BY DEF EndInv, PartnerInv, SameAttempt, InTheLink
  <2> QED
    BY <2>1, <2>2 DEF EndInv
<1>2. HostMoves(s, u)
  <2>1. \A r \in Remotes : Engaged(u, r) => Engaged(s, r)
    BY DEF SameAttempt, Engaged, InTheLink
  <2>2. Keyed(s) => Keyed(u)
    BY DEF SameAttempt, Keyed, InTheLink
  <2>3. SameTerms(s.enc.block, u.enc.block)
    BY DEF SameAttempt, SameTerms
  <2>4. /\ MayCommit(u) => MayCommit(s)
        /\ MayEnter(u) => MayEnter(s)
    BY DEF SameAttempt, MayCommit, MayEnter, Reads, InTheLink
  <2>5. PastClockSync(s) => PastClockSync(u)
    BY DEF SameAttempt, PastClockSync
  <2> QED
    BY <2>1, <2>2, <2>3, <2>4, <2>5 DEF HostMoves
<1>3. RemoteMoves(n, s, u)
  <2>1. \A h \in Hosts : Accepted(u, h) => Accepted(s, h)
    BY DEF SameAttempt, Accepted, InTheLink
  <2>2. SameTerms(s.enc.block, u.enc.block)
    BY DEF SameAttempt, SameTerms
  <2>3. MaySwitchOver(u) => MaySwitchOver(s)
    BY DEF SameAttempt, MaySwitchOver, Reads
  <2>4. PastClockSync(s) => PastClockSync(u)
    BY DEF SameAttempt, PastClockSync
  <2> QED
    BY <2>1, <2>2, <2>3, <2>4 DEF RemoteMoves
<1>4. HostGoes(s, u) /\ RemoteGoes(s, u)
  BY DEF SameAttempt, SameTerms, HostGoes, RemoteGoes, HostPhase, RemotePhase
<1> QED
  BY <1>1, <1>2, <1>3, <1>4 DEF Moves, SameAttempt

\* A step of another concern than the handshake.
LEMMA QuietMoves ==
  ASSUME NEW n \in Nodes, NEW s, NEW u, EndInv(n, s), SameAttempt(s, u), SamePacket(s, u)
  PROVE  Moves(n, s, u)
<1>1. WaitingInv(n, u)
  BY WaitingKept DEF EndInv
<1>2. u.status = "AckOk" => s.status = "AckOk" /\ u.out = s.out
  BY DEF SamePacket
<1> QED
  BY <1>1, <1>2, SameAttemptMoves DEF EndInv

\* A service asks for a packet to be sent, and does no more for the handshake.
LEMMA RequestMoves ==
  ASSUME NEW n \in Nodes, NEW s, NEW w \in NodeStates, NEW p,
         EndInv(n, s), SameAttempt(s, w), OwnPacket(n, p), MaySend(n, s, p)
  PROVE  Moves(n, s, RequestSendPacket(w, p))
<1> DEFINE u == RequestSendPacket(w, p)
<1>1. /\ u.linkState = w.linkState /\ u.linkingState = w.linkingState
      /\ u.partner = w.partner /\ u.enc = w.enc /\ u.inbox = w.inbox
      /\ u.status = "SendingPacket" /\ u.out = p
  BY DEF RequestSendPacket, NodeStates
<1> HIDE DEF u
<1>2. SameAttempt(s, u)
  BY <1>1 DEF SameAttempt
<1>3. MaySend(n, u, p)
  BY <1>2 DEF SameAttempt, MaySend, InTheLink, Out
<1>4. WaitingInv(n, u)
  BY <1>1, <1>3 DEF WaitingInv
<1>5. Moves(n, s, u)
  BY <1>1, <1>2, <1>4, SameAttemptMoves DEF EndInv
<1> QED
  BY <1>5 DEF u

\* A packet that says nothing of the stage of its sender.
LEMMA PlainPacketMaySend ==
  ASSUME NEW n \in Nodes, NEW s, NEW p, ~IsAsk(p), ~IsOffer(p), ~IsSwitchOver(p)
  PROVE  MaySend(n, s, p)
BY DEF MaySend

\* A node leaves its attempt, if it was in one, whatever it is waiting for.
LEMMA LeavingMoves ==
  ASSUME NEW n \in Nodes, NEW s, NEW u, EndInv(n, s),
         ~InTheLink(u), u.linkState = "AwaitingLink" => u.linkingState = 0,
         u.linkState \in {"Setup", "AwaitingSleeping"} => u.enc.state # "FullPower",
         u.inbox \in {s.inbox, None},
         \/ u.status = "Done"
         \/ Out(u) /\ u.status = s.status /\ u.out = s.out
  PROVE  Moves(n, s, u)
<1>1. WaitingInv(n, u)
  <2>1. Out(u) => u.linkState # "AwaitingLink" /\ (MaySend(n, s, s.out) => MaySend(n, u, s.out))
    BY DEF Out, MaySend, InTheLink
  <2> QED
    BY <2>1 DEF WaitingInv, EndInv
<1>2. EndInv(n, u)
  BY <1>1 DEF EndInv, PlainInv, PartnerInv
<1>3. HostMoves(s, u) /\ RemoteMoves(n, s, u)
  BY DEF HostMoves, Engaged, RemoteMoves, Accepted
<1>4. HostGoes(s, u) /\ RemoteGoes(s, u)
  BY DEF InTheLink, HostGoes, RemoteGoes, HostPhase, RemotePhase,
         LinkingSwitchOver, RemoteLinkingSwitchOver
<1> QED
  BY <1>2, <1>3, <1>4 DEF Moves

\* A stage of AwaitingLink before the offer: nothing is agreed on yet. Only a
\* packet gives a host a partner.
LEMMA PreparingMoves ==
  ASSUME NEW n \in Nodes, NEW s, NEW u, s \in NodeStates, EndInv(n, s),
         s.linkState = "AwaitingLink", s.linkingState <= 3,
         u.linkState = "AwaitingLink", u.linkingState \in 0..4,
         u.inbox \in {s.inbox, None},
         s.linkingState = 0 /\ u.linkingState # 0 => u.inbox = None,
         \/ u.status = "Done"
         \/ u.linkingState <= 3 /\ u.status = s.status /\ u.out = s.out,
         n \in Hosts => \/ u.partner = s.partner /\ s.linkingState >= 1
                        \/ Asked(s, u.partner) /\ u.inbox = None
  PROVE  Moves(n, s, u)
<1>1. WaitingInv(n, u)
  <2>1. s.linkingState \in 0..5
    BY DEF NodeStates
  <2>2. u.linkingState <= 3 /\ MaySend(n, s, s.out) => MaySend(n, u, s.out)
    BY <2>1 DEF Out, MaySend, InTheLink
  <2> QED
    BY <2>2 DEF WaitingInv, EndInv
<1>2. PlainInv(u)
  BY DEF EndInv, PlainInv, NodeStates
<1>3. PartnerInv(n, u)
  <2>1. n \in Hosts => u.partner \in Remotes
    BY DEF EndInv, PartnerInv, Asked
  <2> QED
    BY <2>1 DEF EndInv, PartnerInv, InTheLink
<1>4. n \in Hosts => HostMoves(s, u)
  <2>1. ~Keyed(s) /\ ~MayCommit(u) /\ ~PastClockSync(s)
    BY DEF Keyed, InTheLink, MayCommit, PastClockSync, NodeStates
  <2>2. n \in Hosts =>
          \A r : Engaged(u, r) => Engaged(s, r) \/ (Asked(s, r) /\ u.inbox = None)
    BY DEF Engaged, InTheLink
  <2> QED
    BY <2>1, <2>2 DEF HostMoves
<1>5. RemoteMoves(n, s, u)
  BY DEF RemoteMoves, Accepted, InTheLink
<1>6. HostGoes(s, u) /\ RemoteGoes(s, u)
  BY DEF HostGoes, RemoteGoes, HostPhase, RemotePhase, LinkingSwitchOver,
         RemoteLinkingSwitchOver
<1> QED
  BY <1>1, <1>2, <1>3, <1>4, <1>5, <1>6 DEF Moves, EndInv

\* A stage of Linking: an end goes on, and commits only on what it has read.
LEMMA LinkingMoves ==
  ASSUME NEW n \in Nodes, NEW s, NEW u, EndInv(n, s),
         s.linkState = "Linking", u.linkState = "Linking",
         s.linkingState \in 0..2, u.linkingState = s.linkingState + 1,
         u.partner = s.partner, u.enc = s.enc, u.inbox \in {s.inbox, None},
         PastClockSync(s) => PastClockSync(u),
         \/ u.status = "Done"
         \/ u.status = s.status /\ u.out = s.out /\ s.linkingState # 2,
         u.linkingState >= 3 /\ n \in Hosts => MayCommit(s),
         u.linkingState >= 2 /\ n \in Remotes => MaySwitchOver(s)
  PROVE  Moves(n, s, u)
<1>1. WaitingInv(n, u)
  <2>1. s.linkingState # 2 /\ MaySend(n, s, s.out) => MaySend(n, u, s.out)
    BY DEF Out, MaySend, InTheLink
  <2> QED
    BY <2>1 DEF WaitingInv, EndInv
<1>2. EndInv(n, u)
  BY <1>1 DEF EndInv, PlainInv, PartnerInv, InTheLink
<1>3. n \in Hosts => HostMoves(s, u)
  <2>1. \A r \in Remotes : Engaged(u, r) => Engaged(s, r)
    BY DEF Engaged, InTheLink
  <2>2. Keyed(u) /\ SameTerms(s.enc.block, u.enc.block)
    BY DEF Keyed, InTheLink, SameTerms
  <2>3. /\ n \in Hosts /\ MayCommit(u) => MayCommit(s)
        /\ MayEnter(s)
    BY DEF MayCommit, Reads, MayEnter, InTheLink
  <2> QED
    BY <2>1, <2>2, <2>3 DEF HostMoves
<1>4. n \in Remotes => RemoteMoves(n, s, u)
  <2>1. \A h \in Hosts : Accepted(u, h) => Accepted(s, h)
    BY DEF Accepted, InTheLink
  <2>2. SameTerms(s.enc.block, u.enc.block)
    BY DEF SameTerms
  <2>3. n \in Remotes /\ MaySwitchOver(u) => MaySwitchOver(s)
    BY DEF MaySwitchOver, Reads
  <2> QED
    BY <2>1, <2>2, <2>3 DEF RemoteMoves
<1>5. HostGoes(s, u) /\ RemoteGoes(s, u)
  BY DEF SameTerms, HostGoes, RemoteGoes, HostPhase, RemotePhase, LinkProtocolSwitchOver
<1> QED
  BY <1>2, <1>3, <1>4, <1>5 DEF Moves

----------------------------------------------------------------------------
(* The steps of the manager and of the link services *)

\* AwaitingLink starts at its first stage; the packet in hand is not touched.
LEMMA ToAwaitingLinkStarts ==
  ASSUME NEW n \in Nodes, NEW s, NodeInv(n, s), NEW t \in ToAwaitingLink(n, s)
  PROVE  /\ t \in NodeStates
         /\ t.linkState = "AwaitingLink" /\ t.linkingState = 0
         /\ t.status = s.status /\ t.out = s.out /\ t.inbox \in {s.inbox, None}
<1> DEFINE l == LeaveLinked(s)
           u == ClearSession(l)
           v == SetLinkingState(u, 0)
           c == [v EXCEPT !.linkState = "AwaitingLink"]
<1>1. t \in NodeStates
  BY ToAwaitingLinkKeeps DEF Keeps, NodeInv
<1>2. /\ l \in NodeStates
      /\ l.status = s.status /\ l.out = s.out /\ l.inbox \in {s.inbox, None}
  <2>1. CASE s.linkState = "Linked"
    <3> DEFINE k == ClearSession(s)
    <3>1. k \in NodeStates /\ k.status = s.status /\ k.out = s.out
      BY ClearSessionType DEF NodeInv, Cleared
    <3>2. l = RestartDriver(k)
      BY <2>1 DEF LeaveLinked
    <3> HIDE DEF k, l
    <3> QED
      BY <3>1, <3>2 DEF RestartDriver, NodeStates
  <2>2. CASE s.linkState # "Linked"
    BY <2>2 DEF LeaveLinked, NodeInv
  <2> QED
    BY <2>1, <2>2
<1> HIDE DEF l
<1>3. /\ u \in NodeStates
      /\ u.status = s.status /\ u.out = s.out /\ u.inbox \in {s.inbox, None}
  BY <1>2, ClearSessionType DEF Cleared
<1> HIDE DEF u
<1>4. /\ v \in NodeStates /\ v.linkingState = 0
      /\ v.status = s.status /\ v.out = s.out /\ v.inbox \in {s.inbox, None}
  BY <1>3, SetLinkingStateType DEF SetLinkingState, NodeStates
<1> HIDE DEF v
<1>5. /\ c \in NodeStates /\ c.linkState = "AwaitingLink" /\ c.linkingState = 0
      /\ c.status = s.status /\ c.out = s.out /\ c.inbox \in {s.inbox, None}
  BY <1>4 DEF NodeStates, LinkStates
<1>6. t \in IF n \in Hosts
            THEN {[c EXCEPT !.session = id] : id \in Sessions}
            ELSE {[c EXCEPT !.kx = GenerateNewKeyPair(@, k)] : k \in FreshPairs(n, s.kx)}
  BY DEF ToAwaitingLink, c, v, u, l
<1> HIDE DEF c
<1>7. (\E id : t = [c EXCEPT !.session = id]) \/ (\E x : t = [c EXCEPT !.kx = x])
  BY <1>6
<1> QED
  BY <1>1, <1>5, <1>7 DEF NodeStates

LEMMA ToSetupMoves ==
  ASSUME NEW n \in Nodes, NEW s, NodeInv(n, s), EndInv(n, s)
  PROVE  Moves(n, s, ToSetup(s))
<1> DEFINE v == SetLinkingState(s, 0)
           w == ClearSession(v)
           u == ToSetup(s)
<1>1. v \in NodeStates /\ v.status = s.status /\ v.out = s.out
  BY SetLinkingStateType DEF SetLinkingState, NodeInv, NodeStates
<1> HIDE DEF v
<1>2. w \in NodeStates /\ w.enc = ClearEncoder /\ w.status = s.status /\ w.out = s.out
  BY <1>1, ClearSessionType DEF Cleared
<1> HIDE DEF w
<1>3. u = [RestartDriver(w) EXCEPT !.linkState = "Setup"]
  BY DEF ToSetup, v, w
<1>4. /\ u.linkState = "Setup" /\ u.enc = ClearEncoder /\ u.inbox = None
      /\ u.status = s.status /\ u.out = s.out
  BY <1>2, <1>3 DEF RestartDriver, NodeStates
<1> HIDE DEF u
<1>5. Moves(n, s, u)
  BY <1>4, LeavingMoves DEF InTheLink, Out, ClearEncoder
<1> QED
  BY <1>5 DEF u

LEMMA ToDisabledMoves ==
  ASSUME NEW n \in Nodes, NEW s, NodeInv(n, s), EndInv(n, s)
  PROVE  Moves(n, s, ToDisabled(s))
<1> DEFINE l == LeaveLinked(s)
           u == ToDisabled(s)
<1>1. /\ l \in NodeStates
      /\ l.status = s.status /\ l.out = s.out /\ l.inbox \in {s.inbox, None}
  <2>1. CASE s.linkState = "Linked"
    <3> DEFINE k == ClearSession(s)
    <3>1. k \in NodeStates /\ k.status = s.status /\ k.out = s.out
      BY ClearSessionType DEF NodeInv, Cleared
    <3>2. l = RestartDriver(k)
      BY <2>1 DEF LeaveLinked
    <3> HIDE DEF k, l
    <3> QED
      BY <3>1, <3>2 DEF RestartDriver, NodeStates
  <2>2. CASE s.linkState # "Linked"
    BY <2>2 DEF LeaveLinked, NodeInv
  <2> QED
    BY <2>1, <2>2
<1>2. u = [ResetLinkInfo(l) EXCEPT !.linkState = "Disabled"]
  BY DEF ToDisabled
<1> HIDE DEF l, u
<1>3. /\ u.linkState = "Disabled" /\ u.inbox \in {s.inbox, None}
      /\ u.status = s.status /\ u.out = s.out
  BY <1>1, <1>2 DEF ResetLinkInfo, NodeStates
<1>4. Moves(n, s, u)
  BY <1>3, LeavingMoves DEF InTheLink, Out
<1> QED
  BY <1>4 DEF u

LEMMA ToAwaitingSleepingMoves ==
  ASSUME NEW n \in Nodes, NEW s, NodeInv(n, s), EndInv(n, s), s.status = "Done"
  PROVE  Moves(n, s, ToAwaitingSleeping(n, s))
<1> DEFINE w == ClearSession(s)
           z == SetLinkingState(w, 0)
           v == RestartDriver(z)
           u == ToAwaitingSleeping(n, s)
<1>1. w \in NodeStates /\ w.enc = ClearEncoder /\ w.status = "Done"
  BY ClearSessionType DEF NodeInv, Cleared
<1>2. u = [v EXCEPT !.linkState = "AwaitingSleeping", !.awake = n \in Remotes]
  BY DEF ToAwaitingSleeping
<1> HIDE DEF w, u
<1>3. z \in NodeStates /\ z.enc = ClearEncoder /\ z.status = "Done"
  BY <1>1, SetLinkingStateType DEF SetLinkingState, NodeStates
<1> HIDE DEF z
<1>4. /\ v \in NodeStates
      /\ v.enc = ClearEncoder /\ v.status = "Done" /\ v.inbox = None
  BY <1>3 DEF RestartDriver, NodeStates
<1> HIDE DEF v
<1>5. /\ u.linkState = "AwaitingSleeping" /\ u.enc = ClearEncoder
      /\ u.status = "Done" /\ u.inbox = None
  BY <1>2, <1>4 DEF NodeStates
<1>6. Moves(n, s, u)
  BY <1>5, LeavingMoves DEF InTheLink, ClearEncoder
<1> QED
  BY <1>6 DEF u

\* The cipher is turned on over a packet held in plain text: it is not read.
LEMMA ToLinkingMoves ==
  ASSUME NEW n \in Nodes, NEW s, NodeInv(n, s), EndInv(n, s), s.status = "Done",
         s.linkState = "AwaitingLink", s.linkingState = 5,
         NodeInv(n, ToLinking(s))
  PROVE  Moves(n, s, ToLinking(s))
<1> DEFINE u == ToLinking(s)
<1>1. /\ u.linkState = "Linking" /\ u.linkingState = 0
      /\ u.enc.block = s.enc.block /\ u.partner = s.partner
      /\ u.inbox = s.inbox /\ u.status = "Done"
  BY DEF ToLinking, SetLinkingState, SetEnabled, NodeInv, NodeStates, Encoders
<1> HIDE DEF u
<1>2. ~Reads(u)
  <2>1. FrameCipher(u.enc) # None
    BY <1>1, CipherInTheLink DEF InTheLink, u
  <2> QED
    BY <1>1, <2>1 DEF Reads, EndInv, PlainInv
<1>3. ~MayCommit(u) /\ ~MaySwitchOver(u)
  BY <1>1, <1>2 DEF MayCommit, MaySwitchOver
<1>4. EndInv(n, u)
  BY <1>1 DEF EndInv, WaitingInv, PlainInv, PartnerInv, InTheLink
<1>5. /\ ~PastClockSync(s) /\ MayEnter(s)
      /\ Keyed(u) /\ SameTerms(s.enc.block, u.enc.block)
  BY <1>1 DEF PastClockSync, MayEnter, Keyed, InTheLink, SameTerms
<1>6. /\ \A r \in Remotes : Engaged(u, r) => Engaged(s, r)
      /\ \A h \in Hosts : Accepted(u, h) => Accepted(s, h)
  BY <1>1 DEF Engaged, Accepted, InTheLink
<1>7. HostMoves(s, u) /\ RemoteMoves(n, s, u)
  BY <1>3, <1>5, <1>6 DEF HostMoves, RemoteMoves
<1>8. HostGoes(s, u) /\ RemoteGoes(s, u)
  BY <1>1, <1>5 DEF HostGoes, RemoteGoes, HostPhase, RemotePhase, LinkingSwitchOver,
                    RemoteLinkingSwitchOver, LinkProtocolSwitchOver
<1>9. Moves(n, s, u)
  BY <1>1, <1>4, <1>7, <1>8 DEF Moves
<1> QED
  BY <1>9 DEF u

LEMMA ToLinkedMoves ==
  ASSUME NEW n \in Nodes, NEW s, NodeInv(n, s), EndInv(n, s), s.status = "Done",
         s.linkState = "Linking", s.linkingState = 3
  PROVE  Moves(n, s, ToLinked(s))
<1> DEFINE u == ToLinked(s)
<1>1. /\ u.linkState = "Linked" /\ u.partner = s.partner /\ u.inbox = s.inbox
      /\ u.status = "Done"
      /\ u.enc.block.key = s.enc.block.key /\ u.enc.block.iv = s.enc.block.iv
  BY DEF ToLinked, SetToken, NodeInv, NodeStates, Encoders, CipherBlocks
<1> HIDE DEF u
<1>2. EndInv(n, u)
  BY <1>1 DEF EndInv, WaitingInv, PlainInv, PartnerInv, InTheLink
<1>3. Keyed(u) /\ SameTerms(s.enc.block, u.enc.block) /\ PastClockSync(u)
  BY <1>1 DEF PastClockSync, Keyed, InTheLink, SameTerms
<1>4. MayCommit(s) /\ MaySwitchOver(s) /\ MayEnter(s)
  BY DEF MayCommit, MaySwitchOver, MayEnter, InTheLink
<1>5. /\ \A r \in Remotes : Engaged(u, r) => Engaged(s, r)
      /\ \A h \in Hosts : Accepted(u, h) => Accepted(s, h)
  BY <1>1 DEF Engaged, Accepted, InTheLink
<1>6. HostMoves(s, u) /\ RemoteMoves(n, s, u)
  BY <1>3, <1>4, <1>5 DEF HostMoves, RemoteMoves
<1>7. HostGoes(s, u) /\ RemoteGoes(s, u)
  BY <1>1, <1>3 DEF HostGoes, RemoteGoes, HostPhase, RemotePhase, LinkProtocolSwitchOver
<1>8. Moves(n, s, u)
  BY <1>1, <1>2, <1>6, <1>7 DEF Moves
<1> QED
  BY <1>8 DEF u

LEMMA ManagerStepAgrees ==
  ASSUME AgreementInv, LinkInv', NEW n \in Nodes, ManagerStep(n)
  PROVE  AgreesAgain(n)
<1>1. NodeInv(n, node[n]) /\ EndInv(n, node[n])
  BY DEF AgreementInv, LinkInv
<1>2. CASE Start(n)
  BY <1>1, <1>2, ToSetupMoves, BecomeAgrees DEF Start
<1>3. CASE Stop(n)
  BY <1>1, <1>3, ToDisabledMoves, BecomeAgrees DEF Stop
<1> QED
  BY <1>2, <1>3 DEF ManagerStep

LEMMA LinkStepAgrees ==
  ASSUME AgreementInv, LinkInv', NEW n \in Nodes, LinkStep(n)
  PROVE  AgreesAgain(n)
<1> DEFINE s == node[n]
<1>1. NodeInv(n, s) /\ EndInv(n, s) /\ s \in NodeStates
  BY DEF AgreementInv, LinkInv, NodeInv
<1>2. CASE AwaitLink(n) \/ CancelLinking(n) \/ LoseLink(n)
  <2>1. PICK t \in ToAwaitingLink(n, s) : Become(n, t)
    BY <1>2 DEF AwaitLink, CancelLinking, LoseLink
  <2>2. s.status = "Done"
    BY <1>2 DEF AwaitLink, CancelLinking, LoseLink, Serving
  <2>3. Moves(n, s, t)
    BY <1>1, <2>2, ToAwaitingLinkStarts, LeavingMoves DEF InTheLink
  <2> QED
    BY <2>1, <2>3, BecomeAgrees
<1>3. CASE RenewKeyPair(n)
  <2>1. PICK x : Become(n, [s EXCEPT !.kx = x, !.keysStamped = TRUE])
    BY <1>3 DEF RenewKeyPair
  <2> DEFINE u == [s EXCEPT !.kx = x, !.keysStamped = TRUE]
  <2>2. SameAttempt(s, u) /\ SamePacket(s, u)
    BY <1>1 DEF SameAttempt, SamePacket, NodeStates
  <2> QED
    BY <1>1, <2>1, <2>2, QuietMoves, BecomeAgrees
<1>4. CASE FallAsleep(n)
  BY <1>1, <1>4, ToAwaitingSleepingMoves, BecomeAgrees DEF FallAsleep, Serving
<1>5. CASE StartLinking(n)
  <2>1. /\ s.status = "Done" /\ s.linkState = "AwaitingLink" /\ s.linkingState = 5
        /\ Become(n, ToLinking(s))
    BY <1>5 DEF StartLinking, AtStage, Serving
  <2>2. NodeInv(n, ToLinking(s))
    BY <1>1, <2>1, ToLinkingKeeps DEF Keeps
  <2> QED
    BY <1>1, <2>1, <2>2, ToLinkingMoves, BecomeAgrees
<1>6. CASE EstablishLink(n)
  BY <1>1, <1>6, ToLinkedMoves, BecomeAgrees DEF EstablishLink, AtStage, Serving
<1>7. CASE ReportDue(n)
  <2> DEFINE u == [s EXCEPT !.reportPending = TRUE]
  <2>1. SameAttempt(s, u) /\ SamePacket(s, u)
    BY <1>1 DEF SameAttempt, SamePacket, NodeStates
  <2> QED
    BY <1>1, <1>7, <2>1, QuietMoves, BecomeAgrees DEF ReportDue
<1>8. CASE SendReport(n)
  <2>1. PICK sub \in {"LinkReport", "LinkReportWithReply"} :
          Become(n, RequestSendPacket(s, Packet("Report", sub, INVALID_SESSION)))
    BY <1>8 DEF SendReport
  <2> DEFINE p == Packet("Report", sub, INVALID_SESSION)
  <2>2. OwnPacket(n, p) /\ ~IsAsk(p) /\ ~IsOffer(p) /\ ~IsSwitchOver(p)
    BY DEF Packet, OwnPacket, HasACK, IsAsk, IsOffer, IsSwitchOver
  <2>3. SameAttempt(s, s)
    BY DEF SameAttempt
  <2> HIDE DEF p
  <2>4. Moves(n, s, RequestSendPacket(s, p))
    BY <1>1, <2>2, <2>3, PlainPacketMaySend, RequestMoves
  <2> QED
    BY <2>1, <2>4, BecomeAgrees DEF p
<1> QED
  BY <1>2, <1>3, <1>4, <1>5, <1>6, <1>7, <1>8 DEF LinkStep

----------------------------------------------------------------------------
(* The steps of the send service *)

\* A node that is not stopped is in plain text unless it is in the link, and
\* its cipher then names it.
LEMMA SenderCipher ==
  ASSUME NEW n \in Nodes, NEW s, NodeInv(n, s), PlainInv(s), s.linkState # "Disabled",
         FrameCipher(s.enc) # None
  PROVE  /\ InTheLink(s)
         /\ n \in Hosts => FrameCipher(s.enc).iv.id1 = n
         /\ n \in Remotes => FrameCipher(s.enc).iv.id2 = n
<1>1. InTheLink(s)
  BY DEF NodeInv, CipherInv, PlainInv, FrameCipher, NodeStates, LinkStates, InTheLink
<1>2. FrameCipher(s.enc).iv = LinkIvOf(n, s)
  BY <1>1, CipherInTheLink
<1>3. n \in Remotes => n \notin Hosts
  BY RoleAssumption
<1> QED
  BY <1>1, <1>2, <1>3 DEF LinkIvOf

\* What leaves is the packet in hand, and the sender holds no other.
LEMMA SendPacketSays ==
  ASSUME NEW n \in Nodes, NodeInv(n, node[n]), EndInv(n, node[n]), SendPacket(n),
         NEW u, SameAttempt(node[n], u), u.status # "AckOk"
  PROVE  Says(n, u, Frame(n, node[n].out))
<1> DEFINE s == node[n]
           p == s.out
           f == Frame(n, p)
<1>1. /\ s.linkState # "Disabled" /\ s.status = "SendingPacket"
      /\ s.inbox = None /\ u.inbox = None
  BY DEF SendPacket, Running, SameAttempt
<1>2. OwnPacket(n, p) /\ MaySend(n, s, p)
  BY <1>1 DEF EndInv, WaitingInv
<1>3. f.packet = p /\ f.cipher = FrameCipher(s.enc)
  BY DEF Frame
<1>4. /\ u.linkState = s.linkState /\ u.linkingState = s.linkingState
      /\ u.partner = s.partner /\ u.enc = s.enc
  BY DEF SameAttempt
<1>5. f.cipher # None => /\ InTheLink(s)
                         /\ n \in Hosts => f.cipher.iv.id1 = n
                         /\ n \in Remotes => f.cipher.iv.id2 = n
  BY <1>1, <1>3, SenderCipher DEF EndInv
<1> HIDE DEF s, p, f
<1>6. IsAsk(p) => /\ n \in Remotes /\ p.peer = n
                  /\ \A h \in Hosts : ~Accepted(u, h)
  BY <1>2, <1>4 DEF MaySend, Accepted, InTheLink
<1>7. IsOffer(p) =>
        /\ n \in Hosts /\ p.seal.iv.id1 = n
        /\ \A r \in Remotes : Engaged(u, r) => /\ Keyed(u)
                                               /\ SameTerms(u.enc.block, p.seal)
                                               /\ ~MayCommit(u) /\ ~MayEnter(u)
  BY <1>1, <1>2, <1>4 DEF MaySend, Engaged, Keyed, InTheLink, SameTerms, MayCommit, MayEnter, Out
<1>8. IsSwitchOver(p) /\ f.cipher # None => n \in Hosts /\ PastClockSync(u)
  BY <1>2, <1>4, <1>5 DEF MaySend, InTheLink, Out, PastClockSync
<1>9. ~IsSwitchOverAck(p)
  BY <1>2 DEF OwnPacket, IsSwitchOverAck
<1>10. Says(n, u, f)
  BY <1>1, <1>3, <1>5, <1>6, <1>7, <1>8, <1>9 DEF Says
<1> QED
  BY <1>10 DEF f, p, s

LEMMA ClearSendRequestMoves ==
  ASSUME NEW n \in Nodes, NEW s, EndInv(n, s), NEW w \in NodeStates, SameAttempt(s, w)
  PROVE  SameAttempt(s, ClearSendRequest(w)) /\ Moves(n, s, ClearSendRequest(w))
<1> DEFINE u == ClearSendRequest(w)
<1>1. SameAttempt(s, u) /\ SamePacket(s, u)
  BY DEF ClearSendRequest, NodeStates, SameAttempt, SamePacket
<1> HIDE DEF u
<1>2. SameAttempt(s, u) /\ Moves(n, s, u)
  BY <1>1, QuietMoves
<1> QED
  BY <1>2 DEF u

\* Only a host waits for acks, and only the one it waits for lets it go on.
LEMMA AckReceivedMoves ==
  ASSUME NEW n \in Nodes, NEW s, NodeInv(n, s), EndInv(n, s), s.status = "AckOk",
         NEW t \in HostAckReceived(s)
  PROVE  Moves(n, s, ClearSendRequest(t))
<1> DEFINE sample == [s EXCEPT !.samples = IF @ < MinLatencySamples THEN @ + 1 ELSE @]
           shared == /\ s.out.header = "ShortWithAck" /\ s.linkState = "AwaitingLink"
                     /\ s.linkingState = 4
           done == /\ s.out.header = "ShortWithAck" /\ s.linkState = "Linking"
                   /\ s.linkingState = 2
           u == ClearSendRequest(t)
<1>1. s \in NodeStates
  BY DEF NodeInv
<1>2. \/ t = s
      \/ t = sample
      \/ shared /\ t = SetLinkingState(s, 5)
      \/ done /\ t = SetLinkingState(s, 3)
  <2> HIDE DEF sample
  <2>1. HostAckReceived(s) \subseteq
          {s, sample} \cup (IF shared THEN {SetLinkingState(s, 5)} ELSE {})
                      \cup (IF done THEN {SetLinkingState(s, 3)} ELSE {})
    BY DEF HostAckReceived, sample, GotSharedKey, LinkingSwitchOver, LinkProtocolSwitchOver,
           LinkingDone
  <2> QED
    BY <2>1
<1>3. CASE t = s \/ t = sample
  <2>1. sample \in NodeStates
    <3>1. (IF s.samples < MinLatencySamples THEN s.samples + 1 ELSE s.samples)
            \in 0..MinLatencySamples
      BY <1>1, SampleAssumption DEF NodeStates
    <3> QED
      BY <1>1, <3>1 DEF NodeStates
  <2>2. SameAttempt(s, s) /\ SameAttempt(s, sample)
    BY <1>1 DEF SameAttempt, NodeStates
  <2> HIDE DEF sample
  <2> QED
    BY <1>1, <1>3, <2>1, <2>2, ClearSendRequestMoves
<1>4. CASE shared /\ t = SetLinkingState(s, 5)
  <2>1. /\ u.linkState = "AwaitingLink" /\ u.linkingState = 5
        /\ u.partner = s.partner /\ u.enc = s.enc /\ u.inbox = s.inbox /\ u.status = "Done"
    BY <1>1, <1>4 DEF SetLinkingState, ClearSendRequest, NodeStates
  <2> HIDE DEF u
  <2>2. n \notin Remotes
    BY <1>4 DEF EndInv, WaitingInv, OwnPacket, HasACK
  <2>3. EndInv(n, u)
    BY <1>4, <2>1, <2>2 DEF EndInv, WaitingInv, PlainInv, PartnerInv, InTheLink
  <2>4. HostMoves(s, u)
    BY <1>4, <2>1 DEF HostMoves, Engaged, Keyed, InTheLink, SameTerms, MayCommit, MayEnter,
                      PastClockSync
  <2>5. HostGoes(s, u)
    BY <1>4, <2>1 DEF HostGoes, HostPhase, LinkingSwitchOver
  <2> QED
    BY <2>1, <2>2, <2>3, <2>4, <2>5 DEF Moves, u
<1>5. CASE done /\ t = SetLinkingState(s, 3)
  <2>1. /\ u.linkState = "Linking" /\ u.linkingState = 3
        /\ u.partner = s.partner /\ u.enc = s.enc /\ u.inbox = s.inbox /\ u.status = "Done"
    BY <1>1, <1>5 DEF SetLinkingState, ClearSendRequest, NodeStates
  <2> HIDE DEF u
  <2>2. n \notin Remotes
    BY <1>5 DEF EndInv, WaitingInv, OwnPacket, HasACK
  <2>3. MayCommit(s) /\ PastClockSync(u) /\ s.linkingState \in 0..2
    BY <1>5, <2>1 DEF MayCommit, PastClockSync
  <2>4. Moves(n, s, u)
    BY <1>5, <2>1, <2>2, <2>3, LinkingMoves
  <2> QED
    BY <2>4 DEF u
<1> QED
  BY <1>2, <1>3, <1>4, <1>5

LEMMA SendStepAgrees ==
  ASSUME AgreementInv, LinkInv', NEW n \in Nodes, SendStep(n)
  PROVE  AgreesAgain(n)
<1> DEFINE s == node[n]
<1>1. NodeInv(n, s) /\ EndInv(n, s) /\ s \in NodeStates
  BY DEF AgreementInv, LinkInv, NodeInv
<1>2. SameAttempt(s, s)
  BY DEF SameAttempt
<1>3. SameAttempt(s, ClearSendRequest(s)) /\ Moves(n, s, ClearSendRequest(s))
  BY <1>1, <1>2, ClearSendRequestMoves
<1>4. CASE SendPacket(n)
  <2> DEFINE sent == [s EXCEPT !.status = "SentOk"]
  <2>1. \/ Transmit(n, sent, Frame(n, s.out))
        \/ Transmit(n, ClearSendRequest(s), Frame(n, s.out))
    BY <1>4 DEF SendPacket
  <2>2. SameAttempt(s, sent) /\ SamePacket(s, sent)
    BY <1>1, <1>4 DEF SameAttempt, SamePacket, NodeStates, SendPacket, Running
  <2>3. Moves(n, s, sent)
    BY <1>1, <2>2, QuietMoves
  <2>4. sent.status # "AckOk" /\ ClearSendRequest(s).status # "AckOk"
    BY <1>1 DEF ClearSendRequest, NodeStates
  <2>5. /\ Says(n, sent, Frame(n, s.out))
        /\ Says(n, ClearSendRequest(s), Frame(n, s.out))
    BY <1>1, <1>3, <1>4, <2>2, <2>4, SendPacketSays
  <2> QED
    BY <1>3, <2>1, <2>3, <2>5, TransmitAgrees
<1>5. CASE SendTimesOut(n) \/ AckTimesOut(n)
  BY <1>3, <1>5, BecomeAgrees DEF SendTimesOut, AckTimesOut
<1>6. CASE SentOk(n)
  <2> DEFINE pending == s.reportPending /\ ~(s.out.header = "Report" /\ s.linkState = "Linked")
             w == [s EXCEPT !.reportPending = pending]
             u == [w EXCEPT !.status = "WaitingForAck"]
  <2>1. \/ Become(n, u) \/ Become(n, ClearSendRequest(w))
    BY <1>6 DEF SentOk
  <2>2. pending \in BOOLEAN
    OBVIOUS
  <2> HIDE DEF pending
  <2>3. /\ w \in NodeStates /\ SameAttempt(s, w)
        /\ w.status = s.status /\ w.out = s.out
    BY <1>1, <2>2 DEF SameAttempt, NodeStates
  <2> HIDE DEF w
  <2>4. SameAttempt(s, u) /\ SamePacket(s, u)
    BY <1>6, <2>3 DEF SameAttempt, SamePacket, NodeStates, SentOk, Running
  <2> HIDE DEF u
  <2>5. Moves(n, s, u) /\ Moves(n, s, ClearSendRequest(w))
    BY <1>1, <2>3, <2>4, QuietMoves, ClearSendRequestMoves
  <2> QED
    BY <2>1, <2>5, BecomeAgrees
<1>7. CASE AckReceived(n)
  <2>1. PICK t \in HostAckReceived(s) : Become(n, ClearSendRequest(t))
    BY <1>7 DEF AckReceived
  <2>2. Moves(n, s, ClearSendRequest(t))
    BY <1>1, <1>7, AckReceivedMoves DEF AckReceived, Running
  <2> QED
    BY <2>1, <2>2, BecomeAgrees
<1> QED
  BY <1>4, <1>5, <1>6, <1>7 DEF SendStep

----------------------------------------------------------------------------
(* The packets a node receives *)

LEMMA RestoredIsQuiet ==
  ASSUME NEW s \in NodeStates
  PROVE  LET r == [s EXCEPT !.inbox = None]
         IN  /\ r \in NodeStates /\ r.inbox = None /\ SameAttempt(s, r)
             /\ r.status = s.status /\ r.out = s.out
BY DEF NodeStates, SameAttempt

\* A handler of another concern than the handshake.
LEMMA HandlerIsQuiet ==
  ASSUME NEW n \in Nodes, NEW s, EndInv(n, s), NEW r, SameAttempt(s, r),
         r.inbox = None, r.status = s.status, r.out = s.out,
         NEW u, SameAttempt(r, u), SamePacket(r, u)
  PROVE  Moves(n, s, u)
<1>1. SameAttempt(s, u)
  BY DEF SameAttempt
<1>2. SamePacket(s, u)
  BY DEF SamePacket
<1> QED
  BY <1>1, <1>2, QuietMoves

LEMMA OnLinkInfoReportReceivedIsQuiet ==
  ASSUME NEW r \in NodeStates, NEW p
  PROVE  LET u == OnLinkInfoReportReceived(r, p) IN SameAttempt(r, u) /\ SamePacket(r, u)
BY DEF OnLinkInfoReportReceived, SameAttempt, SamePacket, NodeStates

\* A request opens an attempt with the remote it names.
LEMMA OnPKCRequestReceivedMoves ==
  ASSUME NEW h \in Hosts, NEW s \in NodeStates, EndInv(h, s), s.inbox # None,
         IsAsk(s.inbox.packet), NEW r \in NodeStates, SameAttempt(s, r),
         r.inbox = None, r.status = s.status, r.out = s.out
  PROVE  Moves(h, s, OnPKCRequestReceived(r, s.inbox.packet))
<1> DEFINE p == s.inbox.packet
           u == [SetLinkingState(r, 1) EXCEPT !.partner = p.peer]
<1>1. CASE OnPKCRequestReceived(r, p) = r
  <2>1. SameAttempt(r, r) /\ SamePacket(r, r)
    BY DEF SameAttempt, SamePacket
  <2> QED
    BY <1>1, <2>1, HandlerIsQuiet DEF Nodes
<1>2. CASE /\ r.linkState = "AwaitingLink" /\ r.linkingState = 0
           /\ OnPKCRequestReceived(r, p) = u
  <2>1. /\ u.linkState = "AwaitingLink" /\ u.linkingState = 1 /\ u.partner = p.peer
        /\ u.inbox = None /\ u.status = s.status /\ u.out = s.out
    BY <1>2 DEF SetLinkingState, NodeStates
  <2> HIDE DEF u
  <2>2. s.linkState = "AwaitingLink" /\ s.linkingState = 0
    BY <1>2 DEF SameAttempt
  <2>3. Asked(s, u.partner)
    BY <2>1 DEF Asked
  <2>4. Moves(h, s, u)
    BY <2>1, <2>2, <2>3, PreparingMoves DEF Nodes
  <2> QED
    BY <1>2, <2>4
<1>3. \/ OnPKCRequestReceived(r, p) = r
      \/ /\ r.linkState = "AwaitingLink" /\ r.linkingState = 0
         /\ OnPKCRequestReceived(r, p) = u
  BY DEF OnPKCRequestReceived, HostValidatingPartner, BroadcastingOpenSession
<1> QED
  BY <1>1, <1>2, <1>3

\* A node holds the key of another and goes to its third stage.
LEMMA PartnerKeyMoves ==
  ASSUME NEW n \in Nodes, NEW s \in NodeStates, EndInv(n, s),
         NEW r \in NodeStates, SameAttempt(s, r),
         r.inbox = None, r.status = s.status, r.out = s.out,
         r.linkState = "AwaitingLink", r.linkingState = 2, NEW x
  PROVE  Moves(n, s, [SetLinkingState(r, 3) EXCEPT !.kx = x])
<1> DEFINE u == [SetLinkingState(r, 3) EXCEPT !.kx = x]
<1>1. /\ u.linkState = "AwaitingLink" /\ u.linkingState = 3 /\ u.partner = s.partner
      /\ u.inbox = None /\ u.status = s.status /\ u.out = s.out
  BY DEF SetLinkingState, NodeStates, SameAttempt
<1> HIDE DEF u
<1>2. s.linkState = "AwaitingLink" /\ s.linkingState = 2
  BY DEF SameAttempt
<1>3. Moves(n, s, u)
  BY <1>1, <1>2, PreparingMoves
<1> QED
  BY <1>3 DEF u

LEMMA OnRemotePublicKeyReceivedMoves ==
  ASSUME NEW n \in Nodes, NEW s \in NodeStates, EndInv(n, s),
         NEW r \in NodeStates, SameAttempt(s, r),
         r.inbox = None, r.status = s.status, r.out = s.out, NEW p
  PROVE  Moves(n, s, OnRemotePublicKeyReceived(r, p))
<1> DEFINE x == SetPartnerPublicKey(r.kx, p.key)
<1>1. \/ OnRemotePublicKeyReceived(r, p) = r
      \/ /\ r.linkState = "AwaitingLink" /\ r.linkingState = 2
         /\ OnRemotePublicKeyReceived(r, p) = [SetLinkingState(r, 3) EXCEPT !.kx = x]
  <2>1. SetLinkingState(r, 3).kx = r.kx
    BY DEF SetLinkingState, NodeStates
  <2> QED
    BY <2>1 DEF OnRemotePublicKeyReceived, ProcessingPKC, HostSendingPublicKey
<1>2. SameAttempt(r, r) /\ SamePacket(r, r)
  BY DEF SameAttempt, SamePacket
<1> HIDE DEF x
<1> QED
  BY <1>1, <1>2, PartnerKeyMoves, HandlerIsQuiet

\* The first request that finds the information complete opens the clock sync.
LEMMA OnClockSyncRequestReceivedMoves ==
  ASSUME NEW n \in Nodes, NEW s \in NodeStates, EndInv(n, s),
         NEW r \in NodeStates, SameAttempt(s, r),
         r.inbox = None, r.status = s.status, r.out = s.out, NEW p
  PROVE  Moves(n, s, OnClockSyncRequestReceived(r, p))
<1> DEFINE v == OnClockSyncRequestReceived(r, p)
           asked == [r EXCEPT !.txn = [stage |-> "ResultIn", id |-> p.id]]
           u == SetLinkingState(asked, 1)
<1>1. \/ \E x : v = [r EXCEPT !.txn = x]
      \/ v = r
      \/ r.linkState = "Linking" /\ r.linkingState = 0 /\ v = u
  <2>1. asked = [r EXCEPT !.txn = [stage |-> "ResultIn", id |-> p.id]]
    OBVIOUS
  <2> HIDE DEF asked
  <2>2. CASE r.linkState # "Linking"
    BY <2>2 DEF OnClockSyncRequestReceived
  <2>3. CASE r.linkState = "Linking" /\ r.linkingState = 0
    <3>1. v = IF r.samples >= MinLatencySamples /\ r.hasRssi THEN u ELSE asked
      BY <2>3 DEF OnClockSyncRequestReceived, InfoSyncStage, ClockSyncStage, asked
    <3> QED
      BY <2>1, <2>3, <3>1
  <2>4. CASE r.linkState = "Linking" /\ r.linkingState = 1
    <3>1. v = asked
      BY <2>4 DEF OnClockSyncRequestReceived, InfoSyncStage, ClockSyncStage, asked
    <3> QED
      BY <2>1, <3>1
  <2>5. CASE r.linkState = "Linking" /\ r.linkingState \notin {0, 1}
    <3>1. v = [r EXCEPT !.txn = ClearTransaction]
      BY <2>5 DEF OnClockSyncRequestReceived, InfoSyncStage, ClockSyncStage
    <3> QED
      BY <3>1
  <2> QED
    BY <2>2, <2>3, <2>4, <2>5
<1>2. CASE v = r \/ \E x : v = [r EXCEPT !.txn = x]
  <2>1. SameAttempt(r, v) /\ SamePacket(r, v)
    BY <1>2 DEF SameAttempt, SamePacket, NodeStates
  <2> QED
    BY <2>1, HandlerIsQuiet
<1>3. CASE r.linkState = "Linking" /\ r.linkingState = 0 /\ v = u
  <2>1. /\ u.linkState = "Linking" /\ u.linkingState = 1 /\ u.partner = r.partner
        /\ u.enc = r.enc /\ u.inbox = None /\ u.status = r.status /\ u.out = r.out
    BY <1>3 DEF SetLinkingState, NodeStates
  <2> HIDE DEF u
  <2>2. /\ s.linkState = "Linking" /\ s.linkingState = 0 /\ 0 \in 0..2
        /\ u.partner = s.partner /\ u.enc = s.enc
    BY <1>3, <2>1 DEF SameAttempt
  <2>3. ~PastClockSync(s)
    BY <2>2 DEF PastClockSync
  <2>4. Moves(n, s, u)
    BY <2>1, <2>2, <2>3, LinkingMoves
  <2> QED
    BY <1>3, <2>4
<1> HIDE DEF v, u, asked
<1> QED
  BY <1>1, <1>2, <1>3 DEF v

LEMMA HostProcessPacketMoves ==
  ASSUME NEW h \in Hosts, NEW s \in NodeStates, EndInv(h, s), s.inbox # None,
         NEW r \in NodeStates, SameAttempt(s, r),
         r.inbox = None, r.status = s.status, r.out = s.out
  PROVE  Moves(h, s, HostProcessPacket(r, s.inbox.packet))
<1> DEFINE p == s.inbox.packet
           u == HostProcessPacket(r, p)
<1>1. h \in Nodes
  BY DEF Nodes
<1>2. SUFFICES \/ Moves(h, s, u)
               \/ SameAttempt(r, u) /\ SamePacket(r, u)
  BY <1>1, HandlerIsQuiet
<1>3. CASE p.sub = "LinkDiscovery"
  <2>1. u = OnLinkDiscoveryReceived(r)
    BY <1>3 DEF HostProcessPacket
  <2> QED
    BY <2>1 DEF OnLinkDiscoveryReceived, SameAttempt, SamePacket, NodeStates
<1>4. CASE p.sub = "PkcStartRequest"
  <2>1. u = OnPKCRequestReceived(r, p)
    BY <1>4 DEF HostProcessPacket
  <2> QED
    BY <1>4, <2>1, OnPKCRequestReceivedMoves DEF IsAsk
<1>5. CASE p.sub = "RemotePublicKey"
  <2>1. u = OnRemotePublicKeyReceived(r, p)
    BY <1>5 DEF HostProcessPacket
  <2> QED
    BY <1>1, <2>1, OnRemotePublicKeyReceivedMoves
<1>6. CASE p.sub = "InfoSyncRemote"
  <2>1. u = OnRemoteInfoSyncReceived(r)
    BY <1>6 DEF HostProcessPacket
  <2> QED
    BY <2>1 DEF OnRemoteInfoSyncReceived, SameAttempt, SamePacket, NodeStates
<1>7. CASE p.sub = "NtpRequest"
  <2>1. u = OnClockSyncRequestReceived(r, p)
    BY <1>7 DEF HostProcessPacket
  <2> QED
    BY <1>1, <2>1, OnClockSyncRequestReceivedMoves
<1>8. CASE p.sub = "NtpTuneRequest"
  <2>1. u = OnClockSyncTuneRequestReceived(r, p)
    BY <1>8 DEF HostProcessPacket
  <2>2. u = r \/ \E x : u = [r EXCEPT !.txn = x]
    BY <2>1 DEF OnClockSyncTuneRequestReceived
  <2> HIDE DEF u
  <2> QED
    BY <2>2 DEF SameAttempt, SamePacket, NodeStates
<1>9. CASE p.sub \in {"LinkReport", "LinkReportWithReply"}
  <2>1. u = OnLinkInfoReportReceived(r, p)
    BY <1>9 DEF HostProcessPacket
  <2> QED
    BY <2>1, OnLinkInfoReportReceivedIsQuiet
<1>10. CASE p.sub \notin {"LinkDiscovery", "PkcStartRequest", "RemotePublicKey",
                          "InfoSyncRemote", "NtpRequest", "NtpTuneRequest", "LinkReport",
                          "LinkReportWithReply"}
  <2>1. u = r
    BY <1>10 DEF HostProcessPacket
  <2> QED
    BY <2>1 DEF SameAttempt, SamePacket
<1> QED
  BY <1>3, <1>4, <1>5, <1>6, <1>7, <1>8, <1>9, <1>10

\* A broadcast moves a remote to its second stage, in any session but none.
LEMMA OnIdBroadcastReceivedMoves ==
  ASSUME NEW n \in Remotes, NEW s \in NodeStates, EndInv(n, s),
         NEW r \in NodeStates, SameAttempt(s, r),
         r.inbox = None, r.status = s.status, r.out = s.out, NEW p
  PROVE  Moves(n, s, OnIdBroadcastReceived(r, p))
<1> DEFINE u == [SetLinkingState(r, 1) EXCEPT !.session = p.id, !.partner = p.peer]
           v == OnIdBroadcastReceived(r, p)
<1>1. \/ v = r
      \/ v = [r EXCEPT !.session = p.id]
      \/ r.linkState = "AwaitingLink" /\ r.linkingState \in {0, 1, 2} /\ v = u
  BY DEF OnIdBroadcastReceived, SearchingForHost, RemoteValidatingPartner, AwaitingHostPublicKey
<1>2. n \in Nodes /\ n \notin Hosts
  BY RoleAssumption DEF Nodes
<1>3. CASE v = r \/ v = [r EXCEPT !.session = p.id]
  <2>1. SameAttempt(r, v) /\ SamePacket(r, v)
    BY <1>3 DEF SameAttempt, SamePacket, NodeStates
  <2> QED
    BY <1>2, <2>1, HandlerIsQuiet
<1>4. CASE r.linkState = "AwaitingLink" /\ r.linkingState \in {0, 1, 2} /\ v = u
  <2>1. /\ u.linkState = "AwaitingLink" /\ u.linkingState = 1
        /\ u.inbox = None /\ u.status = s.status /\ u.out = s.out
    BY <1>4 DEF SetLinkingState, NodeStates
  <2> HIDE DEF u, v
  <2>2. s.linkState = "AwaitingLink" /\ s.linkingState <= 3
    BY <1>4 DEF SameAttempt
  <2>3. Moves(n, s, u)
    BY <1>2, <2>1, <2>2, PreparingMoves
  <2> QED
    BY <1>4, <2>3 DEF v
<1> HIDE DEF u, v
<1> QED
  BY <1>1, <1>3, <1>4 DEF v

LEMMA OnHostPublicKeyReceivedMoves ==
  ASSUME NEW n \in Nodes, NEW s \in NodeStates, EndInv(n, s),
         NEW r \in NodeStates, SameAttempt(s, r),
         r.inbox = None, r.status = s.status, r.out = s.out, NEW p
  PROVE  Moves(n, s, OnHostPublicKeyReceived(r, p))
<1> DEFINE x == SetPartnerPublicKey(r.kx, p.key)
<1>1. \/ OnHostPublicKeyReceived(r, p) = r
      \/ /\ r.linkState = "AwaitingLink" /\ r.linkingState = 2
         /\ OnHostPublicKeyReceived(r, p) = [SetLinkingState(r, 3) EXCEPT !.kx = x]
  <2>1. SetLinkingState(r, 3).kx = r.kx
    BY DEF SetLinkingState, NodeStates
  <2> QED
    BY <2>1 DEF OnHostPublicKeyReceived, ProcessingSharedKey, AwaitingHostPublicKey
<1>2. SameAttempt(r, r) /\ SamePacket(r, r)
  BY DEF SameAttempt, SamePacket
<1> HIDE DEF x
<1> QED
  BY <1>1, <1>2, PartnerKeyMoves, HandlerIsQuiet

LEMMA SetResultIsQuiet ==
  ASSUME NEW r \in NodeStates, NEW id
  PROVE  LET u == SetResult(r, id) IN SameAttempt(r, u) /\ SamePacket(r, u)
BY DEF SetResult, SameAttempt, SamePacket, NodeStates

LEMMA RemoteProcessPacketMoves ==
  ASSUME NEW n \in Remotes, NEW s \in NodeStates, EndInv(n, s),
         NEW r \in NodeStates, SameAttempt(s, r),
         r.inbox = None, r.status = s.status, r.out = s.out, NEW p
  PROVE  Moves(n, s, RemoteProcessPacket(r, p))
<1> DEFINE u == RemoteProcessPacket(r, p)
<1>1. n \in Nodes
  BY DEF Nodes
<1>2. SUFFICES \/ Moves(n, s, u)
               \/ SameAttempt(r, u) /\ SamePacket(r, u)
  BY <1>1, HandlerIsQuiet
<1>3. SameAttempt(r, r) /\ SamePacket(r, r)
  BY DEF SameAttempt, SamePacket
<1>4. CASE p.sub = "HostIdBroadcast"
  <2>1. u = OnIdBroadcastReceived(r, p)
    BY <1>4 DEF RemoteProcessPacket
  <2> QED
    BY <2>1, OnIdBroadcastReceivedMoves
<1>5. CASE p.sub = "HostPublicKey"
  <2>1. u = OnHostPublicKeyReceived(r, p)
    BY <1>5 DEF RemoteProcessPacket
  <2> QED
    BY <1>1, <2>1, OnHostPublicKeyReceivedMoves
<1>6. CASE p.sub = "InfoSyncRequest"
  <2>1. u = OnHostInfoSyncRequestReceived(r)
    BY <1>6 DEF RemoteProcessPacket
  <2> QED
    BY <2>1 DEF OnHostInfoSyncRequestReceived, SameAttempt, SamePacket, NodeStates
<1>7. CASE p.sub = "InfoSyncHost"
  <2>1. u = OnHostInfoSyncReceived(r)
    BY <1>7 DEF RemoteProcessPacket
  <2> QED
    BY <2>1 DEF OnHostInfoSyncReceived, SameAttempt, SamePacket, NodeStates
<1>8. CASE p.sub = "NtpReply"
  <2>1. u = r \/ u = SetResult(r, p.id)
    BY <1>8 DEF RemoteProcessPacket, OnClockSyncResponseReceived
  <2> QED
    BY <1>3, <2>1, SetResultIsQuiet
<1>9. CASE p.sub = "NtpTuneReply"
  <2>1. u = r \/ u = SetResult(r, p.id)
    BY <1>9 DEF RemoteProcessPacket, OnClockSyncTuneResponseReceived
  <2> QED
    BY <1>3, <2>1, SetResultIsQuiet
<1>10. CASE p.sub \in {"LinkReport", "LinkReportWithReply"}
  <2>1. u = OnLinkInfoReportReceived(r, p)
    BY <1>10 DEF RemoteProcessPacket
  <2> QED
    BY <2>1, OnLinkInfoReportReceivedIsQuiet
<1>11. CASE p.sub \notin {"HostIdBroadcast", "HostPublicKey", "InfoSyncRequest",
                          "InfoSyncHost", "NtpReply", "NtpTuneReply", "LinkReport",
                          "LinkReportWithReply"}
  <2>1. u = r
    BY <1>11 DEF RemoteProcessPacket
  <2> QED
    BY <1>3, <2>1
<1> QED
  BY <1>4, <1>5, <1>6, <1>7, <1>8, <1>9, <1>10, <1>11

\* A sleeping remote wakes to the broadcast it received.
LEMMA WakingMoves ==
  ASSUME NEW n \in Remotes, NEW s \in NodeStates, EndInv(n, s),
         NEW t \in NodeStates, t.linkState = "AwaitingLink", t.linkingState = 0,
         t.status = s.status, t.out = s.out, t.inbox = None, NEW p
  PROVE  Moves(n, s, OnIdBroadcastReceived(t, p))
<1> DEFINE u == OnIdBroadcastReceived(t, p)
<1>1. /\ u.linkState = "AwaitingLink" /\ u.linkingState \in {0, 1}
      /\ u.status = s.status /\ u.out = s.out /\ u.inbox = None
  BY DEF OnIdBroadcastReceived, SetLinkingState, NodeStates, SearchingForHost,
         RemoteValidatingPartner, AwaitingHostPublicKey
<1>2. n \notin Hosts
  BY RoleAssumption
<1> HIDE DEF u
<1>3. MaySend(n, s, s.out) => MaySend(n, u, s.out)
  BY <1>1, <1>2 DEF MaySend, InTheLink
<1>4. EndInv(n, u)
  BY <1>1, <1>2, <1>3 DEF EndInv, WaitingInv, PlainInv, PartnerInv, InTheLink
<1>5. RemoteMoves(n, s, u) /\ RemoteGoes(s, u)
  BY <1>1 DEF RemoteMoves, Accepted, InTheLink, RemoteGoes, RemotePhase, RemoteLinkingSwitchOver
<1>6. Moves(n, s, u)
  BY <1>1, <1>2, <1>4, <1>5 DEF Moves
<1> QED
  BY <1>6 DEF u

\* A remote accepts an offer sealed with its own block, and so with its terms.
LEMMA AcceptingMoves ==
  ASSUME NEW n \in Remotes, NEW s \in NodeStates, NodeInv(n, s), EndInv(n, s),
         s.inbox # None, OnCryptoStartReceived(n, s, s.inbox.packet),
         NEW u, u.linkState = "AwaitingLink", u.linkingState = 5,
         u.partner = s.partner, u.enc = s.enc, u.inbox = None,
         u.status = s.status, u.out = s.out
  PROVE  Moves(n, s, u)
<1> DEFINE p == s.inbox.packet
<1>1. /\ s.linkState = "AwaitingLink" /\ s.linkingState = 4
      /\ p.seal = s.enc.block /\ p.peer = n
  BY DEF OnCryptoStartReceived, RemoteSendingPublicKey
<1>2. n \in Nodes /\ n \notin Hosts
  BY RoleAssumption DEF Nodes
<1>3. s.enc.block # None /\ s.enc.block.iv = LinkIvOf(n, s)
  BY <1>1, NoneAssumption DEF NodeInv, CipherInv, NodeStates, Encoders
<1>4. Offered(s, s.partner, n)
  BY <1>1, <1>2, <1>3 DEF Offered, IsOffer, LinkIvOf
<1>5. MaySend(n, s, s.out) => MaySend(n, u, s.out)
  BY <1>1, <1>2 DEF MaySend, Out, InTheLink
<1>6. EndInv(n, u)
  <2>1. s.partner \in Hosts
    BY <1>4 DEF EndInv, PartnerInv, Offered
  <2> QED
    BY <1>2, <1>5, <2>1 DEF EndInv, WaitingInv, PlainInv, PartnerInv, InTheLink
<1>7. RemoteMoves(n, s, u)
  <2>1. SameTerms(p.seal, u.enc.block)
    BY <1>1 DEF SameTerms
  <2>2. ~MaySwitchOver(u)
    BY DEF MaySwitchOver
  <2>3. \A h \in Hosts : Accepted(u, h) => h = s.partner
    BY DEF Accepted
  <2> QED
    BY <1>4, <2>1, <2>2, <2>3 DEF RemoteMoves
<1>8. RemoteGoes(s, u)
  BY <1>1 DEF RemoteGoes, RemotePhase, RemoteLinkingSwitchOver
<1> QED
  BY <1>2, <1>6, <1>7, <1>8 DEF Moves

\* What a node answers with: the ack of a switch-over only from a remote that
\* has switched over.
LEMMA AckSays ==
  ASSUME NEW n \in Nodes, NEW s, NodeInv(n, s), EndInv(n, s), s.linkState # "Disabled",
         NEW header \in Headers, NEW id, NEW f,
         f.packet = Packet("Ack", header, id), f.cipher = FrameCipher(s.enc),
         NEW u, u.inbox = None,
         header = "ShortWithAck" => /\ n \in Remotes
                                    /\ InTheLink(s) => PastClockSync(u)
  PROVE  Says(n, u, f)
<1>1. f.cipher # None => /\ InTheLink(s)
                         /\ n \in Hosts => f.cipher.iv.id1 = n
                         /\ n \in Remotes => f.cipher.iv.id2 = n
  BY SenderCipher DEF EndInv
<1>2. /\ f.packet.header = "Ack" /\ f.packet.sub = header /\ f.packet.seal = None
  BY DEF Packet
<1>3. ~IsAsk(f.packet) /\ ~IsOffer(f.packet) /\ ~IsSwitchOver(f.packet)
  BY <1>2 DEF IsAsk, IsOffer, IsSwitchOver, Headers
<1>4. IsSwitchOverAck(f.packet) => header = "ShortWithAck"
  BY <1>2 DEF IsSwitchOverAck
<1> QED
  BY <1>1, <1>3, <1>4 DEF Says

LEMMA ProcessAckAgrees ==
  ASSUME AgreementInv, LinkInv', NEW n \in Nodes, ProcessAck(n)
  PROVE  AgreesAgain(n)
<1> DEFINE s == node[n]
           r == Restored(n)
           a == Received(n)
           mine == s.status = "WaitingForAck" /\ s.out.header = a.sub /\ s.out.id = a.id
           u == [r EXCEPT !.status = IF mine THEN "AckOk" ELSE @]
<1>1. NodeInv(n, s) /\ EndInv(n, s) /\ s \in NodeStates
  BY DEF AgreementInv, LinkInv, NodeInv
<1>2. /\ r \in NodeStates /\ r.inbox = None /\ SameAttempt(s, r)
      /\ r.status = s.status /\ r.out = s.out
  BY <1>1, RestoredIsQuiet DEF Restored
<1>3. Become(n, u) /\ Reads(s) /\ a.header = "Ack" /\ a = s.inbox.packet
  BY DEF ProcessAck, Holds, Received, Reads
<1> HIDE DEF s, r, a
<1>4. SameAttempt(s, u) /\ u.out = s.out
  BY <1>2 DEF NodeStates, SameAttempt
<1>5. CASE mine
  <2>1. u.status = "AckOk"
    BY <1>2, <1>5 DEF NodeStates
  <2>2. WaitingInv(n, u)
    BY <1>1, <1>4, <1>5, <2>1 DEF EndInv, WaitingInv
  <2>3. u.out.header = "ShortWithAck" => Reads(s) /\ IsSwitchOverAck(s.inbox.packet)
    BY <1>3, <1>4, <1>5 DEF IsSwitchOverAck
  <2> HIDE DEF u
  <2>4. Moves(n, s, u)
    BY <1>1, <1>4, <2>2, <2>3, SameAttemptMoves DEF EndInv
  <2> QED
    BY <1>3, <2>4, BecomeAgrees DEF s
<1>6. CASE ~mine
  <2>1. u.status = s.status
    BY <1>2, <1>6 DEF NodeStates
  <2> HIDE DEF u
  <2>2. Moves(n, s, u)
    BY <1>1, <1>4, <2>1, QuietMoves DEF SamePacket
  <2> QED
    BY <1>3, <2>2, BecomeAgrees DEF s
<1> QED
  BY <1>5, <1>6

LEMMA ProcessPacketAgrees ==
  ASSUME AgreementInv, LinkInv', NEW n \in Nodes, ProcessPacket(n)
  PROVE  AgreesAgain(n)
<1> DEFINE s == node[n]
           r == Restored(n)
           p == Received(n)
<1>1. NodeInv(n, s) /\ EndInv(n, s) /\ s \in NodeStates
  BY DEF AgreementInv, LinkInv, NodeInv
<1>2. /\ r \in NodeStates /\ r.inbox = None /\ SameAttempt(s, r)
      /\ r.status = s.status /\ r.out = s.out
  BY <1>1, RestoredIsQuiet DEF Restored
<1>3. s.inbox # None /\ p = s.inbox.packet
  BY DEF ProcessPacket, Holds, Received
<1>4. \/ n \in Hosts /\ Become(n, HostProcessPacket(r, p))
      \/ n \in Remotes /\ Become(n, RemoteProcessPacket(r, p))
      \/ /\ n \in Remotes
         /\ \E t \in ToAwaitingLink(n, r) : Become(n, OnIdBroadcastReceived(t, p))
  BY DEF ProcessPacket, WokenByBroadcast
<1>5. NodeInv(n, r)
  BY RestoredKeeps DEF AgreementInv, Keeps
<1> HIDE DEF s, r, p
<1>6. CASE n \in Hosts /\ Become(n, HostProcessPacket(r, p))
  BY <1>1, <1>2, <1>3, <1>6, HostProcessPacketMoves, BecomeAgrees DEF s
<1>7. CASE n \in Remotes /\ Become(n, RemoteProcessPacket(r, p))
  BY <1>1, <1>2, <1>7, RemoteProcessPacketMoves, BecomeAgrees DEF s
<1>8. CASE /\ n \in Remotes
           /\ \E t \in ToAwaitingLink(n, r) : Become(n, OnIdBroadcastReceived(t, p))
  <2>1. PICK t \in ToAwaitingLink(n, r) : Become(n, OnIdBroadcastReceived(t, p))
    BY <1>8
  <2>2. /\ t \in NodeStates /\ t.linkState = "AwaitingLink" /\ t.linkingState = 0
        /\ t.status = s.status /\ t.out = s.out /\ t.inbox = None
    BY <1>2, <1>5, ToAwaitingLinkStarts
  <2>3. Moves(n, s, OnIdBroadcastReceived(t, p))
    BY <1>1, <1>8, <2>2, WakingMoves
  <2> QED
    BY <2>1, <2>3, BecomeAgrees DEF s
<1> QED
  BY <1>4, <1>6, <1>7, <1>8

LEMMA ProcessAckedPacketAgrees ==
  ASSUME AgreementInv, LinkInv', NEW n \in Nodes, ProcessAckedPacket(n)
  PROVE  AgreesAgain(n)
<1> DEFINE s == node[n]
           r == Restored(n)
           p == Received(n)
           f == Frame(n, Packet("Ack", p.header, p.id))
           u == OnAckedPacketReceived(r)
<1>1. NodeInv(n, s) /\ EndInv(n, s) /\ s \in NodeStates
  BY DEF AgreementInv, LinkInv, NodeInv
<1>2. /\ r \in NodeStates /\ r.inbox = None /\ SameAttempt(s, r)
      /\ r.status = s.status /\ r.out = s.out
  BY <1>1, RestoredIsQuiet DEF Restored
<1>3. Reads(s) /\ s.inbox # None /\ p = s.inbox.packet /\ p.header \in {"Ping", "ShortWithAck"}
  BY DEF ProcessAckedPacket, Holds, Received, Reads
<1>4. /\ f.packet = Packet("Ack", p.header, p.id) /\ f.cipher = FrameCipher(s.enc)
      /\ p.header \in Headers
  BY <1>3 DEF Frame, Headers
<1>5. \/ AcksPing(s, p) /\ Transmit(n, r, f)
      \/ n \in Remotes /\ RemoteAcks(n, s, p) /\ Transmit(n, u, f)
      \/ Become(n, r)
  BY DEF ProcessAckedPacket
<1>6. Moves(n, s, r)
  <2>1. SamePacket(s, r)
    BY <1>2 DEF SamePacket
  <2> QED
    BY <1>1, <1>2, <2>1, QuietMoves
<1> HIDE DEF s, r, p, f, u
<1>7. CASE AcksPing(s, p) /\ Transmit(n, r, f)
  <2>1. p.header = "Ping" /\ s.linkState # "Disabled"
    BY <1>7 DEF AcksPing
  <2>2. Says(n, r, f)
    BY <1>1, <1>2, <1>4, <2>1, AckSays
  <2> QED
    BY <1>6, <1>7, <2>2, TransmitAgrees DEF s
<1>8. CASE n \in Remotes /\ OnCryptoStartReceived(n, s, p) /\ Transmit(n, u, f)
  <2>1. s.linkState = "AwaitingLink" /\ s.linkingState = 4
    BY <1>8 DEF OnCryptoStartReceived, RemoteSendingPublicKey
  <2>2. /\ u.linkState = "AwaitingLink" /\ u.linkingState = 5
        /\ u.partner = s.partner /\ u.enc = s.enc /\ u.inbox = None
        /\ u.status = s.status /\ u.out = s.out
    BY <1>2, <2>1 DEF u, OnAckedPacketReceived, SetLinkingState, RemoteLinkingSwitchOver,
                      SameAttempt, NodeStates
  <2>3. Moves(n, s, u)
    BY <1>1, <1>3, <1>8, <2>2, AcceptingMoves
  <2>4. Says(n, u, f)
    BY <1>1, <1>4, <1>8, <2>1, <2>2, AckSays DEF InTheLink
  <2> QED
    BY <1>8, <2>3, <2>4, TransmitAgrees DEF s
<1>9. CASE n \in Remotes /\ OnLinkProtocolReceived(n, s, p) /\ p.header = "ShortWithAck"
           /\ Transmit(n, u, f)
  <2>1. s.linkState = "Linking" /\ s.linkingState = 1 /\ p.seal = None
    BY <1>9 DEF OnLinkProtocolReceived
  <2>2. /\ u.linkState = "Linking" /\ u.linkingState = 2
        /\ u.partner = s.partner /\ u.enc = s.enc /\ u.inbox = None
        /\ u.status = s.status /\ u.out = s.out
    BY <1>2, <2>1 DEF u, OnAckedPacketReceived, SetLinkingState, SameAttempt, NodeStates
  <2>3. PastClockSync(u) /\ MaySwitchOver(s) /\ n \notin Hosts /\ s.linkingState \in 0..2
    BY <1>3, <1>9, <2>1, <2>2, RoleAssumption DEF PastClockSync, MaySwitchOver, IsSwitchOver
  <2>4. Moves(n, s, u)
    BY <1>1, <2>1, <2>2, <2>3, LinkingMoves
  <2>5. Says(n, u, f)
    BY <1>1, <1>4, <1>9, <2>1, <2>2, <2>3, AckSays
  <2> QED
    BY <1>9, <2>4, <2>5, TransmitAgrees DEF s
<1>10. CASE Become(n, r)
  BY <1>6, <1>10, BecomeAgrees DEF s
<1> QED
  BY <1>5, <1>7, <1>8, <1>9, <1>10 DEF RemoteAcks

LEMMA DriverStepAgrees ==
  ASSUME AgreementInv, LinkInv', NEW n \in Nodes, DriverStep(n)
  PROVE  AgreesAgain(n)
<1>1. CASE RejectFrame(n)
  <2> DEFINE s == node[n]
             r == Restored(n)
  <2>1. EndInv(n, s) /\ s \in NodeStates
    BY DEF AgreementInv, LinkInv, NodeInv
  <2>2. SameAttempt(s, r) /\ SamePacket(s, r)
    BY <2>1, RestoredIsQuiet DEF Restored, SamePacket
  <2>3. Moves(n, s, r)
    BY <2>1, <2>2, QuietMoves
  <2> QED
    BY <1>1, <2>3, BecomeAgrees DEF RejectFrame
<1> QED
  BY <1>1, ProcessAckAgrees, ProcessPacketAgrees, ProcessAckedPacketAgrees DEF DriverStep

----------------------------------------------------------------------------
(* The steps of a host *)

\* A packet in clear that asks for no link.
LEMMA PlainRequestMoves ==
  ASSUME NEW n \in Nodes, NEW s, NEW w \in NodeStates, NEW p,
         EndInv(n, s), SameAttempt(s, w), p.sub # "PkcStartRequest", p.seal = None,
         p.header \in {"Short", "Long", "Report"} \/ (p.header = "Ping" /\ n \in Hosts)
  PROVE  Moves(n, s, RequestSendPacket(w, p))
<1>1. n \in Hosts => n \notin Remotes
  BY RoleAssumption
<1>2. OwnPacket(n, p)
  BY <1>1 DEF OwnPacket, HasACK
<1>3. MaySend(n, s, p)
  BY PlainPacketMaySend DEF IsAsk, IsOffer, IsSwitchOver
<1> QED
  BY <1>2, <1>3, RequestMoves

\* An attempt given up, on a host and on a remote.
LEMMA StartOverMoves ==
  ASSUME NEW n \in Nodes, NEW s, NodeInv(n, s), EndInv(n, s), s.status = "Done",
         s.linkState = "AwaitingLink"
  PROVE  Moves(n, s, SetLinkingState(ClearSession(s), 0))
<1> DEFINE w == ClearSession(s)
           u == SetLinkingState(w, 0)
<1>1. w \in NodeStates /\ Cleared(s, w) /\ w.inbox = s.inbox
  BY ClearSessionType DEF NodeInv
<1> HIDE DEF w
<1>2. /\ u.linkState = "AwaitingLink" /\ u.linkingState = 0
      /\ u.status = "Done" /\ u.inbox = s.inbox
  BY <1>1 DEF Cleared, SetLinkingState, NodeStates
<1> HIDE DEF u
<1>3. Moves(n, s, u)
  BY <1>2, LeavingMoves DEF InTheLink
<1> QED
  BY <1>3 DEF u, w

\* A host at its first stage is engaged with nobody: a new session costs it
\* nothing, and its broadcast says nothing of it.
LEMMA OpenSessionMoves ==
  ASSUME NEW h \in Hosts, NEW s, NodeInv(h, s), EndInv(h, s), s.status = "Done",
         s.linkState = "AwaitingLink", s.linkingState = 0, NEW id \in Sessions,
         NEW w, w = [NewSession(s, id) EXCEPT !.sessionStamped = TRUE]
  PROVE  Moves(h, s, w) /\ Moves(h, s, RequestSendPacket(w, IdBroadcast(h, w)))
<1> DEFINE c == ClearSession(s)
           p == IdBroadcast(h, w)
           u == RequestSendPacket(w, p)
<1>1. h \in Nodes /\ h \notin Remotes
  BY RoleAssumption DEF Nodes
<1>2. c \in NodeStates /\ Cleared(s, c) /\ c.inbox = s.inbox
  BY ClearSessionType DEF NodeInv
<1>3. w = [c EXCEPT !.session = id, !.sessionStamped = TRUE]
  BY <1>2 DEF NewSession, NodeStates
<1>4. w \in NodeStates
  BY <1>1, OpenSessionKeeps DEF Keeps, NodeInv
<1> HIDE DEF c
<1>5. /\ w.linkState = "AwaitingLink" /\ w.linkingState = 0
      /\ w.status = "Done" /\ w.inbox = s.inbox
  BY <1>2, <1>3 DEF Cleared, NodeStates
<1>6. Moves(h, s, w)
  BY <1>1, <1>5, LeavingMoves DEF InTheLink
<1>7. OwnPacket(h, p) /\ ~IsAsk(p) /\ ~IsOffer(p) /\ ~IsSwitchOver(p)
  BY <1>1 DEF IdBroadcast, Packet, OwnPacket, HasACK, IsAsk, IsOffer, IsSwitchOver
<1> HIDE DEF p
<1>8. /\ u.linkState = "AwaitingLink" /\ u.linkingState = 0
      /\ u.status = "SendingPacket" /\ u.out = p /\ u.inbox = s.inbox
  BY <1>4, <1>5 DEF RequestSendPacket, NodeStates
<1> HIDE DEF u
<1>9. EndInv(h, u)
  BY <1>1, <1>7, <1>8, PlainPacketMaySend DEF EndInv, WaitingInv, PlainInv, PartnerInv, InTheLink
<1>10. HostMoves(s, u) /\ HostGoes(s, u)
  BY <1>8 DEF HostMoves, Engaged, InTheLink, HostGoes, HostPhase, LinkingSwitchOver
<1>11. Moves(h, s, u)
  BY <1>1, <1>8, <1>9, <1>10 DEF Moves
<1> QED
  BY <1>6, <1>11 DEF u, p

LEMMA HostAwaitingLinkAgrees ==
  ASSUME AgreementInv, LinkInv', NEW h \in Hosts,
         \/ HostOpensSession(h) \/ HostValidatesPartner(h) \/ HostProcessesPKC(h)
         \/ HostFailsPKC(h) \/ HostCancelsPKC(h)
  PROVE  AgreesAgain(h)
<1> DEFINE s == node[h]
<1>1. NodeInv(h, s) /\ EndInv(h, s) /\ h \in Nodes /\ s \in NodeStates
  BY DEF AgreementInv, LinkInv, NodeInv, Nodes
<1>2. s.linkState = "AwaitingLink" /\ s.status = "Done"
  BY DEF HostOpensSession, HostValidatesPartner, HostProcessesPKC, HostFailsPKC, HostCancelsPKC,
         HostIs, AtStage, Serving
<1>3. CASE HostOpensSession(h)
  <2>1. s.linkingState = 0
    BY <1>3 DEF HostOpensSession, HostIs, AtStage, BroadcastingOpenSession
  <2> DEFINE w(id) == [NewSession(s, id) EXCEPT !.sessionStamped = TRUE]
  <2>2. PICK id \in Sessions :
          Become(h, w(id)) \/ Become(h, RequestSendPacket(w(id), IdBroadcast(h, w(id))))
    BY <1>3 DEF HostOpensSession
  <2>3. Moves(h, s, w(id)) /\ Moves(h, s, RequestSendPacket(w(id), IdBroadcast(h, w(id))))
    BY <1>1, <1>2, <2>1, OpenSessionMoves
  <2> HIDE DEF w
  <2> QED
    BY <1>1, <2>2, <2>3, BecomeAgrees
<1>4. CASE HostValidatesPartner(h)
  <2> DEFINE e == SetIvData(s.enc, s.session, h, s.partner)
             v == SetLinkingState(s, 2)
             u == [v EXCEPT !.enc = e]
  <2>1. s.linkingState = 1
    BY <1>4 DEF HostValidatesPartner, HostIs, AtStage, HostValidatingPartner
  <2>2. /\ v \in NodeStates /\ v.enc = s.enc /\ v.linkState = s.linkState
        /\ v.linkingState = 2 /\ v.partner = s.partner
        /\ v.status = s.status /\ v.inbox = s.inbox
    BY <1>1, SetLinkingStateType DEF SetLinkingState, NodeStates
  <2>3. Become(h, u)
    BY <1>4, <2>2 DEF HostValidatesPartner, HostSendingPublicKey
  <2> HIDE DEF e, v
  <2>4. /\ u.linkState = "AwaitingLink" /\ u.linkingState = 2
        /\ u.partner = s.partner /\ u.status = "Done" /\ u.inbox = s.inbox
    BY <1>2, <2>2 DEF NodeStates
  <2> HIDE DEF u
  <2>5. Moves(h, s, u)
    BY <1>1, <1>2, <2>1, <2>4, PreparingMoves
  <2> QED
    BY <1>1, <2>3, <2>5, BecomeAgrees
<1>5. CASE HostProcessesPKC(h)
  <2> DEFINE e == SetSecretKey(s.enc, SharedKey(s.kx))
             x == GenerateSharedKey(s.kx)
             v == SetLinkingState(s, 4)
             u == [v EXCEPT !.kx = x, !.enc = e]
  <2>1. s.linkingState = 3
    BY <1>5 DEF HostProcessesPKC, HostIs, AtStage, ProcessingPKC
  <2>2. /\ v \in NodeStates /\ v.enc = s.enc /\ v.kx = s.kx /\ v.linkState = s.linkState
        /\ v.linkingState = 4 /\ v.partner = s.partner
        /\ v.status = s.status /\ v.inbox = s.inbox
    BY <1>1, SetLinkingStateType DEF SetLinkingState, NodeStates
  <2>3. Become(h, u)
    BY <1>5, <2>2 DEF HostProcessesPKC, GotSharedKey
  <2> HIDE DEF e, x, v
  <2>4. /\ u.linkState = "AwaitingLink" /\ u.linkingState = 4
        /\ u.partner = s.partner /\ u.status = "Done" /\ u.inbox = s.inbox
    BY <1>2, <2>2 DEF NodeStates
  <2> HIDE DEF u
  <2>5. Moves(h, s, u)
    BY <1>1, <1>2, <2>1, <2>4, PreparingMoves
  <2> QED
    BY <1>1, <2>3, <2>5, BecomeAgrees
<1>6. CASE HostFailsPKC(h) \/ HostCancelsPKC(h)
  <2>1. Become(h, SetLinkingState(ClearSession(s), 0))
    BY <1>6 DEF HostFailsPKC, HostCancelsPKC, RestartAwaitingLink, BroadcastingOpenSession
  <2> QED
    BY <1>1, <1>2, <2>1, StartOverMoves, BecomeAgrees
<1> QED
  BY <1>3, <1>4, <1>5, <1>6

\* What a host sealed for its partner, or asks it once its own clock is done.
LEMMA HostRequestsMoves ==
  ASSUME NEW h \in Hosts, NEW s, NodeInv(h, s), EndInv(h, s), NEW p,
         \/ /\ p = CryptoStartRequest(s)
            /\ s.linkState = "AwaitingLink" /\ s.linkingState = 4
         \/ /\ p = SwitchOverRequest(s)
            /\ s.linkState = "Linking" /\ s.linkingState = 2
  PROVE  Moves(h, s, RequestSendPacket(s, p))
<1>1. h \in Nodes /\ h \notin Remotes /\ s \in NodeStates
  BY RoleAssumption DEF Nodes, NodeInv
<1>2. p.header = "ShortWithAck" /\ p.sub = None /\ None # "PkcStartRequest"
  BY NoneAssumption DEF CryptoStartRequest, SwitchOverRequest, Packet, SubHeaders
<1>3. OwnPacket(h, p) /\ ~IsAsk(p)
  BY <1>1, <1>2 DEF OwnPacket, IsAsk
<1>4. SameAttempt(s, s)
  BY DEF SameAttempt
<1>5. CASE p = CryptoStartRequest(s) /\ s.linkState = "AwaitingLink" /\ s.linkingState = 4
  <2>1. p.seal = s.enc.block /\ p.peer = s.partner
    BY <1>5 DEF CryptoStartRequest, SwitchOverRequest, Packet
  <2>2. s.enc.block.iv = LinkIvOf(h, s)
    BY <1>5 DEF NodeInv, CipherInv
  <2>3. p.seal.iv.id1 = h
    BY <2>1, <2>2 DEF LinkIvOf
  <2>4. p.seal # None
    BY <1>1, <2>1, NoneAssumption DEF NodeStates, Encoders
  <2>5. MaySend(h, s, p)
    BY <1>2, <1>3, <1>5, <2>1, <2>3, <2>4 DEF MaySend, IsSwitchOver
  <2> QED
    BY <1>1, <1>3, <1>4, <2>5, RequestMoves
<1>6. CASE p = SwitchOverRequest(s) /\ s.linkState = "Linking" /\ s.linkingState = 2
  <2>1. p.seal = None
    BY <1>6 DEF SwitchOverRequest, Packet
  <2>2. MaySend(h, s, p)
    BY <1>3, <1>6, <2>1 DEF MaySend, IsOffer
  <2> QED
    BY <1>1, <1>3, <1>4, <2>2, RequestMoves
<1> QED
  BY <1>5, <1>6

\* The packets a host sends.
LEMMA HostSendsAgrees ==
  ASSUME AgreementInv, LinkInv', NEW h \in Hosts,
         \/ HostBroadcasts(h) \/ HostSendsPublicKey(h) \/ HostRequestsCryptoStart(h)
         \/ HostPings(h) \/ HostRequestsInfo(h) \/ HostSendsInfo(h)
         \/ HostRequestsSwitchOver(h)
  PROVE  AgreesAgain(h)
<1> DEFINE s == node[h]
<1>1. NodeInv(h, s) /\ EndInv(h, s) /\ h \in Nodes /\ s \in NodeStates
  BY DEF AgreementInv, LinkInv, NodeInv, Nodes
<1>2. SameAttempt(s, s)
  BY DEF SameAttempt
<1>3. ASSUME NEW p, Become(h, RequestSendPacket(s, p)),
             p.sub # "PkcStartRequest", p.seal = None,
             p.header \in {"Short", "Long", "Report", "Ping"}
      PROVE  AgreesAgain(h)
  BY <1>1, <1>2, <1>3, PlainRequestMoves, BecomeAgrees
<1>4. CASE HostBroadcasts(h)
  <2> DEFINE p == IdBroadcast(h, s)
  <2>1. Become(h, RequestSendPacket(s, p))
    BY <1>4 DEF HostBroadcasts
  <2>2. p.sub # "PkcStartRequest" /\ p.seal = None /\ p.header = "Short"
    BY DEF IdBroadcast, Packet
  <2> HIDE DEF p
  <2> QED
    BY <1>3, <2>1, <2>2
<1>5. CASE HostSendsPublicKey(h)
  <2> DEFINE p == HostPublicKey(s)
  <2>1. Become(h, RequestSendPacket(s, p))
    BY <1>5 DEF HostSendsPublicKey
  <2>2. p.sub # "PkcStartRequest" /\ p.seal = None /\ p.header = "Long"
    BY DEF HostPublicKey, Packet
  <2> HIDE DEF p
  <2> QED
    BY <1>3, <2>1, <2>2
<1>6. CASE HostPings(h)
  <2>1. PICK id \in RequestIds : Become(h, RequestSendPacket(s, Packet("Ping", None, id)))
    BY <1>6 DEF HostPings
  <2> DEFINE p == Packet("Ping", None, id)
  <2>2. p.sub # "PkcStartRequest" /\ p.seal = None /\ p.header = "Ping"
    BY NoneAssumption DEF Packet, SubHeaders
  <2> HIDE DEF p
  <2> QED
    BY <1>3, <2>1, <2>2 DEF p
<1>7. CASE HostRequestsInfo(h) \/ HostSendsInfo(h)
  <2>1. PICK sub \in {"InfoSyncRequest", "InfoSyncHost"} :
          Become(h, RequestSendPacket(s, Packet("Report", sub, INVALID_SESSION)))
    BY <1>7 DEF HostRequestsInfo, HostSendsInfo
  <2> DEFINE p == Packet("Report", sub, INVALID_SESSION)
  <2>2. p.sub # "PkcStartRequest" /\ p.seal = None /\ p.header = "Report"
    BY DEF Packet
  <2> HIDE DEF p
  <2> QED
    BY <1>3, <2>1, <2>2 DEF p
<1>8. CASE HostRequestsCryptoStart(h)
  <2>1. /\ s.linkState = "AwaitingLink" /\ s.linkingState = 4
        /\ Become(h, RequestSendPacket(s, CryptoStartRequest(s)))
    BY <1>8 DEF HostRequestsCryptoStart, HostIs, AtStage, Serving, GotSharedKey
  <2> QED
    BY <1>1, <2>1, HostRequestsMoves, BecomeAgrees
<1>9. CASE HostRequestsSwitchOver(h)
  <2>1. /\ s.linkState = "Linking" /\ s.linkingState = 2
        /\ Become(h, RequestSendPacket(s, SwitchOverRequest(s)))
    BY <1>9 DEF HostRequestsSwitchOver, HostIs, AtStage, Serving, LinkProtocolSwitchOver
  <2> QED
    BY <1>1, <2>1, HostRequestsMoves, BecomeAgrees
<1> QED
  BY <1>4, <1>5, <1>6, <1>7, <1>8, <1>9

LEMMA HostAnswersClockAgrees ==
  ASSUME AgreementInv, LinkInv', NEW h \in Hosts,
         NEW sub \in {"NtpReply", "NtpTuneReply"}, HostAnswersClock(h, sub)
  PROVE  AgreesAgain(h)
<1> DEFINE s == node[h]
<1>1. NodeInv(h, s) /\ EndInv(h, s) /\ h \in Nodes
  BY DEF AgreementInv, LinkInv, Nodes
<1>2. PICK good \in BOOLEAN :
        Become(h, RequestSendPacket([OnEstimationReceived(s, good) EXCEPT !.txn = ClearTransaction],
                                    Packet("Short", sub, s.txn.id)))
  BY DEF HostAnswersClock
<1> DEFINE count == IF HostIsSynced(s) THEN s.goodCount
                    ELSE IF good THEN s.goodCount + 1 ELSE 0
           u == [s EXCEPT !.goodCount = count]
           v == [u EXCEPT !.txn = ClearTransaction]
           p == Packet("Short", sub, s.txn.id)
<1>3. count \in 0..(MinClockSamples + 1)
  BY <1>1, SampleAssumption DEF HostIsSynced, NodeInv, NodeStates
<1>4. Become(h, RequestSendPacket(v, p))
  BY <1>2 DEF OnEstimationReceived
<1>5. p.sub # "PkcStartRequest" /\ p.seal = None /\ p.header = "Short"
  BY DEF Packet
<1> HIDE DEF count, p
<1>6. u \in NodeStates /\ SameAttempt(s, u)
  BY <1>1, <1>3 DEF NodeInv, NodeStates, SameAttempt
<1> HIDE DEF u
<1>7. v \in NodeStates /\ SameAttempt(s, v)
  BY <1>6, ClearedTypes DEF NodeStates, SameAttempt
<1> HIDE DEF v
<1> QED
  BY <1>1, <1>4, <1>5, <1>7, PlainRequestMoves, BecomeAgrees

LEMMA HostStepAgrees ==
  ASSUME AgreementInv, LinkInv', NEW h \in Nodes, HostStep(h)
  PROVE  AgreesAgain(h)
<1> DEFINE s == node[h]
<1>1. NodeInv(h, s) /\ EndInv(h, s) /\ s \in NodeStates
  BY DEF AgreementInv, LinkInv, NodeInv
<1>2. h \in Hosts
  BY DEF HostStep, HostOpensSession, HostBroadcasts, HostValidatesPartner, HostSendsPublicKey,
         HostProcessesPKC, HostFailsPKC, HostCancelsPKC, HostRequestsCryptoStart, HostPings,
         HostSetsLatency, HostRequestsInfo, HostHasInfo, HostSendsInfo, HostSyncsClock,
         HostClockSynced, HostRequestsSwitchOver, HostTunesClock, HostIs
<1>3. CASE HostSetsLatency(h) \/ HostHasInfo(h)
  <2>1. PICK stage \in {1, 2} : Become(h, [s EXCEPT !.infoStage = stage])
    BY <1>3 DEF HostSetsLatency, HostHasInfo
  <2> DEFINE u == [s EXCEPT !.infoStage = stage]
  <2>2. SameAttempt(s, u) /\ SamePacket(s, u)
    BY <1>1 DEF SameAttempt, SamePacket, NodeStates
  <2> QED
    BY <1>1, <2>1, <2>2, QuietMoves, BecomeAgrees
<1>4. CASE HostSyncsClock(h) \/ HostTunesClock(h)
  <2>1. HostAnswersClock(h, "NtpReply") \/ HostAnswersClock(h, "NtpTuneReply")
    BY <1>4 DEF HostSyncsClock, HostTunesClock
  <2> QED
    BY <1>2, <2>1, HostAnswersClockAgrees
<1>5. CASE HostClockSynced(h)
  <2> DEFINE u == SetLinkingState(s, 2)
  <2>1. /\ s.linkState = "Linking" /\ s.linkingState = 1 /\ s.status = "Done"
        /\ Become(h, u)
    BY <1>5 DEF HostClockSynced, HostIs, AtStage, Serving, ClockSyncStage, LinkProtocolSwitchOver
  <2>2. /\ u.linkState = "Linking" /\ u.linkingState = 2 /\ u.partner = s.partner
        /\ u.enc = s.enc /\ u.inbox = s.inbox /\ u.status = "Done"
    BY <1>1, <2>1 DEF SetLinkingState, NodeStates
  <2> HIDE DEF u
  <2>3. PastClockSync(u) /\ h \notin Remotes /\ s.linkingState \in 0..2
    BY <1>2, <2>1, <2>2, RoleAssumption DEF PastClockSync
  <2>4. Moves(h, s, u)
    BY <1>1, <2>1, <2>2, <2>3, LinkingMoves
  <2> QED
    BY <2>1, <2>4, BecomeAgrees
<1> QED
  BY <1>2, <1>3, <1>4, <1>5, HostAwaitingLinkAgrees, HostSendsAgrees DEF HostStep

----------------------------------------------------------------------------
(* The steps of a remote *)

\* The stages of AwaitingLink on a remote, before it asks and after it gave up.
LEMMA RemoteAwaitingLinkAgrees ==
  ASSUME AgreementInv, LinkInv', NEW r \in Remotes,
         \/ RemoteValidatesPartner(r) \/ RemoteProcessesPKC(r)
         \/ RemoteFailsPKC(r) \/ RemoteCancelsPKC(r)
  PROVE  AgreesAgain(r)
<1> DEFINE s == node[r]
<1>1. NodeInv(r, s) /\ EndInv(r, s) /\ r \in Nodes /\ r \notin Hosts /\ s \in NodeStates
  BY RoleAssumption DEF AgreementInv, LinkInv, NodeInv, Nodes
<1>2. s.linkState = "AwaitingLink" /\ s.status = "Done"
  BY DEF RemoteValidatesPartner, RemoteProcessesPKC, RemoteFailsPKC, RemoteCancelsPKC,
         RemoteIs, AtStage, Serving
<1>3. CASE RemoteValidatesPartner(r)
  <2> DEFINE e == SetIvData(s.enc, s.session, s.partner, r)
             v == SetLinkingState(s, 2)
             u == [v EXCEPT !.enc = e]
  <2>1. s.linkingState = 1
    BY <1>3 DEF RemoteValidatesPartner, RemoteIs, AtStage, RemoteValidatingPartner
  <2>2. /\ v \in NodeStates /\ v.enc = s.enc /\ v.linkState = s.linkState
        /\ v.linkingState = 2 /\ v.status = s.status /\ v.inbox = s.inbox
    BY <1>1, SetLinkingStateType DEF SetLinkingState, NodeStates
  <2>3. Become(r, u)
    BY <1>3, <2>2 DEF RemoteValidatesPartner, AwaitingHostPublicKey
  <2> HIDE DEF e, v
  <2>4. /\ u.linkState = "AwaitingLink" /\ u.linkingState = 2
        /\ u.status = "Done" /\ u.inbox = s.inbox
    BY <1>2, <2>2 DEF NodeStates
  <2> HIDE DEF u
  <2>5. Moves(r, s, u)
    BY <1>1, <1>2, <2>1, <2>4, PreparingMoves
  <2> QED
    BY <1>1, <2>3, <2>5, BecomeAgrees
<1>4. CASE RemoteProcessesPKC(r)
  <2> DEFINE e == SetSecretKey(s.enc, SharedKey(s.kx))
             x == GenerateSharedKey(s.kx)
             v == SetLinkingState(s, 4)
             u == [v EXCEPT !.kx = x, !.enc = e]
  <2>1. s.linkingState = 3
    BY <1>4 DEF RemoteProcessesPKC, RemoteIs, AtStage, ProcessingSharedKey
  <2>2. /\ v \in NodeStates /\ v.enc = s.enc /\ v.kx = s.kx /\ v.linkState = s.linkState
        /\ v.linkingState = 4 /\ v.status = s.status /\ v.inbox = s.inbox
    BY <1>1, SetLinkingStateType DEF SetLinkingState, NodeStates
  <2>3. Become(r, u)
    BY <1>4, <2>2 DEF RemoteProcessesPKC, RemoteSendingPublicKey
  <2> HIDE DEF e, x, v
  <2>4. /\ u.linkState = "AwaitingLink" /\ u.linkingState = 4
        /\ u.status = "Done" /\ u.inbox = s.inbox
    BY <1>2, <2>2 DEF NodeStates
  <2> HIDE DEF u
  <2>5. Moves(r, s, u)
    BY <1>1, <1>2, <2>1, <2>4, PreparingMoves
  <2> QED
    BY <1>1, <2>3, <2>5, BecomeAgrees
<1>5. CASE RemoteFailsPKC(r) \/ RemoteCancelsPKC(r)
  <2>1. Become(r, SetLinkingState(ClearSession(s), 0))
    BY <1>5 DEF RemoteFailsPKC, RemoteCancelsPKC, SearchAgain, SearchingForHost
  <2> QED
    BY <1>1, <1>2, <2>1, StartOverMoves, BecomeAgrees
<1> QED
  BY <1>3, <1>4, <1>5

\* The packets a remote sends. It asks for a link before any offer.
LEMMA RemoteSendsAgrees ==
  ASSUME AgreementInv, LinkInv', NEW r \in Remotes,
         \/ RemoteSearches(r) \/ RemoteRequestsPKC(r) \/ RemoteSendsPublicKey(r)
         \/ RemoteSendsInfo(r)
  PROVE  AgreesAgain(r)
<1> DEFINE s == node[r]
<1>1. NodeInv(r, s) /\ EndInv(r, s) /\ r \in Nodes /\ s \in NodeStates
  BY DEF AgreementInv, LinkInv, NodeInv, Nodes
<1>2. SameAttempt(s, s)
  BY DEF SameAttempt
<1>3. ASSUME NEW p, Become(r, RequestSendPacket(s, p)),
             p.sub # "PkcStartRequest", p.seal = None,
             p.header \in {"Short", "Long", "Report"}
      PROVE  AgreesAgain(r)
  BY <1>1, <1>2, <1>3, PlainRequestMoves, BecomeAgrees
<1>4. CASE RemoteSearches(r)
  <2> DEFINE p == LinkDiscovery(s)
  <2>1. Become(r, RequestSendPacket(s, p))
    BY <1>4 DEF RemoteSearches
  <2>2. p.sub # "PkcStartRequest" /\ p.seal = None /\ p.header = "Short"
    BY DEF LinkDiscovery, Packet
  <2> HIDE DEF p
  <2> QED
    BY <1>3, <2>1, <2>2
<1>5. CASE RemoteSendsPublicKey(r)
  <2> DEFINE p == RemotePublicKey(s)
  <2>1. Become(r, RequestSendPacket(s, p))
    BY <1>5 DEF RemoteSendsPublicKey
  <2>2. p.sub # "PkcStartRequest" /\ p.seal = None /\ p.header = "Long"
    BY DEF RemotePublicKey, Packet
  <2> HIDE DEF p
  <2> QED
    BY <1>3, <2>1, <2>2
<1>6. CASE RemoteSendsInfo(r)
  <2> DEFINE p == Packet("Report", "InfoSyncRemote", INVALID_SESSION)
  <2>1. Become(r, RequestSendPacket(s, p))
    BY <1>6 DEF RemoteSendsInfo
  <2>2. p.sub # "PkcStartRequest" /\ p.seal = None /\ p.header = "Report"
    BY DEF Packet
  <2> HIDE DEF p
  <2> QED
    BY <1>3, <2>1, <2>2
<1>7. CASE RemoteRequestsPKC(r)
  <2> DEFINE p == PKCStartRequest(r, s)
  <2>1. /\ s.linkState = "AwaitingLink" /\ s.linkingState = 2
        /\ Become(r, RequestSendPacket(s, p))
    BY <1>7 DEF RemoteRequestsPKC, RemoteIs, AtStage, Serving, AwaitingHostPublicKey
  <2>2. p.peer = r /\ p.seal = None /\ p.header = "Short"
    BY DEF PKCStartRequest, Packet
  <2> HIDE DEF p
  <2>3. OwnPacket(r, p) /\ ~IsOffer(p) /\ ~IsSwitchOver(p)
    BY <2>2 DEF OwnPacket, HasACK, IsOffer, IsSwitchOver
  <2>4. MaySend(r, s, p)
    BY <2>1, <2>2, <2>3 DEF MaySend, InTheLink
  <2>5. Moves(r, s, RequestSendPacket(s, p))
    BY <1>1, <1>2, <2>3, <2>4, RequestMoves
  <2> QED
    BY <1>1, <2>1, <2>5, BecomeAgrees
<1> QED
  BY <1>4, <1>5, <1>6, <1>7

LEMMA RemoteStepAgrees ==
  ASSUME AgreementInv, LinkInv', NEW r \in Nodes, RemoteStep(r)
  PROVE  AgreesAgain(r)
<1> DEFINE s == node[r]
<1>1. NodeInv(r, s) /\ EndInv(r, s) /\ s \in NodeStates
  BY DEF AgreementInv, LinkInv, NodeInv
<1>2. r \in Remotes /\ r \notin Hosts
  BY RoleAssumption
     DEF RemoteStep, RemoteSearches, RemoteValidatesPartner, RemoteRequestsPKC,
         RemoteProcessesPKC, RemoteFailsPKC, RemoteCancelsPKC, RemoteSendsPublicKey,
         RemoteSendsInfo, RemoteHasInfo, RemoteSyncsClock, RemoteSwitchesOver,
         RemoteTunesClock, RemoteIs
<1>3. CASE RemoteHasInfo(r) \/ RemoteSwitchesOver(r)
  <2>1. PICK stage \in {1, 3} :
          /\ s.linkState = "Linking" /\ s.linkingState = stage - 1 /\ s.status = "Done"
          /\ Become(r, SetLinkingState(s, stage))
    BY <1>3 DEF RemoteHasInfo, RemoteSwitchesOver, RemoteIs, AtStage, Serving
  <2> DEFINE u == SetLinkingState(s, stage)
  <2>2. /\ u.linkState = "Linking" /\ u.linkingState = stage /\ u.partner = s.partner
        /\ u.enc = s.enc /\ u.inbox = s.inbox /\ u.status = "Done"
    BY <1>1, <2>1 DEF SetLinkingState, NodeStates
  <2> HIDE DEF u
  <2>3. /\ PastClockSync(s) => PastClockSync(u)
        /\ s.linkingState \in 0..2 /\ u.linkingState = s.linkingState + 1
    BY <2>1, <2>2 DEF PastClockSync
  <2>4. u.linkingState >= 2 => MaySwitchOver(s)
    BY <2>1, <2>2 DEF MaySwitchOver
  <2>5. Moves(r, s, u)
    BY <1>1, <1>2, <2>1, <2>2, <2>3, <2>4, LinkingMoves
  <2> QED
    BY <2>1, <2>5, BecomeAgrees DEF u
<1>4. CASE RemoteSyncsClock(r) \/ RemoteTunesClock(r)
  <2>1. \/ Become(r, [s EXCEPT !.txn = ClearTransaction])
        \/ \E id \in RequestIds, sub \in {"NtpRequest", "NtpTuneRequest"} :
             Become(r, RequestClock(s, sub, id))
    BY <1>4 DEF RemoteSyncsClock, RemoteTunesClock
  <2>2. CASE Become(r, [s EXCEPT !.txn = ClearTransaction])
    <3> DEFINE u == [s EXCEPT !.txn = ClearTransaction]
    <3>1. SameAttempt(s, u) /\ SamePacket(s, u)
      BY <1>1 DEF SameAttempt, SamePacket, NodeStates
    <3> QED
      BY <1>1, <2>2, <3>1, QuietMoves, BecomeAgrees
  <2>3. ASSUME NEW id \in RequestIds, NEW sub \in {"NtpRequest", "NtpTuneRequest"},
               Become(r, RequestClock(s, sub, id))
        PROVE  AgreesAgain(r)
    <3> DEFINE u == [s EXCEPT !.txn = [stage |-> "Requested", id |-> id]]
               p == Packet("Short", sub, id)
    <3>1. Become(r, RequestSendPacket(u, p))
      BY <2>3 DEF RequestClock
    <3>2. [stage |-> "Requested", id |-> id] \in Transactions
      BY IdAssumption DEF Transactions
    <3>3. u \in NodeStates /\ SameAttempt(s, u)
      BY <1>1, <3>2 DEF NodeStates, SameAttempt
    <3>4. p.sub # "PkcStartRequest" /\ p.seal = None /\ p.header = "Short"
      BY DEF Packet
    <3> HIDE DEF u, p
    <3> QED
      BY <1>1, <3>1, <3>3, <3>4, PlainRequestMoves, BecomeAgrees
  <2> QED
    BY <2>1, <2>2, <2>3
<1> QED
  BY <1>2, <1>3, <1>4, RemoteAwaitingLinkAgrees, RemoteSendsAgrees DEF RemoteStep

----------------------------------------------------------------------------
(* The theorems *)

LEMMA InitAgreementInv == Init => AgreementInv
<1> SUFFICES ASSUME Init PROVE AgreementInv
  OBVIOUS
<1>1. \A n \in Nodes : node[n] = InitialNode
  BY DEF Init
<1>2. \A n \in Nodes : EndInv(n, InitialNode)
  BY DEF InitialNode, EndInv, WaitingInv, PlainInv, PartnerInv, InTheLink
<1>3. \A h, r : PairInv(h, InitialNode, r, InitialNode)
  BY DEF InitialNode, PairInv, Offered, Accepted, InTheLink
<1> QED
  BY <1>1, <1>2, <1>3, InitLinkInv DEF AgreementInv, Nodes

LEMMA NextAgrees ==
  AgreementInv /\ [Next]_vars =>
    AgreementInv' /\ ((\E n \in Nodes : Stepped(n)) \/ UNCHANGED vars)
<1> SUFFICES ASSUME AgreementInv, [Next]_vars
             PROVE  AgreementInv' /\ ((\E n \in Nodes : Stepped(n)) \/ UNCHANGED vars)
  OBVIOUS
<1>1. LinkInv'
  BY NextKept DEF AgreementInv, Kept
<1>2. CASE UNCHANGED vars
  BY <1>1, <1>2 DEF vars, AgreementInv
<1>3. CASE Next
  BY <1>1, <1>3, ManagerStepAgrees, DriverStepAgrees, SendStepAgrees, LinkStepAgrees,
     HostStepAgrees, RemoteStepAgrees DEF Next, AgreesAgain
<1> QED
  BY <1>2, <1>3

\* What two ends have agreed on, and what each knows of the other, holds of
\* every behaviour, whatever the other nodes on the channel send.
THEOREM AgreementInvariant == Spec => []AgreementInv
<1> QED
  BY InitAgreementInv, NextAgrees, PTL DEF Spec

\* Two partners in the link have accepted each other.
LEMMA PartnersAccepted ==
  ASSUME AgreementInv, NEW h \in Hosts, NEW r \in Remotes, Partners(h, r),
         InLink(h), InLink(r)
  PROVE  /\ SameTerms(node[h].enc.block, node[r].enc.block)
         /\ MayCommit(node[h]) => PastClockSync(node[r])
         /\ MaySwitchOver(node[r]) => PastClockSync(node[h])
<1>1. Engaged(node[h], r) /\ Accepted(node[r], h)
  BY DEF Partners, InLink, Engaged, Accepted, InTheLink
<1> QED
  BY <1>1 DEF AgreementInv, PairInv

\* Two partners in the link are in one session, under one key and one IV.
THEOREM PartnersAgree == Spec => []LinkAgreement
<1>1. AgreementInv => LinkAgreement
  <2> SUFFICES ASSUME AgreementInv, NEW h \in Hosts, NEW r \in Remotes, Partners(h, r),
                      InLink(h), InLink(r)
               PROVE  /\ node[h].session = node[r].session
                      /\ SameTerms(node[h].enc.block, node[r].enc.block)
    BY DEF LinkAgreement, SameTerms
  <2>1. SameTerms(node[h].enc.block, node[r].enc.block)
    BY PartnersAccepted
  <2>2. h \in Nodes /\ r \in Nodes /\ NodeInv(h, node[h]) /\ NodeInv(r, node[r])
    BY DEF AgreementInv, LinkInv, Nodes
  <2>3. /\ node[h].enc.block.iv = LinkIvOf(h, node[h])
        /\ node[r].enc.block.iv = LinkIvOf(r, node[r])
    BY <2>2, CipherInTheLink DEF InLink, InTheLink
  <2>4. /\ LinkIvOf(h, node[h]).session = node[h].session
        /\ LinkIvOf(r, node[r]).session = node[r].session
    BY DEF LinkIvOf
  <2> QED
    BY <2>1, <2>3, <2>4 DEF SameTerms
<1> QED
  BY <1>1, AgreementInvariant, PTL

\* A host that takes the link for established has a partner past its clock
\* synchronisation, whatever acks were lost, late or repeated.
THEOREM HostIsLastToCommit == Spec => []HostCommitsLast
<1>1. AgreementInv => HostCommitsLast
  <2> SUFFICES ASSUME AgreementInv PROVE HostCommitsLast
    OBVIOUS
  <2>1. ASSUME NEW h \in Hosts, NEW r \in Remotes, Partners(h, r), InLink(h), InLink(r),
               MayCommit(node[h])
        PROVE  PastClockSync(node[r])
    BY <2>1, PartnersAccepted
  <2> QED
    BY <2>1 DEF HostCommitsLast, Committed, LinkingDone, LinkProtocolSwitchOver, InLink, MayCommit,
                PastClockSync
<1> QED
  BY <1>1, AgreementInvariant, PTL

\* A remote that has switched over has a partner whose clock, latency and
\* information are complete: nothing else on the air makes it do so.
THEOREM RemoteIsAskedToCommit == Spec => []RemoteCommitsOnRequest
<1>1. AgreementInv => RemoteCommitsOnRequest
  <2> SUFFICES ASSUME AgreementInv PROVE RemoteCommitsOnRequest
    OBVIOUS
  <2>1. ASSUME NEW h \in Hosts, NEW r \in Remotes, Partners(h, r), InLink(h), InLink(r),
               MaySwitchOver(node[r])
        PROVE  PastClockSync(node[h])
    BY <2>1, PartnersAccepted
  <2> QED
    BY <2>1 DEF RemoteCommitsOnRequest, LinkProtocolSwitchOver, InLink, MaySwitchOver,
                PastClockSync
<1> QED
  BY <1>1, AgreementInvariant, PTL

----------------------------------------------------------------------------
(* One host and one remote implement AgreedLink *)

LEMMA HostPhaseOf ==
  ASSUME NEW s \in NodeStates
  PROVE  /\ HostPhase(s) \in {"Apart", "Entered", "Joining", "Asking", "Committed"}
         /\ HostPhase(s) = "Entered" <=> s.linkState = "AwaitingLink" /\ s.linkingState = 5
         /\ HostPhase(s) = "Joining" <=> s.linkState = "Linking" /\ s.linkingState < 2
         /\ HostPhase(s) = "Asking" <=> s.linkState = "Linking" /\ s.linkingState = 2
         /\ HostPhase(s) = "Committed" <=>
              s.linkState = "Linked" \/ (s.linkState = "Linking" /\ s.linkingState > 2)
BY DEF HostPhase, LinkingSwitchOver, LinkProtocolSwitchOver, NodeStates

LEMMA RemotePhaseOf ==
  ASSUME NEW s \in NodeStates
  PROVE  /\ RemotePhase(s) \in {"Apart", "Entered", "Joining", "Committed"}
         /\ RemotePhase(s) = "Entered" <=> s.linkState = "AwaitingLink" /\ s.linkingState = 5
         /\ RemotePhase(s) = "Joining" <=> s.linkState = "Linking" /\ s.linkingState < 2
         /\ RemotePhase(s) = "Committed" <=>
              s.linkState = "Linked" \/ (s.linkState = "Linking" /\ s.linkingState >= 2)
BY DEF RemotePhase, RemoteLinkingSwitchOver, LinkProtocolSwitchOver, NodeStates

\* An end that is in an attempt is so on terms: its block has a key and an IV.
LEMMA TermsType ==
  ASSUME NEW n \in Nodes, NEW s, NodeInv(n, s),
         InTheLink(s) \/ (s.linkState = "AwaitingLink" /\ s.linkingState = 5)
  PROVE  TermsOf(s) \in [key : SUBSET (KeyPairs \cup {None}), iv : Ivs]
<1>1. s.enc.block \in CipherBlocks /\ s.enc.block.iv = LinkIvOf(n, s)
  BY DEF NodeInv, CipherInv, InTheLink, NodeStates, Encoders
<1>2. LinkIvOf(n, s) \in Ivs
  BY DEF LinkIvOf, Ivs, NodeInv, NodeStates, Nodes
<1> QED
  BY <1>1, <1>2 DEF TermsOf, CipherBlocks

\* The only host and the only remote, and the attempt each is in.
LEMMA AttemptsOf ==
  ASSUME NEW h, NEW r, Alone(h, r)
  PROVE  /\ h \in Hosts /\ r \in Remotes /\ Nodes = {h, r} /\ h # r
         /\ HostAttempt = Attempt(node[h], HostPhase(node[h]))
         /\ RemoteAttempt = Attempt(node[r], RemotePhase(node[r]))
         /\ HostAttempt' = Attempt(node'[h], HostPhase(node'[h]))
         /\ RemoteAttempt' = Attempt(node'[r], RemotePhase(node'[r]))
<1>1. (CHOOSE n \in Hosts : TRUE) = h /\ (CHOOSE n \in Remotes : TRUE) = r
  BY DEF Alone
<1>2. h \in Hosts /\ r \in Remotes /\ Nodes = {h, r} /\ h # r
  BY RoleAssumption DEF Alone, Nodes
<1> QED
  BY <1>1, <1>2 DEF HostAttempt, RemoteAttempt

\* What an attempt says of the state of its end.
LEMMA AttemptOf ==
  ASSUME NEW s, NEW phase
  PROVE  /\ Attempt(s, phase).phase = phase
         /\ Attempt(s, phase) = [phase |-> phase, terms |-> Attempt(s, phase).terms]
         /\ phase # "Apart" => Attempt(s, phase).terms = TermsOf(s)
         /\ phase = "Apart" <=> Attempt(s, phase) = Agreed!Apart
BY DEF Attempt, Agreed!Apart

\* Two ends that are alone on the channel are in an attempt with each other:
\* what PairInv says of them in terms of their phases.
LEMMA AloneTogether ==
  ASSUME NEW h, NEW r, Alone(h, r), NEW s \in NodeStates, NEW t \in NodeStates,
         PartnerInv(h, s), PartnerInv(r, t), PairInv(h, s, r, t)
  PROVE  /\ HostPhase(s) # "Apart" => Engaged(s, r) /\ MayEnter(s)
         /\ RemotePhase(t) # "Apart" <=> Accepted(t, h)
         /\ HostPhase(s) # "Apart" /\ RemotePhase(t) # "Apart" =>
              /\ SameTerms(s.enc.block, t.enc.block)
              /\ HostPhase(s) = "Committed" => RemotePhase(t) = "Committed"
              /\ RemotePhase(t) = "Committed" => HostPhase(s) \in {"Asking", "Committed"}
<1>1. h \in Hosts /\ r \in Remotes /\ Hosts = {h} /\ Remotes = {r}
  BY DEF Alone
<1>2. HostPhase(s) # "Apart" => Engaged(s, r) /\ MayEnter(s)
  BY <1>1, HostPhaseOf DEF Engaged, MayEnter, InTheLink, PartnerInv
<1>3. RemotePhase(t) # "Apart" <=> Accepted(t, h)
  BY <1>1, RemotePhaseOf DEF Accepted, InTheLink, PartnerInv, NodeStates
<1>4. ASSUME HostPhase(s) # "Apart", RemotePhase(t) # "Apart"
      PROVE  /\ SameTerms(s.enc.block, t.enc.block)
             /\ HostPhase(s) = "Committed" => RemotePhase(t) = "Committed"
             /\ RemotePhase(t) = "Committed" => HostPhase(s) \in {"Asking", "Committed"}
  <2>1. /\ SameTerms(s.enc.block, t.enc.block)
        /\ MayCommit(s) => PastClockSync(t)
        /\ MaySwitchOver(t) => PastClockSync(s)
    BY <1>2, <1>3, <1>4 DEF PairInv
  <2>2. HostPhase(s) = "Committed" => MayCommit(s)
    BY HostPhaseOf DEF MayCommit, NodeStates
  <2>3. PastClockSync(t) => RemotePhase(t) = "Committed"
    BY RemotePhaseOf DEF PastClockSync
  <2>4. RemotePhase(t) = "Committed" => MaySwitchOver(t)
    BY RemotePhaseOf DEF MaySwitchOver
  <2>5. PastClockSync(s) => HostPhase(s) \in {"Asking", "Committed"}
    BY HostPhaseOf DEF PastClockSync, NodeStates
  <2> QED
    BY <2>1, <2>2, <2>3, <2>4, <2>5
<1> QED
  BY <1>2, <1>3, <1>4

\* An end that only hears stays where it is.
LEMMA HeardAttempt ==
  ASSUME NEW s, NEW t, t.linkState = s.linkState, t.linkingState = s.linkingState,
         t.enc = s.enc
  PROVE  /\ HostPhase(t) = HostPhase(s) /\ Attempt(t, HostPhase(t)) = Attempt(s, HostPhase(s))
         /\ RemotePhase(t) = RemotePhase(s)
         /\ Attempt(t, RemotePhase(t)) = Attempt(s, RemotePhase(s))
BY DEF HostPhase, RemotePhase, Attempt, TermsOf

\* A step of the host alone.
LEMMA HostStepImplements ==
  ASSUME NEW h, NEW r, Alone(h, r), NEW s, NEW u, NEW w,
         NodeInv(h, u), u \in NodeStates, w \in NodeStates,
         PartnerInv(h, u), PartnerInv(r, w), PairInv(h, u, r, w),
         HostGoes(s, u),
         HostAttempt = Attempt(s, HostPhase(s)), HostAttempt' = Attempt(u, HostPhase(u)),
         RemoteAttempt = Attempt(w, RemotePhase(w)), UNCHANGED RemoteAttempt
  PROVE  [Agreed!Next]_Agreed!vars
<1>1. h \in Nodes
  BY DEF Alone, Nodes
<1>2. CASE HostPhase(u) = "Apart"
  BY <1>2, AttemptOf DEF Agreed!Next, Agreed!Leave
<1>3. CASE HostPhase(s) = "Apart" /\ HostPhase(u) = "Entered"
  <2>1. TermsOf(u) \in [key : SUBSET (KeyPairs \cup {None}), iv : Ivs]
    BY <1>1, <1>3, TermsType, HostPhaseOf
  <2>2. HostAttempt = Agreed!Apart /\ HostAttempt' = [phase |-> "Entered", terms |-> TermsOf(u)]
    BY <1>3, AttemptOf
  <2>3. RemoteAttempt = Agreed!Apart \/ RemoteAttempt.terms = TermsOf(u)
    <3>1. RemotePhase(w) # "Apart" => TermsOf(w) = TermsOf(u)
      BY <1>3, AloneTogether DEF SameTerms, TermsOf
    <3> QED
      BY <3>1, AttemptOf
  <2>4. HostAttempt' \in [phase : {"Entered"}, terms : [key : SUBSET (KeyPairs \cup {None}), iv : Ivs]]
    BY <2>1, <2>2
  <2>5. HostAttempt'.terms = TermsOf(u)
    BY <2>2
  <2> QED
    BY <2>2, <2>3, <2>4, <2>5 DEF Agreed!Next, Agreed!HostEnters
<1>4. ASSUME HostPhase(u) # "Apart", HostPhase(s) # "Apart",
             SameTerms(s.enc.block, u.enc.block)
      PROVE  /\ HostAttempt = [phase |-> HostPhase(s), terms |-> TermsOf(u)]
             /\ HostAttempt' = [phase |-> HostPhase(u), terms |-> TermsOf(u)]
  <2>1. TermsOf(s) = TermsOf(u)
    BY <1>4 DEF SameTerms, TermsOf
  <2>2. Attempt(s, HostPhase(s)).terms = TermsOf(u) /\ Attempt(u, HostPhase(u)).terms = TermsOf(u)
    BY <1>4, <2>1, AttemptOf
  <2> QED
    BY <2>2, AttemptOf
<1>5. CASE HostPhase(u) # "Apart" /\ HostPhase(u) = HostPhase(s)
           /\ SameTerms(s.enc.block, u.enc.block)
  BY <1>4, <1>5 DEF Agreed!vars
<1>6. CASE HostPhase(s) = "Entered" /\ HostPhase(u) = "Joining"
           /\ SameTerms(s.enc.block, u.enc.block)
  BY <1>4, <1>6 DEF Agreed!Next, Agreed!HostJoins, Agreed!In
<1>7. CASE HostPhase(s) = "Joining" /\ HostPhase(u) = "Asking"
           /\ SameTerms(s.enc.block, u.enc.block)
  BY <1>4, <1>7 DEF Agreed!Next, Agreed!HostAsks, Agreed!In
<1>8. CASE HostPhase(s) = "Asking" /\ HostPhase(u) = "Committed"
           /\ SameTerms(s.enc.block, u.enc.block)
  <2>1. RemotePhase(w) # "Apart" => RemotePhase(w) = "Committed"
    BY <1>8, AloneTogether
  <2>2. RemoteAttempt = Agreed!Apart \/ RemoteAttempt.phase = "Committed"
    BY <2>1, AttemptOf
  <2> QED
    BY <1>4, <1>8, <2>2 DEF Agreed!Next, Agreed!HostCommits, Agreed!In
<1> QED
  BY <1>2, <1>3, <1>5, <1>6, <1>7, <1>8 DEF HostGoes

\* A step of the remote alone.
LEMMA RemoteStepImplements ==
  ASSUME NEW h, NEW r, Alone(h, r), NEW s, NEW w, NEW t, NEW u,
         s \in NodeStates, t \in NodeStates, w \in NodeStates, NodeInv(r, u), u \in NodeStates,
         PartnerInv(h, s), PartnerInv(r, t), PairInv(h, s, r, t),
         PartnerInv(h, w), PartnerInv(r, u), PairInv(h, w, r, u),
         RemoteMoves(r, t, u), RemoteGoes(t, u),
         HostPhase(w) = HostPhase(s),
         RemoteAttempt = Attempt(t, RemotePhase(t)),
         RemoteAttempt' = Attempt(u, RemotePhase(u)),
         HostAttempt = Attempt(s, HostPhase(s)), UNCHANGED HostAttempt
  PROVE  [Agreed!Next]_Agreed!vars
<1>1. h \in Hosts /\ r \in Nodes
  BY DEF Alone, Nodes
<1>2. CASE RemotePhase(u) = "Apart"
  BY <1>2, AttemptOf DEF Agreed!Next, Agreed!Leave
<1>3. CASE RemotePhase(t) = "Apart" /\ RemotePhase(u) = "Entered"
  <2>1. TermsOf(u) \in [key : SUBSET (KeyPairs \cup {None}), iv : Ivs]
    BY <1>1, <1>3, TermsType, RemotePhaseOf
  <2>2. /\ RemoteAttempt = Agreed!Apart
        /\ RemoteAttempt' = [phase |-> "Entered", terms |-> TermsOf(u)]
    BY <1>3, AttemptOf
  <2>3. Accepted(u, h) /\ ~Accepted(t, h)
    BY <1>3, AloneTogether
  <2>4. Offered(t, h, r)
    BY <1>1, <2>3 DEF RemoteMoves
  <2>5. HostPhase(s) = "Apart"
    BY <2>4, AloneTogether DEF PairInv
  <2>6. HostAttempt = Agreed!Apart
    BY <2>5, AttemptOf
  <2> QED
    BY <2>1, <2>2, <2>6 DEF Agreed!Next, Agreed!RemoteEnters
<1>4. ASSUME RemotePhase(u) # "Apart", RemotePhase(t) # "Apart",
             SameTerms(t.enc.block, u.enc.block)
      PROVE  /\ RemoteAttempt = [phase |-> RemotePhase(t), terms |-> TermsOf(u)]
             /\ RemoteAttempt' = [phase |-> RemotePhase(u), terms |-> TermsOf(u)]
  <2>1. TermsOf(t) = TermsOf(u)
    BY <1>4 DEF SameTerms, TermsOf
  <2>2. Attempt(t, RemotePhase(t)).terms = TermsOf(u) /\ Attempt(u, RemotePhase(u)).terms = TermsOf(u)
    BY <1>4, <2>1, AttemptOf
  <2> QED
    BY <2>2, AttemptOf
<1>5. CASE RemotePhase(u) # "Apart" /\ RemotePhase(u) = RemotePhase(t)
           /\ SameTerms(t.enc.block, u.enc.block)
  BY <1>4, <1>5 DEF Agreed!vars
<1>6. CASE RemotePhase(t) = "Entered" /\ RemotePhase(u) = "Joining"
           /\ SameTerms(t.enc.block, u.enc.block)
  BY <1>4, <1>6 DEF Agreed!Next, Agreed!RemoteJoins, Agreed!In
<1>7. CASE RemotePhase(t) = "Joining" /\ RemotePhase(u) = "Committed"
           /\ SameTerms(t.enc.block, u.enc.block)
  <2>1. HostPhase(s) # "Apart" => HostPhase(s) # "Committed"
    BY <1>7, AloneTogether
  <2>2. HostPhase(w) # "Apart" => HostPhase(w) \in {"Asking", "Committed"}
    BY <1>7, AloneTogether
  <2>3. HostAttempt = Agreed!Apart \/ HostAttempt.phase = "Asking"
    BY <2>1, <2>2, AttemptOf
  <2> QED
    BY <1>4, <1>7, <2>3 DEF Agreed!Next, Agreed!RemoteCommits, Agreed!In
<1> QED
  BY <1>2, <1>3, <1>5, <1>6, <1>7 DEF RemoteGoes

LEMMA StepImplements ==
  ASSUME NEW h, NEW r, Alone(h, r), AgreementInv, AgreementInv',
         NEW n \in Nodes, Stepped(n)
  PROVE  [Agreed!Next]_Agreed!vars
<1> DEFINE s == node[h]    t == node[r]
           sx == node'[h]  tx == node'[r]
<1>1. /\ h \in Hosts /\ r \in Remotes /\ h \in Nodes /\ r \in Nodes
      /\ Nodes = {h, r} /\ h # r
  BY AttemptsOf DEF Nodes
<1>2. /\ s \in NodeStates /\ PartnerInv(h, s) /\ t \in NodeStates /\ PartnerInv(r, t)
      /\ PairInv(h, s, r, t)
  BY <1>1 DEF AgreementInv, LinkInv, NodeInv, EndInv
<1>3. /\ NodeInv(h, sx) /\ PartnerInv(h, sx) /\ NodeInv(r, tx) /\ PartnerInv(r, tx)
      /\ PairInv(h, sx, r, tx)
  BY <1>1 DEF AgreementInv, LinkInv, EndInv
<1>4. sx \in NodeStates /\ tx \in NodeStates
  BY <1>3 DEF NodeInv
<1>5. /\ HostAttempt = Attempt(s, HostPhase(s)) /\ HostAttempt' = Attempt(sx, HostPhase(sx))
      /\ RemoteAttempt = Attempt(t, RemotePhase(t))
      /\ RemoteAttempt' = Attempt(tx, RemotePhase(tx))
  BY AttemptsOf
<1>6. \/ /\ Moves(h, s, sx)
         /\ tx.linkState = t.linkState /\ tx.linkingState = t.linkingState /\ tx.enc = t.enc
      \/ /\ Moves(r, t, tx)
         /\ sx.linkState = s.linkState /\ sx.linkingState = s.linkingState /\ sx.enc = s.enc
  BY <1>1 DEF Stepped
<1> HIDE DEF s, t, sx, tx
<1>7. CASE /\ Moves(h, s, sx)
           /\ tx.linkState = t.linkState /\ tx.linkingState = t.linkingState /\ tx.enc = t.enc
  <2>1. Attempt(tx, RemotePhase(tx)) = Attempt(t, RemotePhase(t))
    BY <1>7, HeardAttempt
  <2>2. HostGoes(s, sx)
    BY <1>1, <1>7 DEF Moves
  <2> QED
    BY <1>3, <1>4, <1>5, <2>1, <2>2, HostStepImplements
<1>8. CASE /\ Moves(r, t, tx)
           /\ sx.linkState = s.linkState /\ sx.linkingState = s.linkingState /\ sx.enc = s.enc
  <2>1. HostPhase(sx) = HostPhase(s) /\ Attempt(sx, HostPhase(sx)) = Attempt(s, HostPhase(s))
    BY <1>8, HeardAttempt
  <2>2. RemoteMoves(r, t, tx) /\ RemoteGoes(t, tx)
    BY <1>1, <1>8 DEF Moves
  <2> QED
    BY <1>2, <1>3, <1>4, <1>5, <2>1, <2>2, RemoteStepImplements
<1> QED
  BY <1>6, <1>7, <1>8

\* One host and one remote go through an attempt as AgreedLink promises: the
\* remote first and on terms that are new, the host after it and on the same
\* terms, the remote committed before the host, whatever the radio does.
THEOREM LinkAgrees ==
  ASSUME NEW h, NEW r, Hosts = {h}, Remotes = {r}
  PROVE  Spec => Agrees
<1>1. Alone(h, r)
  BY DEF Alone
<1>2. Init => Agreed!Init
  <2>1. HostPhase(InitialNode) = "Apart" /\ RemotePhase(InitialNode) = "Apart"
    BY DEF HostPhase, RemotePhase, InitialNode
  <2>2. Attempt(InitialNode, "Apart") = Agreed!Apart
    BY AttemptOf
  <2> QED
    BY <1>1, <2>1, <2>2, AttemptsOf DEF Init, Agreed!Init
<1>3. AgreementInv /\ AgreementInv' /\ [Next]_vars => [Agreed!Next]_Agreed!vars
  <2>1. CASE \E n \in Nodes : Stepped(n)
    BY <1>1, <2>1, StepImplements
  <2>2. CASE UNCHANGED vars
    BY <1>1, <2>2, AttemptsOf DEF vars, Agreed!vars
  <2> QED
    BY <2>1, <2>2, NextAgrees
<1> QED
  BY <1>2, <1>3, AgreementInvariant, PTL DEF Spec, Agrees, Agreed!Spec

=============================================================================
