--------------------------- MODULE LoLaLink_proof ---------------------------
(***************************************************************************)
(* Theorems of LoLaLink, for any number of hosts and remotes, and their    *)
(* proofs.                                                                 *)
(*                                                                         *)
(* No step reads the state of two nodes: what a node receives is all it    *)
(* knows of the others. The inductive invariant is therefore a predicate   *)
(* of one node and of the packets it holds, NodeInv(n, s), and the proof   *)
(* that a step keeps it is the proof that the operator the step applies to *)
(* the record of the node keeps it.                                        *)
(***************************************************************************)
EXTENDS LoLaLink, TLAPS

----------------------------------------------------------------------------
(* The inductive invariant *)

\* Only an open session is broadcast: the remote that hears it would
\* otherwise lose its session in the middle of a handshake.
SoundPacket(p) == p.sub = "HostIdBroadcast" => p.id # INVALID_SESSION

\* What a node sends and what it has received.
PacketsInv(s) ==
  /\ s.status # "Done" => s.out \in Packets /\ SoundPacket(s.out)
  /\ s.inbox # None => SoundPacket(s.inbox.packet)

LinkIvOf(n, s) ==
  [session |-> s.session,
   id1     |-> IF n \in Hosts THEN n ELSE s.partner,
   id2     |-> IF n \in Hosts THEN s.partner ELSE n]

\* The encoder is built up along the stages of AwaitingLink (the IV at stage 2,
\* the key at stage 4), turned on by Linking and given its token by Linked.
CipherInv(n, s) ==
  /\ s.linkState = "AwaitingLink" => /\ s.enc.state # "FullPower"
                                     /\ s.enc.block.token = None
                                     /\ s.linkingState >= 2 => s.enc.block.iv = LinkIvOf(n, s)
                                     /\ s.linkingState >= 4 => s.enc.state = "AllReady"
  /\ s.linkState \in {"Linking", "Linked"} => /\ s.enc.state = "FullPower"
                                              /\ s.enc.block.iv = LinkIvOf(n, s)
  /\ s.linkState = "Linking" => s.enc.block.token = None
  /\ s.linkState = "Linked" => s.enc.block.token = LinkIvOf(n, s)

FreshInv(n, s) ==
  s.linkState = "AwaitingLink" /\ s.linkingState = 0 =>
    /\ s.enc = ClearEncoder
    /\ s.kx.stage \in {"Clear", "LocalKey"}
    /\ s.samples = 0 /\ s.goodCount = 0 /\ s.txn = ClearTransaction
    /\ n \in Remotes => ~HasSession(s)

NodeInv(n, s) == s \in NodeStates /\ PacketsInv(s) /\ CipherInv(n, s) /\ FreshInv(n, s)

\* What a step of a node may do to its cipher.
Frozen(s, t) ==
  s.enc.state = "FullPower" =>
    \/ t.enc \in {s.enc, ClearEncoder}
    \/ s.linkState = "Linking" /\ t.linkState = "Linked" /\ t.enc = SetToken(s.enc)

\* A step that takes node n from s to t keeps the invariant.
Keeps(n, s, t) == NodeInv(n, t) /\ Frozen(s, t)

LinkInv ==
  /\ node = [n \in Nodes |-> node[n]]
  /\ \A n \in Nodes : NodeInv(n, node[n])

----------------------------------------------------------------------------
(* Types of the parts of a node *)

\* A record with some of its fields replaced by values of their sets keeps its
\* type; this is all that is said of the type of NodeStates below.
LEMMA ClearedTypes ==
  /\ ClearEncoder \in Encoders
  /\ ClearTransaction \in Transactions
  /\ ClearKeyExchanger \in KeyExchangers
BY IdAssumption DEF ClearEncoder, Encoders, ClearBlock, CipherBlocks, ClearTransaction,
     Transactions, ClearKeyExchanger, KeyExchangers

LEMMA InitialNodeType == InitialNode \in NodeStates
BY ClearedTypes, IdAssumption, SampleAssumption
   DEF InitialNode, NodeStates, LinkStates, SendStatuses

LEMMA ClearPartnerType ==
  ASSUME NEW kx \in KeyExchangers
  PROVE  /\ ClearPartner(kx) \in KeyExchangers
         /\ ClearPartner(kx).stage \in {"Clear", "LocalKey"}
BY DEF ClearPartner, KeyExchangers

LEMMA ResetLinkInfoType ==
  ASSUME NEW s \in NodeStates
  PROVE  ResetLinkInfo(s) \in NodeStates
BY IdAssumption DEF ResetLinkInfo, NodeStates

\* What a cleared session is, and what it leaves alone.
Cleared(s, t) ==
  /\ t.session = INVALID_SESSION /\ t.enc = ClearEncoder
  /\ t.kx.stage \in {"Clear", "LocalKey"}
  /\ t.samples = 0 /\ t.goodCount = 0 /\ t.txn = ClearTransaction
  /\ t.linkState = s.linkState /\ t.linkingState = s.linkingState
  /\ t.status = s.status /\ t.out = s.out

LEMMA ClearSessionType ==
  ASSUME NEW s \in NodeStates
  PROVE  /\ ClearSession(s) \in NodeStates
         /\ Cleared(s, ClearSession(s))
         /\ ClearSession(s).inbox = s.inbox
<1> DEFINE r == ResetLinkInfo(s)
           t == [r EXCEPT
                   !.reportPending = FALSE, !.goodCount = 0, !.txn = ClearTransaction,
                   !.enc = ClearEncoder, !.kx = ClearPartner(@), !.infoStage = 0,
                   !.samples = 0, !.sessionStamped = FALSE]
<1>1. r \in NodeStates
  BY ResetLinkInfoType
<1>2. ClearPartner(r.kx) \in KeyExchangers /\ ClearPartner(r.kx).stage \in {"Clear", "LocalKey"}
  BY <1>1, ClearPartnerType DEF NodeStates
<1>3. 0 \in 0..MinLatencySamples /\ 0 \in 0..(MinClockSamples + 1) /\ 0 \in 0..2
  BY SampleAssumption
<1>4. /\ r.session = INVALID_SESSION
      /\ r.linkState = s.linkState /\ r.linkingState = s.linkingState
      /\ r.status = s.status /\ r.out = s.out /\ r.inbox = s.inbox
  BY DEF ResetLinkInfo, NodeStates
<1> HIDE DEF r
<1>5. t \in NodeStates
  BY <1>1, <1>2, <1>3, ClearedTypes DEF NodeStates
<1>6. Cleared(s, t) /\ t.inbox = s.inbox
  BY <1>1, <1>2, <1>4 DEF NodeStates, Cleared
<1> QED
  BY <1>5, <1>6 DEF r, ClearSession

LEMMA RestartDriverType ==
  ASSUME NEW s \in NodeStates
  PROVE  /\ RestartDriver(s) \in NodeStates
         /\ RestartDriver(s).inbox = None
         /\ \A t : Cleared(t, s) => Cleared(t, RestartDriver(s))
BY DEF RestartDriver, NodeStates, Cleared

\* A node that leaves Linked has its session cleared.
LEMMA LeaveLinkedType ==
  ASSUME NEW s \in NodeStates, PacketsInv(s)
  PROVE  /\ LeaveLinked(s) \in NodeStates
         /\ PacketsInv(LeaveLinked(s))
         /\ LeaveLinked(s).enc \in {s.enc, ClearEncoder}
<1>1. CASE s.linkState = "Linked"
  <2> DEFINE t == RestartDriver(ClearSession(s))
  <2>1. t \in NodeStates /\ Cleared(s, t) /\ t.inbox = None
    BY ClearSessionType, RestartDriverType
  <2> QED
    BY <1>1, <2>1 DEF LeaveLinked, PacketsInv, Cleared
<1>2. CASE s.linkState # "Linked"
  BY <1>2 DEF LeaveLinked
<1> QED
  BY <1>1, <1>2

LEMMA SetLinkingStateType ==
  ASSUME NEW s \in NodeStates, NEW stage \in 0..5
  PROVE  SetLinkingState(s, stage) \in NodeStates
BY DEF SetLinkingState, NodeStates

\* A packet or a status a node keeps leaves PacketsInv as it was.
LEMMA PacketsKept ==
  ASSUME NEW s, NEW t, PacketsInv(s),
         t.status = s.status, t.out = s.out, t.inbox \in {s.inbox, None}
  PROVE  PacketsInv(t)
BY DEF PacketsInv

----------------------------------------------------------------------------
(* UpdateLinkState keeps the invariant *)

LEMMA ToSetupKeeps ==
  ASSUME NEW n \in Nodes, NEW s, NodeInv(n, s)
  PROVE  Keeps(n, s, ToSetup(s))
<1> DEFINE u == SetLinkingState(s, 0)
           t == RestartDriver(ClearSession(u))
<1>1. u \in NodeStates /\ u.status = s.status /\ u.out = s.out
  BY SetLinkingStateType DEF NodeInv, SetLinkingState, NodeStates
<1> HIDE DEF u
<1>2. t \in NodeStates /\ Cleared(u, t) /\ t.inbox = None
  BY <1>1, ClearSessionType, RestartDriverType
<1>3. PacketsInv(t)
  BY <1>1, <1>2, PacketsKept DEF NodeInv, Cleared
<1> HIDE DEF t
<1>4. Keeps(n, s, [t EXCEPT !.linkState = "Setup"])
  BY <1>2, <1>3 DEF Keeps, NodeInv, PacketsInv, CipherInv, FreshInv, Frozen, Cleared,
                    NodeStates, LinkStates
<1> QED
  BY <1>4 DEF ToSetup, t, u

LEMMA ToAwaitingSleepingKeeps ==
  ASSUME NEW n \in Nodes, NEW s, NodeInv(n, s)
  PROVE  Keeps(n, s, ToAwaitingSleeping(n, s))
<1> DEFINE u == ClearSession(s)
           v == SetLinkingState(u, 0)
           t == RestartDriver(v)
<1>1. u \in NodeStates /\ Cleared(s, u)
  BY ClearSessionType DEF NodeInv
<1> HIDE DEF u
<1>2. v \in NodeStates /\ v.enc = ClearEncoder /\ v.status = s.status /\ v.out = s.out
  BY <1>1, SetLinkingStateType DEF SetLinkingState, NodeStates, Cleared
<1> HIDE DEF v
<1>3. t \in NodeStates /\ t.enc = ClearEncoder /\ t.status = s.status /\ t.out = s.out
      /\ t.inbox = None
  BY <1>2 DEF RestartDriver, NodeStates
<1>4. PacketsInv(t)
  BY <1>3, PacketsKept DEF NodeInv
<1> HIDE DEF t
<1> DEFINE w == n \in Remotes
<1>5. w \in BOOLEAN
  OBVIOUS
<1> HIDE DEF w
<1> DEFINE a == [t EXCEPT !.linkState = "AwaitingSleeping", !.awake = w]
<1>6. a \in NodeStates
  BY <1>3, <1>5 DEF NodeStates, LinkStates
<1>7. PacketsInv(a) /\ a.linkState = "AwaitingSleeping" /\ a.enc = ClearEncoder
  BY <1>3, <1>4 DEF PacketsInv, NodeStates
<1> HIDE DEF a
<1>8. Keeps(n, s, a)
  BY <1>6, <1>7 DEF Keeps, NodeInv, CipherInv, FreshInv, Frozen
<1> QED
  BY <1>8 DEF ToAwaitingSleeping, a, t, v, u, w

\* AwaitingLink starts at the first stage, with nothing but a session (on a
\* host) or a key pair (on a remote).
LEMMA ToAwaitingLinkKeeps ==
  ASSUME NEW n \in Nodes, NEW s, NodeInv(n, s), NEW t \in ToAwaitingLink(n, s)
  PROVE  /\ Keeps(n, s, t)
         /\ t.linkState = "AwaitingLink" /\ t.enc = ClearEncoder
<1> DEFINE l == LeaveLinked(s)
           u == ClearSession(l)
           v == SetLinkingState(u, 0)
           c == [v EXCEPT !.linkState = "AwaitingLink"]
<1>1. l \in NodeStates /\ PacketsInv(l)
  BY LeaveLinkedType DEF NodeInv
<1> HIDE DEF l
<1>2. u \in NodeStates /\ Cleared(l, u) /\ u.inbox = l.inbox
  BY <1>1, ClearSessionType
<1>3. PacketsInv(u)
  BY <1>1, <1>2, PacketsKept DEF Cleared
<1> HIDE DEF u
<1>4. /\ v \in NodeStates /\ PacketsInv(v) /\ v.linkingState = 0
      /\ v.enc = ClearEncoder /\ v.kx.stage \in {"Clear", "LocalKey"}
      /\ v.samples = 0 /\ v.goodCount = 0 /\ v.txn = ClearTransaction
      /\ v.session = INVALID_SESSION
  BY <1>2, <1>3, SetLinkingStateType DEF SetLinkingState, NodeStates, PacketsInv, Cleared
<1> HIDE DEF v
<1>5. /\ c \in NodeStates /\ PacketsInv(c) /\ c.linkState = "AwaitingLink"
      /\ c.linkingState = 0
      /\ c.enc = ClearEncoder /\ c.kx.stage \in {"Clear", "LocalKey"}
      /\ c.samples = 0 /\ c.goodCount = 0 /\ c.txn = ClearTransaction
      /\ c.session = INVALID_SESSION
  BY <1>4 DEF NodeStates, LinkStates, PacketsInv
<1>6. t \in IF n \in Hosts
            THEN {[c EXCEPT !.session = id] : id \in Sessions}
            ELSE {[c EXCEPT !.kx = GenerateNewKeyPair(@, k)] : k \in FreshPairs(n, s.kx)}
  BY DEF ToAwaitingLink, c, v, u, l
<1> HIDE DEF c
<1>7. CASE n \in Hosts
  <2>1. PICK id \in Sessions : t = [c EXCEPT !.session = id]
    BY <1>6, <1>7
  <2>2. n \notin Remotes
    BY <1>7, RoleAssumption
  <2> QED
    BY <1>5, <2>1, <2>2
       DEF Keeps, NodeInv, PacketsInv, CipherInv, FreshInv, Frozen, NodeStates, Sessions,
           ClearEncoder, ClearBlock
<1>8. CASE n \notin Hosts
  <2>1. PICK k \in KeyPairs : t = [c EXCEPT !.kx = GenerateNewKeyPair(@, k)]
    BY <1>6, <1>8 DEF FreshPairs
  <2>2. /\ GenerateNewKeyPair(c.kx, k) \in KeyExchangers
        /\ GenerateNewKeyPair(c.kx, k).stage = "LocalKey"
    BY <1>5 DEF GenerateNewKeyPair, KeyExchangers, NodeStates
  <2> QED
    BY <1>5, <2>1, <2>2
       DEF Keeps, NodeInv, PacketsInv, CipherInv, FreshInv, Frozen, NodeStates, HasSession,
           HasSessionId, ClearEncoder, ClearBlock
<1> QED
  BY <1>7, <1>8

\* The cipher is on, under the IV of stage 2 and the key of stage 4.
LEMMA ToLinkingKeeps ==
  ASSUME NEW n \in Nodes, NEW s, NodeInv(n, s),
         s.linkState = "AwaitingLink", s.linkingState = 5
  PROVE  Keeps(n, s, ToLinking(s))
<1> DEFINE u == SetLinkingState(s, 0)
           e == SetEnabled(s.enc)
           t == [u EXCEPT !.enc = e, !.infoStage = 0, !.linkState = "Linking"]
<1>1. u \in NodeStates
  BY SetLinkingStateType DEF NodeInv
<1>2. /\ u.enc = s.enc /\ u.session = s.session /\ u.partner = s.partner
      /\ u.status = s.status /\ u.out = s.out /\ u.inbox = s.inbox
  BY DEF NodeInv, NodeStates, SetLinkingState
<1>3. /\ e \in Encoders /\ e.state = "FullPower" /\ e.block.token = None
      /\ e.block.iv = LinkIvOf(n, s)
  BY DEF SetEnabled, NodeInv, CipherInv, NodeStates, Encoders
<1>4. ToLinking(s) = t
  BY <1>2 DEF ToLinking
<1> HIDE DEF e, u
<1>5. t \in NodeStates
  <2>1. 0 \in 0..2 /\ "Linking" \in LinkStates
    BY DEF LinkStates
  <2> QED
    BY <1>1, <1>3, <2>1 DEF NodeStates
<1>6. /\ t.linkState = "Linking" /\ t.enc = e /\ LinkIvOf(n, t) = LinkIvOf(n, s)
      /\ t.status = s.status /\ t.out = s.out /\ t.inbox = s.inbox
  BY <1>1, <1>2 DEF NodeStates, LinkIvOf
<1> HIDE DEF t
<1>7. Keeps(n, s, t)
  BY <1>3, <1>5, <1>6 DEF Keeps, NodeInv, PacketsInv, CipherInv, FreshInv, Frozen
<1> QED
  BY <1>4, <1>7

LEMMA ToLinkedKeeps ==
  ASSUME NEW n \in Nodes, NEW s, NodeInv(n, s), s.linkState = "Linking"
  PROVE  Keeps(n, s, ToLinked(s))
<1> DEFINE e == SetToken(s.enc)
           t == [s EXCEPT !.enc = e, !.txn = ClearTransaction, !.linkState = "Linked"]
<1>1. /\ e \in Encoders /\ e.state = "FullPower"
      /\ e.block.iv = LinkIvOf(n, s) /\ e.block.token = LinkIvOf(n, s)
  BY DEF SetToken, NodeInv, CipherInv, NodeStates, Encoders, CipherBlocks
<1>2. e = SetToken(s.enc) /\ ToLinked(s) = t
  BY DEF ToLinked
<1> HIDE DEF e
<1>3. t \in NodeStates
  BY <1>1, ClearedTypes DEF NodeInv, NodeStates, LinkStates
<1>4. /\ t.linkState = "Linked" /\ t.enc = e /\ LinkIvOf(n, t) = LinkIvOf(n, s)
      /\ t.status = s.status /\ t.out = s.out /\ t.inbox = s.inbox
  BY DEF NodeInv, NodeStates, LinkIvOf
<1> HIDE DEF t
<1>5. Keeps(n, s, t)
  BY <1>1, <1>2, <1>3, <1>4 DEF Keeps, NodeInv, PacketsInv, CipherInv, FreshInv, Frozen
<1> QED
  BY <1>2, <1>5

LEMMA ToDisabledKeeps ==
  ASSUME NEW n \in Nodes, NEW s, NodeInv(n, s)
  PROVE  Keeps(n, s, ToDisabled(s))
<1> DEFINE l == LeaveLinked(s)
           u == ResetLinkInfo(l)
           t == [u EXCEPT !.linkState = "Disabled"]
<1>1. l \in NodeStates /\ PacketsInv(l) /\ l.enc \in {s.enc, ClearEncoder}
  BY LeaveLinkedType DEF NodeInv
<1> HIDE DEF l
<1>2. u \in NodeStates
  BY <1>1, ResetLinkInfoType
<1>3. u.status = l.status /\ u.out = l.out /\ u.inbox = l.inbox /\ u.enc = l.enc
  BY <1>1 DEF ResetLinkInfo, NodeStates
<1> HIDE DEF u
<1>4. t \in NodeStates /\ t.linkState = "Disabled" /\ t.enc \in {s.enc, ClearEncoder}
  BY <1>1, <1>2, <1>3 DEF NodeStates, LinkStates
<1>5. PacketsInv(t)
  BY <1>1, <1>2, <1>3 DEF PacketsInv, NodeStates
<1> HIDE DEF t
<1>6. Keeps(n, s, t)
  BY <1>4, <1>5 DEF Keeps, NodeInv, CipherInv, FreshInv, Frozen
<1> QED
  BY <1>6 DEF ToDisabled, t, u, l

----------------------------------------------------------------------------
(* The send service keeps the invariant *)

\* A change of the fields the handshake does not depend on.
LEMMA SameStageKeeps ==
  ASSUME NEW n \in Nodes, NEW s, NodeInv(n, s), NEW t \in NodeStates, PacketsInv(t),
         t.linkState = s.linkState, t.linkingState = s.linkingState,
         t.session = s.session, t.partner = s.partner, t.enc = s.enc,
         s.linkState = "AwaitingLink" /\ s.linkingState = 0 =>
           /\ t.kx.stage \in {"Clear", "LocalKey"}
           /\ t.samples = s.samples /\ t.goodCount = s.goodCount /\ t.txn = s.txn
  PROVE  Keeps(n, s, t)
BY DEF Keeps, NodeInv, CipherInv, LinkIvOf, FreshInv, HasSession, HasSessionId, Frozen

LEMMA RequestSendPacketKeeps ==
  ASSUME NEW n \in Nodes, NEW s, NodeInv(n, s), NEW p \in Packets, SoundPacket(p)
  PROVE  Keeps(n, s, RequestSendPacket(s, p))
<1> DEFINE t == RequestSendPacket(s, p)
<1>1. t \in NodeStates /\ PacketsInv(t)
  BY DEF RequestSendPacket, NodeInv, PacketsInv, NodeStates, SendStatuses
<1>2. /\ t.linkState = s.linkState /\ t.linkingState = s.linkingState
      /\ t.session = s.session /\ t.partner = s.partner /\ t.enc = s.enc
      /\ t.kx = s.kx /\ t.samples = s.samples /\ t.goodCount = s.goodCount /\ t.txn = s.txn
  BY DEF RequestSendPacket, NodeInv, NodeStates
<1> HIDE DEF t
<1>3. Keeps(n, s, t)
  BY <1>1, <1>2, SameStageKeeps DEF NodeInv, FreshInv
<1> QED
  BY <1>3 DEF t

LEMMA ClearSendRequestKeeps ==
  ASSUME NEW n \in Nodes, NEW s, NodeInv(n, s)
  PROVE  Keeps(n, s, ClearSendRequest(s))
<1> DEFINE t == ClearSendRequest(s)
<1>1. t \in NodeStates /\ PacketsInv(t)
  BY DEF ClearSendRequest, NodeInv, PacketsInv, NodeStates, SendStatuses
<1>2. /\ t.linkState = s.linkState /\ t.linkingState = s.linkingState
      /\ t.session = s.session /\ t.partner = s.partner /\ t.enc = s.enc
      /\ t.kx = s.kx /\ t.samples = s.samples /\ t.goodCount = s.goodCount /\ t.txn = s.txn
  BY DEF ClearSendRequest, NodeInv, NodeStates
<1> HIDE DEF t
<1>3. Keeps(n, s, t)
  BY <1>1, <1>2, SameStageKeeps DEF NodeInv, FreshInv
<1> QED
  BY <1>3 DEF t

----------------------------------------------------------------------------
(* From the record of a node to the system *)

\* What a step does for every node.
Kept == LinkInv' /\ \A m \in Nodes : Frozen(node[m], node'[m])

LEMMA BecomeKept ==
  ASSUME LinkInv, NEW n \in Nodes, NEW t, Keeps(n, node[n], t), Become(n, t)
  PROVE  Kept
<1>1. node' = [m \in Nodes |-> IF m = n THEN t ELSE node[m]]
  BY DEF LinkInv, Become
<1>2. \A m \in Nodes : NodeInv(m, node'[m])
  BY <1>1 DEF LinkInv, Keeps
<1>3. \A m \in Nodes : Frozen(node[m], node'[m])
  BY <1>1 DEF Keeps, Frozen
<1>4. node' = [m \in Nodes |-> node'[m]]
  BY <1>1
<1> QED
  BY <1>2, <1>3, <1>4 DEF Kept, LinkInv

\* A node that hears a frame only holds it.
LEMMA HeardKeeps ==
  ASSUME NEW n \in Nodes, NEW s, NodeInv(n, s), NEW f \in Frames, SoundPacket(f.packet)
  PROVE  Keeps(n, s, [s EXCEPT !.inbox = f])
<1> DEFINE t == [s EXCEPT !.inbox = f]
<1>1. t \in NodeStates /\ PacketsInv(t)
  BY DEF NodeInv, PacketsInv, NodeStates
<1>2. /\ t.linkState = s.linkState /\ t.linkingState = s.linkingState
      /\ t.session = s.session /\ t.partner = s.partner /\ t.enc = s.enc
      /\ t.kx = s.kx /\ t.samples = s.samples /\ t.goodCount = s.goodCount /\ t.txn = s.txn
  BY DEF NodeInv, NodeStates
<1> HIDE DEF t
<1>3. Keeps(n, s, t)
  BY <1>1, <1>2, SameStageKeeps DEF NodeInv, FreshInv
<1> QED
  BY <1>3 DEF t

LEMMA TransmitKept ==
  ASSUME LinkInv, NEW n \in Nodes, NEW t, Keeps(n, node[n], t),
         NEW f \in Frames, SoundPacket(f.packet), Transmit(n, t, f)
  PROVE  Kept
<1>1. PICK heard \in SUBSET Hearers(n, f) :
        node' = [m \in Nodes |-> IF m = n THEN t
                                  ELSE IF m \in heard THEN [node[m] EXCEPT !.inbox = f]
                                  ELSE node[m]]
  BY DEF Transmit
<1>2. \A m \in Nodes : Keeps(m, node[m], [node[m] EXCEPT !.inbox = f])
  BY HeardKeeps DEF LinkInv
<1>3. \A m \in Nodes : NodeInv(m, node'[m])
  BY <1>1, <1>2 DEF LinkInv, Keeps
<1>4. \A m \in Nodes : Frozen(node[m], node'[m])
  BY <1>1, <1>2 DEF Keeps, Frozen
<1>5. node' = [m \in Nodes |-> node'[m]]
  BY <1>1
<1> QED
  BY <1>3, <1>4, <1>5 DEF Kept, LinkInv

\* The packets the services make.
LEMMA PacketType ==
  ASSUME NEW header \in Headers, NEW sub \in SubHeaders \cup Headers \cup {None}, NEW id \in Ids
  PROVE  /\ Packet(header, sub, id) \in Packets
         /\ sub # "HostIdBroadcast" \/ id # INVALID_SESSION
              => SoundPacket(Packet(header, sub, id))
BY DEF Packet, Packets, SoundPacket

LEMMA FrameType ==
  ASSUME NEW n \in Nodes, NodeInv(n, node[n]), NEW p \in Packets
  PROVE  Frame(n, p) \in Frames /\ Frame(n, p).packet = p
BY DEF NodeInv, Frame, Frames, FrameCipher, NodeStates, Encoders

----------------------------------------------------------------------------
(* The steps common to both ends *)

LEMMA RenewKeyPairKeeps ==
  ASSUME NEW n \in Nodes, NEW s, NodeInv(n, s), NEW k \in KeyPairs
  PROVE  Keeps(n, s, [s EXCEPT !.kx = GenerateNewKeyPair(@, k), !.keysStamped = TRUE])
<1> DEFINE x == GenerateNewKeyPair(s.kx, k)
           t == [s EXCEPT !.kx = x, !.keysStamped = TRUE]
<1>1. x \in KeyExchangers /\ x.stage = "LocalKey"
  BY DEF GenerateNewKeyPair, NodeInv, NodeStates, KeyExchangers
<1> HIDE DEF x
<1>2. t \in NodeStates
  BY <1>1 DEF NodeInv, NodeStates
<1>3. PacketsInv(t)
  BY PacketsKept DEF NodeInv, NodeStates
<1>4. /\ t.linkState = s.linkState /\ t.linkingState = s.linkingState
      /\ t.session = s.session /\ t.partner = s.partner /\ t.enc = s.enc
      /\ t.kx.stage = "LocalKey"
      /\ t.samples = s.samples /\ t.goodCount = s.goodCount /\ t.txn = s.txn
  BY <1>1 DEF NodeInv, NodeStates
<1> HIDE DEF t
<1>5. Keeps(n, s, t)
  BY <1>2, <1>3, <1>4, SameStageKeeps
<1> QED
  BY <1>5 DEF t, x

LEMMA ReportPendingKeeps ==
  ASSUME NEW n \in Nodes, NEW s, NodeInv(n, s), NEW pending \in BOOLEAN
  PROVE  Keeps(n, s, [s EXCEPT !.reportPending = pending])
<1> DEFINE t == [s EXCEPT !.reportPending = pending]
<1>1. t \in NodeStates
  BY DEF NodeInv, NodeStates
<1>2. PacketsInv(t)
  BY PacketsKept DEF NodeInv, NodeStates
<1>3. /\ t.linkState = s.linkState /\ t.linkingState = s.linkingState
      /\ t.session = s.session /\ t.partner = s.partner /\ t.enc = s.enc
      /\ t.kx = s.kx /\ t.samples = s.samples /\ t.goodCount = s.goodCount /\ t.txn = s.txn
  BY DEF NodeInv, NodeStates
<1> HIDE DEF t
<1>4. Keeps(n, s, t)
  BY <1>1, <1>2, <1>3, SameStageKeeps DEF NodeInv, FreshInv
<1> QED
  BY <1>4 DEF t

LEMMA ManagerStepKept ==
  ASSUME LinkInv, NEW n \in Nodes, ManagerStep(n)
  PROVE  Kept
<1>1. NodeInv(n, node[n])
  BY DEF LinkInv
<1>2. CASE Start(n)
  BY <1>1, <1>2, ToSetupKeeps, BecomeKept DEF Start
<1>3. CASE Stop(n)
  BY <1>1, <1>3, ToDisabledKeeps, BecomeKept DEF Stop
<1> QED
  BY <1>2, <1>3 DEF ManagerStep

LEMMA LinkStepKept ==
  ASSUME LinkInv, NEW n \in Nodes, LinkStep(n)
  PROVE  Kept
<1>1. NodeInv(n, node[n])
  BY DEF LinkInv
<1>2. CASE AwaitLink(n) \/ CancelLinking(n) \/ LoseLink(n)
  <2>1. PICK t \in ToAwaitingLink(n, node[n]) : Become(n, t)
    BY <1>2 DEF AwaitLink, CancelLinking, LoseLink
  <2> QED
    BY <1>1, <2>1, ToAwaitingLinkKeeps, BecomeKept
<1>3. CASE RenewKeyPair(n)
  <2>1. PICK k \in FreshPairs(n, node[n].kx) :
          Become(n, [node[n] EXCEPT !.kx = GenerateNewKeyPair(@, k), !.keysStamped = TRUE])
    BY <1>3 DEF RenewKeyPair
  <2>2. k \in KeyPairs
    BY DEF FreshPairs
  <2> QED
    BY <1>1, <2>1, <2>2, RenewKeyPairKeeps, BecomeKept
<1>4. CASE FallAsleep(n)
  BY <1>1, <1>4, ToAwaitingSleepingKeeps, BecomeKept DEF FallAsleep
<1>5. CASE StartLinking(n)
  BY <1>1, <1>5, ToLinkingKeeps, BecomeKept DEF StartLinking, AtStage, Serving
<1>6. CASE EstablishLink(n)
  BY <1>1, <1>6, ToLinkedKeeps, BecomeKept DEF EstablishLink, AtStage, Serving
<1>7. CASE ReportDue(n)
  BY <1>1, <1>7, ReportPendingKeeps, BecomeKept DEF ReportDue
<1>8. CASE SendReport(n)
  <2>1. PICK sub \in {"LinkReport", "LinkReportWithReply"} :
          Become(n, RequestSendPacket(node[n], Packet("Report", sub, INVALID_SESSION)))
    BY <1>8 DEF SendReport
  <2>2. /\ Packet("Report", sub, INVALID_SESSION) \in Packets
        /\ SoundPacket(Packet("Report", sub, INVALID_SESSION))
    BY PacketType, IdAssumption DEF Headers, SubHeaders
  <2> QED
    BY <1>1, <2>1, <2>2, RequestSendPacketKeeps, BecomeKept
<1> QED
  BY <1>2, <1>3, <1>4, <1>5, <1>6, <1>7, <1>8 DEF LinkStep

----------------------------------------------------------------------------
(* The steps of the send service *)

\* Two steps in one, the first of which leaves the cipher alone.
LEMMA KeepsTwice ==
  ASSUME NEW n \in Nodes, NEW s, NEW u, NEW t, Keeps(n, s, u), Keeps(n, u, t),
         u.enc = s.enc, u.linkState = s.linkState
  PROVE  Keeps(n, s, t)
BY DEF Keeps, Frozen

\* A stage follows another that has as much of the cipher ready.
LEMMA NextStageKeeps ==
  ASSUME NEW n \in Nodes, NEW s, NodeInv(n, s), NEW t \in NodeStates, PacketsInv(t),
         t.linkState = s.linkState, t.session = s.session, t.partner = s.partner,
         t.enc = s.enc,
         s.linkState = "AwaitingLink" =>
           /\ t.linkingState # 0
           /\ t.linkingState >= 2 => s.linkingState >= 2
           /\ t.linkingState >= 4 => s.linkingState >= 4
  PROVE  Keeps(n, s, t)
BY DEF Keeps, NodeInv, CipherInv, LinkIvOf, FreshInv, Frozen

LEMMA StatusKeeps ==
  ASSUME NEW n \in Nodes, NEW s, NodeInv(n, s), s.status # "Done", NEW status \in SendStatuses
  PROVE  Keeps(n, s, [s EXCEPT !.status = status])
<1> DEFINE t == [s EXCEPT !.status = status]
<1>1. t \in NodeStates /\ PacketsInv(t)
  BY DEF NodeInv, PacketsInv, NodeStates
<1>2. /\ t.linkState = s.linkState /\ t.linkingState = s.linkingState
      /\ t.session = s.session /\ t.partner = s.partner /\ t.enc = s.enc
      /\ t.kx = s.kx /\ t.samples = s.samples /\ t.goodCount = s.goodCount /\ t.txn = s.txn
  BY DEF NodeInv, NodeStates
<1> HIDE DEF t
<1>3. Keeps(n, s, t)
  BY <1>1, <1>2, SameStageKeeps DEF NodeInv, FreshInv
<1> QED
  BY <1>3 DEF t

LEMMA HostAckReceivedKeeps ==
  ASSUME NEW n \in Nodes, NEW s, NodeInv(n, s), NEW t \in HostAckReceived(s)
  PROVE  Keeps(n, s, t) /\ t.enc = s.enc /\ t.linkState = s.linkState
<1> DEFINE sample == [s EXCEPT !.samples = IF @ < MinLatencySamples THEN @ + 1 ELSE @]
<1>1. \/ t = s
      \/ s.linkState = "Linking" /\ t = sample
      \/ /\ s.linkState = "AwaitingLink" /\ s.linkingState = GotSharedKey
         /\ t = SetLinkingState(s, LinkingSwitchOver)
      \/ s.linkState = "Linking" /\ t = SetLinkingState(s, LinkingDone)
  <2> HIDE DEF sample
  <2>1. HostAckReceived(s) \subseteq
          {s} \cup (IF s.linkState = "Linking"
                    THEN {sample, SetLinkingState(s, LinkingDone)} ELSE {})
              \cup (IF s.linkState = "AwaitingLink" /\ s.linkingState = GotSharedKey
                    THEN {SetLinkingState(s, LinkingSwitchOver)} ELSE {})
    BY DEF HostAckReceived, sample
  <2> QED
    BY <2>1
<1>2. CASE t = s
  BY <1>2 DEF Keeps, Frozen
<1>3. CASE s.linkState = "Linking" /\ t = sample
  <2>1. t \in NodeStates
    <3>1. (IF s.samples < MinLatencySamples THEN s.samples + 1 ELSE s.samples)
            \in 0..MinLatencySamples
      BY SampleAssumption DEF NodeInv, NodeStates
    <3> QED
      BY <1>3, <3>1 DEF NodeInv, NodeStates
  <2>2. /\ t.linkState = s.linkState /\ t.session = s.session /\ t.partner = s.partner
        /\ t.enc = s.enc /\ t.status = s.status /\ t.out = s.out /\ t.inbox = s.inbox
        /\ s.linkState # "AwaitingLink"
    BY <1>3 DEF NodeInv, NodeStates
  <2>3. PacketsInv(t)
    BY <2>2, PacketsKept DEF NodeInv
  <2> HIDE DEF sample
  <2> QED
    BY <2>1, <2>2, <2>3, NextStageKeeps
<1>4. CASE \/ /\ s.linkState = "AwaitingLink" /\ s.linkingState = GotSharedKey
              /\ t = SetLinkingState(s, LinkingSwitchOver)
           \/ s.linkState = "Linking" /\ t = SetLinkingState(s, LinkingDone)
  <2>1. t \in NodeStates
    BY <1>4, SetLinkingStateType DEF NodeInv, LinkingSwitchOver, LinkingDone
  <2>2. /\ t.linkState = s.linkState /\ t.session = s.session /\ t.partner = s.partner
        /\ t.enc = s.enc /\ t.status = s.status /\ t.out = s.out /\ t.inbox = s.inbox
        /\ s.linkState = "AwaitingLink" => s.linkingState = 4 /\ t.linkingState = 5
    BY <1>4 DEF NodeInv, NodeStates, SetLinkingState, GotSharedKey, LinkingSwitchOver
  <2> QED
    BY <2>1, <2>2, PacketsKept, NextStageKeeps DEF NodeInv
<1> HIDE DEF sample
<1> QED
  BY <1>1, <1>2, <1>3, <1>4, Zenon

LEMMA SendStepKept ==
  ASSUME LinkInv, NEW n \in Nodes, SendStep(n)
  PROVE  Kept
<1> DEFINE s == node[n]
<1>1. NodeInv(n, s)
  BY DEF LinkInv
<1>2. ASSUME s.status # "Done" PROVE s.out \in Packets /\ SoundPacket(s.out)
  BY <1>1, <1>2 DEF NodeInv, PacketsInv
<1>3. Keeps(n, s, ClearSendRequest(s))
  BY <1>1, ClearSendRequestKeeps
<1>4. CASE SendPacket(n)
  <2>1. s.status # "Done"
    BY <1>4 DEF SendPacket, Running
  <2>2. Frame(n, s.out) \in Frames /\ SoundPacket(Frame(n, s.out).packet)
    BY <1>1, <1>2, <2>1, FrameType
  <2>3. Keeps(n, s, [s EXCEPT !.status = "SentOk"])
    BY <1>1, <2>1, StatusKeeps DEF SendStatuses
  <2>4. \/ Transmit(n, [s EXCEPT !.status = "SentOk"], Frame(n, s.out))
        \/ Transmit(n, ClearSendRequest(s), Frame(n, s.out))
    BY <1>4 DEF SendPacket
  <2> QED
    BY <1>3, <2>2, <2>3, <2>4, TransmitKept
<1>5. CASE SendTimesOut(n) \/ AckTimesOut(n)
  BY <1>3, <1>5, BecomeKept DEF SendTimesOut, AckTimesOut
<1>6. CASE SentOk(n)
  <2> DEFINE pending == s.reportPending /\ ~(s.out.header = "Report" /\ s.linkState = "Linked")
             u == [s EXCEPT !.reportPending = pending]
  <2>1. pending \in BOOLEAN
    OBVIOUS
  <2>2. Become(n, IF HasACK(u.out) THEN [u EXCEPT !.status = "WaitingForAck"]
                  ELSE ClearSendRequest(u))
    BY <1>6 DEF SentOk
  <2>3. s.status # "Done"
    BY <1>6 DEF SentOk, Running
  <2>4. u.status # "Done" /\ u.enc = s.enc /\ u.linkState = s.linkState
    BY <1>1, <2>3 DEF NodeInv, NodeStates
  <2> HIDE DEF pending
  <2>5. Keeps(n, s, u)
    BY <1>1, <2>1, ReportPendingKeeps
  <2> HIDE DEF u
  <2>6. Keeps(n, u, [u EXCEPT !.status = "WaitingForAck"]) /\ Keeps(n, u, ClearSendRequest(u))
    BY <2>4, <2>5, StatusKeeps, ClearSendRequestKeeps DEF Keeps, SendStatuses
  <2> QED
    BY <2>2, <2>4, <2>5, <2>6, KeepsTwice, BecomeKept
<1>7. CASE AckReceived(n)
  <2>1. PICK u \in HostAckReceived(s) : Become(n, ClearSendRequest(u))
    BY <1>7 DEF AckReceived
  <2>2. Keeps(n, s, u) /\ u.enc = s.enc /\ u.linkState = s.linkState
    BY <1>1, HostAckReceivedKeeps
  <2>3. Keeps(n, u, ClearSendRequest(u))
    BY <2>2, ClearSendRequestKeeps DEF Keeps
  <2> QED
    BY <2>1, <2>2, <2>3, KeepsTwice, BecomeKept
<1> QED
  BY <1>4, <1>5, <1>6, <1>7 DEF SendStep

----------------------------------------------------------------------------
(* The packets a node receives *)

\* A handler that changes nothing but these fields, in Linking or Linked.
LEMMA InLinkKeeps ==
  ASSUME NEW n \in Nodes, NEW s, NodeInv(n, s), NEW t \in NodeStates,
         s.linkState # "AwaitingLink",
         t.linkState = s.linkState, t.session = s.session, t.partner = s.partner,
         t.enc = s.enc, t.status = s.status, t.out = s.out, t.inbox = s.inbox
  PROVE  Keeps(n, s, t)
BY NextStageKeeps, PacketsKept DEF NodeInv

LEMMA RestoredKeeps ==
  ASSUME LinkInv, NEW n \in Nodes
  PROVE  /\ Keeps(n, node[n], Restored(n))
         /\ Restored(n).enc = node[n].enc
         /\ Restored(n).linkState = node[n].linkState
         /\ Restored(n).linkingState = node[n].linkingState
<1> DEFINE s == node[n]
           t == [s EXCEPT !.inbox = None]
<1>1. NodeInv(n, s)
  BY DEF LinkInv
<1>2. t \in NodeStates /\ PacketsInv(t)
  BY <1>1 DEF NodeInv, PacketsInv, NodeStates
<1>3. /\ t.linkState = s.linkState /\ t.linkingState = s.linkingState
      /\ t.session = s.session /\ t.partner = s.partner /\ t.enc = s.enc
      /\ t.kx = s.kx /\ t.samples = s.samples /\ t.goodCount = s.goodCount /\ t.txn = s.txn
  BY <1>1 DEF NodeInv, NodeStates
<1>4. Restored(n) = t
  BY DEF Restored
<1> HIDE DEF s, t
<1>5. Keeps(n, s, t)
  BY <1>1, <1>2, <1>3, SameStageKeeps DEF NodeInv, FreshInv
<1> QED
  BY <1>3, <1>4, <1>5 DEF s

LEMMA OnLinkDiscoveryReceivedKeeps ==
  ASSUME NEW n \in Nodes, NEW s, NodeInv(n, s)
  PROVE  Keeps(n, s, OnLinkDiscoveryReceived(s))
<1> DEFINE awake == s.awake \/ s.linkState = "AwaitingSleeping"
           t == [s EXCEPT !.awake = awake]
<1>1. awake \in BOOLEAN
  OBVIOUS
<1>2. OnLinkDiscoveryReceived(s) = t
  BY DEF OnLinkDiscoveryReceived
<1> HIDE DEF awake
<1>3. t \in NodeStates
  BY <1>1 DEF NodeInv, NodeStates
<1>4. /\ t.linkState = s.linkState /\ t.linkingState = s.linkingState
      /\ t.session = s.session /\ t.partner = s.partner /\ t.enc = s.enc
      /\ t.kx = s.kx /\ t.samples = s.samples /\ t.goodCount = s.goodCount /\ t.txn = s.txn
      /\ t.status = s.status /\ t.out = s.out /\ t.inbox = s.inbox
  BY DEF NodeInv, NodeStates
<1> HIDE DEF t
<1>5. Keeps(n, s, t)
  BY <1>3, <1>4, SameStageKeeps, PacketsKept DEF NodeInv, FreshInv
<1> QED
  BY <1>2, <1>5

LEMMA HasRssiKeeps ==
  ASSUME NEW n \in Nodes, NEW s, NodeInv(n, s), NEW hasRssi \in BOOLEAN
  PROVE  /\ Keeps(n, s, [s EXCEPT !.hasRssi = hasRssi])
         /\ [s EXCEPT !.hasRssi = hasRssi].enc = s.enc
         /\ [s EXCEPT !.hasRssi = hasRssi].linkState = s.linkState
<1> DEFINE t == [s EXCEPT !.hasRssi = hasRssi]
<1>1. t \in NodeStates
  BY DEF NodeInv, NodeStates
<1>2. /\ t.linkState = s.linkState /\ t.linkingState = s.linkingState
      /\ t.session = s.session /\ t.partner = s.partner /\ t.enc = s.enc
      /\ t.kx = s.kx /\ t.samples = s.samples /\ t.goodCount = s.goodCount /\ t.txn = s.txn
      /\ t.status = s.status /\ t.out = s.out /\ t.inbox = s.inbox
  BY DEF NodeInv, NodeStates
<1> HIDE DEF t
<1>3. Keeps(n, s, t)
  BY <1>1, <1>2, SameStageKeeps, PacketsKept DEF NodeInv, FreshInv
<1> QED
  BY <1>2, <1>3 DEF t

LEMMA OnLinkInfoReportReceivedKeeps ==
  ASSUME NEW n \in Nodes, NEW s, NodeInv(n, s), NEW p \in Packets
  PROVE  Keeps(n, s, OnLinkInfoReportReceived(s, p))
<1> DEFINE hasRssi == s.hasRssi \/ s.linkState = "Linked"
           pending == s.reportPending \/ p.sub = "LinkReportWithReply"
           u == [s EXCEPT !.hasRssi = hasRssi]
           t == [u EXCEPT !.reportPending = pending]
<1>1. hasRssi \in BOOLEAN /\ pending \in BOOLEAN
  OBVIOUS
<1>2. OnLinkInfoReportReceived(s, p) = t
  BY DEF OnLinkInfoReportReceived, NodeInv, NodeStates
<1> HIDE DEF hasRssi, pending
<1>3. Keeps(n, s, u) /\ u.enc = s.enc /\ u.linkState = s.linkState
  BY <1>1, HasRssiKeeps
<1> HIDE DEF u
<1>4. Keeps(n, u, t)
  BY <1>1, <1>3, ReportPendingKeeps DEF Keeps
<1> QED
  BY <1>2, <1>3, <1>4, KeepsTwice

\* The IV is not set yet when the partner of a host changes.
LEMMA OnPKCRequestReceivedKeeps ==
  ASSUME NEW n \in Nodes, NEW s, NodeInv(n, s), NEW p \in Packets
  PROVE  Keeps(n, s, OnPKCRequestReceived(s, p))
<1> DEFINE t == [SetLinkingState(s, HostValidatingPartner) EXCEPT !.partner = p.peer]
<1>1. \/ OnPKCRequestReceived(s, p) = s
      \/ s.linkState = "AwaitingLink" /\ OnPKCRequestReceived(s, p) = t
  BY DEF OnPKCRequestReceived
<1>2. Keeps(n, s, s)
  BY DEF Keeps, Frozen
<1>3. ASSUME s.linkState = "AwaitingLink" PROVE Keeps(n, s, t)
  <2>1. p.peer \in Nodes \cup {None}
    BY DEF Packets
  <2>2. t = [s EXCEPT !.linkingState = 1, !.partner = p.peer]
    BY DEF SetLinkingState, HostValidatingPartner
  <2>3. t \in NodeStates
    <3>1. SetLinkingState(s, HostValidatingPartner) \in NodeStates
      BY SetLinkingStateType DEF NodeInv, HostValidatingPartner
    <3> QED
      BY <2>1, <3>1 DEF NodeStates
  <2>4. /\ t.linkState = s.linkState /\ t.linkingState = 1 /\ t.enc = s.enc
        /\ t.status = s.status /\ t.out = s.out /\ t.inbox = s.inbox
    BY <2>2 DEF NodeInv, NodeStates
  <2>5. PacketsInv(t)
    BY <2>4, PacketsKept DEF NodeInv
  <2> HIDE DEF t
  <2> QED
    BY <1>3, <2>3, <2>4, <2>5 DEF Keeps, NodeInv, CipherInv, FreshInv, Frozen
<1> HIDE DEF t
<1> QED
  BY <1>1, <1>2, <1>3

\* A partner key is taken at stage 2, on a host and on a remote.
LEMMA PartnerKeyKeeps ==
  ASSUME NEW n \in Nodes, NEW s, NodeInv(n, s), s.linkState = "AwaitingLink",
         s.linkingState = 2, NEW p \in Packets
  PROVE  Keeps(n, s, [SetLinkingState(s, 3) EXCEPT !.kx = SetPartnerPublicKey(@, p.key)])
<1> DEFINE x == SetPartnerPublicKey(s.kx, p.key)
           t == [s EXCEPT !.linkingState = 3, !.kx = x]
<1>1. x \in KeyExchangers
  BY DEF SetPartnerPublicKey, NodeInv, NodeStates, KeyExchangers, Packets
<1>2. [SetLinkingState(s, 3) EXCEPT !.kx = SetPartnerPublicKey(@, p.key)] = t
  BY DEF SetLinkingState, NodeInv, NodeStates
<1> HIDE DEF x
<1>3. t \in NodeStates
  <2>1. 3 \in 0..5
    OBVIOUS
  <2> QED
    BY <1>1, <2>1 DEF NodeInv, NodeStates
<1>4. /\ t.linkState = s.linkState /\ t.session = s.session /\ t.partner = s.partner
      /\ t.enc = s.enc /\ t.status = s.status /\ t.out = s.out /\ t.inbox = s.inbox
      /\ t.linkingState = 3
  BY DEF NodeInv, NodeStates
<1>5. PacketsInv(t)
  BY <1>4, PacketsKept DEF NodeInv
<1> HIDE DEF t
<1>6. Keeps(n, s, t)
  BY <1>3, <1>4, <1>5, NextStageKeeps
<1> QED
  BY <1>2, <1>6

LEMMA TransactionKeeps ==
  ASSUME NEW n \in Nodes, NEW s, NodeInv(n, s), s.linkState # "AwaitingLink",
         NEW txn \in Transactions
  PROVE  /\ Keeps(n, s, [s EXCEPT !.txn = txn])
         /\ [s EXCEPT !.txn = txn].enc = s.enc
         /\ [s EXCEPT !.txn = txn].linkState = s.linkState
<1> DEFINE t == [s EXCEPT !.txn = txn]
<1>1. t \in NodeStates
  BY DEF NodeInv, NodeStates
<1>2. /\ t.linkState = s.linkState /\ t.session = s.session /\ t.partner = s.partner
      /\ t.enc = s.enc /\ t.status = s.status /\ t.out = s.out /\ t.inbox = s.inbox
  BY DEF NodeInv, NodeStates
<1> HIDE DEF t
<1>3. Keeps(n, s, t)
  BY <1>1, <1>2, InLinkKeeps
<1> QED
  BY <1>2, <1>3 DEF t

\* The stage of a node past AwaitingLink.
LEMMA LinkingStateKeeps ==
  ASSUME NEW n \in Nodes, NEW s, NodeInv(n, s), s.linkState # "AwaitingLink",
         NEW stage \in 0..5
  PROVE  Keeps(n, s, SetLinkingState(s, stage))
<1> DEFINE t == SetLinkingState(s, stage)
<1>1. t \in NodeStates
  BY SetLinkingStateType DEF NodeInv
<1>2. /\ t.linkState = s.linkState /\ t.session = s.session /\ t.partner = s.partner
      /\ t.enc = s.enc /\ t.status = s.status /\ t.out = s.out /\ t.inbox = s.inbox
  BY DEF NodeInv, NodeStates, SetLinkingState
<1> HIDE DEF t
<1>3. Keeps(n, s, t)
  BY <1>1, <1>2, InLinkKeeps
<1> QED
  BY <1>3 DEF t

LEMMA HostProcessPacketKeeps ==
  ASSUME NEW n \in Nodes, NEW s, NodeInv(n, s), NEW p \in Packets
  PROVE  Keeps(n, s, HostProcessPacket(s, p))
<1>1. Keeps(n, s, s)
  BY DEF Keeps, Frozen
<1>2. Keeps(n, s, OnRemotePublicKeyReceived(s, p))
  <2>1. CASE /\ s.linkState = "AwaitingLink" /\ s.linkingState = HostSendingPublicKey
             /\ HasSessionId(s) /\ s.session = p.id /\ s.kx.stage = "LocalKey"
    BY <2>1, PartnerKeyKeeps DEF OnRemotePublicKeyReceived, HostSendingPublicKey, ProcessingPKC
  <2>2. CASE ~ (/\ s.linkState = "AwaitingLink" /\ s.linkingState = HostSendingPublicKey
                /\ HasSessionId(s) /\ s.session = p.id /\ s.kx.stage = "LocalKey")
    BY <1>1, <2>2 DEF OnRemotePublicKeyReceived
  <2> QED
    BY <2>1, <2>2
<1>3. Keeps(n, s, OnRemoteInfoSyncReceived(s))
  <2> DEFINE hasRssi == s.hasRssi \/ (s.linkState = "Linking" /\ s.linkingState = InfoSyncStage)
  <2>1. hasRssi \in BOOLEAN
    OBVIOUS
  <2>2. OnRemoteInfoSyncReceived(s) = [s EXCEPT !.hasRssi = hasRssi]
    BY DEF OnRemoteInfoSyncReceived
  <2> HIDE DEF hasRssi
  <2> QED
    BY <2>1, <2>2, HasRssiKeeps
<1>4. [stage |-> "ResultIn", id |-> p.id] \in Transactions
  BY DEF Packets, Transactions
<1>5. Keeps(n, s, OnClockSyncRequestReceived(s, p))
  <2> DEFINE asked == [s EXCEPT !.txn = [stage |-> "ResultIn", id |-> p.id]]
             cleared == [s EXCEPT !.txn = ClearTransaction]
  <2>1. \/ OnClockSyncRequestReceived(s, p) = s
        \/ /\ s.linkState = "Linking"
           /\ OnClockSyncRequestReceived(s, p) \in
                {asked, cleared, SetLinkingState(asked, ClockSyncStage)}
    <3>1. CASE s.linkState # "Linking"
      BY <3>1 DEF OnClockSyncRequestReceived
    <3>2. CASE s.linkState = "Linking" /\ s.linkingState = InfoSyncStage
      BY <3>2 DEF OnClockSyncRequestReceived, InfoSyncStage, ClockSyncStage
    <3>3. CASE s.linkState = "Linking" /\ s.linkingState # InfoSyncStage
      BY <3>3 DEF OnClockSyncRequestReceived, InfoSyncStage, ClockSyncStage
    <3> QED
      BY <3>1, <3>2, <3>3
  <2>2. ASSUME s.linkState = "Linking"
        PROVE  /\ Keeps(n, s, asked) /\ asked.enc = s.enc /\ asked.linkState = s.linkState
               /\ Keeps(n, s, cleared)
    BY <1>4, <2>2, TransactionKeeps, ClearedTypes
  <2> HIDE DEF asked, cleared
  <2>3. ASSUME s.linkState = "Linking" PROVE Keeps(n, asked, SetLinkingState(asked, ClockSyncStage))
    BY <2>2, <2>3, LinkingStateKeeps DEF Keeps, ClockSyncStage
  <2>4. ASSUME s.linkState = "Linking" PROVE Keeps(n, s, SetLinkingState(asked, ClockSyncStage))
    BY <2>2, <2>3, <2>4, KeepsTwice
  <2> QED
    BY <1>1, <2>1, <2>2, <2>4
<1>6. Keeps(n, s, OnClockSyncTuneRequestReceived(s, p))
  <2>1. CASE s.linkState = "Linked"
    BY <1>4, <2>1, TransactionKeeps DEF OnClockSyncTuneRequestReceived
  <2>2. CASE s.linkState # "Linked"
    BY <1>1, <2>2 DEF OnClockSyncTuneRequestReceived
  <2> QED
    BY <2>1, <2>2
<1>7. HostProcessPacket(s, p) \in
        {s, OnLinkDiscoveryReceived(s), OnPKCRequestReceived(s, p),
         OnRemotePublicKeyReceived(s, p), OnRemoteInfoSyncReceived(s),
         OnClockSyncRequestReceived(s, p), OnClockSyncTuneRequestReceived(s, p),
         OnLinkInfoReportReceived(s, p)}
  BY DEF HostProcessPacket
<1> QED
  BY <1>1, <1>2, <1>3, <1>5, <1>6, <1>7, OnLinkDiscoveryReceivedKeeps,
     OnPKCRequestReceivedKeeps, OnLinkInfoReportReceivedKeeps

\* A new session takes a remote back to the stage before its IV is set: no
\* broadcast of a closed session leaves it at a later one.
LEMMA OnIdBroadcastReceivedKeeps ==
  ASSUME NEW n \in Nodes, NEW s, NodeInv(n, s), NEW p \in Packets,
         p.id # INVALID_SESSION
  PROVE  /\ Keeps(n, s, OnIdBroadcastReceived(s, p))
         /\ OnIdBroadcastReceived(s, p).enc = s.enc
         /\ OnIdBroadcastReceived(s, p).linkState = s.linkState
<1> DEFINE u == SetLinkingState(s, RemoteValidatingPartner)
           t == [u EXCEPT !.session = p.id, !.partner = p.peer]
<1>1. \/ OnIdBroadcastReceived(s, p) = s
      \/ s.linkState = "AwaitingLink" /\ OnIdBroadcastReceived(s, p) = t
  BY DEF OnIdBroadcastReceived
<1>2. Keeps(n, s, s)
  BY DEF Keeps, Frozen
<1>3. /\ u \in NodeStates /\ u.linkState = s.linkState /\ u.linkingState = 1
      /\ u.enc = s.enc /\ u.status = s.status /\ u.out = s.out /\ u.inbox = s.inbox
  BY SetLinkingStateType DEF NodeInv, NodeStates, SetLinkingState, RemoteValidatingPartner
<1> HIDE DEF u
<1>4. /\ t \in NodeStates /\ t.linkState = s.linkState /\ t.linkingState = 1
      /\ t.enc = s.enc /\ t.status = s.status /\ t.out = s.out /\ t.inbox = s.inbox
  <2>1. p.id \in Ids /\ p.peer \in Nodes \cup {None}
    BY DEF Packets
  <2> QED
    BY <1>3, <2>1 DEF NodeStates
<1>5. PacketsInv(t)
  BY <1>4, PacketsKept DEF NodeInv
<1> HIDE DEF t
<1>6. ASSUME s.linkState = "AwaitingLink" PROVE Keeps(n, s, t)
  BY <1>4, <1>5, <1>6 DEF Keeps, NodeInv, CipherInv, FreshInv, Frozen
<1> QED
  BY <1>1, <1>2, <1>4, <1>6

LEMMA SetResultKeeps ==
  ASSUME NEW n \in Nodes, NEW s, NodeInv(n, s), s.linkState # "AwaitingLink", NEW id
  PROVE  Keeps(n, s, SetResult(s, id))
<1> DEFINE txn == [s.txn EXCEPT !.stage = "ResultIn"]
<1>1. txn \in Transactions
  BY DEF NodeInv, NodeStates, Transactions
<1>2. SetResult(s, id) \in {s, [s EXCEPT !.txn = txn]}
  BY DEF SetResult
<1>3. Keeps(n, s, s)
  BY DEF Keeps, Frozen
<1> HIDE DEF txn
<1> QED
  BY <1>1, <1>2, <1>3, TransactionKeeps

\* The stages of the exchange of information, in Linking.
LEMMA InfoStageKeeps ==
  ASSUME NEW n \in Nodes, NEW s, NodeInv(n, s), s.linkState # "AwaitingLink",
         NEW stage \in 0..2, NEW hasRssi \in BOOLEAN
  PROVE  Keeps(n, s, [s EXCEPT !.infoStage = stage, !.hasRssi = hasRssi])
<1> DEFINE t == [s EXCEPT !.infoStage = stage, !.hasRssi = hasRssi]
<1>1. t \in NodeStates
  BY DEF NodeInv, NodeStates
<1>2. /\ t.linkState = s.linkState /\ t.session = s.session /\ t.partner = s.partner
      /\ t.enc = s.enc /\ t.status = s.status /\ t.out = s.out /\ t.inbox = s.inbox
  BY DEF NodeInv, NodeStates
<1> HIDE DEF t
<1>3. Keeps(n, s, t)
  BY <1>1, <1>2, InLinkKeeps
<1> QED
  BY <1>3 DEF t

LEMMA RemoteProcessPacketKeeps ==
  ASSUME NEW n \in Nodes, NEW s, NodeInv(n, s), NEW p \in Packets, SoundPacket(p)
  PROVE  Keeps(n, s, RemoteProcessPacket(s, p))
<1>1. Keeps(n, s, s)
  BY DEF Keeps, Frozen
<1>2. Keeps(n, s, OnHostPublicKeyReceived(s, p))
  <2>1. CASE /\ s.linkState = "AwaitingLink" /\ s.linkingState = AwaitingHostPublicKey
             /\ HasSession(s) /\ s.session = p.id /\ s.kx.stage = "LocalKey"
    BY <2>1, PartnerKeyKeeps DEF OnHostPublicKeyReceived, AwaitingHostPublicKey, ProcessingSharedKey
  <2>2. CASE ~ (/\ s.linkState = "AwaitingLink" /\ s.linkingState = AwaitingHostPublicKey
                /\ HasSession(s) /\ s.session = p.id /\ s.kx.stage = "LocalKey")
    BY <1>1, <2>2 DEF OnHostPublicKeyReceived
  <2> QED
    BY <2>1, <2>2
<1>3. s.hasRssi \in BOOLEAN
  BY DEF NodeInv, NodeStates
<1>4. Keeps(n, s, OnHostInfoSyncRequestReceived(s))
  <2>1. CASE RemoteInfoSyncAt(s, 0)
    <3>1. [s EXCEPT !.infoStage = 1] = [s EXCEPT !.infoStage = 1, !.hasRssi = s.hasRssi]
      BY DEF NodeInv, NodeStates
    <3>2. s.linkState # "AwaitingLink" /\ 1 \in 0..2
      BY <2>1 DEF RemoteInfoSyncAt
    <3>3. Keeps(n, s, [s EXCEPT !.infoStage = 1, !.hasRssi = s.hasRssi])
      BY <1>3, <3>2, InfoStageKeeps
    <3> QED
      BY <2>1, <3>1, <3>3 DEF OnHostInfoSyncRequestReceived
  <2>2. CASE ~RemoteInfoSyncAt(s, 0)
    BY <1>1, <2>2 DEF OnHostInfoSyncRequestReceived
  <2> QED
    BY <2>1, <2>2
<1>5. Keeps(n, s, OnHostInfoSyncReceived(s))
  <2>1. CASE RemoteInfoSyncAt(s, 1)
    <3>1. s.linkState # "AwaitingLink" /\ 2 \in 0..2 /\ TRUE \in BOOLEAN
      BY <2>1 DEF RemoteInfoSyncAt
    <3>2. Keeps(n, s, [s EXCEPT !.infoStage = 2, !.hasRssi = TRUE])
      BY <3>1, InfoStageKeeps
    <3> QED
      BY <2>1, <3>2 DEF OnHostInfoSyncReceived
  <2>2. CASE ~RemoteInfoSyncAt(s, 1)
    BY <1>1, <2>2 DEF OnHostInfoSyncReceived
  <2> QED
    BY <2>1, <2>2
<1>6. Keeps(n, s, OnClockSyncResponseReceived(s, p))
  BY <1>1, SetResultKeeps DEF OnClockSyncResponseReceived
<1>7. Keeps(n, s, OnClockSyncTuneResponseReceived(s, p))
  BY <1>1, SetResultKeeps DEF OnClockSyncTuneResponseReceived
<1>8. CASE p.sub = "HostIdBroadcast"
  BY <1>8, OnIdBroadcastReceivedKeeps DEF RemoteProcessPacket, SoundPacket
<1>9. CASE p.sub # "HostIdBroadcast"
  <2>1. RemoteProcessPacket(s, p) \in
          {s, OnHostPublicKeyReceived(s, p), OnHostInfoSyncRequestReceived(s),
           OnHostInfoSyncReceived(s), OnClockSyncResponseReceived(s, p),
           OnClockSyncTuneResponseReceived(s, p), OnLinkInfoReportReceived(s, p)}
    BY <1>9 DEF RemoteProcessPacket
  <2> QED
    BY <1>1, <1>2, <1>4, <1>5, <1>6, <1>7, <2>1, OnLinkInfoReportReceivedKeeps
<1> QED
  BY <1>8, <1>9

\* A remote moves on when it answers a request to switch over, in AwaitingLink
\* once its key is ready.
LEMMA OnAckedPacketReceivedKeeps ==
  ASSUME NEW n \in Nodes, NEW s, NodeInv(n, s),
         s.linkState = "AwaitingLink" => s.linkingState = 4
  PROVE  Keeps(n, s, OnAckedPacketReceived(s))
<1>1. CASE s.linkState = "AwaitingLink"
  <2> DEFINE t == SetLinkingState(s, 5)
  <2>1. OnAckedPacketReceived(s) = t
    BY <1>1 DEF OnAckedPacketReceived, RemoteLinkingSwitchOver
  <2>2. t \in NodeStates
    BY SetLinkingStateType DEF NodeInv
  <2>3. /\ t.linkState = s.linkState /\ t.session = s.session /\ t.partner = s.partner
        /\ t.enc = s.enc /\ t.status = s.status /\ t.out = s.out /\ t.inbox = s.inbox
        /\ t.linkingState = 5
    BY DEF NodeInv, NodeStates, SetLinkingState
  <2>4. PacketsInv(t)
    BY <2>3, PacketsKept DEF NodeInv
  <2> HIDE DEF t
  <2>5. Keeps(n, s, t)
    BY <1>1, <2>2, <2>3, <2>4, NextStageKeeps
  <2> QED
    BY <2>1, <2>5
<1>2. CASE s.linkState # "AwaitingLink"
  <2>1. OnAckedPacketReceived(s) = SetLinkingState(s, 2) /\ 2 \in 0..5
    BY <1>2 DEF OnAckedPacketReceived
  <2> QED
    BY <1>2, <2>1, LinkingStateKeeps
<1> QED
  BY <1>1, <1>2

\* An ack that is not for the packet in hand leaves the status as it is.
LEMMA ProcessAckKept ==
  ASSUME LinkInv, NEW n \in Nodes, ProcessAck(n)
  PROVE  Kept
<1> DEFINE r == Restored(n)
           a == Received(n)
           mine == node[n].status = "WaitingForAck" /\ node[n].out.header = a.sub
                   /\ node[n].out.id = a.id
           t == [r EXCEPT !.status = IF mine THEN "AckOk" ELSE @]
<1>1. Keeps(n, node[n], r) /\ r.enc = node[n].enc /\ r.linkState = node[n].linkState
  BY RestoredKeeps
<1>2. r.status = node[n].status
  BY DEF Restored, LinkInv, NodeInv, NodeStates
<1>3. Become(n, t)
  BY DEF ProcessAck
<1> HIDE DEF r, a
<1>4. Keeps(n, r, t)
  <2>1. CASE mine
    <3>1. t = [r EXCEPT !.status = "AckOk"] /\ r.status # "Done"
      BY <1>2, <2>1
    <3> QED
      BY <1>1, <3>1, StatusKeeps DEF Keeps, SendStatuses
  <2>2. CASE ~mine
    <3>1. t = r
      BY <1>1, <2>2 DEF Keeps, NodeInv, NodeStates
    <3> QED
      BY <1>1, <3>1 DEF Keeps, Frozen
  <2> QED
    BY <2>1, <2>2
<1> HIDE DEF t
<1> QED
  BY <1>1, <1>3, <1>4, KeepsTwice, BecomeKept

LEMMA ProcessPacketKept ==
  ASSUME LinkInv, NEW n \in Nodes, ProcessPacket(n)
  PROVE  Kept
<1> DEFINE s == node[n]
           r == Restored(n)
           p == Received(n)
<1>1. Keeps(n, s, r) /\ r.enc = s.enc /\ r.linkState = s.linkState
  BY RestoredKeeps
<1>2. p \in Packets /\ SoundPacket(p)
  BY DEF ProcessPacket, Holds, Received, LinkInv, NodeInv, PacketsInv, NodeStates, Frames
<1>3. \/ Become(n, HostProcessPacket(r, p)) \/ Become(n, RemoteProcessPacket(r, p))
      \/ /\ WokenByBroadcast(n)
         /\ \E t \in ToAwaitingLink(n, r) : Become(n, OnIdBroadcastReceived(t, p))
  BY DEF ProcessPacket
<1>4. NodeInv(n, r)
  BY <1>1 DEF Keeps
<1>5. WokenByBroadcast(n) => p.id # INVALID_SESSION
  BY <1>2 DEF WokenByBroadcast, SoundPacket
<1> HIDE DEF s, r, p
<1>6. Keeps(n, r, HostProcessPacket(r, p)) /\ Keeps(n, r, RemoteProcessPacket(r, p))
  BY <1>2, <1>4, HostProcessPacketKeeps, RemoteProcessPacketKeeps
<1>7. CASE Become(n, HostProcessPacket(r, p)) \/ Become(n, RemoteProcessPacket(r, p))
  BY <1>1, <1>6, <1>7, KeepsTwice, BecomeKept DEF s
<1>8. CASE /\ WokenByBroadcast(n)
           /\ \E t \in ToAwaitingLink(n, r) : Become(n, OnIdBroadcastReceived(t, p))
  <2>1. PICK t \in ToAwaitingLink(n, r) : Become(n, OnIdBroadcastReceived(t, p))
    BY <1>8
  <2>2. Keeps(n, r, t) /\ t.enc = ClearEncoder
    BY <1>4, ToAwaitingLinkKeeps
  <2>3. /\ Keeps(n, t, OnIdBroadcastReceived(t, p))
        /\ OnIdBroadcastReceived(t, p).enc = ClearEncoder
    BY <1>2, <1>5, <1>8, <2>2, OnIdBroadcastReceivedKeeps DEF Keeps
  <2>4. Keeps(n, s, OnIdBroadcastReceived(t, p))
    BY <2>3 DEF Keeps, Frozen
  <2> QED
    BY <2>1, <2>4, BecomeKept DEF s
<1> QED
  BY <1>3, <1>7, <1>8

LEMMA ProcessAckedPacketKept ==
  ASSUME LinkInv, NEW n \in Nodes, ProcessAckedPacket(n)
  PROVE  Kept
<1> DEFINE s == node[n]
           r == Restored(n)
           p == Received(n)
           ack == Frame(n, Packet("Ack", p.header, p.id))
<1>1. /\ Keeps(n, s, r) /\ r.enc = s.enc /\ r.linkState = s.linkState
      /\ r.linkingState = s.linkingState
  BY RestoredKeeps
<1>2. p \in Packets /\ NodeInv(n, s)
  BY DEF ProcessAckedPacket, Holds, Received, LinkInv, NodeInv, NodeStates, Frames
<1>3. p.header \in Headers /\ p.id \in Ids /\ p.header # "HostIdBroadcast"
  BY <1>2 DEF Packets, Headers
<1>4. ack \in Frames /\ SoundPacket(ack.packet)
  <2> HIDE DEF p
  <2>1. /\ Packet("Ack", p.header, p.id) \in Packets
        /\ SoundPacket(Packet("Ack", p.header, p.id))
    BY <1>3, PacketType DEF Headers
  <2> QED
    BY <1>2, <2>1, FrameType
<1>5. \/ Transmit(n, r, ack)
      \/ RemoteAcks(n, s, p) /\ Transmit(n, OnAckedPacketReceived(r), ack)
      \/ Become(n, r)
  BY DEF ProcessAckedPacket
<1> HIDE DEF s, r, p, ack
<1>6. CASE Transmit(n, r, ack)
  BY <1>1, <1>4, <1>6, TransmitKept DEF s
<1>7. CASE RemoteAcks(n, s, p) /\ Transmit(n, OnAckedPacketReceived(r), ack)
  <2>1. s.linkState = "AwaitingLink" => s.linkingState = 4
    BY <1>7 DEF RemoteAcks, OnCryptoStartReceived, OnLinkProtocolReceived, RemoteSendingPublicKey
  <2>2. Keeps(n, r, OnAckedPacketReceived(r))
    BY <1>1, <2>1, OnAckedPacketReceivedKeeps DEF Keeps
  <2>3. Keeps(n, s, OnAckedPacketReceived(r))
    BY <1>1, <2>2, KeepsTwice
  <2> QED
    BY <1>4, <1>7, <2>3, TransmitKept DEF s
<1>8. CASE Become(n, r)
  BY <1>1, <1>8, BecomeKept DEF s
<1> QED
  BY <1>5, <1>6, <1>7, <1>8

LEMMA DriverStepKept ==
  ASSUME LinkInv, NEW n \in Nodes, DriverStep(n)
  PROVE  Kept
<1>1. CASE RejectFrame(n)
  BY <1>1, RestoredKeeps, BecomeKept DEF RejectFrame
<1> QED
  BY <1>1, ProcessAckKept, ProcessPacketKept, ProcessAckedPacketKept DEF DriverStep

----------------------------------------------------------------------------
(* The steps of a host *)

\* A host opens sessions at the first stage, where it has nothing to lose.
LEMMA OpenSessionKeeps ==
  ASSUME NEW h \in Hosts, NEW s, NodeInv(h, s), s.linkState = "AwaitingLink",
         s.linkingState = 0, NEW id \in Sessions
  PROVE  /\ Keeps(h, s, [NewSession(s, id) EXCEPT !.sessionStamped = TRUE])
         /\ [NewSession(s, id) EXCEPT !.sessionStamped = TRUE].session = id
         /\ [NewSession(s, id) EXCEPT !.sessionStamped = TRUE].enc = ClearEncoder
<1> DEFINE u == ClearSession(s)
           t == [u EXCEPT !.session = id, !.sessionStamped = TRUE]
<1>1. u \in NodeStates /\ Cleared(s, u) /\ u.inbox = s.inbox
  BY ClearSessionType DEF NodeInv
<1>2. [NewSession(s, id) EXCEPT !.sessionStamped = TRUE] = t
  BY <1>1 DEF NewSession, NodeStates
<1> HIDE DEF u
<1>3. t \in NodeStates
  BY <1>1 DEF NodeStates, Sessions
<1>4. /\ t.enc = ClearEncoder /\ t.kx.stage \in {"Clear", "LocalKey"}
      /\ t.samples = 0 /\ t.goodCount = 0 /\ t.txn = ClearTransaction
      /\ t.linkState = "AwaitingLink" /\ t.linkingState = 0 /\ t.session = id
      /\ t.status = s.status /\ t.out = s.out /\ t.inbox = s.inbox
  BY <1>1 DEF Cleared, NodeStates
<1>5. PacketsInv(t)
  BY <1>4, PacketsKept DEF NodeInv
<1>6. h \notin Remotes
  BY RoleAssumption
<1>7. ClearEncoder.state # "FullPower" /\ ClearEncoder.block.token = None
  BY DEF ClearEncoder, ClearBlock
<1> HIDE DEF t
<1>8. Keeps(h, s, t)
  BY <1>3, <1>4, <1>5, <1>6, <1>7 DEF Keeps, NodeInv, CipherInv, FreshInv, Frozen
<1> QED
  BY <1>2, <1>4, <1>8

\* An attempt given up is cleared, on a host and on a remote.
LEMMA StartOverKeeps ==
  ASSUME NEW n \in Nodes, NEW s, NodeInv(n, s), s.linkState = "AwaitingLink"
  PROVE  Keeps(n, s, SetLinkingState(ClearSession(s), 0))
<1> DEFINE u == ClearSession(s)
           t == SetLinkingState(u, 0)
<1>1. u \in NodeStates /\ Cleared(s, u) /\ u.inbox = s.inbox
  BY ClearSessionType DEF NodeInv
<1> HIDE DEF u
<1>2. t \in NodeStates
  BY <1>1, SetLinkingStateType
<1>3. /\ t.enc = ClearEncoder /\ t.kx.stage \in {"Clear", "LocalKey"}
      /\ t.samples = 0 /\ t.goodCount = 0 /\ t.txn = ClearTransaction
      /\ t.linkState = "AwaitingLink" /\ t.linkingState = 0 /\ t.session = INVALID_SESSION
      /\ t.status = s.status /\ t.out = s.out /\ t.inbox = s.inbox
  BY <1>1 DEF Cleared, NodeStates, SetLinkingState
<1>4. PacketsInv(t)
  BY <1>3, PacketsKept DEF NodeInv
<1>5. ClearEncoder.state # "FullPower" /\ ClearEncoder.block.token = None
  BY DEF ClearEncoder, ClearBlock
<1> HIDE DEF t
<1>6. Keeps(n, s, t)
  BY <1>2, <1>3, <1>4, <1>5
     DEF Keeps, NodeInv, CipherInv, FreshInv, Frozen, HasSession, HasSessionId
<1> QED
  BY <1>6 DEF t, u

\* The IV is set on the way to stage 2, to the session and the two ids.
LEMMA SetIvKeeps ==
  ASSUME NEW n \in Nodes, NEW s, NodeInv(n, s), s.linkState = "AwaitingLink",
         NEW id1, NEW id2,
         LinkIvOf(n, s) = [session |-> s.session, id1 |-> id1, id2 |-> id2]
  PROVE  Keeps(n, s, [SetLinkingState(s, 2) EXCEPT !.enc = SetIvData(@, s.session, id1, id2)])
<1> DEFINE e == SetIvData(s.enc, s.session, id1, id2)
           u == SetLinkingState(s, 2)
           t == [u EXCEPT !.enc = e]
<1>1. LinkIvOf(n, s) \in Ivs
  BY DEF LinkIvOf, Ivs, NodeInv, NodeStates
<1>2. /\ e \in Encoders /\ e.state = s.enc.state /\ e.block.token = s.enc.block.token
      /\ e.block.iv = LinkIvOf(n, s)
  BY <1>1 DEF SetIvData, NodeInv, NodeStates, Encoders, CipherBlocks
<1>3. /\ u \in NodeStates /\ u.enc = s.enc /\ u.linkingState = 2
      /\ u.linkState = s.linkState /\ u.session = s.session /\ u.partner = s.partner
      /\ u.status = s.status /\ u.out = s.out /\ u.inbox = s.inbox
  BY SetLinkingStateType DEF SetLinkingState, NodeInv, NodeStates
<1>4. [SetLinkingState(s, 2) EXCEPT !.enc = SetIvData(@, s.session, id1, id2)] = t
  BY <1>3
<1> HIDE DEF e, u
<1>5. /\ t \in NodeStates /\ t.enc = e /\ t.linkingState = 2
      /\ t.linkState = s.linkState /\ t.session = s.session /\ t.partner = s.partner
      /\ t.status = s.status /\ t.out = s.out /\ t.inbox = s.inbox
  BY <1>2, <1>3 DEF NodeStates
<1>6. PacketsInv(t)
  BY <1>5, PacketsKept DEF NodeInv
<1>7. LinkIvOf(n, t) = LinkIvOf(n, s)
  BY <1>5 DEF LinkIvOf
<1> HIDE DEF t
<1>8. Keeps(n, s, t)
  BY <1>2, <1>5, <1>6, <1>7 DEF Keeps, NodeInv, CipherInv, FreshInv, Frozen
<1> QED
  BY <1>4, <1>8

\* The key is set on the way from stage 3 to stage 4.
LEMMA SetKeyKeeps ==
  ASSUME NEW n \in Nodes, NEW s, NodeInv(n, s), s.linkState = "AwaitingLink",
         s.linkingState = 3
  PROVE  Keeps(n, s, [SetLinkingState(s, 4) EXCEPT
                        !.kx = GenerateSharedKey(@),
                        !.enc = SetSecretKey(@, SharedKey(s.kx))])
<1> DEFINE e == SetSecretKey(s.enc, SharedKey(s.kx))
           x == GenerateSharedKey(s.kx)
           u == SetLinkingState(s, 4)
           t == [u EXCEPT !.kx = x, !.enc = e]
<1>1. SharedKey(s.kx) \in SUBSET (KeyPairs \cup {None}) /\ x \in KeyExchangers
  BY DEF SharedKey, GenerateSharedKey, NodeInv, NodeStates, KeyExchangers
<1>2. /\ e \in Encoders /\ e.state = "AllReady" /\ e.block.token = s.enc.block.token
      /\ e.block.iv = s.enc.block.iv
  BY <1>1 DEF SetSecretKey, NodeInv, NodeStates, Encoders, CipherBlocks
<1>3. /\ u \in NodeStates /\ u.enc = s.enc /\ u.kx = s.kx /\ u.linkingState = 4
      /\ u.linkState = s.linkState /\ u.session = s.session /\ u.partner = s.partner
      /\ u.status = s.status /\ u.out = s.out /\ u.inbox = s.inbox
  BY SetLinkingStateType DEF SetLinkingState, NodeInv, NodeStates
<1>4. [SetLinkingState(s, 4) EXCEPT !.kx = GenerateSharedKey(@),
                                    !.enc = SetSecretKey(@, SharedKey(s.kx))] = t
  BY <1>3
<1> HIDE DEF e, x, u
<1>5. /\ t \in NodeStates /\ t.enc = e /\ t.linkingState = 4
      /\ t.linkState = s.linkState /\ t.session = s.session /\ t.partner = s.partner
      /\ t.status = s.status /\ t.out = s.out /\ t.inbox = s.inbox
  BY <1>1, <1>2, <1>3 DEF NodeStates
<1>6. PacketsInv(t)
  BY <1>5, PacketsKept DEF NodeInv
<1>7. LinkIvOf(n, t) = LinkIvOf(n, s)
  BY <1>5 DEF LinkIvOf
<1> HIDE DEF t
<1>8. Keeps(n, s, t)
  BY <1>2, <1>5, <1>6, <1>7 DEF Keeps, NodeInv, CipherInv, FreshInv, Frozen
<1> QED
  BY <1>4, <1>8

\* The packets of the handshake: who they are for and what they carry.
LEMMA HandshakePacketType ==
  ASSUME NEW p \in Packets, SoundPacket(p),
         NEW peer \in Nodes \cup {None}, NEW key \in KeyPairs \cup {None},
         NEW seal \in CipherBlocks \cup {None}
  PROVE  /\ [p EXCEPT !.peer = peer] \in Packets /\ SoundPacket([p EXCEPT !.peer = peer])
         /\ [p EXCEPT !.key = key] \in Packets /\ SoundPacket([p EXCEPT !.key = key])
         /\ [p EXCEPT !.seal = seal] \in Packets /\ SoundPacket([p EXCEPT !.seal = seal])
BY DEF Packets, SoundPacket

\* The answer of a host to a clock request, with the transaction closed.
LEMMA HostAnswersClockKept ==
  ASSUME LinkInv, NEW h \in Hosts, node[h].linkState # "AwaitingLink",
         NEW sub \in {"NtpReply", "NtpTuneReply"}, HostAnswersClock(h, sub)
  PROVE  Kept
<1> DEFINE s == node[h]
<1>1. NodeInv(h, s) /\ h \in Nodes
  BY DEF LinkInv, Nodes
<1>2. PICK good \in BOOLEAN :
        Become(h, RequestSendPacket([OnEstimationReceived(s, good) EXCEPT !.txn = ClearTransaction],
                                    Packet("Short", sub, s.txn.id)))
  BY DEF HostAnswersClock
<1> DEFINE count == IF HostIsSynced(s) THEN s.goodCount
                    ELSE IF good THEN s.goodCount + 1 ELSE 0
           u == [s EXCEPT !.goodCount = count]
           v == [u EXCEPT !.txn = ClearTransaction]
           p == Packet("Short", sub, s.txn.id)
<1>3. count \in 0..(MinClockSamples + 1)
  BY <1>1, SampleAssumption DEF HostIsSynced, NodeInv, NodeStates
<1>4. OnEstimationReceived(s, good) = u
  BY DEF OnEstimationReceived
<1>5. p \in Packets /\ SoundPacket(p)
  <2>1. s.txn.id \in Ids
    BY <1>1 DEF NodeInv, NodeStates, Transactions
  <2> HIDE DEF s
  <2> QED
    BY <2>1, PacketType DEF Headers, SubHeaders
<1>6. Become(h, RequestSendPacket(v, p))
  BY <1>2, <1>4
<1> HIDE DEF count, p
<1>7. /\ u \in NodeStates
      /\ u.linkState = s.linkState /\ u.session = s.session /\ u.partner = s.partner
      /\ u.enc = s.enc /\ u.status = s.status /\ u.out = s.out /\ u.inbox = s.inbox
  BY <1>1, <1>3 DEF NodeInv, NodeStates
<1> HIDE DEF u
<1>8. Keeps(h, s, u)
  BY <1>1, <1>7, InLinkKeeps
<1>9. Keeps(h, u, v) /\ v.enc = s.enc /\ v.linkState = s.linkState
  BY <1>1, <1>7, <1>8, TransactionKeeps, ClearedTypes DEF Keeps
<1> HIDE DEF v
<1>10. Keeps(h, v, RequestSendPacket(v, p))
  BY <1>1, <1>5, <1>9, RequestSendPacketKeeps DEF Keeps
<1>11. Keeps(h, s, v)
  BY <1>1, <1>7, <1>8, <1>9, KeepsTwice
<1>12. Keeps(h, s, RequestSendPacket(v, p))
  BY <1>1, <1>9, <1>10, <1>11, KeepsTwice
<1> QED
  BY <1>1, <1>6, <1>12, BecomeKept

\* The stages of AwaitingLink on a host.
LEMMA HostAwaitingLinkKept ==
  ASSUME LinkInv, NEW h \in Hosts,
         \/ HostOpensSession(h) \/ HostValidatesPartner(h) \/ HostProcessesPKC(h)
         \/ HostFailsPKC(h) \/ HostCancelsPKC(h)
  PROVE  Kept
<1> DEFINE s == node[h]
<1>1. NodeInv(h, s) /\ h \in Nodes
  BY DEF LinkInv, Nodes
<1>2. s.linkState = "AwaitingLink"
  BY DEF HostOpensSession, HostValidatesPartner, HostProcessesPKC, HostFailsPKC, HostCancelsPKC,
         HostIs, AtStage, Serving
<1>3. CASE HostOpensSession(h)
  <2>1. s.linkingState = 0
    BY <1>3 DEF HostOpensSession, HostIs, AtStage, BroadcastingOpenSession
  <2> DEFINE t(id) == [NewSession(s, id) EXCEPT !.sessionStamped = TRUE]
  <2>2. PICK id \in Sessions :
          Become(h, t(id)) \/ Become(h, RequestSendPacket(t(id), IdBroadcast(h, t(id))))
    BY <1>3 DEF HostOpensSession
  <2>3. Keeps(h, s, t(id)) /\ t(id).session = id /\ t(id).enc = ClearEncoder
    BY <1>1, <1>2, <2>1, OpenSessionKeeps
  <2> HIDE DEF t
  <2>4. IdBroadcast(h, t(id)) \in Packets /\ SoundPacket(IdBroadcast(h, t(id)))
    <3>1. /\ Packet("Short", "HostIdBroadcast", t(id).session) \in Packets
          /\ SoundPacket(Packet("Short", "HostIdBroadcast", t(id).session))
      BY <1>1, <2>3, PacketType DEF Headers, SubHeaders, Sessions
    <3> QED
      BY <1>1, <1>2, <3>1, HandshakePacketType DEF IdBroadcast
  <2>5. Keeps(h, t(id), RequestSendPacket(t(id), IdBroadcast(h, t(id))))
    BY <1>1, <2>3, <2>4, RequestSendPacketKeeps DEF Keeps
  <2>6. RequestSendPacket(t(id), IdBroadcast(h, t(id))).enc = ClearEncoder
    BY <2>3 DEF RequestSendPacket, Keeps, NodeInv, NodeStates
  <2>7. Keeps(h, s, RequestSendPacket(t(id), IdBroadcast(h, t(id))))
    BY <2>5, <2>6 DEF Keeps, Frozen
  <2> QED
    BY <1>1, <2>2, <2>3, <2>7, BecomeKept
<1>4. CASE HostValidatesPartner(h)
  <2>1. LinkIvOf(h, s) = [session |-> s.session, id1 |-> h, id2 |-> s.partner]
    BY DEF LinkIvOf
  <2>2. Become(h, [SetLinkingState(s, 2) EXCEPT !.enc = SetIvData(@, s.session, h, s.partner)])
    BY <1>4 DEF HostValidatesPartner, HostSendingPublicKey
  <2> QED
    BY <1>1, <1>2, <2>1, <2>2, SetIvKeeps, BecomeKept
<1>5. CASE HostProcessesPKC(h)
  <2>1. s.linkingState = 3
    BY <1>5 DEF HostProcessesPKC, HostIs, AtStage, ProcessingPKC
  <2>2. Become(h, [SetLinkingState(s, 4) EXCEPT !.kx = GenerateSharedKey(@),
                                                !.enc = SetSecretKey(@, SharedKey(s.kx))])
    BY <1>5 DEF HostProcessesPKC, GotSharedKey
  <2> QED
    BY <1>1, <1>2, <2>1, <2>2, SetKeyKeeps, BecomeKept
<1>6. CASE HostFailsPKC(h) \/ HostCancelsPKC(h)
  <2>1. Become(h, SetLinkingState(ClearSession(s), 0))
    BY <1>6 DEF HostFailsPKC, HostCancelsPKC, RestartAwaitingLink, BroadcastingOpenSession
  <2> QED
    BY <1>1, <1>2, <2>1, StartOverKeeps, BecomeKept
<1> QED
  BY <1>3, <1>4, <1>5, <1>6

\* The packets a host sends.
LEMMA HostSendsKept ==
  ASSUME LinkInv, NEW h \in Hosts,
         \/ HostBroadcasts(h) \/ HostSendsPublicKey(h) \/ HostRequestsCryptoStart(h)
         \/ HostPings(h) \/ HostRequestsInfo(h) \/ HostSendsInfo(h)
         \/ HostRequestsSwitchOver(h)
  PROVE  Kept
<1> DEFINE s == node[h]
<1>1. NodeInv(h, s) /\ h \in Nodes
  BY DEF LinkInv, Nodes
<1>2. /\ s.session \in Ids /\ s.partner \in Nodes \cup {None}
      /\ s.kx.local \in KeyPairs \cup {None} /\ s.enc.block \in CipherBlocks
  BY <1>1 DEF NodeInv, NodeStates, KeyExchangers, Encoders
<1>3. ASSUME NEW p \in Packets, SoundPacket(p), Become(h, RequestSendPacket(s, p)) PROVE Kept
  BY <1>1, <1>3, RequestSendPacketKeeps, BecomeKept
<1>4. SwitchOverRequest(s) \in Packets /\ SoundPacket(SwitchOverRequest(s))
  <2>1. /\ Packet("ShortWithAck", None, s.session) \in Packets
        /\ SoundPacket(Packet("ShortWithAck", None, s.session))
    BY <1>2, PacketType, NoneAssumption DEF Headers, SubHeaders, Sessions
  <2> QED
    BY <1>1, <1>2, <2>1, HandshakePacketType DEF SwitchOverRequest
<1>5. CASE HostBroadcasts(h)
  <2>1. s.session # INVALID_SESSION /\ Become(h, RequestSendPacket(s, IdBroadcast(h, s)))
    BY <1>5 DEF HostBroadcasts, HasSessionId
  <2> HIDE DEF s
  <2>2. IdBroadcast(h, s) \in Packets /\ SoundPacket(IdBroadcast(h, s))
    <3>1. /\ Packet("Short", "HostIdBroadcast", s.session) \in Packets
          /\ SoundPacket(Packet("Short", "HostIdBroadcast", s.session))
      BY <1>1, <1>2, <2>1, PacketType DEF Headers, SubHeaders, Sessions
    <3> QED
      BY <1>1, <1>2, <3>1, HandshakePacketType DEF IdBroadcast
  <2> QED
    BY <1>3, <2>1, <2>2
<1>6. CASE HostSendsPublicKey(h)
  <2>1. Become(h, RequestSendPacket(s, HostPublicKey(s)))
    BY <1>6 DEF HostSendsPublicKey
  <2> HIDE DEF s
  <2>2. HostPublicKey(s) \in Packets /\ SoundPacket(HostPublicKey(s))
    <3>1. /\ Packet("Long", "HostPublicKey", s.session) \in Packets
          /\ SoundPacket(Packet("Long", "HostPublicKey", s.session))
      BY <1>2, PacketType DEF Headers, SubHeaders, Sessions
    <3> QED
      BY <1>1, <1>2, <3>1, HandshakePacketType DEF HostPublicKey
  <2> QED
    BY <1>3, <2>1, <2>2
<1>7. CASE HostRequestsCryptoStart(h)
  <2>1. Become(h, RequestSendPacket(s, CryptoStartRequest(s)))
    BY <1>7 DEF HostRequestsCryptoStart
  <2> HIDE DEF s
  <2>2. SwitchOverRequest(s) \in Packets /\ SoundPacket(SwitchOverRequest(s))
    BY <1>4
  <2>3. CryptoStartRequest(s) \in Packets /\ SoundPacket(CryptoStartRequest(s))
    BY <1>2, <2>2, HandshakePacketType DEF CryptoStartRequest
  <2> QED
    BY <1>3, <2>1, <2>3
<1>8. CASE HostPings(h)
  <2>1. PICK id \in RequestIds : Become(h, RequestSendPacket(s, Packet("Ping", None, id)))
    BY <1>8 DEF HostPings
  <2> QED
    BY <1>3, <2>1, IdAssumption, NoneAssumption, PacketType DEF Headers, SubHeaders
<1>9. CASE HostRequestsInfo(h)
  BY <1>3, <1>9, IdAssumption, PacketType DEF HostRequestsInfo, Headers, SubHeaders
<1>10. CASE HostSendsInfo(h)
  BY <1>3, <1>10, IdAssumption, PacketType DEF HostSendsInfo, Headers, SubHeaders
<1>11. CASE HostRequestsSwitchOver(h)
  <2>1. Become(h, RequestSendPacket(s, SwitchOverRequest(s)))
    BY <1>11 DEF HostRequestsSwitchOver
  <2> QED
    BY <1>3, <1>4, <2>1
<1> QED
  BY <1>5, <1>6, <1>7, <1>8, <1>9, <1>10, <1>11

LEMMA HostStepKept ==
  ASSUME LinkInv, NEW h \in Nodes, HostStep(h)
  PROVE  Kept
<1> DEFINE s == node[h]
<1>1. NodeInv(h, s)
  BY DEF LinkInv
<1>2. h \in Hosts
  BY DEF HostStep, HostOpensSession, HostBroadcasts, HostValidatesPartner, HostSendsPublicKey,
         HostProcessesPKC, HostFailsPKC, HostCancelsPKC, HostRequestsCryptoStart, HostPings,
         HostSetsLatency, HostRequestsInfo, HostHasInfo, HostSendsInfo, HostSyncsClock,
         HostClockSynced, HostRequestsSwitchOver, HostTunesClock, HostIs
<1>3. CASE HostSetsLatency(h) \/ HostHasInfo(h)
  <2>1. PICK stage \in {1, 2} : Become(h, [s EXCEPT !.infoStage = stage])
    BY <1>3 DEF HostSetsLatency, HostHasInfo
  <2>2. s.linkState # "AwaitingLink" /\ s.hasRssi \in BOOLEAN /\ stage \in 0..2
    BY <1>1, <1>3 DEF HostSetsLatency, HostHasInfo, HostIs, AtStage, Serving, NodeInv, NodeStates
  <2>3. [s EXCEPT !.infoStage = stage] = [s EXCEPT !.infoStage = stage, !.hasRssi = s.hasRssi]
    BY <1>1 DEF NodeInv, NodeStates
  <2> QED
    BY <1>1, <2>1, <2>2, <2>3, InfoStageKeeps, BecomeKept
<1>4. CASE HostSyncsClock(h) \/ HostTunesClock(h)
  <2>1. s.linkState # "AwaitingLink"
    BY <1>4 DEF HostSyncsClock, HostTunesClock, HostIs, AtStage, Serving
  <2>2. HostAnswersClock(h, "NtpReply") \/ HostAnswersClock(h, "NtpTuneReply")
    BY <1>4 DEF HostSyncsClock, HostTunesClock
  <2> QED
    BY <1>2, <2>1, <2>2, HostAnswersClockKept
<1>5. CASE HostClockSynced(h)
  <2>1. s.linkState # "AwaitingLink" /\ Become(h, SetLinkingState(s, 2)) /\ 2 \in 0..5
    BY <1>5 DEF HostClockSynced, HostIs, AtStage, Serving, LinkProtocolSwitchOver
  <2> QED
    BY <1>1, <2>1, LinkingStateKeeps, BecomeKept
<1> QED
  BY <1>2, <1>3, <1>4, <1>5, HostAwaitingLinkKept, HostSendsKept DEF HostStep

----------------------------------------------------------------------------
(* The steps of a remote *)

\* The stages of AwaitingLink on a remote.
LEMMA RemoteAwaitingLinkKept ==
  ASSUME LinkInv, NEW r \in Remotes,
         \/ RemoteValidatesPartner(r) \/ RemoteProcessesPKC(r)
         \/ RemoteFailsPKC(r) \/ RemoteCancelsPKC(r)
  PROVE  Kept
<1> DEFINE s == node[r]
<1>1. NodeInv(r, s) /\ r \in Nodes
  BY DEF LinkInv, Nodes
<1>2. s.linkState = "AwaitingLink"
  BY DEF RemoteValidatesPartner, RemoteProcessesPKC, RemoteFailsPKC, RemoteCancelsPKC,
         RemoteIs, AtStage, Serving
<1>3. CASE RemoteValidatesPartner(r)
  <2>1. LinkIvOf(r, s) = [session |-> s.session, id1 |-> s.partner, id2 |-> r]
    BY RoleAssumption DEF LinkIvOf
  <2>2. Become(r, [SetLinkingState(s, 2) EXCEPT !.enc = SetIvData(@, s.session, s.partner, r)])
    BY <1>3 DEF RemoteValidatesPartner, AwaitingHostPublicKey
  <2> QED
    BY <1>1, <1>2, <2>1, <2>2, SetIvKeeps, BecomeKept
<1>4. CASE RemoteProcessesPKC(r)
  <2>1. s.linkingState = 3
    BY <1>4 DEF RemoteProcessesPKC, RemoteIs, AtStage, ProcessingSharedKey
  <2>2. Become(r, [SetLinkingState(s, 4) EXCEPT !.kx = GenerateSharedKey(@),
                                                !.enc = SetSecretKey(@, SharedKey(s.kx))])
    BY <1>4 DEF RemoteProcessesPKC, RemoteSendingPublicKey
  <2> QED
    BY <1>1, <1>2, <2>1, <2>2, SetKeyKeeps, BecomeKept
<1>5. CASE RemoteFailsPKC(r) \/ RemoteCancelsPKC(r)
  <2>1. Become(r, SetLinkingState(ClearSession(s), 0))
    BY <1>5 DEF RemoteFailsPKC, RemoteCancelsPKC, SearchAgain, SearchingForHost
  <2> QED
    BY <1>1, <1>2, <2>1, StartOverKeeps, BecomeKept
<1> QED
  BY <1>3, <1>4, <1>5

\* The packets a remote sends.
LEMMA RemoteSendsKept ==
  ASSUME LinkInv, NEW r \in Remotes,
         \/ RemoteSearches(r) \/ RemoteRequestsPKC(r) \/ RemoteSendsPublicKey(r)
         \/ RemoteSendsInfo(r)
  PROVE  Kept
<1> DEFINE s == node[r]
<1>1. NodeInv(r, s) /\ r \in Nodes
  BY DEF LinkInv, Nodes
<1>2. /\ s.session \in Ids /\ s.partner \in Nodes \cup {None}
      /\ s.kx.local \in KeyPairs \cup {None} /\ s.enc.block \in CipherBlocks
  BY <1>1 DEF NodeInv, NodeStates, KeyExchangers, Encoders
<1>3. ASSUME NEW p \in Packets, SoundPacket(p), Become(r, RequestSendPacket(s, p)) PROVE Kept
  BY <1>1, <1>3, RequestSendPacketKeeps, BecomeKept
<1>4. CASE RemoteSearches(r)
  <2>1. Become(r, RequestSendPacket(s, LinkDiscovery(s)))
    BY <1>4 DEF RemoteSearches
  <2> HIDE DEF s
  <2>2. LinkDiscovery(s) \in Packets /\ SoundPacket(LinkDiscovery(s))
    BY <1>2, PacketType DEF LinkDiscovery, Headers, SubHeaders
  <2> QED
    BY <1>3, <2>1, <2>2
<1>5. CASE RemoteRequestsPKC(r)
  <2>1. Become(r, RequestSendPacket(s, PKCStartRequest(r, s)))
    BY <1>5 DEF RemoteRequestsPKC
  <2> HIDE DEF s
  <2>2. PKCStartRequest(r, s) \in Packets /\ SoundPacket(PKCStartRequest(r, s))
    <3>1. /\ Packet("Short", "PkcStartRequest", s.session) \in Packets
          /\ SoundPacket(Packet("Short", "PkcStartRequest", s.session))
      BY <1>2, PacketType DEF Headers, SubHeaders
    <3> QED
      BY <1>1, <1>2, <3>1, HandshakePacketType DEF PKCStartRequest
  <2> QED
    BY <1>3, <2>1, <2>2
<1>6. CASE RemoteSendsPublicKey(r)
  <2>1. Become(r, RequestSendPacket(s, RemotePublicKey(s)))
    BY <1>6 DEF RemoteSendsPublicKey
  <2> HIDE DEF s
  <2>2. RemotePublicKey(s) \in Packets /\ SoundPacket(RemotePublicKey(s))
    <3>1. /\ Packet("Long", "RemotePublicKey", s.session) \in Packets
          /\ SoundPacket(Packet("Long", "RemotePublicKey", s.session))
      BY <1>2, PacketType DEF Headers, SubHeaders
    <3> QED
      BY <1>1, <1>2, <3>1, HandshakePacketType DEF RemotePublicKey
  <2> QED
    BY <1>3, <2>1, <2>2
<1>7. CASE RemoteSendsInfo(r)
  BY <1>3, <1>7, IdAssumption, PacketType DEF RemoteSendsInfo, Headers, SubHeaders
<1> QED
  BY <1>4, <1>5, <1>6, <1>7

LEMMA RemoteStepKept ==
  ASSUME LinkInv, NEW r \in Nodes, RemoteStep(r)
  PROVE  Kept
<1> DEFINE s == node[r]
<1>1. NodeInv(r, s)
  BY DEF LinkInv
<1>2. r \in Remotes
  BY DEF RemoteStep, RemoteSearches, RemoteValidatesPartner, RemoteRequestsPKC,
         RemoteProcessesPKC, RemoteFailsPKC, RemoteCancelsPKC, RemoteSendsPublicKey,
         RemoteSendsInfo, RemoteHasInfo, RemoteSyncsClock, RemoteSwitchesOver,
         RemoteTunesClock, RemoteIs
<1>3. CASE RemoteHasInfo(r) \/ RemoteSwitchesOver(r)
  <2>1. PICK stage \in {1, 3} : Become(r, SetLinkingState(s, stage))
    BY <1>3 DEF RemoteHasInfo, RemoteSwitchesOver
  <2>2. s.linkState # "AwaitingLink" /\ stage \in 0..5
    BY <1>3 DEF RemoteHasInfo, RemoteSwitchesOver, RemoteIs, AtStage, Serving
  <2> QED
    BY <1>1, <2>1, <2>2, LinkingStateKeeps, BecomeKept
<1>4. CASE RemoteSyncsClock(r) \/ RemoteTunesClock(r)
  <2>1. s.linkState # "AwaitingLink"
    BY <1>4 DEF RemoteSyncsClock, RemoteTunesClock, RemoteIs, AtStage, Serving
  <2>2. \/ Become(r, [s EXCEPT !.txn = ClearTransaction])
        \/ \E id \in RequestIds, sub \in {"NtpRequest", "NtpTuneRequest"} :
             Become(r, RequestClock(s, sub, id))
    BY <1>4 DEF RemoteSyncsClock, RemoteTunesClock
  <2>3. CASE Become(r, [s EXCEPT !.txn = ClearTransaction])
    BY <1>1, <2>1, <2>3, ClearedTypes, TransactionKeeps, BecomeKept
  <2>4. ASSUME NEW id \in RequestIds, NEW sub \in {"NtpRequest", "NtpTuneRequest"},
               Become(r, RequestClock(s, sub, id))
        PROVE  Kept
    <3> DEFINE u == [s EXCEPT !.txn = [stage |-> "Requested", id |-> id]]
               p == Packet("Short", sub, id)
    <3>1. RequestClock(s, sub, id) = RequestSendPacket(u, p)
      BY DEF RequestClock
    <3>2. [stage |-> "Requested", id |-> id] \in Transactions
      BY IdAssumption DEF Transactions
    <3>3. Keeps(r, s, u) /\ u.enc = s.enc /\ u.linkState = s.linkState
      BY <1>1, <2>1, <3>2, TransactionKeeps
    <3>4. p \in Packets /\ SoundPacket(p)
      BY IdAssumption, PacketType DEF Headers, SubHeaders
    <3> HIDE DEF u, p
    <3>5. Keeps(r, u, RequestSendPacket(u, p))
      BY <3>3, <3>4, RequestSendPacketKeeps DEF Keeps
    <3>6. Keeps(r, s, RequestSendPacket(u, p))
      BY <3>3, <3>5, KeepsTwice
    <3> QED
      BY <2>4, <3>1, <3>6, BecomeKept
  <2> QED
    BY <2>2, <2>3, <2>4
<1> QED
  BY <1>2, <1>3, <1>4, RemoteAwaitingLinkKept, RemoteSendsKept DEF RemoteStep

----------------------------------------------------------------------------
(* The theorems *)

LEMMA InitLinkInv == Init => LinkInv
<1> SUFFICES ASSUME Init, NEW n \in Nodes PROVE NodeInv(n, InitialNode)
  BY DEF Init, LinkInv
<1> QED
  BY InitialNodeType DEF InitialNode, NodeInv, PacketsInv, CipherInv, FreshInv

LEMMA NextKept == LinkInv /\ [Next]_vars => Kept
<1> SUFFICES ASSUME LinkInv, [Next]_vars PROVE Kept
  OBVIOUS
<1>1. CASE UNCHANGED vars
  BY <1>1 DEF vars, Kept, LinkInv, Frozen
<1>2. CASE Next
  BY <1>2, ManagerStepKept, DriverStepKept, SendStepKept, LinkStepKept, HostStepKept,
     RemoteStepKept DEF Next
<1> QED
  BY <1>1, <1>2

\* The invariant holds of every behaviour, whatever packets are lost and
\* whenever a node restarts, renews its key pair or gives up.
THEOREM LinkInvariant == Spec => []LinkInv
<1>1. LinkInv /\ [Next]_vars => LinkInv'
  BY NextKept DEF Kept
<1> QED
  BY <1>1, InitLinkInv, PTL DEF Spec

\* The record of every node keeps its type: no packet, from any node and in
\* any state, takes a stage, a counter or an id out of its range.
THEOREM TypeCorrect == Spec => []TypeOK
<1>1. LinkInv => TypeOK
  BY DEF LinkInv, NodeInv, TypeOK
<1> QED
  BY <1>1, LinkInvariant, PTL

\* A node that is linking or linked encrypts under the IV of its link, and
\* under its token once linked: the encoder SetEnabled and SetToken find is
\* always the one this attempt has prepared.
THEOREM LinkIsEncrypted == Spec => []EncryptedLink
<1>1. LinkInv => EncryptedLink
  BY DEF LinkInv, NodeInv, CipherInv, EncryptedLink, InLink, LinkIv, LinkIvOf
<1> QED
  BY <1>1, LinkInvariant, PTL

\* An attempt starts from nothing, whatever ended the one before it.
THEOREM AttemptIsFresh == Spec => []FreshAttempt
<1>1. LinkInv => FreshAttempt
  BY DEF LinkInv, NodeInv, FreshInv, FreshAttempt
<1> QED
  BY <1>1, LinkInvariant, PTL

\* No step, of any node, changes a cipher in use other than by clearing it or
\* by giving it the token of the link.
THEOREM CipherStaysFrozen == Spec => CipherIsFrozen
<1>1. LinkInv /\ [Next]_vars =>
        [\A n \in Nodes :
           node[n].enc.state = "FullPower" =>
             \/ node'[n].enc \in {node[n].enc, ClearEncoder}
             \/ /\ node[n].linkState = "Linking" /\ node'[n].linkState = "Linked"
                /\ node'[n].enc = SetToken(node[n].enc)]_vars
  BY NextKept DEF Kept, Frozen
<1> QED
  BY <1>1, LinkInvariant, PTL DEF Spec, CipherIsFrozen

=============================================================================
