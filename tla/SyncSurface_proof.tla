------------------------- MODULE SyncSurface_proof -------------------------
(***************************************************************************)
(* Theorems of SyncSurface, for surfaces of any size, and their proofs.    *)
(*                                                                         *)
(* What a block has held is ordered in time by After. Everything that goes *)
(* from the writer to the reader stays between what the reader holds and   *)
(* what the writer holds, and a hash the reader sends is that of something *)
(* the reader has held. If no value comes back, a hash that equals the     *)
(* writer's is then that of all three.                                     *)
(***************************************************************************)
EXTENDS SyncSurface, WellFoundedInduction, TLAPS

----------------------------------------------------------------------------
(* The inductive invariant *)

\* Surface d is e, or what e was at some time.
Past(d, e) == \A i \in Blocks : <<d[i], e[i]>> \in After

\* The cached hash is that of the data.
CrcIsFresh(s) == s.crc # None => s.crc = Crc(s.data)

\* While a block is being sent, the packet is that block.
BlockIsOut(s) ==
  SendsBlock(s) /\ s.status # "Done" => s.out \in BlockPackets /\ s.out.id = s.index

GoodWriter(s) == s \in Writers /\ CrcIsFresh(s) /\ BlockIsOut(s)

GoodReader(s) == s \in Readers /\ CrcIsFresh(s)

\* Block packet p is not behind surface d and not ahead of surface e.
Between(d, p, e) ==
  p \in BlockPackets => /\ <<d[p.id], p.payload>> \in After
                        /\ <<p.payload, e[p.id]>> \in After

\* Block packet p was written before q was.
NotAfter(p, q) ==
  p \in BlockPackets /\ q \in BlockPackets /\ p.id = q.id => <<p.payload, q.payload>> \in After

\* A reply carries the hash of what surface d is, or was.
HashOfPast(p, d) ==
  p \in Packets /\ p.kind = "UpdateFinishedReply"
    => \E e \in Surfaces : p.payload = Crc(e) /\ Past(e, d)

\* What is said of the data of the two ends and of what is on its way.
DataInv(w, r) ==
  /\ Past(r.data, w.data)
  /\ Between(r.data, r.inbox, w.data) /\ Between(r.data, w.out, w.data)
  /\ NotAfter(r.inbox, w.out)
  /\ HashOfPast(r.out, r.data) /\ HashOfPast(w.inbox, r.data)
  /\ NoValueComesBack /\ w.sync = "Synced" => r.data = w.data

PairInv ==
  /\ GoodWriter(writer) /\ GoodReader(reader) /\ joinable \in BOOLEAN
  /\ DataInv(writer, reader)

----------------------------------------------------------------------------
(* Surfaces in time *)

LEMMA PastReflexive == \A d \in Surfaces : Past(d, d)
BY WriteAssumption DEF Past, Surfaces

LEMMA PastTransitive ==
  ASSUME NEW c \in Surfaces, NEW d \in Surfaces, NEW e \in Surfaces,
         Past(c, d), Past(d, e)
  PROVE  Past(c, e)
BY WriteAssumption DEF Past, Surfaces

LEMMA PastAntisymmetric ==
  ASSUME NoValueComesBack, NEW d \in Surfaces, NEW e \in Surfaces, Past(d, e), Past(e, d)
  PROVE  d = e
<1>1. \A i \in Blocks : d[i] = e[i]
  BY DEF Past, Surfaces, NoValueComesBack
<1> QED
  BY <1>1 DEF Surfaces

\* A surface with one block moved on.
LEMMA BlockMovesOn ==
  ASSUME NEW d \in Surfaces, NEW i \in Blocks, NEW v \in Values, <<d[i], v>> \in After
  PROVE  [d EXCEPT ![i] = v] \in Surfaces /\ Past(d, [d EXCEPT ![i] = v])
BY WriteAssumption DEF Past, Surfaces

LEMMA BlocksAndKinds ==
  /\ BlockPackets \subseteq Packets
  /\ \A p \in Packets : p.kind = "Block" <=> p \in BlockPackets
  /\ \A p \in Packets : p \notin BlockPackets => p.kind \in MetaKinds /\ p.payload \in Hashes
  /\ \A p \in BlockPackets : p.id \in Blocks /\ p.payload \in Values
BY DEF BlockPackets, Packets, MetaKinds

LEMMA HashType == \A d \in Surfaces : Crc(d) \in Hashes /\ Crc(d) # None
BY NoneAssumption DEF Hashes

----------------------------------------------------------------------------
(* The operators on an end *)

\* t is s in everything that is on its way.
Alike(s, t) == t.data = s.data /\ t.out = s.out /\ t.inbox = s.inbox /\ t.status = s.status

LEMMA WriterUpdateHash ==
  ASSUME NEW s, GoodWriter(s)
  PROVE  /\ GoodWriter(UpdateHash(s)) /\ Alike(s, UpdateHash(s))
         /\ UpdateHash(s).crc = Crc(s.data) /\ UpdateHash(s).sync = s.sync
         /\ UpdateHash(s).writerState = s.writerState
BY HashType DEF GoodWriter, Writers, CrcIsFresh, BlockIsOut, SendsBlock, UpdateHash, Alike

LEMMA ReaderUpdateHash ==
  ASSUME NEW s, GoodReader(s)
  PROVE  /\ GoodReader(UpdateHash(s)) /\ Alike(s, UpdateHash(s))
         /\ UpdateHash(s).crc = Crc(s.data) /\ UpdateHash(s).sync = s.sync
BY HashType DEF GoodReader, Readers, CrcIsFresh, UpdateHash, Alike

LEMMA UpdateWriterStateKeeps ==
  ASSUME NEW s, GoodWriter(s), NEW newState \in SyncStateEnum
  PROVE  /\ GoodWriter(UpdateWriterState(s, newState))
         /\ Alike(s, UpdateWriterState(s, newState))
         /\ UpdateWriterState(s, newState).sync = newState
<1> DEFINE e == Enter(s, newState)
           t == WriterStateUpdated(e)
<1>1. /\ e \in Writers /\ CrcIsFresh(e) /\ Alike(s, e) /\ e.sync = newState
  BY DEF GoodWriter, Writers, CrcIsFresh, Enter, Alike
<1>2. t \in Writers /\ CrcIsFresh(t) /\ Alike(e, t) /\ t.sync = newState /\ ~SendsBlock(t)
  <2> HIDE DEF e
  <2> QED
    BY <1>1 DEF WriterStateUpdated, UpdateSyncingState, Disable, Writers, SyncWriterState,
         CrcIsFresh, Alike, SendsBlock
<1>3. GoodWriter(t) /\ Alike(s, t) /\ t.sync = newState
  BY <1>1, <1>2 DEF GoodWriter, BlockIsOut, Alike
<1> QED
  BY <1>3 DEF UpdateWriterState, Alike

LEMMA UpdateReaderStateKeeps ==
  ASSUME NEW s, GoodReader(s), NEW newState \in SyncStateEnum
  PROVE  /\ GoodReader(UpdateReaderState(s, newState))
         /\ Alike(s, UpdateReaderState(s, newState))
<1> DEFINE e == Enter(s, newState)
           g == [e EXCEPT !.good = TRUE]
<1>1. GoodReader(e) /\ Alike(s, e)
  BY DEF GoodReader, Readers, CrcIsFresh, Enter, Alike
<1>2. GoodReader(UpdateHash(e)) /\ Alike(e, UpdateHash(e))
  BY <1>1, ReaderUpdateHash
<1>3. GoodReader(Enter(g, "Syncing")) /\ Alike(e, Enter(g, "Syncing"))
  <2> HIDE DEF e
  <2> QED
    BY <1>1 DEF GoodReader, Readers, CrcIsFresh, Enter, Alike, SyncStateEnum
<1>4. GoodReader([e EXCEPT !.good = FALSE]) /\ Alike(e, [e EXCEPT !.good = FALSE])
  <2> HIDE DEF e
  <2> QED
    BY <1>1 DEF GoodReader, Readers, CrcIsFresh, Alike
<1>5. ReaderStateUpdated(e) \in {UpdateHash(e), Enter(g, "Syncing"), [e EXCEPT !.good = FALSE], e}
  BY DEF ReaderStateUpdated
<1> HIDE DEF e, g
<1>6. GoodReader(ReaderStateUpdated(e)) /\ Alike(e, ReaderStateUpdated(e))
  BY <1>1, <1>2, <1>3, <1>4, <1>5 DEF Alike
<1> QED
  BY <1>1, <1>6 DEF UpdateReaderState, Alike, e

\* A meta packet that a writer or a reader prepares.
LEMMA WriterRequestsMeta ==
  ASSUME NEW s, GoodWriter(s), ~SendsBlock(s), NEW kind \in MetaKinds
  PROVE  LET t == RequestMetaPacket(s, kind)
         IN  /\ GoodWriter(t) /\ t.data = s.data /\ t.inbox = s.inbox /\ t.sync = s.sync
             /\ t.out \in Packets \ BlockPackets
<1> DEFINE u == UpdateHash(s)
<1>1. GoodWriter(u) /\ Alike(s, u) /\ u.sync = s.sync /\ u.crc = Crc(s.data) /\ ~SendsBlock(u)
  BY WriterUpdateHash DEF SendsBlock
<1>2. [kind |-> kind, payload |-> u.crc] \in Packets \ BlockPackets
  BY <1>1, HashType, BlocksAndKinds DEF GoodWriter, Writers, Packets, BlockPackets, MetaKinds
<1> HIDE DEF u
<1> QED
  BY <1>1, <1>2 DEF RequestMetaPacket, RequestSendPacket, GoodWriter, Writers, SendStatusEnum,
       CrcIsFresh, BlockIsOut, SendsBlock, Alike, u

LEMMA ReaderRequestsMeta ==
  ASSUME NEW s, GoodReader(s), NEW kind \in MetaKinds
  PROVE  LET t == RequestMetaPacket(s, kind)
         IN  /\ GoodReader(t) /\ t.data = s.data /\ t.inbox = s.inbox /\ t.sync = s.sync
             /\ t.out = [kind |-> kind, payload |-> Crc(s.data)]
             /\ HashOfPast(t.out, s.data)
<1> DEFINE u == UpdateHash(s)
<1>1. GoodReader(u) /\ Alike(s, u) /\ u.sync = s.sync /\ u.crc = Crc(s.data)
  BY ReaderUpdateHash
<1>2. s.data \in Surfaces /\ [kind |-> kind, payload |-> Crc(s.data)] \in Packets
  BY HashType DEF GoodReader, Readers, Packets
<1>3. HashOfPast([kind |-> kind, payload |-> Crc(s.data)], s.data)
  BY <1>2, PastReflexive DEF HashOfPast
<1> HIDE DEF u
<1> QED
  BY <1>1, <1>2, <1>3 DEF RequestMetaPacket, RequestSendPacket, GoodReader, Readers,
       SendStatusEnum, CrcIsFresh, Alike, u

----------------------------------------------------------------------------
(* The task of the writer *)

LEMMA NextSetIndexIsSet ==
  ASSUME NEW tracker \in SUBSET Blocks, tracker # {}, NEW start \in Int
  PROVE  GetNextSetIndex(tracker, start) \in tracker
<1> DEFINE ahead == {i \in tracker : i >= start}
           candidates == IF ahead # {} THEN ahead ELSE tracker
<1>1. candidates \subseteq Nat /\ candidates # {} /\ candidates \subseteq tracker
  <2>1. tracker \subseteq Nat
    BY BlockAssumption DEF Blocks
  <2>2. CASE ahead # {}
    BY <2>1, <2>2
  <2>3. CASE ahead = {}
    <3>1. candidates = tracker
      BY <2>3
    <3> QED
      BY <2>1, <3>1
  <2> QED
    BY <2>2, <2>3
<1> HIDE DEF candidates
<1>2. PICK i \in candidates : \A j \in candidates : ~ (<<j, i>> \in OpToRel(<, Nat))
  BY <1>1, WFMin, NatLessThanWellFounded
<1>3. \A j \in candidates : ~ (j < i)
  BY <1>1, <1>2 DEF OpToRel
<1>4. \E i_1 \in candidates : \A j \in candidates : i_1 <= j
  BY <1>1, <1>3
<1>5. (CHOOSE i_1 \in candidates : \A j \in candidates : i_1 <= j) \in candidates
  BY <1>4
<1> QED
  BY <1>1, <1>5 DEF GetNextSetIndex, candidates

LEMMA SendNextPendingBlockKeeps ==
  ASSUME NEW s, GoodWriter(s), HasSet(s)
  PROVE  LET t == SendNextPendingBlock(s)
         IN  /\ GoodWriter(t) /\ t.data = s.data /\ t.inbox = s.inbox /\ t.sync = s.sync
             /\ \E i \in Blocks : t.out = BlockPacket(s, i)
<1> DEFINE i == GetNextSetIndex(s.tracker, FirstIndex(s))
<1>1. FirstIndex(s) \in Int
  BY BlockAssumption DEF FirstIndex, GoodWriter, Writers
<1>2. i \in Blocks
  BY <1>1, NextSetIndexIsSet DEF GoodWriter, Writers, HasSet
<1>3. i \in 0 .. BlockCount
  BY <1>2, BlockAssumption DEF Blocks
<1> HIDE DEF i
<1>4. BlockPacket(s, i) \in BlockPackets /\ BlockPacket(s, i).id = i
  BY <1>2 DEF BlockPacket, BlockPackets, GoodWriter, Writers, Surfaces
<1> DEFINE t == UpdateSyncingState(RequestSendPacket([s EXCEPT !.index = i], BlockPacket(s, i)),
                                   "SendingBlock")
<1>5. /\ t \in Writers /\ t.data = s.data /\ t.inbox = s.inbox /\ t.sync = s.sync
      /\ t.crc = s.crc /\ t.out = BlockPacket(s, i) /\ t.index = i
  BY <1>3, <1>4, BlocksAndKinds
     DEF UpdateSyncingState, RequestSendPacket, GoodWriter, Writers, SendStatusEnum, SyncWriterState
<1>6. GoodWriter(t)
  BY <1>4, <1>5 DEF GoodWriter, CrcIsFresh, BlockIsOut
<1>7. SendNextPendingBlock(s) = t
  BY DEF SendNextPendingBlock, i
<1> QED
  BY <1>2, <1>5, <1>6, <1>7

\* What a run of the task may put on its way.
LEMMA WriterOnServiceKeeps ==
  ASSUME NEW s, GoodWriter(s), s.status = "Done"
  PROVE  LET t == WriterOnService(s)
         IN  /\ GoodWriter(t) /\ t.data = s.data /\ t.inbox = s.inbox /\ t.sync = s.sync
             /\ \/ t.out = s.out
                \/ t.out \in Packets \ BlockPackets
                \/ \E i \in Blocks : t.out = BlockPacket(s, i)
<1> DEFINE u == UpdateHash(s)
<1>1. GoodWriter(u) /\ Alike(s, u) /\ u.sync = s.sync /\ u.writerState = s.writerState
  BY WriterUpdateHash
<1> HIDE DEF u
<1>2. \A newState \in SyncWriterState :
        LET t == UpdateSyncingState(u, newState)
        IN  GoodWriter(t) /\ Alike(s, t) /\ t.sync = s.sync
  BY <1>1 DEF UpdateSyncingState, GoodWriter, Writers, CrcIsFresh, BlockIsOut, SendsBlock, Alike
<1>3. GoodWriter(Disable(u)) /\ Alike(s, Disable(u)) /\ Disable(u).sync = s.sync
  BY <1>1 DEF Disable, GoodWriter, Writers, CrcIsFresh, BlockIsOut, SendsBlock, Alike
<1>4. CASE s.sync # "Syncing"
  <2>1. WriterOnService(s) \in {u, Disable(u)}
    BY <1>4 DEF WriterOnService, u
  <2> QED
    BY <1>1, <1>3, <2>1 DEF Alike
<1>5. CASE s.sync = "Syncing" /\ s.writerState = "UpdatingBlocks" /\ HasSet(u)
  <2>1. WriterOnService(s) = SendNextPendingBlock(u)
    BY <1>1, <1>5 DEF WriterOnService, OnSyncActive, u
  <2>2. \A i : BlockPacket(u, i) = BlockPacket(s, i)
    BY <1>1 DEF BlockPacket, Alike
  <2> QED
    BY <1>1, <1>5, <2>1, <2>2, SendNextPendingBlockKeeps DEF Alike
<1>6. CASE s.sync = "Syncing" /\ s.writerState = "SendingFinished" /\ ~HasSet(u)
  <2>1. WriterOnService(s) = RequestMetaPacket(u, "UpdateFinished")
    BY <1>1, <1>6 DEF WriterOnService, OnSyncActive, u
  <2> QED
    BY <1>1, <1>6, <2>1, WriterRequestsMeta DEF SendsBlock, MetaKinds, Alike
<1>7. CASE /\ s.sync = "Syncing"
           /\ ~(s.writerState = "UpdatingBlocks" /\ HasSet(u))
           /\ ~(s.writerState = "SendingFinished" /\ ~HasSet(u))
  <2>1. \E newState \in SyncWriterState : WriterOnService(s) = UpdateSyncingState(u, newState)
    BY <1>1, <1>7 DEF WriterOnService, OnSyncActive, u, GoodWriter, Writers, SyncWriterState
  <2> QED
    BY <1>2, <2>1 DEF Alike
<1> QED
  BY <1>4, <1>5, <1>6, <1>7

----------------------------------------------------------------------------
(* The other operations of the writer *)

LEMMA ClearSendRequestKeeps ==
  ASSUME NEW s, GoodWriter(s)
  PROVE  LET t == ClearSendRequest(s)
         IN  /\ GoodWriter(t) /\ t.data = s.data /\ t.inbox = s.inbox /\ t.sync = s.sync
             /\ t.out = None
BY DEF ClearSendRequest, GoodWriter, Writers, SendStatusEnum, CrcIsFresh, BlockIsOut

LEMMA WriterSentOkKeeps ==
  ASSUME NEW s, GoodWriter(s), s.status # "Done"
  PROVE  LET t == WriterSentOk(s)
         IN  /\ GoodWriter(t) /\ t.data = s.data /\ t.inbox = s.inbox /\ t.sync = s.sync
             /\ t.out = None
<1> DEFINE u == IF SendsBlock(s)
                  THEN [s EXCEPT !.tracker = @ \ {s.index}, !.index = @ + 1] ELSE s
<1>1. SendsBlock(s) => s.index \in Blocks
  BY BlocksAndKinds DEF GoodWriter, BlockIsOut
<1>2. SendsBlock(s) => s.index + 1 \in 0 .. BlockCount
  BY <1>1, BlockAssumption DEF Blocks
<1>3. u \in Writers /\ u.data = s.data /\ u.inbox = s.inbox /\ u.sync = s.sync /\ u.crc = s.crc
  BY <1>2 DEF GoodWriter, Writers
<1> HIDE DEF u
<1> QED
  BY <1>3 DEF WriterSentOk, ClearSendRequest, GoodWriter, Writers, SendStatusEnum, CrcIsFresh,
       BlockIsOut, u

LEMMA RefreshPacketKeeps ==
  ASSUME NEW s, GoodWriter(s), s.status # "Done"
  PROVE  LET t == RefreshPacket(s)
         IN  /\ GoodWriter(t) /\ t.data = s.data /\ t.inbox = s.inbox /\ t.sync = s.sync
             /\ \/ t.out = s.out
                \/ \E i \in Blocks : t.out = BlockPacket(s, i)
<1>1. CASE ~SendsBlock(s)
  BY <1>1 DEF RefreshPacket
<1>2. CASE SendsBlock(s)
  <2> DEFINE p == [s.out EXCEPT !.payload = s.data[s.index]]
             t == [s EXCEPT !.out = p]
  <2>1. s.out \in BlockPackets /\ s.out.id = s.index /\ s.index \in Blocks
    BY <1>2, BlocksAndKinds DEF GoodWriter, BlockIsOut
  <2>2. s.data[s.index] \in Values
    BY <2>1 DEF GoodWriter, Writers, Surfaces
  <2>3. p \in BlockPackets /\ p.id = s.index /\ p = BlockPacket(s, s.index)
    BY <2>1, <2>2 DEF BlockPackets, BlockPacket
  <2>4. RefreshPacket(s) = t
    BY <1>2 DEF RefreshPacket
  <2> HIDE DEF p
  <2>5. /\ t \in Writers /\ t.data = s.data /\ t.inbox = s.inbox /\ t.sync = s.sync
        /\ t.crc = s.crc /\ t.out = p /\ t.index = s.index
    BY <2>3, BlocksAndKinds DEF GoodWriter, Writers
  <2>6. GoodWriter(t)
    BY <2>3, <2>5 DEF GoodWriter, CrcIsFresh, BlockIsOut
  <2> QED
    BY <2>1, <2>3, <2>4, <2>5, <2>6
<1> QED
  BY <1>1, <1>2

\* Every write takes the writer out of Synced.
LEMMA SetBlockKeeps ==
  ASSUME NEW s, GoodWriter(s), NEW i \in Blocks, NEW v \in Values
  PROVE  LET t == SetBlock(s, i, v)
         IN  /\ GoodWriter(t) /\ t.data = [s.data EXCEPT ![i] = v]
             /\ t.out = s.out /\ t.inbox = s.inbox /\ t.sync # "Synced"
<1> DEFINE w == [s EXCEPT !.data[i] = v, !.tracker = @ \cup {i}]
           u == InvalidateHash(w)
<1>1. /\ w \in Writers /\ w.data = [s.data EXCEPT ![i] = v] /\ w.sync = s.sync
      /\ w.out = s.out /\ w.inbox = s.inbox /\ w.status = s.status
      /\ w.writerState = s.writerState /\ w.index = s.index
  BY DEF GoodWriter, Writers, Surfaces
<1> HIDE DEF w
<1>2. /\ u \in Writers /\ u.data = w.data /\ u.sync = w.sync /\ u.crc = None
      /\ u.out = w.out /\ u.inbox = w.inbox /\ u.status = w.status
      /\ u.writerState = w.writerState /\ u.index = w.index
  BY <1>1 DEF InvalidateHash, Writers
<1> HIDE DEF u
<1>3. GoodWriter(u)
  BY <1>1, <1>2 DEF GoodWriter, CrcIsFresh, BlockIsOut, SendsBlock
<1>4. SetBlock(s, i, v) = IF u.sync = "Synced" THEN UpdateWriterState(u, "Syncing") ELSE u
  BY <1>2 DEF SetBlock, WriterDataChanged, u, w
<1> QED
  BY <1>1, <1>2, <1>3, <1>4, UpdateWriterStateKeeps DEF Alike, SyncStateEnum

LEMMA RestartKeeps ==
  ASSUME NEW s, GoodWriter(s)
  PROVE  GoodWriter(Restart(s)) /\ Alike(s, Restart(s)) /\ Restart(s).sync = s.sync
BY DEF Restart, UpdateSyncingState, GoodWriter, Writers, SyncWriterState, CrcIsFresh,
     BlockIsOut, SendsBlock, Alike

LEMMA SetAllKeeps ==
  ASSUME NEW s, GoodWriter(s)
  PROVE  GoodWriter(SetAll(s)) /\ Alike(s, SetAll(s)) /\ SetAll(s).sync = s.sync
BY DEF SetAll, GoodWriter, Writers, CrcIsFresh, BlockIsOut, SendsBlock, Alike

\* Marking every block and starting over, in Syncing or on the way to it.
LEMMA StartOverKeeps ==
  ASSUME NEW s, GoodWriter(s)
  PROVE  /\ \A t \in {Restart(SetAll(s)), UpdateWriterState(SetAll(s), "Syncing")} :
              GoodWriter(t) /\ Alike(s, t)
         /\ Restart(SetAll(s)).sync = s.sync
         /\ UpdateWriterState(SetAll(s), "Syncing").sync = "Syncing"
<1> DEFINE a == SetAll(s)
<1>1. GoodWriter(a) /\ Alike(s, a) /\ a.sync = s.sync
  BY SetAllKeeps
<1> HIDE DEF a
<1>2. GoodWriter(Restart(a)) /\ Alike(a, Restart(a)) /\ Restart(a).sync = a.sync
  BY <1>1, RestartKeeps
<1>3. /\ GoodWriter(UpdateWriterState(a, "Syncing")) /\ Alike(a, UpdateWriterState(a, "Syncing"))
      /\ UpdateWriterState(a, "Syncing").sync = "Syncing"
  BY <1>1, UpdateWriterStateKeeps DEF SyncStateEnum
<1> QED
  BY <1>1, <1>2, <1>3 DEF Alike, a

\* A packet leads the writer to Synced only with the hash of its own data.
LEMMA WriterProcessPacketKeeps ==
  ASSUME NEW s, GoodWriter(s), NEW p \in Packets
  PROVE  /\ GoodWriter(WriterProcessPacket(s, p)) /\ Alike(s, WriterProcessPacket(s, p))
         /\ WriterProcessPacket(s, p).sync = "Synced"
              => \/ s.sync = "Synced"
                 \/ p.kind = "UpdateFinishedReply" /\ p.payload = Crc(s.data)
<1> DEFINE u == UpdateHash(s)
           t == WriterProcessPacket(s, p)
<1>1. GoodWriter(u) /\ Alike(s, u) /\ u.sync = s.sync /\ u.crc = Crc(s.data)
  BY WriterUpdateHash
<1>2. CASE p.kind = "ServiceDiscovery"
  <2>1. t \in {s, UpdateWriterState(s, "Syncing")}
    BY <1>2 DEF WriterProcessPacket, OnServiceDiscoveryReceived
  <2>2. GoodWriter(UpdateWriterState(s, "Syncing")) /\ Alike(s, UpdateWriterState(s, "Syncing"))
        /\ UpdateWriterState(s, "Syncing").sync = "Syncing"
    BY UpdateWriterStateKeeps DEF SyncStateEnum
  <2> QED
    BY <2>1, <2>2 DEF Alike
<1>3. CASE p.kind = "UpdateFinishedReply"
  <2>1. \/ t \in {u, Restart(u), Restart(SetAll(u)), UpdateWriterState(SetAll(u), "Syncing")}
        \/ t = UpdateWriterState(u, "Synced") /\ u.crc = p.payload
    BY <1>3 DEF WriterProcessPacket, OnUpdateFinishedReplyReceived
  <2> HIDE DEF t, u
  <2>2. GoodWriter(Restart(u)) /\ Alike(u, Restart(u)) /\ Restart(u).sync = u.sync
    BY <1>1, RestartKeeps
  <2>3. /\ \A r \in {Restart(SetAll(u)), UpdateWriterState(SetAll(u), "Syncing")} :
             GoodWriter(r) /\ Alike(u, r)
        /\ Restart(SetAll(u)).sync = u.sync
        /\ UpdateWriterState(SetAll(u), "Syncing").sync = "Syncing"
    BY <1>1, StartOverKeeps
  <2>4. GoodWriter(UpdateWriterState(u, "Synced")) /\ Alike(u, UpdateWriterState(u, "Synced"))
    BY <1>1, UpdateWriterStateKeeps DEF SyncStateEnum
  <2>5. CASE t = u
    BY <1>1, <2>5 DEF t
  <2>6. CASE t \in {Restart(u), Restart(SetAll(u)), UpdateWriterState(SetAll(u), "Syncing")}
    <3>1. GoodWriter(t) /\ Alike(u, t) /\ t.sync \in {u.sync, "Syncing"}
      BY <2>2, <2>3, <2>6
    <3> QED
      BY <1>1, <3>1 DEF Alike, t
  <2>7. CASE t = UpdateWriterState(u, "Synced") /\ u.crc = p.payload
    BY <1>1, <1>3, <2>4, <2>7 DEF Alike, t
  <2> QED
    BY <2>1, <2>5, <2>6, <2>7
<1>4. CASE p.kind = "InvalidateRequest"
  <2>1. t \in {s, Restart(SetAll(s)), UpdateWriterState(SetAll(s), "Syncing")}
    BY <1>4 DEF WriterProcessPacket, OnInvalidateRequestReceived
  <2>2. GoodWriter(t) /\ Alike(s, t) /\ t.sync \in {s.sync, "Syncing"}
    BY <2>1, StartOverKeeps DEF Alike
  <2> QED
    BY <2>2
<1>5. CASE p.kind \notin {"ServiceDiscovery", "UpdateFinishedReply", "InvalidateRequest"}
  BY <1>5 DEF WriterProcessPacket, Alike
<1> QED
  BY <1>2, <1>3, <1>4, <1>5

----------------------------------------------------------------------------
(* The operations of the reader *)

LEMMA ReaderOnServiceKeeps ==
  ASSUME NEW s, GoodReader(s), NEW t \in ReaderOnService(s)
  PROVE  /\ GoodReader(t) /\ t.data = s.data /\ t.inbox = s.inbox
         /\ t.out = s.out \/ HashOfPast(t.out, s.data)
<1> DEFINE u == UpdateHash(s)
<1>1. GoodReader(u) /\ Alike(s, u)
  BY ReaderUpdateHash
<1>2. t \in {u, Disable(u), RequestMetaPacket(u, "ServiceDiscovery")}
  BY DEF ReaderOnService, SendServiceDiscovery
<1> HIDE DEF u
<1>3. GoodReader(Disable(u)) /\ Alike(u, Disable(u))
  BY <1>1 DEF Disable, GoodReader, Readers, CrcIsFresh, Alike
<1>4. LET q == RequestMetaPacket(u, "ServiceDiscovery")
      IN  GoodReader(q) /\ q.data = u.data /\ q.inbox = u.inbox /\ HashOfPast(q.out, u.data)
  BY <1>1, ReaderRequestsMeta DEF MetaKinds
<1> QED
  BY <1>1, <1>2, <1>3, <1>4 DEF Alike

LEMMA OnBlockReceivedKeeps ==
  ASSUME NEW s, GoodReader(s), NEW i \in Blocks, NEW v \in Values
  PROVE  LET t == OnBlockReceived(s, i, v)
         IN  /\ GoodReader(t) /\ t.data = [s.data EXCEPT ![i] = v]
             /\ t.out = s.out /\ t.inbox = s.inbox
<1> DEFINE w == [s EXCEPT !.data[i] = v]
           u == InvalidateHash(w)
           g == [UpdateReaderState(u, "Syncing") EXCEPT !.good = FALSE]
<1>1. w \in Readers /\ w.data = [s.data EXCEPT ![i] = v] /\ w.out = s.out /\ w.inbox = s.inbox
  BY DEF GoodReader, Readers, Surfaces
<1> HIDE DEF w
<1>2. GoodReader(u) /\ u.data = w.data /\ u.out = w.out /\ u.inbox = w.inbox
  BY <1>1 DEF InvalidateHash, GoodReader, Readers, CrcIsFresh
<1>3. OnBlockReceived(s, i, v) \in {g, UpdateReaderState(u, "Syncing"), u}
  BY DEF OnBlockReceived, w
<1> HIDE DEF u
<1>4. GoodReader(UpdateReaderState(u, "Syncing")) /\ Alike(u, UpdateReaderState(u, "Syncing"))
  BY <1>2, UpdateReaderStateKeeps DEF SyncStateEnum
<1>5. GoodReader(g) /\ Alike(u, g)
  BY <1>4 DEF GoodReader, Readers, CrcIsFresh, Alike
<1> QED
  BY <1>1, <1>2, <1>3, <1>4, <1>5 DEF Alike

LEMMA OnUpdateFinishedReceivedKeeps ==
  ASSUME NEW s, GoodReader(s), NEW hash
  PROVE  LET t == OnUpdateFinishedReceived(s, hash)
         IN  /\ GoodReader(t) /\ t.data = s.data /\ t.inbox = s.inbox
             /\ HashOfPast(t.out, s.data)
<1> DEFINE reply == RequestMetaPacket(s, "UpdateFinishedReply")
           invalidate == RequestMetaPacket(s, "InvalidateRequest")
           Answered(t) == /\ GoodReader(t) /\ t.data = s.data /\ t.inbox = s.inbox
                          /\ HashOfPast(t.out, s.data)
<1>1. Answered(reply) /\ Answered(invalidate)
  BY ReaderRequestsMeta DEF MetaKinds
<1>2. \/ OnUpdateFinishedReceived(s, hash) = reply
      \/ OnUpdateFinishedReceived(s, hash) = UpdateReaderState(invalidate, "Syncing")
      \/ \E newState \in {"Synced", "Syncing"} :
           OnUpdateFinishedReceived(s, hash) = UpdateReaderState(reply, newState)
  BY DEF OnUpdateFinishedReceived
<1> HIDE DEF reply, invalidate
<1>3. ASSUME NEW t, Answered(t), NEW newState \in {"Synced", "Syncing"}
      PROVE  Answered(UpdateReaderState(t, newState))
  BY <1>3, UpdateReaderStateKeeps DEF Alike, SyncStateEnum
<1> QED
  BY <1>1, <1>2, <1>3

----------------------------------------------------------------------------
(* Steps that leave the data alone *)

\* What the writer sends of its own data is not behind anything.
LEMMA WriterMoves ==
  ASSUME NEW w, NEW r, GoodWriter(w), GoodReader(r), DataInv(w, r),
         NEW t, t.data = w.data, t.inbox \in {w.inbox, None},
         \/ t.out \in {w.out, None} \/ t.out \in Packets \ BlockPackets
         \/ \E i \in Blocks : t.out = BlockPacket(w, i),
         NoValueComesBack /\ t.sync = "Synced" => w.sync = "Synced" \/ r.data = w.data
  PROVE  DataInv(t, r)
<1>1. None \notin Packets /\ None \notin BlockPackets
  BY NoneAssumption, BlocksAndKinds
<1>2. w.data \in Surfaces /\ r.data \in Surfaces
  BY DEF GoodWriter, GoodReader, Writers, Readers
<1>3. /\ Past(r.data, w.data)
      /\ Between(r.data, r.inbox, w.data) /\ Between(r.data, w.out, w.data)
      /\ NotAfter(r.inbox, w.out)
      /\ HashOfPast(r.out, r.data) /\ HashOfPast(w.inbox, r.data)
      /\ NoValueComesBack /\ w.sync = "Synced" => r.data = w.data
  BY DEF DataInv
<1>4. HashOfPast(t.inbox, r.data)
  BY <1>1, <1>3 DEF HashOfPast
<1>5. Between(r.data, t.out, w.data) /\ NotAfter(r.inbox, t.out)
  <2>1. CASE t.out = w.out
    BY <1>3, <2>1
  <2>2. CASE t.out \notin BlockPackets
    BY <2>2 DEF Between, NotAfter
  <2>3. ASSUME NEW i \in Blocks, t.out = BlockPacket(w, i)
        PROVE  Between(r.data, t.out, w.data) /\ NotAfter(r.inbox, t.out)
    <3>1. t.out.id = i /\ t.out.payload = w.data[i] /\ w.data[i] \in Values
      BY <1>2, <2>3 DEF BlockPacket, Surfaces
    <3>2. <<r.data[i], w.data[i]>> \in After /\ <<w.data[i], w.data[i]>> \in After
      BY <1>2, <1>3, WriteAssumption DEF Past, Surfaces
    <3>3. r.inbox \in BlockPackets /\ r.inbox.id = i => <<r.inbox.payload, w.data[i]>> \in After
      BY <1>3 DEF Between
    <3> QED
      BY <3>1, <3>2, <3>3 DEF Between, NotAfter
  <2> QED
    BY <1>1, <2>1, <2>2, <2>3
<1> QED
  BY <1>3, <1>4, <1>5 DEF DataInv

LEMMA ReaderMoves ==
  ASSUME NEW w, NEW r, DataInv(w, r),
         NEW t, t.data = r.data, t.inbox \in {r.inbox, None},
         t.out \in {r.out, None} \/ HashOfPast(t.out, r.data)
  PROVE  DataInv(w, t)
<1>1. None \notin Packets /\ None \notin BlockPackets
  BY NoneAssumption, BlocksAndKinds
<1>2. HashOfPast(t.out, r.data)
  BY <1>1 DEF HashOfPast, DataInv
<1>3. Between(r.data, t.inbox, w.data) /\ NotAfter(t.inbox, w.out)
  BY <1>1 DEF Between, NotAfter, DataInv
<1> QED
  BY <1>2, <1>3 DEF DataInv

----------------------------------------------------------------------------
(* The steps *)

DataStays == writer'.data = writer.data /\ reader'.data = reader.data

LEMMA WriterStepKept ==
  ASSUME PairInv, reader' = reader, joinable' \in BOOLEAN, GoodWriter(writer'),
         writer'.data = writer.data, writer'.inbox \in {writer.inbox, None},
         \/ writer'.out \in {writer.out, None} \/ writer'.out \in Packets \ BlockPackets
         \/ \E i \in Blocks : writer'.out = BlockPacket(writer, i),
         NoValueComesBack /\ writer'.sync = "Synced"
           => writer.sync = "Synced" \/ reader.data = writer.data
  PROVE  PairInv' /\ DataStays
BY WriterMoves DEF PairInv, DataStays

LEMMA ReaderStepKept ==
  ASSUME PairInv, writer' = writer, joinable' \in BOOLEAN, GoodReader(reader'),
         reader'.data = reader.data, reader'.inbox \in {reader.inbox, None},
         reader'.out \in {reader.out, None} \/ HashOfPast(reader'.out, reader.data)
  PROVE  PairInv' /\ DataStays
BY ReaderMoves DEF PairInv, DataStays

LEMMA WriterLinkKept ==
  ASSUME PairInv, WriterLinkEstablished \/ WriterLinkLost
  PROVE  PairInv' /\ DataStays
<1>1. \A newState \in {"WaitingForServiceDiscovery", "Disabled"} :
        LET t == UpdateWriterState(writer, newState)
        IN  GoodWriter(t) /\ Alike(writer, t) /\ t.sync # "Synced"
  BY UpdateWriterStateKeeps DEF PairInv, SyncStateEnum
<1>2. /\ writer' \in {UpdateWriterState(writer, "WaitingForServiceDiscovery"),
                      UpdateWriterState(writer, "Disabled")}
      /\ reader' = reader /\ joinable' \in BOOLEAN
  BY DEF WriterLinkEstablished, WriterLinkLost, HasLink
<1>3. GoodWriter(writer') /\ Alike(writer, writer') /\ writer'.sync # "Synced"
  BY <1>1, <1>2
<1> QED
  BY <1>2, <1>3, WriterStepKept DEF Alike

LEMMA ReaderLinkKept ==
  ASSUME PairInv, ReaderLinkEstablished \/ ReaderLinkLost
  PROVE  PairInv' /\ DataStays
<1>1. /\ reader' \in {UpdateReaderState(reader, "WaitingForServiceDiscovery"),
                      UpdateReaderState(reader, "Disabled")}
      /\ writer' = writer /\ joinable' \in BOOLEAN
  BY DEF ReaderLinkEstablished, ReaderLinkLost, HasLink
<1>2. GoodReader(reader') /\ Alike(reader, reader')
  BY <1>1, UpdateReaderStateKeeps DEF PairInv, SyncStateEnum
<1> QED
  BY <1>1, <1>2, ReaderStepKept DEF Alike

LEMMA WriterSendsKept ==
  ASSUME PairInv,
         \/ WriterService \/ WriterSend \/ WriterSendDelayed \/ WriterSendOk \/ WriterSendFails
  PROVE  PairInv' /\ DataStays
<1>1. GoodWriter(writer) /\ reader' = reader /\ joinable' \in BOOLEAN
  BY DEF PairInv, WriterService, WriterSend, WriterSendDelayed, WriterSendOk, WriterSendFails
<1>2. CASE WriterService
  <2>1. writer.status = "Done" /\ writer' = WriterOnService(writer)
    BY <1>2 DEF WriterService, Runs
  <2> QED
    BY <1>1, <2>1, WriterOnServiceKeeps, WriterStepKept
<1>3. CASE WriterSend
  <2>1. writer' = Sending(writer) /\ writer.status # "Done"
    BY <1>3 DEF WriterSend, MaySend, Runs
  <2>2. GoodWriter(writer') /\ writer'.data = writer.data /\ writer'.inbox = writer.inbox
        /\ writer'.out = writer.out /\ writer'.sync = writer.sync
    BY <1>1, <2>1 DEF Sending, GoodWriter, Writers, SendStatusEnum, CrcIsFresh, BlockIsOut,
                      SendsBlock
  <2> QED
    BY <1>1, <2>2, WriterStepKept
<1>4. CASE WriterSendDelayed
  <2>1. writer.status # "Done" /\ writer' = RefreshPacket(writer)
    BY <1>4 DEF WriterSendDelayed, Runs
  <2> QED
    BY <1>1, <2>1, RefreshPacketKeeps, WriterStepKept
<1>5. CASE WriterSendOk
  <2>1. writer.status # "Done" /\ writer' = WriterSentOk(writer)
    BY <1>5 DEF WriterSendOk, Runs
  <2> QED
    BY <1>1, <2>1, WriterSentOkKeeps, WriterStepKept
<1>6. CASE WriterSendFails
  <2>1. writer' = ClearSendRequest(writer)
    BY <1>6 DEF WriterSendFails
  <2> QED
    BY <1>1, <2>1, ClearSendRequestKeeps, WriterStepKept
<1> QED
  BY <1>2, <1>3, <1>4, <1>5, <1>6

LEMMA ReaderSendsKept ==
  ASSUME PairInv, ReaderService \/ ReaderSend \/ ReaderSendEnds
  PROVE  PairInv' /\ DataStays
<1>1. GoodReader(reader) /\ writer' = writer /\ joinable' \in BOOLEAN
  BY DEF PairInv, ReaderService, ReaderSend, ReaderSendEnds
<1>2. CASE ReaderService
  BY <1>1, <1>2, ReaderOnServiceKeeps, ReaderStepKept DEF ReaderService
<1>3. CASE ReaderSend \/ ReaderSendEnds
  <2>1. reader' \in {Sending(reader), ClearSendRequest(reader)}
    BY <1>3 DEF ReaderSend, ReaderSendEnds
  <2>2. GoodReader(reader') /\ reader'.data = reader.data /\ reader'.inbox = reader.inbox
        /\ reader'.out \in {reader.out, None}
    BY <1>1, <2>1 DEF Sending, ClearSendRequest, GoodReader, Readers, SendStatusEnum, CrcIsFresh
  <2> QED
    BY <1>1, <2>2, ReaderStepKept
<1> QED
  BY <1>2, <1>3

\* A packet that is heard is as the one that was sent.
LEMMA WriterSendHeardKept ==
  ASSUME PairInv, WriterSendHeard
  PROVE  PairInv' /\ DataStays
<1>1. /\ GoodWriter(writer) /\ GoodReader(reader) /\ DataInv(writer, reader)
      /\ joinable' \in BOOLEAN /\ writer.status # "Done"
      /\ writer' = Sending(writer) /\ reader' = [reader EXCEPT !.inbox = writer.out]
  BY DEF PairInv, WriterSendHeard, MaySend, Runs
<1>2. /\ GoodWriter(writer') /\ writer'.data = writer.data /\ writer'.inbox = writer.inbox
      /\ writer'.out = writer.out /\ writer'.sync = writer.sync
  BY <1>1 DEF Sending, GoodWriter, Writers, SendStatusEnum, CrcIsFresh, BlockIsOut, SendsBlock
<1>3. /\ GoodReader(reader') /\ reader'.data = reader.data /\ reader'.out = reader.out
      /\ reader'.inbox = writer.out
  BY <1>1 DEF GoodReader, Readers, GoodWriter, Writers, CrcIsFresh
<1>4. NotAfter(writer.out, writer.out)
  BY WriteAssumption, BlocksAndKinds DEF NotAfter
<1>5. DataInv(writer', reader')
  BY <1>1, <1>2, <1>3, <1>4 DEF DataInv
<1> QED
  BY <1>1, <1>2, <1>3, <1>5 DEF PairInv, DataStays

LEMMA ReaderSendHeardKept ==
  ASSUME PairInv, ReaderSendHeard
  PROVE  PairInv' /\ DataStays
<1>1. /\ GoodWriter(writer) /\ GoodReader(reader) /\ DataInv(writer, reader)
      /\ joinable' \in BOOLEAN
      /\ reader' = Sending(reader) /\ writer' = [writer EXCEPT !.inbox = reader.out]
  BY DEF PairInv, ReaderSendHeard
<1>2. /\ GoodReader(reader') /\ reader'.data = reader.data /\ reader'.inbox = reader.inbox
      /\ reader'.out = reader.out
  BY <1>1 DEF Sending, GoodReader, Readers, SendStatusEnum, CrcIsFresh
<1>3. /\ GoodWriter(writer') /\ writer'.data = writer.data /\ writer'.out = writer.out
      /\ writer'.sync = writer.sync /\ writer'.inbox = reader.out
  BY <1>1 DEF GoodReader, Readers, GoodWriter, Writers, CrcIsFresh, BlockIsOut, SendsBlock
<1>4. DataInv(writer', reader')
  BY <1>1, <1>2, <1>3 DEF DataInv
<1> QED
  BY <1>1, <1>2, <1>3, <1>4 DEF PairInv, DataStays

\* The hash of something the reader has held is that of the writer's data, which
\* is something the reader will hold: it holds it now.
LEMMA WriterReceiveKept ==
  ASSUME PairInv, WriterReceive
  PROVE  PairInv' /\ DataStays
<1> DEFINE s == [writer EXCEPT !.inbox = None]
           p == writer.inbox
<1>1. /\ GoodWriter(writer) /\ GoodReader(reader) /\ DataInv(writer, reader)
      /\ reader' = reader /\ joinable' \in BOOLEAN
      /\ writer' = IF HasLink(s) THEN WriterProcessPacket(s, p) ELSE s
      /\ p # None
  BY DEF PairInv, WriterReceive
<1>2. /\ GoodWriter(s) /\ s.data = writer.data /\ s.out = writer.out /\ s.sync = writer.sync
      /\ s.inbox = None /\ p \in Packets
  BY <1>1 DEF GoodWriter, Writers, CrcIsFresh, BlockIsOut, SendsBlock
<1> HIDE DEF s, p
<1>3. CASE ~HasLink(s)
  BY <1>1, <1>2, <1>3, WriterStepKept
<1>4. CASE HasLink(s)
  <2> DEFINE t == WriterProcessPacket(s, p)
  <2>1. /\ GoodWriter(t) /\ Alike(s, t)
        /\ t.sync = "Synced" => \/ s.sync = "Synced"
                                \/ p.kind = "UpdateFinishedReply" /\ p.payload = Crc(s.data)
    BY <1>2, WriterProcessPacketKeeps
  <2>2. ASSUME NoValueComesBack, p.kind = "UpdateFinishedReply", p.payload = Crc(s.data)
        PROVE  reader.data = writer.data
    <3>1. writer.data \in Surfaces /\ reader.data \in Surfaces
      BY <1>1 DEF GoodWriter, GoodReader, Writers, Readers
    <3>2. PICK e \in Surfaces : p.payload = Crc(e) /\ Past(e, reader.data)
      BY <1>1, <1>2, <2>2 DEF DataInv, HashOfPast, p
    <3>3. e = writer.data
      BY <1>2, <2>2, <3>1, <3>2, CrcAssumption
    <3>4. Past(reader.data, writer.data)
      BY <1>1 DEF DataInv
    <3> QED
      BY <2>2, <3>1, <3>2, <3>3, <3>4, PastAntisymmetric
  <2>3. writer' = t
    BY <1>1, <1>4
  <2> HIDE DEF t
  <2> QED
    BY <1>1, <1>2, <2>1, <2>2, <2>3, WriterStepKept DEF Alike
<1> QED
  BY <1>3, <1>4

\* The writer's data moves on, and what is on its way stays behind it.
LEMMA WriteKept ==
  ASSUME PairInv, NEW i \in Blocks, NEW v \in Values, Write(i, v)
  PROVE  /\ PairInv' /\ reader' = reader
         /\ <<writer.data[i], v>> \in After /\ writer'.data = [writer.data EXCEPT ![i] = v]
         /\ writer'.sync # "Synced"
<1> DEFINE d == writer.data
           e == [d EXCEPT ![i] = v]
<1>1. /\ GoodWriter(writer) /\ GoodReader(reader) /\ DataInv(writer, reader)
      /\ reader' = reader /\ joinable' \in BOOLEAN
      /\ writer' = SetBlock(writer, i, v) /\ <<d, e>> \in Writes
  BY DEF PairInv, Write
<1>2. d \in Surfaces /\ reader.data \in Surfaces
  BY <1>1 DEF GoodWriter, GoodReader, Writers, Readers
<1>3. <<d[i], v>> \in After
  <2>1. e[i] = v
    BY <1>2 DEF Surfaces
  <2>2. <<d[i], e[i]>> \in After
    BY <1>1, WriteAssumption
  <2> QED
    BY <2>1, <2>2
<1>4. e \in Surfaces /\ Past(d, e)
  BY <1>2, <1>3, BlockMovesOn
<1>5. /\ GoodWriter(writer') /\ writer'.data = e /\ writer'.out = writer.out
      /\ writer'.inbox = writer.inbox /\ writer'.sync # "Synced"
  BY <1>1, SetBlockKeeps
<1> HIDE DEF d, e
<1>6. Past(reader.data, e)
  BY <1>1, <1>2, <1>4, PastTransitive DEF DataInv, d
<1>7. ASSUME NEW p, Between(reader.data, p, d)
      PROVE  Between(reader.data, p, e)
  BY <1>2, <1>4, <1>7, WriteAssumption, BlocksAndKinds DEF Between, Past, Surfaces
<1>8. DataInv(writer', reader')
  BY <1>1, <1>5, <1>6, <1>7 DEF DataInv, d
<1> QED
  BY <1>1, <1>3, <1>5, <1>8 DEF PairInv, d, e

\* A block takes the reader on, no further than the writer, and the block that
\* may be sent meanwhile is not behind it.
LEMMA BlockReceivedKept ==
  ASSUME PairInv, writer' = writer, joinable' \in BOOLEAN,
         NEW p \in BlockPackets, p = reader.inbox,
         GoodReader(reader'), reader'.data = [reader.data EXCEPT ![p.id] = p.payload],
         reader'.out = reader.out, reader'.inbox = None
  PROVE  PairInv'
<1> DEFINE c == reader.data
           d == reader'.data
           e == writer.data
<1>1. GoodWriter(writer) /\ GoodReader(reader) /\ DataInv(writer, reader)
  BY DEF PairInv
<1>2. p.id \in Blocks /\ p.payload \in Values /\ e \in Surfaces /\ c \in Surfaces
  BY <1>1, BlocksAndKinds DEF GoodWriter, GoodReader, Writers, Readers
<1>3. /\ Past(c, e) /\ Between(c, p, e) /\ Between(c, writer.out, e) /\ NotAfter(p, writer.out)
      /\ HashOfPast(reader.out, c) /\ HashOfPast(writer.inbox, c)
      /\ NoValueComesBack /\ writer.sync = "Synced" => c = e
  BY <1>1 DEF DataInv
<1>4. <<c[p.id], p.payload>> \in After /\ <<p.payload, e[p.id]>> \in After
  BY <1>3 DEF Between
<1>5. d \in Surfaces /\ Past(c, d) /\ d = [c EXCEPT ![p.id] = p.payload]
  BY <1>2, <1>4, BlockMovesOn
<1> HIDE DEF c, d, e
<1>6. Past(d, e)
  BY <1>2, <1>3, <1>4, <1>5 DEF Past, Surfaces
<1>7. Between(d, writer.out, e)
  <2> SUFFICES ASSUME writer.out \in BlockPackets
               PROVE  <<d[writer.out.id], writer.out.payload>> \in After
    BY <1>3 DEF Between
  <2>1. CASE writer.out.id = p.id
    BY <1>2, <1>3, <1>5, <2>1 DEF NotAfter, Surfaces
  <2>2. CASE writer.out.id # p.id
    BY <1>2, <1>3, <1>5, <2>2, BlocksAndKinds DEF Between, Surfaces
  <2> QED
    BY <2>1, <2>2
<1>8. ASSUME NEW q, HashOfPast(q, c)
      PROVE  HashOfPast(q, d)
  BY <1>2, <1>5, <1>8, PastTransitive DEF HashOfPast
<1>9. NoValueComesBack /\ writer.sync = "Synced" => d = e
  BY <1>2, <1>3, <1>5, <1>6, PastAntisymmetric
<1>10. None \notin BlockPackets
  BY NoneAssumption, BlocksAndKinds
<1>11. DataInv(writer', reader')
  BY <1>3, <1>6, <1>7, <1>8, <1>9, <1>10 DEF DataInv, Between, NotAfter, d, e
<1> QED
  BY <1>1, <1>11 DEF PairInv

LEMMA ReaderReceiveKept ==
  ASSUME PairInv, ReaderReceive
  PROVE  /\ PairInv' /\ writer' = writer
         /\ \/ reader'.data = reader.data
            \/ \E i \in Blocks, v \in Values :
                 /\ reader'.data = [reader.data EXCEPT ![i] = v]
                 /\ <<reader.data[i], v>> \in After /\ <<v, writer.data[i]>> \in After
<1> DEFINE s == [reader EXCEPT !.inbox = None]
           p == reader.inbox
<1>1. /\ GoodReader(reader) /\ DataInv(writer, reader)
      /\ writer' = writer /\ joinable' \in BOOLEAN
      /\ reader' = IF HasLink(s) THEN ReaderProcessPacket(s, p) ELSE s
      /\ p # None
  BY DEF PairInv, ReaderReceive
<1>2. /\ GoodReader(s) /\ s.data = reader.data /\ s.out = reader.out /\ s.inbox = None
      /\ p \in Packets
  BY <1>1 DEF GoodReader, Readers, CrcIsFresh
<1> HIDE DEF s, p
<1>3. CASE ~HasLink(s) \/ p.kind \notin {"Block", "UpdateFinished"}
  <2>1. reader' = s
    BY <1>1, <1>3 DEF ReaderProcessPacket
  <2> QED
    BY <1>1, <1>2, <2>1, ReaderStepKept DEF DataStays
<1>4. CASE HasLink(s) /\ p.kind = "UpdateFinished"
  <2>1. reader' = OnUpdateFinishedReceived(s, p.payload)
    BY <1>1, <1>4 DEF ReaderProcessPacket
  <2> QED
    BY <1>1, <1>2, <2>1, OnUpdateFinishedReceivedKeeps, ReaderStepKept DEF DataStays
<1>5. CASE HasLink(s) /\ p.kind = "Block"
  <2>1. p \in BlockPackets /\ p.id \in Blocks /\ p.payload \in Values
    BY <1>2, <1>5, BlocksAndKinds
  <2>2. reader' = OnBlockReceived(s, p.id, p.payload)
    BY <1>1, <1>5 DEF ReaderProcessPacket
  <2>3. /\ GoodReader(reader') /\ reader'.data = [reader.data EXCEPT ![p.id] = p.payload]
        /\ reader'.out = reader.out /\ reader'.inbox = None
    BY <1>2, <2>1, <2>2, OnBlockReceivedKeeps
  <2>4. PairInv'
    BY <1>1, <2>1, <2>3, BlockReceivedKept DEF p
  <2>5. <<reader.data[p.id], p.payload>> \in After /\ <<p.payload, writer.data[p.id]>> \in After
    BY <1>1, <2>1 DEF DataInv, Between, p
  <2> QED
    BY <1>1, <2>1, <2>3, <2>4, <2>5
<1> QED
  BY <1>3, <1>4, <1>5

----------------------------------------------------------------------------
(* The theorems *)

LEMMA InitKept == Init => PairInv /\ Replicated!Init
<1> SUFFICES ASSUME Init PROVE PairInv /\ Replicated!Init
  OBVIOUS
<1>1. InitialSurface \in Surfaces
  BY WriteAssumption DEF InitialSurface, Surfaces
<1>2. /\ writer = InitialWriter(InitialSurface) /\ reader = InitialReader(InitialSurface)
      /\ joinable = FALSE
  BY DEF Init
<1>3. 0 \in 0 .. BlockCount
  BY BlockAssumption
<1>4. /\ writer \in Writers /\ reader \in Readers
      /\ writer.crc = None /\ reader.crc = None /\ writer.sync = "Disabled"
      /\ writer.data = InitialSurface /\ reader.data = InitialSurface
      /\ writer.out = None /\ writer.inbox = None /\ reader.out = None /\ reader.inbox = None
  BY <1>1, <1>2, <1>3
     DEF InitialWriter, InitialReader, Writers, Readers, SyncStateEnum, SendStatusEnum,
         SyncWriterState
<1>5. None \notin Packets /\ None \notin BlockPackets
  BY NoneAssumption, BlocksAndKinds
<1>6. GoodWriter(writer) /\ GoodReader(reader)
  BY <1>4 DEF GoodWriter, GoodReader, CrcIsFresh, BlockIsOut, SendsBlock
<1>7. DataInv(writer, reader)
  BY <1>1, <1>4, <1>5, PastReflexive DEF DataInv, Between, NotAfter, HashOfPast
<1>8. Replicated!Init
  BY <1>4 DEF Replicated!Init, InitialSurface
<1> QED
  BY <1>2, <1>6, <1>7, <1>8 DEF PairInv

\* A step that moves no data confirms the replica or doubts it.
LEMMA QuietStep ==
  ASSUME NoValueComesBack, PairInv', DataStays
  PROVE  Replicated!Confirm \/ Replicated!Doubt
<1>1. writer'.sync = "Synced" => reader'.data = writer'.data
  BY DEF PairInv, DataInv
<1>2. CASE writer'.sync = "Synced"
  BY <1>1, <1>2 DEF DataStays, Replicated!Confirm
<1>3. CASE writer'.sync # "Synced"
  BY <1>3 DEF DataStays, Replicated!Doubt
<1> QED
  BY <1>2, <1>3

LEMMA NextKept ==
  ASSUME PairInv, Next
  PROVE  PairInv' /\ (NoValueComesBack => Replicated!Next)
<1>1. CASE \/ WriterLinkEstablished \/ ReaderLinkEstablished \/ WriterLinkLost \/ ReaderLinkLost
           \/ WriterService \/ WriterSend \/ WriterSendHeard \/ WriterSendDelayed
           \/ WriterSendOk \/ WriterSendFails \/ WriterReceive
           \/ ReaderService \/ ReaderSend \/ ReaderSendHeard \/ ReaderSendEnds
  <2>1. PairInv' /\ DataStays
    BY <1>1, WriterLinkKept, ReaderLinkKept, WriterSendsKept, ReaderSendsKept,
       WriterSendHeardKept, ReaderSendHeardKept, WriterReceiveKept
  <2> QED
    BY <2>1, QuietStep DEF Replicated!Next
<1>2. ASSUME NEW i \in Blocks, NEW v \in Values, Write(i, v)
      PROVE  PairInv' /\ (NoValueComesBack => Replicated!Next)
  <2>1. /\ PairInv' /\ reader' = reader
        /\ <<writer.data[i], v>> \in After /\ writer'.data = [writer.data EXCEPT ![i] = v]
        /\ writer'.sync # "Synced"
    BY <1>2, WriteKept
  <2>2. Replicated!Write(i, v)
    BY <2>1 DEF Replicated!Write
  <2> QED
    BY <2>1, <2>2 DEF Replicated!Next
<1>3. CASE ReaderReceive
  <2>1. /\ PairInv' /\ writer' = writer
        /\ \/ reader'.data = reader.data
           \/ \E i \in Blocks, v \in Values :
                /\ reader'.data = [reader.data EXCEPT ![i] = v]
                /\ <<reader.data[i], v>> \in After /\ <<v, writer.data[i]>> \in After
    BY <1>3, ReaderReceiveKept
  <2>2. CASE NoValueComesBack /\ reader'.data = reader.data
    BY <2>1, <2>2, QuietStep DEF DataStays, Replicated!Next
  <2>3. ASSUME NEW i \in Blocks, NEW v \in Values,
               reader'.data = [reader.data EXCEPT ![i] = v],
               <<reader.data[i], v>> \in After, <<v, writer.data[i]>> \in After
        PROVE  Replicated!Next
    BY <2>1, <2>3 DEF Replicated!Next, Replicated!Copy
  <2> QED
    BY <2>1, <2>2, <2>3
<1> QED
  BY <1>1, <1>2, <1>3 DEF Next

\* What lies between the reader and the writer is ordered in time, at every moment.
THEOREM SurfaceInvariant == Spec => []PairInv
<1>1. Init => PairInv
  BY InitKept
<1>2. PairInv /\ [Next]_vars => PairInv'
  <2> SUFFICES ASSUME PairInv, [Next]_vars PROVE PairInv'
    OBVIOUS
  <2>1. CASE Next
    BY <2>1, NextKept
  <2>2. CASE UNCHANGED vars
    BY <2>2 DEF vars, PairInv, GoodWriter, GoodReader, CrcIsFresh, BlockIsOut, SendsBlock, DataInv,
         HashOfPast, Between, NotAfter, Past
  <2> QED
    BY <2>1, <2>2
<1> QED
  BY <1>1, <1>2, PTL DEF Spec

\* Types of both ends: a block index never leaves the surface.
THEOREM SurfaceTypeCorrect == Spec => []TypeOK
<1>1. PairInv => TypeOK
  BY DEF PairInv, GoodWriter, GoodReader, TypeOK
<1> QED
  BY <1>1, SurfaceInvariant, PTL

\* A writer that holds its surface for synchronised is right, for any number of
\* blocks, of values and of writes, over a radio that may lose everything.
THEOREM SyncedIsRight == NoValueComesBack => (Spec => []SyncedMeansSame)
<1> SUFFICES ASSUME NoValueComesBack PROVE Spec => []SyncedMeansSame
  OBVIOUS
<1>1. PairInv => SyncedMeansSame
  BY DEF PairInv, DataInv, SyncedMeansSame, Same
<1> QED
  BY <1>1, SurfaceInvariant, PTL

\* The pair implements the replicated surface its applications expect.
THEOREM SurfaceReplicates == NoValueComesBack => (Spec => Replicates)
<1> SUFFICES ASSUME NoValueComesBack PROVE Spec => Replicates
  OBVIOUS
<1>1. Init => Replicated!Init
  BY InitKept
<1>2. PairInv /\ [Next]_vars => [Replicated!Next]_(Replicated!vars)
  <2> SUFFICES ASSUME PairInv, [Next]_vars PROVE [Replicated!Next]_(Replicated!vars)
    OBVIOUS
  <2>1. CASE Next
    BY <2>1, NextKept
  <2>2. CASE UNCHANGED vars
    BY <2>2 DEF vars, Replicated!vars
  <2> QED
    BY <2>1, <2>2
<1> QED
  BY <1>1, <1>2, SurfaceInvariant, PTL DEF Spec, Replicates, Replicated!Spec

=============================================================================
