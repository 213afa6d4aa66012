------------------------ MODULE LoLaLinkKeeping_proof ------------------------
(***************************************************************************)
(* Theorems of LoLaLinkKeeping, for any periods, powers and signals, and   *)
(* their proofs.                                                           *)
(*                                                                         *)
(* An end panics before it gives up. No unit of time passes before the     *)
(* service has run in it, and once the panic has begun a run of the        *)
(* service leaves the power at its maximum.                                *)
(***************************************************************************)
EXTENDS LoLaLinkKeeping, SequenceTheorems, TLAPS

----------------------------------------------------------------------------
(* The inductive invariant *)

\* Since the unit after the one it began to panic in, and in that one once its
\* service has run, an end calls at full power.
CallsLoud(e) ==
  e.linked /\ (e.sinceReceived > Panic \/ (e.sinceReceived >= Panic /\ e.ran))
    => e.power = PowerMax

GoodEnd(e) == e \in EndRecords /\ CallsLoud(e)

KeepingInv == TypeOK /\ \A n \in Ends : CallsLoud(end[n])

\* Ends that differ in nothing the panic is about, or in the run only.
AlikeButRun(e, f) ==
  f.linked = e.linked /\ f.sinceReceived = e.sinceReceived /\ f.power = e.power

Alike(e, f) == AlikeButRun(e, f) /\ f.ran = e.ran

\* What a step may make of an end.
Kept(e, f) == GoodEnd(f) /\ (e.linked /\ ~f.linked => e.power = PowerMax)

\* What a step of the service of an end may make of it: the link stays, nothing
\* is heard, and an end that panics is at full power.
Served(e, f) ==
  /\ f \in EndRecords
  /\ f.linked = e.linked /\ f.sinceReceived = e.sinceReceived
  /\ f.sinceReceived >= Panic => f.power = PowerMax

----------------------------------------------------------------------------
(* The operators on an end *)

LEMMA Periods ==
  /\ PowerMin \in Nat /\ PowerMax \in Nat /\ PowerMin <= PowerMax
  /\ PowerUpdate \in Nat /\ InfoUpdate \in Nat /\ Panic \in Nat /\ Disconnect \in Nat
  /\ 0 < Panic /\ Panic < Disconnect
  /\ TunePeriod \in Nat /\ MaxOutage \in Nat /\ MinCalm \in Nat /\ Long \in Nat
  /\ SampleCount \in Nat /\ 1 <= SampleCount
BY BalancerAssumption, KeepingAssumption

\* Samples are sequences of bounded length.
LEMMA SamplesAreSequences ==
  \A s : s \in SeqOf(Rssis, SampleCount) <=> s \in Seq(Rssis) /\ Len(s) <= SampleCount
<1>1. ASSUME NEW s \in SeqOf(Rssis, SampleCount)
      PROVE  s \in Seq(Rssis) /\ Len(s) <= SampleCount
  <2>1. PICK k \in 0 .. SampleCount : s \in [1 .. k -> Rssis]
    BY <1>1 DEF SeqOf
  <2>2. s \in Seq(Rssis)
    BY <2>1, SeqDef
  <2>3. Len(s) \in Nat /\ 1 .. Len(s) = 1 .. k
    BY <2>1, <2>2, LenProperties
  <2> QED
    BY <2>1, <2>2, <2>3, Periods
<1>2. ASSUME NEW s \in Seq(Rssis), Len(s) <= SampleCount
      PROVE  s \in SeqOf(Rssis, SampleCount)
  <2>1. Len(s) \in 0 .. SampleCount /\ s \in [1 .. Len(s) -> Rssis]
    BY <1>2, Periods, LenProperties
  <2> QED
    BY <2>1 DEF SeqOf
<1> QED
  BY <1>1, <1>2

LEMMA AddSampleType ==
  ASSUME NEW s \in SeqOf(Rssis, SampleCount), NEW rssi \in Rssis
  PROVE  AddSample(s, rssi) \in SeqOf(Rssis, SampleCount)
<1>1. s \in Seq(Rssis) /\ Len(s) <= SampleCount /\ Len(s) \in Nat
  BY SamplesAreSequences, LenProperties
<1>2. CASE Len(s) = SampleCount
  <2>1. s # <<>>
    BY <1>2, Periods
  <2>2. Tail(s) \in Seq(Rssis) /\ Len(Tail(s)) = Len(s) - 1
    BY <1>1, <2>1, HeadTailProperties
  <2>3. Append(Tail(s), rssi) \in Seq(Rssis) /\ Len(Append(Tail(s), rssi)) = Len(s)
    BY <2>2, <1>1, AppendProperties
  <2> QED
    BY <1>1, <1>2, <2>3, SamplesAreSequences DEF AddSample
<1>3. CASE Len(s) # SampleCount
  <2>1. Append(s, rssi) \in Seq(Rssis) /\ Len(Append(s, rssi)) = Len(s) + 1
    BY <1>1, AppendProperties
  <2>2. Len(Append(s, rssi)) <= SampleCount
    BY <1>1, <1>3, <2>1, Periods
  <2>3. AddSample(s, rssi) = Append(s, rssi)
    BY <1>3 DEF AddSample
  <2> QED
    BY <2>1, <2>2, <2>3, SamplesAreSequences, Zenon
<1> QED
  BY <1>2, <1>3

LEMMA FirstSamples ==
  /\ <<>> \in SeqOf(Rssis, SampleCount)
  /\ \A rssi \in Rssis : <<rssi>> \in SeqOf(Rssis, SampleCount)
<1>1. <<>> \in Seq(Rssis) /\ Len(<<>>) = 0
  BY EmptySeq
<1>2. \A rssi \in Rssis : <<rssi>> \in Seq(Rssis) /\ Len(<<rssi>>) = 1
  OBVIOUS
<1>3. 0 <= SampleCount /\ 1 <= SampleCount
  BY Periods
<1> QED
  BY <1>1, <1>2, <1>3, SamplesAreSequences, Zenon

\* Whatever the samples say, the power stays in its range.
LEMMA PowerStaysInRange ==
  ASSUME NEW power \in PowerMin .. PowerMax, NEW rssi
  PROVE  NextTransmitPower(power, rssi) \in PowerMin .. PowerMax
BY BalancerAssumption DEF NextTransmitPower, AtLeast, AtMost

\* One field of an end at a time; Booleans by name.
LEMMA EndWith ==
  ASSUME NEW e \in EndRecords
  PROVE  /\ \A b \in BOOLEAN : LET f == [e EXCEPT !.ran = b]
                               IN  f \in EndRecords /\ AlikeButRun(e, f)
         /\ \A b \in BOOLEAN : LET f == [e EXCEPT !.reportPending = b]
                               IN  f \in EndRecords /\ Alike(e, f)
         /\ \A x \in Kinds \cup {None} : LET f == [e EXCEPT !.out = x]
                                         IN  f \in EndRecords /\ Alike(e, f)
         /\ \A x \in {"Done", "Sending", "WaitingForSentOk"} :
              LET f == [e EXCEPT !.status = x] IN f \in EndRecords /\ Alike(e, f)
         /\ \A x \in {"Clear", "Requested", "ResultIn"} :
              LET f == [e EXCEPT !.txn = x] IN f \in EndRecords /\ Alike(e, f)
         /\ \A x \in {0, TunePeriod} :
              LET f == [e EXCEPT !.sinceSynced = x] IN f \in EndRecords /\ Alike(e, f)
         /\ LET f == [e EXCEPT !.sinceBalanced = 0] IN f \in EndRecords /\ Alike(e, f)
         /\ LET f == [e EXCEPT !.sinceReport = 0] IN f \in EndRecords /\ Alike(e, f)
         /\ LET f == [e EXCEPT !.sincePartnerReport = 0] IN f \in EndRecords /\ Alike(e, f)
         /\ \A x \in SeqOf(Rssis, SampleCount) :
              LET f == [e EXCEPT !.samples = x] IN f \in EndRecords /\ Alike(e, f)
<1>1. \A b \in BOOLEAN : LET f == [e EXCEPT !.ran = b]
                         IN  f \in EndRecords /\ AlikeButRun(e, f)
  BY DEF EndRecords, Alike, AlikeButRun
<1>2. \A b \in BOOLEAN : LET f == [e EXCEPT !.reportPending = b]
                         IN  f \in EndRecords /\ Alike(e, f)
  BY DEF EndRecords, Alike, AlikeButRun
<1>3. \A x \in Kinds \cup {None} : LET f == [e EXCEPT !.out = x]
                                   IN  f \in EndRecords /\ Alike(e, f)
  BY DEF EndRecords, Alike, AlikeButRun
<1>4. \A x \in {"Done", "Sending", "WaitingForSentOk"} :
        LET f == [e EXCEPT !.status = x] IN f \in EndRecords /\ Alike(e, f)
  BY DEF EndRecords, Alike, AlikeButRun
<1>5. \A x \in {"Clear", "Requested", "ResultIn"} :
        LET f == [e EXCEPT !.txn = x] IN f \in EndRecords /\ Alike(e, f)
  BY DEF EndRecords, Alike, AlikeButRun
<1>6. \A x \in {0, TunePeriod} :
        LET f == [e EXCEPT !.sinceSynced = x] IN f \in EndRecords /\ Alike(e, f)
  BY Periods DEF EndRecords, Alike, AlikeButRun
<1>7. LET f == [e EXCEPT !.sinceBalanced = 0] IN f \in EndRecords /\ Alike(e, f)
  BY Periods DEF EndRecords, Alike, AlikeButRun
<1>8. LET f == [e EXCEPT !.sinceReport = 0] IN f \in EndRecords /\ Alike(e, f)
  BY Periods DEF EndRecords, Alike, AlikeButRun
<1>9. LET f == [e EXCEPT !.sincePartnerReport = 0] IN f \in EndRecords /\ Alike(e, f)
  BY Periods DEF EndRecords, Alike, AlikeButRun
<1>10. \A x \in SeqOf(Rssis, SampleCount) :
         LET f == [e EXCEPT !.samples = x] IN f \in EndRecords /\ Alike(e, f)
  BY DEF EndRecords, Alike, AlikeButRun
<1> QED
  BY <1>1, <1>2, <1>3, <1>4, <1>5, <1>6, <1>7, <1>8, <1>9, <1>10

LEMMA UpdateServes ==
  ASSUME NEW e \in EndRecords
  PROVE  Served(e, Update(e))
<1>1. CASE Panics(e)
  <2> DEFINE g == SetMaxPower(e)
             f == [g EXCEPT !.sinceBalanced = 0]
  <2>1. /\ g \in EndRecords /\ g.power = PowerMax
        /\ g.linked = e.linked /\ g.sinceReceived = e.sinceReceived
    BY Periods DEF SetMaxPower, EndRecords
  <2>2. Update(e) = f
    BY <1>1 DEF Update
  <2> HIDE DEF g
  <2>3. f \in EndRecords /\ Alike(g, f)
    BY <2>1, EndWith
  <2> QED
    BY <2>1, <2>2, <2>3 DEF Served, Alike, AlikeButRun
<1>2. CASE ~Panics(e)
  <2> DEFINE p == NextTransmitPower(e.power, PartnerRSSI(e.samples))
             g == [e EXCEPT !.sinceBalanced = 0]
             f == [g EXCEPT !.power = p]
  <2>1. p \in PowerMin .. PowerMax
    BY PowerStaysInRange DEF EndRecords
  <2>2. ~(e.sinceReceived >= Panic)
    BY <1>2 DEF Panics
  <2>3. Update(e) \in {e, f}
    BY <1>2 DEF Update
  <2>4. g \in EndRecords /\ Alike(e, g)
    BY EndWith
  <2> HIDE DEF g, p
  <2>5. f \in EndRecords /\ f.linked = g.linked /\ f.sinceReceived = g.sinceReceived
    BY <2>1, <2>4 DEF EndRecords
  <2> HIDE DEF f
  <2> QED
    BY <2>2, <2>3, <2>4, <2>5 DEF Served, Alike, AlikeButRun
<1> QED
  BY <1>1, <1>2

\* The fields a step may change together with others.
LEMMA EndTakes ==
  ASSUME NEW e \in EndRecords
  PROVE  /\ \A x \in BOOLEAN : [e EXCEPT !.linked = x] \in EndRecords
         /\ \A x \in 0 .. Disconnect + 1 : [e EXCEPT !.sinceReceived = x] \in EndRecords
         /\ \A x \in 0 .. InfoUpdate + 1 : [e EXCEPT !.sinceReport = x] \in EndRecords
         /\ \A x \in 0 .. Long : [e EXCEPT !.sincePartnerReport = x] \in EndRecords
         /\ \A x \in 0 .. 2 * TunePeriod + 1 : [e EXCEPT !.sinceSynced = x] \in EndRecords
         /\ \A x \in 0 .. PowerUpdate + 1 \cup {Never} :
              [e EXCEPT !.sinceBalanced = x] \in EndRecords
<1>1. \A x \in BOOLEAN : [e EXCEPT !.linked = x] \in EndRecords
  BY DEF EndRecords
<1>2. \A x \in 0 .. Disconnect + 1 : [e EXCEPT !.sinceReceived = x] \in EndRecords
  BY DEF EndRecords
<1>3. \A x \in 0 .. InfoUpdate + 1 : [e EXCEPT !.sinceReport = x] \in EndRecords
  BY DEF EndRecords
<1>4. \A x \in 0 .. Long : [e EXCEPT !.sincePartnerReport = x] \in EndRecords
  BY DEF EndRecords
<1>5. \A x \in 0 .. 2 * TunePeriod + 1 : [e EXCEPT !.sinceSynced = x] \in EndRecords
  BY DEF EndRecords
<1>6. \A x \in 0 .. PowerUpdate + 1 \cup {Never} :
        [e EXCEPT !.sinceBalanced = x] \in EndRecords
  BY DEF EndRecords
<1> QED
  BY <1>1, <1>2, <1>3, <1>4, <1>5, <1>6

LEMMA SendServes ==
  ASSUME NEW e, NEW u, Served(e, u), NEW kind \in Kinds
  PROVE  Served(e, Send(u, kind))
<1> DEFINE g == [u EXCEPT !.out = kind]
           f == [g EXCEPT !.status = "Sending"]
<1>1. u \in EndRecords
  BY DEF Served
<1>2. Send(u, kind) = f
  BY DEF Send
<1>3. g \in EndRecords /\ Alike(u, g)
  BY <1>1, EndWith
<1> HIDE DEF g
<1>4. f \in EndRecords /\ Alike(g, f)
  BY <1>3, EndWith
<1> QED
  BY <1>2, <1>3, <1>4 DEF Served, Alike, AlikeButRun

\* What is changed one field at a time.
LEMMA AlikeServes ==
  ASSUME NEW e, NEW u, Served(e, u), NEW f \in EndRecords, AlikeButRun(u, f)
  PROVE  Served(e, f)
BY DEF Served, AlikeButRun

\* Every run of the service begins with Update.
LEMMA ServiceServes ==
  ASSUME NEW n \in Ends, NEW e \in EndRecords, NEW f \in OnKeepingLinkCommon(n, e)
  PROVE  Served(e, f)
<1> DEFINE u == Update(e)
<1>1. Served(e, u) /\ u \in EndRecords
  BY UpdateServes DEF Served
<1>2. PrepareLinkReport(u) \in Kinds
  BY DEF PrepareLinkReport, Kinds
<1> HIDE DEF u
<1>3. Served(e, [Send(u, PrepareLinkReport(u)) EXCEPT !.ran = TRUE])
  <2> DEFINE g == Send(u, PrepareLinkReport(u))
  <2>1. Served(e, g) /\ g \in EndRecords
    BY <1>1, <1>2, SendServes DEF Served
  <2> HIDE DEF g
  <2>2. LET h == [g EXCEPT !.ran = TRUE] IN h \in EndRecords /\ AlikeButRun(g, h)
    BY <2>1, EndWith
  <2>3. Served(e, [g EXCEPT !.ran = TRUE])
    BY <2>1, <2>2, AlikeServes
  <2> QED
    BY <2>3 DEF g
<1>4. \A b \in BOOLEAN : Served(e, [u EXCEPT !.reportPending = b])
  BY <1>1, EndWith, AlikeServes DEF Alike
<1>5. \A g \in OnKeepingLink(n, u) : Served(e, g)
  <2> DEFINE c == [u EXCEPT !.txn = "Clear"]
             d == [u EXCEPT !.txn = "Requested"]
  <2>1. /\ c \in EndRecords /\ Alike(u, c) /\ d \in EndRecords /\ Alike(u, d)
        /\ [u EXCEPT !.ran = TRUE] \in EndRecords
        /\ AlikeButRun(u, [u EXCEPT !.ran = TRUE])
    BY <1>1, EndWith
  <2>2. Served(e, c) /\ Served(e, d) /\ Served(e, [u EXCEPT !.ran = TRUE])
    BY <1>1, <2>1, AlikeServes DEF Alike
  <2>3. "TuneReply" \in Kinds /\ "TuneRequest" \in Kinds
    BY DEF Kinds
  <2>4. OnKeepingLink(n, u) \subseteq
          {Send(c, "TuneReply"), c, [c EXCEPT !.sinceSynced = 0],
           Send(d, "TuneRequest"), [u EXCEPT !.ran = TRUE]}
    BY DEF OnKeepingLink
  <2> HIDE DEF c, d
  <2>5. Served(e, [c EXCEPT !.sinceSynced = 0])
    BY <2>1, <2>2, EndWith, AlikeServes DEF Alike
  <2>6. Served(e, Send(c, "TuneReply")) /\ Served(e, Send(d, "TuneRequest"))
    BY <2>2, <2>3, SendServes
  <2> QED
    BY <2>2, <2>4, <2>5, <2>6
<1>6. OnKeepingLinkCommon(n, e) \subseteq
        {u, [Send(u, PrepareLinkReport(u)) EXCEPT !.ran = TRUE],
         [u EXCEPT !.reportPending = TRUE]} \cup OnKeepingLink(n, u)
  BY DEF OnKeepingLinkCommon, u
<1> QED
  BY <1>1, <1>3, <1>4, <1>5, <1>6

LEMMA ServedIsKept ==
  ASSUME NEW e \in EndRecords, NEW f, Served(e, f)
  PROVE  Kept(e, f)
BY Periods DEF Served, Kept, GoodEnd, CallsLoud, EndRecords

LEMMA AlikeIsKept ==
  ASSUME NEW e, GoodEnd(e), NEW f \in EndRecords, Alike(e, f)
  PROVE  Kept(e, f)
BY DEF Alike, AlikeButRun, Kept, GoodEnd, CallsLoud

LEMMA LeaveLinkKeeps ==
  ASSUME NEW e, GoodEnd(e), e.linked, GivesUp(e)
  PROVE  Kept(e, LeaveLink(e))
<1> DEFINE g == SetMaxPower(e)
           f == LeaveLink(e)
<1>1. g \in EndRecords
  BY Periods DEF GoodEnd, SetMaxPower, EndRecords
<1>2. f = [g EXCEPT !.linked = FALSE, !.reportPending = FALSE, !.txn = "Clear",
                    !.samples = <<>>, !.sinceSynced = 0]
  BY DEF LeaveLink
<1>3. f \in EndRecords
  <2> DEFINE a == [g EXCEPT !.linked = FALSE]
             b == [a EXCEPT !.reportPending = FALSE]
             c == [b EXCEPT !.txn = "Clear"]
             d == [c EXCEPT !.samples = <<>>]
  <2> HIDE DEF g
  <2>1. f = [d EXCEPT !.sinceSynced = 0]
    BY <1>2
  <2>2. a \in EndRecords
    BY <1>1, EndTakes
  <2> HIDE DEF a
  <2>3. b \in EndRecords
    BY <2>2, EndWith
  <2> HIDE DEF b
  <2>4. c \in EndRecords
    BY <2>3, EndWith
  <2> HIDE DEF c
  <2>5. d \in EndRecords
    BY <2>4, EndWith, FirstSamples
  <2> HIDE DEF d
  <2> QED
    BY <2>1, <2>5, EndWith
<1> HIDE DEF g
<1>4. ~f.linked
  BY <1>1, <1>2 DEF EndRecords
<1>5. e.power = PowerMax
  <2>1. e.sinceReceived \in Nat /\ e.sinceReceived > Disconnect
    BY DEF GoodEnd, GivesUp, EndRecords
  <2>2. e.sinceReceived > Panic
    BY <2>1, Periods
  <2> QED
    BY <2>2, Zenon DEF GoodEnd, CallsLoud
<1> QED
  BY <1>3, <1>4, <1>5 DEF Kept, GoodEnd, CallsLoud

\* A link begins with its partner just heard.
LEMMA EstablishedIsGood ==
  ASSUME NEW e \in EndRecords, NEW rssi \in Rssis, NEW synced \in {0, TunePeriod}
  PROVE  GoodEnd(Established(e, rssi, synced))
<1> DEFINE f == Established(e, rssi, synced)
           a == [e EXCEPT !.linked = TRUE]
           b == [a EXCEPT !.sinceReceived = 0]
           c == [b EXCEPT !.samples = <<rssi>>]
           d == [c EXCEPT !.sinceSynced = synced]
<1>1. f = [d EXCEPT !.ran = FALSE]
  BY DEF Established
<1>2. f \in EndRecords
  <2>1. a \in EndRecords
    BY EndTakes
  <2> HIDE DEF a
  <2>2. b \in EndRecords
    BY <2>1, EndTakes, Periods
  <2> HIDE DEF b
  <2>3. c \in EndRecords
    BY <2>2, EndWith, FirstSamples
  <2> HIDE DEF c
  <2>4. d \in EndRecords
    BY <2>3, EndWith
  <2> HIDE DEF d
  <2> QED
    BY <1>1, <2>4, EndWith
<1>3. f.sinceReceived = 0
  BY DEF Established, EndRecords
<1> QED
  BY <1>2, <1>3, Periods DEF GoodEnd, CallsLoud

LEMMA FirstBootType == FirstBoot \in EndRecords
<1>1. \A a, b, c \in BOOLEAN :
        [linked |-> a, sinceReceived |-> 0, sinceReport |-> InfoUpdate + 1,
         sincePartnerReport |-> Long, reportPending |-> b, status |-> "Done",
         out |-> None, txn |-> "Clear", sinceSynced |-> 0, power |-> PowerMax,
         samples |-> <<>>, sinceBalanced |-> Never, ran |-> c] \in EndRecords
  BY FirstSamples, Periods DEF EndRecords
<1> QED
  BY <1>1 DEF FirstBoot

LEMMA OnSendOkKeeps ==
  ASSUME NEW e \in EndRecords
  PROVE  LET f == [OnSendOk(e) EXCEPT !.status = "Done", !.out = None]
         IN  f \in EndRecords /\ Alike(e, f)
<1> DEFINE g == [e EXCEPT !.reportPending = FALSE]
           h == [g EXCEPT !.sinceReport = 0]
           u == OnSendOk(e)
           v == [u EXCEPT !.status = "Done"]
<1>1. g \in EndRecords /\ Alike(e, g)
  BY EndWith
<1>2. h = [e EXCEPT !.reportPending = FALSE, !.sinceReport = 0]
  OBVIOUS
<1>3. u \in {e, h}
  BY <1>2 DEF OnSendOk
<1> HIDE DEF g, u
<1>4. h \in EndRecords /\ Alike(g, h)
  BY <1>1, EndWith
<1> HIDE DEF h
<1>5. u \in EndRecords /\ Alike(e, u)
  BY <1>1, <1>3, <1>4 DEF Alike, AlikeButRun
<1>6. v \in EndRecords /\ Alike(u, v)
  BY <1>5, EndWith
<1>7. [v EXCEPT !.out = None] = [u EXCEPT !.status = "Done", !.out = None]
  OBVIOUS
<1> HIDE DEF v
<1>8. [v EXCEPT !.out = None] \in EndRecords /\ Alike(v, [v EXCEPT !.out = None])
  BY <1>6, EndWith
<1> QED
  BY <1>5, <1>6, <1>7, <1>8 DEF Alike, AlikeButRun, u

LEMMA ProcessPacketKeeps ==
  ASSUME NEW n \in Ends, NEW e \in EndRecords, NEW kind,
         NEW rssi, IsReport(kind) => rssi \in Rssis
  PROVE  LET f == ProcessPacket(n, e, kind, rssi)
         IN  f \in EndRecords /\ Alike(e, f)
<1> DEFINE f == ProcessPacket(n, e, kind, rssi)
<1>1. CASE IsReport(kind)
  <2> DEFINE g == [e EXCEPT !.sincePartnerReport = 0]
             s == AddSample(e.samples, rssi)
             h == [g EXCEPT !.samples = s]
             b == e.reportPending \/ kind = "ReportWithReply"
             k == [h EXCEPT !.reportPending = b]
  <2>0. f = OnReportReceived(e, kind, rssi)
    BY <1>1 DEF ProcessPacket, IsReport
  <2>1. f = [e EXCEPT !.sincePartnerReport = 0, !.samples = s, !.reportPending = b]
    BY <2>0, Zenon DEF OnReportReceived
  <2>2. s \in SeqOf(Rssis, SampleCount) /\ b \in BOOLEAN
    BY <1>1, AddSampleType DEF EndRecords
  <2> HIDE DEF s, b
  <2>3. f = k
    BY <2>1
  <2>4. g \in EndRecords /\ Alike(e, g)
    BY EndWith
  <2> HIDE DEF g
  <2>5. h \in EndRecords /\ Alike(g, h)
    BY <2>2, <2>4, EndWith
  <2> HIDE DEF h
  <2>6. k \in EndRecords /\ Alike(h, k)
    BY <2>2, <2>5, EndWith
  <2> QED
    BY <2>3, <2>4, <2>5, <2>6 DEF Alike, AlikeButRun
<1>2. CASE ~IsReport(kind)
  <2>1. f \in {e, [e EXCEPT !.txn = "ResultIn"]}
    BY <1>2 DEF ProcessPacket
  <2>2. \A x \in {e, [e EXCEPT !.txn = "ResultIn"]} : x \in EndRecords /\ Alike(e, x)
    <3>1. LET g == [e EXCEPT !.txn = "ResultIn"] IN g \in EndRecords /\ Alike(e, g)
      BY EndWith
    <3>2. Alike(e, e)
      BY DEF Alike, AlikeButRun
    <3> QED
      BY <3>1, <3>2
  <2> QED
    BY <2>1, <2>2
<1> QED
  BY <1>1, <1>2

\* Before a unit passes, an end that panics has run.
LEMMA PassesKeeps ==
  ASSUME NEW e, GoodEnd(e), e.linked => e.ran
  PROVE  Kept(e, Passes(e))
<1> DEFINE f == Passes(e)
<1>1. e \in EndRecords
  BY DEF GoodEnd
<1>2. f \in EndRecords
  <2>1. /\ AtMost(Disconnect + 1, e.sinceReceived + 1) \in 0 .. Disconnect + 1
        /\ AtMost(InfoUpdate + 1, e.sinceReport + 1) \in 0 .. InfoUpdate + 1
        /\ AtMost(Long, e.sincePartnerReport + 1) \in 0 .. Long
        /\ AtMost(2 * TunePeriod + 1, e.sinceSynced + 1) \in 0 .. 2 * TunePeriod + 1
        /\ e.sinceBalanced # Never
             => AtMost(PowerUpdate + 1, e.sinceBalanced + 1) \in 0 .. PowerUpdate + 1
    BY <1>1, Periods DEF EndRecords, AtMost
  <2>3. (IF Tunes /\ e.linked THEN AtMost(2 * TunePeriod + 1, e.sinceSynced + 1) ELSE 0)
          \in 0 .. 2 * TunePeriod + 1
    BY <2>1, Periods
  <2>4. (IF e.sinceBalanced = Never THEN Never
                                    ELSE AtMost(PowerUpdate + 1, e.sinceBalanced + 1))
          \in 0 .. PowerUpdate + 1 \cup {Never}
    BY <2>1
  <2> DEFINE r == AtMost(Disconnect + 1, e.sinceReceived + 1)
             o == AtMost(InfoUpdate + 1, e.sinceReport + 1)
             p == AtMost(Long, e.sincePartnerReport + 1)
             s == IF Tunes /\ e.linked THEN AtMost(2 * TunePeriod + 1, e.sinceSynced + 1) ELSE 0
             b == IF e.sinceBalanced = Never THEN Never
                                             ELSE AtMost(PowerUpdate + 1, e.sinceBalanced + 1)
             er == [e EXCEPT !.sinceReceived = r]
             eo == [er EXCEPT !.sinceReport = o]
             ep == [eo EXCEPT !.sincePartnerReport = p]
             es == [ep EXCEPT !.sinceSynced = s]
             eb == [es EXCEPT !.sinceBalanced = b]
  <2>5. f = [e EXCEPT !.sinceReceived = r, !.sinceReport = o, !.sincePartnerReport = p,
                      !.sinceSynced = s, !.sinceBalanced = b, !.ran = FALSE]
    BY Zenon DEF Passes
  <2> HIDE DEF f, r, o, p, s, b
  <2>6. f = [eb EXCEPT !.ran = FALSE]
    BY <2>5
  <2>7. er \in EndRecords
    BY <1>1, <2>1, EndTakes DEF r
  <2> HIDE DEF er
  <2>8. eo \in EndRecords
    BY <2>1, <2>7, EndTakes DEF o
  <2> HIDE DEF eo
  <2>9. ep \in EndRecords
    BY <2>1, <2>8, EndTakes DEF p
  <2> HIDE DEF ep
  <2>10. es \in EndRecords
    BY <2>3, <2>9, EndTakes DEF s
  <2> HIDE DEF es
  <2>11. eb \in EndRecords
    BY <2>4, <2>10, EndTakes DEF b
  <2> HIDE DEF eb
  <2> QED
    BY <2>6, <2>11, EndWith
<1>3. /\ f.linked = e.linked /\ f.power = e.power
      /\ f.sinceReceived = AtMost(Disconnect + 1, e.sinceReceived + 1)
      /\ ~f.ran
  BY <1>1 DEF Passes, EndRecords
<1>4. f.sinceReceived > Panic => e.sinceReceived >= Panic
  BY <1>1, <1>3, Periods DEF AtMost, EndRecords
<1> QED
  BY <1>2, <1>3, <1>4 DEF Kept, GoodEnd, CallsLoud

----------------------------------------------------------------------------
(* The actions *)

Airs == [Ends -> Kinds \cup {"Data", None}]

TimesOK == outage \in 0 .. MaxOutage \cup {None} /\ calm \in 0 .. MinCalm

\* What GivenUpAtFullPower says of a step.
GivesUpLoud ==
  \A n \in Ends : end[n].linked /\ ~end'[n].linked => end[n].power = PowerMax

\* A step of one end.
LEMMA OneEndSteps ==
  ASSUME KeepingInv, NEW n \in Ends, NEW f, Kept(end[n], f), end' = [end EXCEPT ![n] = f],
         air' \in Airs, TimesOK'
  PROVE  KeepingInv' /\ GivesUpLoud
BY Zenon DEF KeepingInv, TypeOK, Airs, TimesOK, Kept, GoodEnd, GivesUpLoud

\* A step of the air or of time.
LEMMA NoEndSteps ==
  ASSUME KeepingInv, end' = end, air' \in Airs, TimesOK'
  PROVE  KeepingInv' /\ GivesUpLoud
BY Zenon DEF KeepingInv, TypeOK, Airs, TimesOK, GivesUpLoud

LEMMA InvParts ==
  ASSUME KeepingInv
  PROVE  /\ end \in [Ends -> EndRecords] /\ air \in Airs /\ TimesOK
         /\ \A n \in Ends : GoodEnd(end[n]) /\ end[n] \in EndRecords
BY DEF KeepingInv, TypeOK, Airs, TimesOK, GoodEnd

LEMMA OthersAreEnds == \A n \in Ends : Other(n) \in Ends
BY DEF Other, Ends

LEMMA LoseLinkStep ==
  ASSUME KeepingInv, NEW n \in Ends, LoseLink(n)
  PROVE  KeepingInv' /\ GivesUpLoud
<1>1. Kept(end[n], LeaveLink(end[n]))
  BY InvParts, LeaveLinkKeeps DEF LoseLink
<1>2. end' = [end EXCEPT ![n] = LeaveLink(end[n])]
  BY DEF LoseLink
<1>3. air' \in Airs /\ TimesOK'
  BY InvParts DEF LoseLink, TimesOK
<1> QED
  BY <1>1, <1>2, <1>3, OneEndSteps

LEMMA KeepLinkStep ==
  ASSUME KeepingInv, NEW n \in Ends, KeepLink(n)
  PROVE  KeepingInv' /\ GivesUpLoud
<1>1. PICK f \in OnKeepingLinkCommon(n, end[n]) : end' = [end EXCEPT ![n] = f]
  BY DEF KeepLink
<1>2. Kept(end[n], f)
  BY <1>1, InvParts, ServiceServes, ServedIsKept
<1>3. air' \in Airs /\ TimesOK'
  BY InvParts DEF KeepLink, TimesOK
<1> QED
  BY <1>1, <1>2, <1>3, OneEndSteps

LEMMA TransmitStep ==
  ASSUME KeepingInv, NEW n \in Ends, Transmit(n)
  PROVE  KeepingInv' /\ GivesUpLoud
<1> DEFINE f == [end[n] EXCEPT !.status = "WaitingForSentOk"]
<1>1. Kept(end[n], f)
  <2>1. f \in EndRecords /\ Alike(end[n], f)
    BY InvParts, EndWith
  <2> QED
    BY <2>1, InvParts, AlikeIsKept
<1>2. end' = [end EXCEPT ![n] = f]
  BY DEF Transmit
<1>3. end[n].out \in Kinds \cup {None}
  BY InvParts DEF EndRecords
<1>4. air' \in Airs /\ TimesOK'
  BY <1>3, InvParts DEF Transmit, TimesOK, Airs
<1> QED
  BY <1>1, <1>2, <1>4, OneEndSteps

LEMMA SendFailsStep ==
  ASSUME KeepingInv, NEW n \in Ends, SendFails(n)
  PROVE  KeepingInv' /\ GivesUpLoud
<1> DEFINE g == [end[n] EXCEPT !.status = "Done"]
           f == [g EXCEPT !.out = None]
<1>1. end' = [end EXCEPT ![n] = f]
  BY InvParts DEF SendFails
<1>2. g \in EndRecords /\ Alike(end[n], g)
  BY InvParts, EndWith
<1> HIDE DEF g
<1>3. f \in EndRecords /\ Alike(g, f)
  BY <1>2, EndWith
<1>4. Kept(end[n], f)
  BY <1>2, <1>3, InvParts, AlikeIsKept DEF Alike, AlikeButRun
<1>5. air' \in Airs /\ TimesOK'
  BY InvParts DEF SendFails, TimesOK
<1> QED
  BY <1>1, <1>4, <1>5, OneEndSteps

LEMMA SentOkStep ==
  ASSUME KeepingInv, NEW n \in Ends, SentOk(n)
  PROVE  KeepingInv' /\ GivesUpLoud
<1> DEFINE f == [OnSendOk(end[n]) EXCEPT !.status = "Done", !.out = None]
<1>1. end' = [end EXCEPT ![n] = f]
  BY DEF SentOk
<1>2. Kept(end[n], f)
  BY InvParts, OnSendOkKeeps, AlikeIsKept
<1>3. air' \in Airs /\ TimesOK'
  BY InvParts DEF SentOk, TimesOK
<1> QED
  BY <1>1, <1>2, <1>3, OneEndSteps

LEMMA SendDataStep ==
  ASSUME KeepingInv, NEW n \in Ends, SendData(n)
  PROVE  KeepingInv' /\ GivesUpLoud
<1>1. end' = end /\ air' \in Airs /\ TimesOK'
  BY InvParts DEF SendData, TimesOK, Airs
<1> QED
  BY <1>1, NoEndSteps

LEMMA ReceiveStep ==
  ASSUME KeepingInv, NEW n \in Ends, Receive(n)
  PROVE  KeepingInv' /\ GivesUpLoud
<1> DEFINE kind == air[Other(n)]
<1>1. air' \in Airs /\ TimesOK'
  BY InvParts, OthersAreEnds DEF Receive, TimesOK, Airs
<1>2. CASE end[n].linked
  <2>1. PICK rssi \in IF IsReport(kind) THEN Rssis ELSE {0} :
          end' = [end EXCEPT ![n] = [ProcessPacket(n, end[n], kind, rssi)
                                      EXCEPT !.sinceReceived = 0]]
    BY <1>2 DEF Receive
  <2> DEFINE g == ProcessPacket(n, end[n], kind, rssi)
             f == [g EXCEPT !.sinceReceived = 0]
  <2>2. g \in EndRecords /\ Alike(end[n], g)
    BY <2>1, InvParts, ProcessPacketKeeps
  <2> HIDE DEF g
  <2>3. f \in EndRecords
    BY <2>2, EndTakes, Periods
  <2>4. f.sinceReceived = 0 /\ f.linked = g.linked
    BY <2>2 DEF EndRecords
  <2>5. ~(f.sinceReceived > Panic) /\ ~(f.sinceReceived >= Panic)
    BY <2>4, Periods
  <2>6. Kept(end[n], f)
    BY <2>2, <2>3, <2>4, <2>5 DEF Kept, GoodEnd, CallsLoud, Alike, AlikeButRun
  <2> QED
    BY <1>1, <2>1, <2>6, OneEndSteps DEF g
<1>3. CASE ~end[n].linked
  <2>1. end' = end
    BY <1>3 DEF Receive
  <2> QED
    BY <1>1, <2>1, NoEndSteps
<1> QED
  BY <1>2, <1>3

LEMMA OutageStep ==
  ASSUME KeepingInv, OutageBegins \/ OutageEnds
  PROVE  KeepingInv' /\ GivesUpLoud
<1>1. CASE OutageBegins
  <2>1. end' = end /\ air' \in Airs /\ TimesOK'
    BY <1>1, InvParts, Periods DEF OutageBegins, TimesOK, Airs
  <2> QED
    BY <2>1, NoEndSteps
<1>2. CASE OutageEnds
  <2>1. end' = end /\ air' \in Airs /\ TimesOK'
    BY <1>2, InvParts, Periods DEF OutageEnds, TimesOK, Airs
  <2> QED
    BY <2>1, NoEndSteps
<1> QED
  BY <1>1, <1>2

LEMMA TickStep ==
  ASSUME KeepingInv, Tick
  PROVE  KeepingInv' /\ GivesUpLoud
<1>1. \A n \in Ends : end[n].linked => end[n].ran
  BY DEF Tick, Settled
<1>2. \A n \in Ends : Kept(end[n], Passes(end[n]))
  BY <1>1, InvParts, PassesKeeps
<1>3. end' = [n \in Ends |-> Passes(end[n])]
  BY DEF Tick
<1>4. air' \in Airs
  BY InvParts DEF Tick
<1>5. TimesOK'
  BY InvParts, Periods DEF Tick, Lost, TimesOK
<1> QED
  BY <1>2, <1>3, <1>4, <1>5, Zenon DEF KeepingInv, TypeOK, Airs, TimesOK, Kept, GoodEnd, GivesUpLoud

LEMMA RelinkStep ==
  ASSUME KeepingInv, Relink
  PROVE  KeepingInv' /\ GivesUpLoud
<1>1. PICK rssi \in [Ends -> Rssis], synced \in {0, TunePeriod} :
        end' = [n \in Ends |-> Established(end[n], rssi[n], synced)]
  BY DEF Relink
<1>2. \A n \in Ends : GoodEnd(Established(end[n], rssi[n], synced))
  BY InvParts, EstablishedIsGood
<1>3. air' \in Airs /\ TimesOK'
  BY InvParts DEF Relink, TimesOK
<1>4. \A n \in Ends : ~end[n].linked
  BY DEF Relink
<1> QED
  BY <1>1, <1>2, <1>3, <1>4, Zenon DEF KeepingInv, TypeOK, Airs, TimesOK, GoodEnd, GivesUpLoud

LEMMA InitGood == Init => KeepingInv
<1> SUFFICES ASSUME Init PROVE KeepingInv
  OBVIOUS
<1>1. PICK rssi \in [Ends -> Rssis], synced \in {0, TunePeriod} :
        end = [n \in Ends |-> Established(FirstBoot, rssi[n], synced)]
  BY DEF Init
<1>2. \A n \in Ends : GoodEnd(Established(FirstBoot, rssi[n], synced))
  BY FirstBootType, EstablishedIsGood
<1>3. air \in Airs /\ TimesOK
  BY Periods DEF Init, Airs, TimesOK
<1> QED
  BY <1>1, <1>2, <1>3, Zenon DEF KeepingInv, TypeOK, Airs, TimesOK, GoodEnd

LEMMA NextKeeps ==
  ASSUME KeepingInv, [Next]_vars
  PROVE  KeepingInv' /\ GivesUpLoud
<1>1. ASSUME UNCHANGED vars PROVE KeepingInv' /\ GivesUpLoud
  <2>1. end' = end /\ air' \in Airs /\ TimesOK'
    BY <1>1, InvParts DEF vars, TimesOK
  <2> QED
    BY <2>1, NoEndSteps
<1>2. ASSUME Next PROVE KeepingInv' /\ GivesUpLoud
  BY <1>2, LoseLinkStep, KeepLinkStep, TransmitStep, SendFailsStep, SentOkStep, SendDataStep,
     ReceiveStep, OutageStep, TickStep, RelinkStep DEF Next
<1> QED
  BY <1>1, <1>2

----------------------------------------------------------------------------
(* The theorems *)

\* The inductive invariant holds: both ends are records of their type, and one
\* that panics calls at full power once its service has run.
THEOREM KeepingInvariant == Spec => []KeepingInv
<1>1. KeepingInv /\ [Next]_vars => KeepingInv'
  BY NextKeeps
<1> QED
  BY InitGood, <1>1, PTL DEF Spec

\* Whatever the steps of the balancer and the signals, the power stays in its
\* range, and every count in the one its comparisons need.
THEOREM KeepingTypeCorrect == Spec => []TypeOK
<1>1. KeepingInv => TypeOK
  BY DEF KeepingInv
<1> QED
  BY KeepingInvariant, <1>1, PTL

\* No end gives its link up before it has called at full power.
THEOREM PanicsBeforeGivingUp == Spec => GivenUpAtFullPower
<1>1. KeepingInv /\ [Next]_vars
        => [\A n \in Ends : end[n].linked /\ ~end'[n].linked => end[n].power = PowerMax]_vars
  BY NextKeeps DEF GivesUpLoud
<1> QED
  BY KeepingInvariant, <1>1, PTL DEF Spec, GivenUpAtFullPower

=============================================================================
