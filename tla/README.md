# LoLa in TLA+

LoLa is an Arduino library that links two boards over a half-duplex packet
radio (a Si4463): a *host* and a *remote* find each other, agree on a key and
a clock, and then keep services, such as a surface of data replicated from one
to the other, running over the link. This directory holds TLA+ models of it,
the TLC runs that check them and proofs that TLAPS checks. Paths below are
relative to `src/src/` unless they begin with `src/`.

    tlc -workers 2 -config MCLinkPair.cfg MCLoLaLink      # one run
    tlapm LoLaLink_proof.tla                               # the proofs of one

`PROJECT.json` lists the runs, the mutants that show each property can fail,
the lines of the code behind each definition, the hazards and the theorems.


## 1. The system

| Part | State it keeps | Operations | Talks to |
|---|---|---|---|
| Manager (`Manager/LoLaManager.h`) | none | Setup, Start, Stop | link service, driver |
| Link service (`Services/Link/LoLaLinkService.h`, `AbstractLinkService.h`, `LoLaLinkInfo.h`) | link state, stage of the handshake, session, partner, statistics | UpdateLinkState, ClearSession, OnService, reports | driver, cryptography, clock, other services (link up, link lost) |
| Link service of the host (`LoLaLinkHostService.h`) and of the remote (`LoLaLinkRemoteService.h`) | the stage of the exchange of information | one handler for each packet, one step for each stage | the other end, by packets |
| Cryptography (`LoLaCrypto/LoLaCryptoKeyExchange.h`, `LoLaCryptoEncoder.h`) | key pair, partner key, stage; key, IV, token, stage | GenerateNewKeyPair, SetPartnerPublicKey, GenerateSharedKey; Clear, SetIvData, SetSecretKey, SetEnabled, SetToken | link service, driver |
| Clock synchronisation (`LoLaLinkClockSyncer.h`, `ClockSyncTransaction.h`, `LoLaClock/`) | transaction, good estimations, offset | request, reply, tune | link service |
| Latency meter, power balancer, channel manager, timed hopper (`Services/Link/`) | samples; power; channel; token | called by the link service | driver |
| Send service (`Services/IPacketSendService.h`) | one pending packet and its status | RequestSendPacket, Callback, ProcessSent, ProcessAck | driver; the base of every service |
| Services manager (`Services/LoLaServicesManager.h`) | table of services | Add, ProcessPacket, ProcessSent, NotifyServicesLinkUpdated | driver, services |
| Packet driver (`PacketDriver/LoLaPacketDriver.h`, `ILoLaDriver.h`) | state, header last sent, power and channel, current and last applied | SendPacket, ProcessIncoming, callbacks of the radio's interrupt | services, action queue, radio |
| Action queue (`PacketDriver/AsyncActionCallback.h`) | ring buffer of four events; its task enabled or not | AppendToQueue, Callback | interrupt, main loop |
| Radio (`PacketDriver/LoLaSi446x/`) | mode, channel, the packet in its buffer | transmit, receive, sleep, interrupts | driver |
| Synchronised surface (`Services/SyncSurface/`) | blocks, tracker of changed blocks, cached hash, state | writes, discovery, blocks, confirmations | the other end, by packets |
| Streams (`Services/Stream/`), identifiers, packet map, `Diagnostics/` | see "What is not modelled" | | |

Two kinds of concurrency make the code hard. *Inside a node*, everything runs
in one main loop, a cooperative scheduler, except the callbacks of the radio's
interrupt, which share the state of the driver and its event queue with it.
*Between nodes*, packets are lost, and each end has its own time-outs and may
be stopped, may renew its keys or may start over at any stage; nothing tells
the other. There is no storage, hence no crash recovery beyond a restart of
the services from their initial state.

What makes each part correct:

- *link*: an end in the link is encrypted, under the session, the partner and
  the key of this very attempt; both ends agree; no attempt inherits anything
  from the one before; the two commit in a known order;
- *driver*: it always comes back to receiving; interrupts that a packet turned
  off come back on; a service is told of its own packet only; the queue loses
  nothing that matters;
- *surface*: a writer at rest is right about the reader; a reader that stays
  linked gets everything;
- *clock and slots*: the remote follows the host, and the frames of the two
  ends of a link overlap by no more than the error of their clocks and of the
  estimated transmission time allow;
- *keeping the link*: an outage shorter than the periods allow for does not
  cost the link; one that does costs it to both; the clock is tuned meanwhile,
  what an end knows of the other is renewed, and the power stays in its range.


## 2. The modules

    LoLaCrypto                       key exchanger and encoder
      LoLaLinkService                a node, its states, what both ends share
        LoLaLinkHostService          the steps of a host
        LoLaLinkRemoteService        the steps of a remote
          LoLaLink                   nodes over a radio; the specification
            LoLaLink_proof           the theorems on each node
              LoLaLinkAgreement_proof  the theorems on two nodes, the refinement
                LoLaLinkAuthentic_proof  whose keys a link is under
            MCLoLaLink               for TLC: the symmetries
    AgreedLink                       what the handshake promises (abstract)
    LoLaLinkPowerBalancer            the balancer and the samples it reads
      LoLaLinkKeeping                the two ends of a link that is up, in time
        LoLaLinkKeeping_proof        its theorems on types and panic
          LoLaLinkSurvival_proof     its theorems on outages
        MCLoLaLinkKeeping            for TLC: who sends data
    LoLaClock                        clock source, offset, slots of the duplex
      DuplexLink                     two clocks, their exchange and the air
        DuplexLink_proof             its theorems
        MCDuplexLink                 for TLC: first values
    AsyncActionCallback              the event queue and its task
      LoLaPacketDriver               the driver of one node; the specification
        LoLaPacketDriver_proof       its theorems
        MCLoLaPacketDriver           for TLC: a constraint
    AbstractSync                     a surface, its hash, its pending packet
      SyncSurfaceWriter              the end that is written
      SyncSurfaceReader              the end that follows
        SyncSurface                  the pair over a link; the specification
          SyncSurface_proof          its theorems
          MCSyncSurface              for TLC: a hash, the writes
    ReplicatedSurface                what a surface promises (abstract)

The groups look at the system at different scales. The link model takes a
whole driver call for one step and leaves the services above the link out; the
driver model splits every call of the main loop at each access to what the
interrupt shares, and knows a packet by its header only; the surface model
takes the link for an event that comes and goes. The link model has no time:
`LoLaLinkKeeping` is the state Linked in units of 300 ms, `DuplexLink` the
clocks and the air in microseconds, scaled down. What one assumes of another
is said below and is a property of the other where a model of it exists: the
link model assumes a driver that always receives again (`RadioAttended`,
`ReceptionComesBack`, with the exception `driver_wakeup` found), the surface
model assumes that both ends of one link are in one session (`LinkAgreement`).

### The link (LoLaCrypto, LoLaLinkService, LoLaLinkHostService, LoLaLinkRemoteService, LoLaLink)

`node[n]` is the record of a node; a field is a field of the code, and an
operator on the record is a method. `ToSetup`, `ToAwaitingLink`, ... are the
cases of `UpdateLinkState`, nested calls included; the actions of the host and
remote modules are the cases of their stages and handlers; `LoLaLink` adds the
radio, the send service and the driver's processing of its one packet. A
transmission is heard by any subset of the nodes that could read it.

- A comparison with the clock is a choice: a time-out may fire at any run of
  its service. No property depends on how long anything takes.
- `SendFailed`, `AckFailed` and `WaitingForSentOk` lead on by themselves and
  are folded into the steps before and after them.
- Latency samples and good clock estimations are counted up to the number the
  code compares them with; durations, RSSI, RTT and offsets are left out here,
  with the remote's own count of good estimations: the power balancer is in
  `LoLaLinkKeeping`, clocks and duplex in `DuplexLink`.
- Cryptography is ideal: a shared secret is the set of the two key pairs, a
  frame is readable under the very block it was written under. A CRC that
  happens to match under another key is left out. The token is a function of
  the IV, as `SetTokenSeed` computes it from the bytes after the key.
- Token and frequency hopping are compiled out in the repository
  (`LOLA_LINK_USE_TOKEN_HOP`, `LOLA_LINK_USE_FREQUENCY_HOP`) and in the model.
- Details kept because they matter: a pending packet outlives `ClearSession`;
  `LinkInfo.Reset` keeps the partner's id; the nested `UpdateLinkState` of a
  failed `SetEnabled` does nothing; a clock request is sent once in `Linking`,
  since its lifetime equals that of the whole state; a sleeping host waits for
  a discovery (`awake`); a host takes a public key from whoever sends one in
  its session.

`AgreedLink` is the abstract specification of a pair: a two-phase agreement.
An attempt is on *terms*, the key and the IV of the cipher block; the remote
enters it first, on new terms, the host on the same; host asks, remote
commits, host commits; either may leave at any time and the other then goes on
alone, but nobody enters an attempt twice. In the mapping (`HostAttempt`,
`RemoteAttempt` in `LoLaLink`) a node has entered at the last stage of
AwaitingLink, joins when it is Linking, asks in the stage of the protocol
switch-over, and has committed in the stage after it and when Linked.

### Keeping a link (LoLaLinkPowerBalancer, LoLaLinkKeeping)

`end[n]` is the link service of an end with its info and its balancer. A unit
of time is the idle period of the service in a link (300 ms); everything the
service does in a shorter period (retries of 10 ms, the time of a packet)
happens within a unit, and `Tick` waits until both ends have nothing left to
do in it (`Settled`). `KeepLink` and `LoseLink` are `OnService` in Linked, in
the order of its branches: lost, balance, report due, partner silent, report
old, clock. A packet on the air may be received; in an outage everything is
lost. The time-out of the send service and an untimely sent-ok are choices
(`SendFails`, `SentOk`).

- Time stamps are ages, counted as far as something compares them (`Passes`).
- The time stamps of the reports, the power and `LastUpdated` outlive a link,
  the samples of the partner's RSSI do not (`LeaveLink`, `Established`).
- The handshake between two links is one step, `Relink`, once both ends have
  given the link up.
- An end that has given up hears the other no more (no cipher) and says so to
  nobody.

### Clock and duplex (LoLaClock, DuplexLink)

A clock is a source, an offset modulo `Wrap` and the state of its RTC;
`GetSyncMicros` with and without a time stamp are two operators because they
are two functions that differ in the default build. `DuplexLink` runs two of
them against one time: the remote asks for the error of its estimate, first
until the host has counted enough good ones, then to tune; each end sends when
`IsInSendSlot` says so (`AllowedSend`). The back-off after a frame, 1 ms in a
link, is left out, so an end may send more often than the code's: what holds of
the model holds with it. An ack goes out at once, in no slot; the library's own
packets with an ack belong to the set-up of a link, where the slots are not yet
observed, so no frame of the model has one. A service of the application that
asks for acks in a link would be outside of what `OverlapIsBounded` says. A
frame is on the air `AirTime`, the receiver senses it `Latency` after the
decision to send; any frame may be lost and any tick may come between two
steps. A `Slip` makes the two processors' counters drift by one. `air[n].error`
is a ghost: what the clocks were apart when the frame began.

### The driver (AsyncActionCallback, LoLaPacketDriver)

`todo` is the rest of the call the main loop is in: a sequence of methods, or
parts of one, each of them an action. Callbacks of the interrupt are actions
enabled whenever interrupts are on, between any two of those. `ActionGrunt`, a
field both sides fill in before they append it to the queue, is written in two
steps and copied in a third, as compiled code does. `waiting` is the set of
services in `WaitingForSentOk`; `sent` and `lost` are ghosts: what has really
left the antenna, and whether an event that restores the driver was dropped by
the full queue or overwritten in `ActionGrunt`.

- Slots, back-off and collision times only refuse a send; a service sends when
  it may. Easing an event only delays the task. Statistics are left out.
- A service's time-out (100 ms) comes long after its packet has left the air
  and its event the queue.
- Power 0 and channel 0xFF are `None`; the value of an event without one is 0,
  which is the header of an ack (`Ack`).
- `SetToReceiving` makes the radio give up what it does. The battery alarm
  comes through the same interrupt. A handler of a service may change the
  power (a remote woken by a broadcast does).
- In the default build the channel is fixed; `SetChannel` is modelled as the
  API offers it.

### The surface (AbstractSync, SyncSurfaceWriter, SyncSurfaceReader, SyncSurface)

A record per end, an operator per method, as for the link. Each end has one
packet on its way and one in its driver. `joinable` says that one end has
entered a link the other may still enter: an end whose link is lost cannot
come back to it, since the handshake needs both ends out of it.

- `LastRemoteHash` is left out: every packet that carries a hash sets it, and
  it is read nowhere else than in the handler of that packet. The reader's
  tracker is left out: nothing reads it.
- `LastSent` is only ever reset, never stamped, so the send periods of
  discovery and confirmation never hold anything back: both are sent again on
  each run. That half a second has passed without an answer to the
  discoveries is a choice.
- The hash is a constant operator, assumed to tell surfaces apart
  (`CrcAssumption`). CRC-8 does not, for one pair of surfaces in 256; what the
  runs and the theorems show is the protocol, on surfaces it tells apart. After
  a collision a writer may take other data for confirmed, and nothing here says
  how seldom.
- A packet waits for the radio 100 ms at most, and a link takes longer than
  that to set up: an end enters a link with no packet left (`Idle`).
- The first time its data is good, a reader notifies its own service as well,
  which takes it from `Synced` back to `Syncing`, where it stays until another
  confirmation comes (`ReaderStateUpdated`). The model does what the code does.
- `Writes` is what surface the application may make of what surface, and
  `After` what a block may hold later than what; `NoValueComesBack` says that
  `After` has no cycles. Counters and time stamps are such; a switch is not.

`ReplicatedSurface` is the abstract specification: a replica that takes, block
by block, a value its source has or has had since the one it holds, and a
confirmation that is given only while the two are the same. `Replicates` maps
source and replica to the two ends' data and the confirmation to a writer that
is `Synced`.


## 3. The runs

| Run | Asks | States | Bounds |
|---|---|---|---|
| `link_pair` | `TypeOK`, `EncryptedLink`, `FreshAttempt`, `LinkAgreement`, `HostCommitsLast`, `RemoteCommitsOnRequest`, `CipherIsFrozen`; implements `AgreedLink` (`Agrees`) | 919 k | one host, one remote that is stopped and started, two sessions and the invalid one, two key pairs each, one request id, one latency sample, no good estimation |
| `link_contest` | `AuthenticLink` | 2.4 M | two hosts, one remote, one session; no time-out |
| `driver_traffic` | `RadioAttended`, `DeafIsServed`, `CreditIsEarned` | 8.5 M | two services, two channels, a queue of three |
| `driver_queue` | `TypeOK`, `ReceptionComesBack` | 225 k | one service, a queue of two, which overflows |
| `driver_wakeup` | `ReceptionIsProcessed`: **violated** | | as `driver_queue` |
| `sync_session` | `TypeOK`, `SyncedMeansSame`, `ReaderCatchesUp`; implements `ReplicatedSurface` (`Replicates`) | 298 k | two blocks of three values, two writes |
| `sync_rewrites` | `IntegrityEnsured`: **violated** | | one block of two values, going up and down |
| `duplex` | `TypeOK`, `OverlapIsBounded`, `FollowsHostMicros`, `ArrivesInReceiveSlot` | 367 k | period 10, air time 3, estimate 2, a wrap of 64, two slips, 58 ticks |
| `duplex_rtc_slots` | `TakeTurns`: **violated** | | the default build, no slip |
| `keeping` | `LinkSurvives`, `InfoIsFresh` | 8.0 M | the periods of the code; outages of three units, seven units apart |
| `keeping_loss` | `TypeOK`, `GivenUpAtFullPower`, `LossIsMutual` | 752 k | periods cut to a half, outages of six units, two signal levels |
| `keeping_tune` | `ClockIsTuned`: **violated** | | one outage of one unit |

*Link.* Two sessions and two key pairs are what it takes for a packet of one
attempt to meet another, and for a pair to be renewed between two uses; more
of them repeat the same encounters, and the proofs cover every number.
`Stoppable`, `Expiring` and `Impatient` name the nodes that are stopped, whose
keys expire and whose time-outs fire. In `link_pair` the keys of both ends
expire and both are impatient; the remote is stopped and started. Stopping the
host too would triple the run; the proofs cover it. In `link_contest` two hosts
open the one session there is, so the remote hears the keys of both under one
session number. No time-out fires there, so a node whose partner is gone stays
as it is, which no property mentions (some step of a node is always possible);
what time-outs and more nodes add is covered by the proof of the property.

*Driver.* `driver_traffic` has one slot of the queue less than the code, which
loses events sooner; it stops at the first lost event (`NothingLost`): the
properties say nothing of what follows one, and the ghost never goes back. So
they read: *nothing but a lost event* leaves the driver deaf or waiting.
Losses do happen in the code, when the power changes often during one long
transmission; the comment "very rarely goes over 2"
(`PacketDriver/LoLaPacketDriver.h:34`) is not checked. `driver_queue` has no
such constraint, and a queue small enough to overflow.

*Surface.* Two blocks let one be written while the other is sent, and let one
be lost and the other not; three values let a block be written again before
the first write has been confirmed. `TwoWrites` lets the first block be
written twice or each block once, always upward: no value comes back.
`sync_rewrites` drops that condition.

*Duplex.* The proportions are the code's: an estimated transmission time well
below half a period, a frame that lasts at least as long. The wrap of 64 is no
multiple of the period, and the counters begin near it, so `micros()` wraps
while the exchange is on. Two slips are enough for one before the last
estimation and one in the link. The host's own clock is kept from its wrap:
2^32 is no multiple of the period of 10000 us either, so once in 71 minutes a
period is cut to 7296 us, inside the remote's slot, and the host may begin
while the remote still sends. `OverlapIsBounded` is a statement about the time
between two of those wraps, here and in the proof (`NoHostWrap`). Nor do the
seconds of the RTC roll over in a run (`NoRollOver`, 18 hours of the code).

*Keeping.* `keeping` has the real periods in units of 300 ms, rounded to the
side that makes an end speak later or give up sooner. The limits found are
tight: two outages of three units less than seven apart, or one of four, can
cost the link. Only the remote has other traffic, the clock is tuned every
second unit, and one signal level is enough since no balancing is at stake.
`keeping_loss` needs outages longer than the disconnection and signals on both
sides of the target; its smaller periods keep the order of the real ones
(`KeepingAssumption`).

### What four of them found

- `driver_wakeup`. The task of the queue finds it empty, the interrupt of a
  received packet turns the interrupts off, appends the event and enables the
  task, and the task goes on to disable itself
  (`PacketDriver/AsyncActionCallback.h:56-58`). The packet stays in the queue
  and the interrupts off; a `SetTransmitPower` with the driver ready does not
  enable the task, so the node may stay deaf for good. `ReceptionComesBack`
  shows that this is the only way: while the task is enabled, every packet is
  processed.
- `sync_rewrites`. The reply to "update finished" carries the hash of the
  reader and nothing that says which update it answers. Write 1 over 0, set it
  back to 0: the reader's reply to the surface of 0, still waiting for its
  slot when the block with 1 arrives, then confirms the second 0, whose block
  was lost. The writer is `Synced` and idle; the reader holds 1 and asks for
  nothing.
- `duplex_rtc_slots`. In the default build the slots and the remote's estimate
  are computed from the seconds of the RTC, while the host measures the error
  of that estimate against `GetSyncMicros(stamp)`, which adds the offset to
  `micros()` (`LoLaClock/ILoLaClockSource.h:47-50`,
  `Services/Link/LoLaLinkHostService.h:371`). The remote follows a clock the
  host does not send by, and both transmit at once. `FollowsHostMicros` shows
  that the exchange itself does what it means to, in both builds, and
  `OverlapIsBounded` what the slots are worth on `micros()`.
- `keeping_tune`. A tune request that is out bars the next, and unlike the
  request of the linking stage it has no lifetime
  (`Services/Link/LoLaLinkRemoteService.h:404`): one packet lost, and the clock
  is not tuned again in this link.

### Fairness

- `LoLaPacketDriver`: `WF(MainStep)`, the main loop goes on with the call it
  is in; `SF(Callback)`, the task of the queue runs again and again while it is
  enabled: it belongs to the high-priority scheduler
  (`src/examples/ExampleHost/ExampleHost.ino`, `setHighPriorityScheduler`),
  which runs before each task of the other. The interrupt and the services
  have no fairness.
- `SyncSurface`: the tasks of the main loop run (`WF`). The link is fair as a
  lossy link is: of the packets of one kind that are asked for again and again
  while the link is up, some are heard, and the driver reports some of its
  transmissions. The link may go at any time, and the application may write or
  not. The reader's periodic task needs no fairness once the writer syncs.
- `LoLaLinkKeeping`: every service runs (`WF` of `KeepLink`, `LoseLink`), what
  is to be sent is sent and what is on the air is heard (outages apart), the
  driver reports some of the transmissions (`SF(SentOk)`) and time goes on
  (`SF(Tick)`, since an end that keeps calling a silent partner puts it off).
  No fairness for outages: one may last (up to its bound), or never come.
- The link runs check safety only.


## 4. The proofs

`LoLaLink_proof` proves, for any sets of hosts, remotes, session ids and key
pairs, and any bounds:

| Theorem | States |
|---|---|
| `LinkInvariant` | `Spec => []LinkInv`, the inductive invariant |
| `TypeCorrect` | `Spec => []TypeOK` |
| `LinkIsEncrypted` | `Spec => []EncryptedLink` |
| `AttemptIsFresh` | `Spec => []FreshAttempt` |
| `CipherStaysFrozen` | `Spec => CipherIsFrozen` |

They assume what the modules declare: hosts and remotes are disjoint, `None`
is no node and no header, the invalid session is an id, and the two sample
counts are naturals.

The argument. None of the properties is inductive: that a linked node is
encrypted rests on what the stages before did to the encoder, and these on
what packets could be waiting. `LinkInv` is, for each node by itself,

- its type;
- `PacketsInv`: what the packet it sends and the one it holds can be (a
  broadcast always carries a valid session);
- `CipherInv`: what its cipher block is in each link state and stage (from the
  stage where the IV is derived on it is that of the session and the partner;
  at the last stage the encoder is ready; in a link it is on);
- `FreshInv`: what is clear at the first stage of AwaitingLink.

Nothing in it relates two nodes except that a frame one of them sends is well
formed, so a step is proved for the node that takes it. Each operator has a
lemma that it *keeps* the invariant (`Keeps`: `NodeInv` holds of the new
record, and the block of an enabled encoder is frozen), each action one that
it preserves `LinkInv` and freezes, and `NextKept` puts them together; the
theorems follow by PTL. `CipherStaysFrozen` needs the invariant too: that the
handshake never touches an enabled encoder follows from `CipherInv`.

`LoLaLinkAgreement_proof` proves what two nodes agree on, again for any number
of them on the channel and under the same assumptions:

| Theorem | States |
|---|---|
| `AgreementInvariant` | `Spec => []AgreementInv`, the inductive invariant |
| `PartnersAgree` | `Spec => []LinkAgreement` |
| `HostIsLastToCommit` | `Spec => []HostCommitsLast` |
| `RemoteIsAskedToCommit` | `Spec => []RemoteCommitsOnRequest` |
| `LinkAgrees` | for `Hosts = {h}` and `Remotes = {r}`: `Spec => Agrees` |

The argument. Two nodes meet only in a packet, and a packet is late: it may
have been asked for before its sender gave up, and heard by a node that has
moved on since. What saves the protocol is that the driver holds one incoming
packet and sends nothing before it is processed, so what a node *holds* and
what it is *about to say* can be told from its record. `AgreementInv` adds to
`LinkInv`

- `WaitingInv`: what the packet a node is about to send says is still true of
  the node. A pending packet outlives its attempt only in a node that was
  stopped, which sends it, or gives it up, before its service runs again;
- `PlainInv`, `PartnerInv`: a packet held in AwaitingLink is in plain text, and
  a partner is of the other role;
- `PairInv(h, s, r, t)`, the agreement itself: as long as the remote holds or
  has accepted an offer of the host (a crypto start request with the host's
  seal), the host has not been asked again and is in the same attempt, on the
  terms it sealed, or in none with that remote; it commits only with a remote
  that has switched over, which does so only on the request of a host past its
  clock synchronisation.

A step of any node is summed up by `Moves`, what it does to the node's side of
its pairs, and `Says`, what its frame may be. The lemmas of the first section
show that every pair survives a step with these two properties, whoever takes
it and whoever hears it; the rest of the module shows, action by action, that
every step has them. That switch-overs need no names in them comes from the
cipher: a frame of the Linking stages is readable only under the IV of its
link, which names both ends (`CipherInv` of `LoLaLink_proof`).

`LinkAgrees` follows from the same invariant, with what `Moves` says of phases
(`HostGoes`, `RemoteGoes`): each is one action of `AgreedLink` or a stutter, and
`PairInv` before and after the step gives the phase of the other end.
`AgreedLink` speaks of one host and one remote, hence the hypothesis; it also
needs them to be alone for a stronger reason. The ack of the offer is in plain
text and names nobody, so with a second remote a host may take another's ack for
its partner's and enter the attempt early (`Alone` in `PairInv`); the agreement
on terms, and the order of the commits, survive that.

`LoLaLinkAuthentic_proof` proves whose keys a link is under, again for any
number of nodes:

| Theorem | States |
|---|---|
| `AuthenticInvariant` | `Spec => []AuthenticInv`, the inductive invariant |
| `LinkIsAuthentic` | `Spec => []AuthenticLink` |

The argument. A node takes a public key from whoever sends one in its session,
and a session is a byte that comes round: nothing says that the key a node
computes is of its partner. But it always holds the node's own pair
(`OwnKeysInv`: the exchanger yields no secret without one, and a pair renewed in
between makes the attempt fail). So an offer is under a key of the host it
names (`OfferInv`), and the challenge, which a remote solves only with the block
the offer was sealed with, puts both pairs in that key (`RemoteMoverTrusts`).
A host learns nothing by the ack, but the ack of the switch-over it can read
only if its sender, a remote in the link, has the very block of the host
(`Truthful`, `HearerKeys`). From there on the terms do not change, which is what
`Moves` says.

That is why `AuthenticLink` speaks of a remote from Linking on and of a host
from its commit on. Of a host in Linking it would be false. With three remotes
and a host that may sleep, TLC finds 69 steps to a host that enters Linking with
one remote under the key of another: the third still holds the offer of an
attempt the host has abandoned, and its ack, with the right id, is taken for the
one of the partner. The partner could not read that offer and does not follow,
so the attempt fails in Linking. It takes a driver that leaves its packet for as
long as the host needs to give up and start again, which the model, without
time, allows.

`SyncSurface_proof` proves, for a surface of any number of blocks, any values,
any hash that tells surfaces apart and any writes:

| Theorem | States |
|---|---|
| `SurfaceInvariant` | `Spec => []PairInv`, the inductive invariant |
| `SurfaceTypeCorrect` | `Spec => []TypeOK` |
| `SyncedIsRight` | `NoValueComesBack => (Spec => []SyncedMeansSame)` |
| `SurfaceReplicates` | `NoValueComesBack => (Spec => Replicates)` |

They assume `BlockAssumption`, `CrcAssumption` (which the code's CRC-8 meets on
the surfaces of the runs and not on every set of surfaces), `NoneAssumption` and
`WriteAssumption` (`After` is reflexive and transitive, and every write goes
along it). `NoValueComesBack` is a hypothesis of the last two only, and
`sync_rewrites` shows that they need it.

The argument. Blocks are sent in any order, are lost, are marked as sent though
they were written again; so nothing says what the reader holds at a given
moment. But every value on its way is one its block has had, and nothing
overtakes a packet of its own direction: by `After`, what the reader holds,
then what waits at the reader, then what waits at the writer, then what the
writer holds, are in order (`DataInv`). A reply carries the hash of what the
reader holds or held (`HashOfPast`), since the cached hash is dropped with every
block (`CrcIsFresh`). When the writer finds its own hash in a reply, `CrcAssumption`
makes its data a past of the reader's, which is a past of its own; where no
value comes back all are the same. That the writer drops `Synced` on every
write, and that nothing written before is then still on its way that could
change the reader, is the same order again, which is why `SyncedMeansSame` and
the refinement need no other invariant. As for the link, each method of an
end has a lemma that it keeps the end's part, and each action one for the pair.

`LoLaLinkKeeping_proof` proves, for any periods that are in the order of the
code's, any range of power, any steps of the balancer, any signals and outages:

| Theorem | States |
|---|---|
| `KeepingInvariant` | `Spec => []KeepingInv`, the inductive invariant |
| `KeepingTypeCorrect` | `Spec => []TypeOK` |
| `PanicsBeforeGivingUp` | `Spec => GivenUpAtFullPower` |

They assume `BalancerAssumption` and `KeepingAssumption`. The argument: the age
of what an end has heard grows by one in each unit, `Panic` is less than
`Disconnect`, and no unit passes before the service of a linked end has run
in it (`Settled`); every run begins with `Update`, which panics, and nothing
but `Update` touches the power in a link. So (`CallsLoud`) a linked end silent
for longer than `Panic`, or for just as long and served since, is at full power.
The run of a unit is part of the invariant because without it the unit in which
the panic begins would be lost. That the power stays in its range needs nothing
of what the samples amount to.

`LoLaLinkSurvival_proof` proves what an outage costs, for any periods, outages
and signals that satisfy `Survivable`:

| Theorem | States |
|---|---|
| `SurvivalInvariant` | `Survivable => (Spec => []SurvivalInv)`, the inductive invariant |
| `LinkSurvivesOutages` | `Survivable => (Spec => []LinkSurvives)` |
| `InfoStaysFresh` | `Survivable => (Spec => []InfoIsFresh)` |

`Survivable` says that what an end knows counts as stale from the age at which
it misses its partner (`LOLA_LINK_SERVICE_LINKED_INFO_STALE_PERIOD` is defined
as that age, `LoLaDefinitions.h:100`), that two outages are an update period and
two units apart, and that an update period, two units and an outage come to no
more than the disconnection. With the code's periods that is an outage of three
units of 300 ms; the instance of `keeping` is at both limits, past which TLC
finds links lost. Besides the two assumptions above the theorems need
`NoneAssumption`.

The argument goes by units. In a unit without an outage (`Calm`) what an end
reports is on the air until its partner has heard it (`ReportIsHeard`), and no
unit ends with a packet on the air. An end reports when its last report is an
update period old, so that after a calm of that length and a unit neither is
silent for longer (`HeardSinceReport`, `HeardInCalm`); an outage adds its own
length, and the unit it ends in (`HeardInOutage`, `HeardAfterOutage`). What
remains are the units after it, before the calm has lasted long enough for that
bound. There an end that misses its partner has sent a report that asks for one
before the unit may end (`Settled`, `SilentIsStale`, `AsksIfSilent`); the partner
answers, unless its own report or another packet is on the way (`IsAnswered`).
The delicate step is `SentOk`: it forgets a request for a reply that arrived
while the partner's own report was under way. The invariant survives it because
that report was itself sent in this unit, and so is heard. Hence no calm unit
ends with an end that misses its partner (`NobodyIsMissed`).

`LoLaPacketDriver_proof` proves, for any packets, channels, powers and length
of the event queue:

| Theorem | States |
|---|---|
| `DriverInvariant` | `Spec => []DriverInv`, the inductive invariant |
| `DriverTypeCorrect` | `Spec => []TypeOK` |
| `RadioIsAttended` | `Spec => []RadioAttended` |
| `DeafDriverIsServed` | `Spec => []DeafIsServed` |
| `CreditsAreEarned` | `Spec => []CreditIsEarned` |

They assume `HeaderAssumption` (the services do not send under the header of
an ack) and `QueueAssumption` (the queue has room for an event). The argument:
the interrupt may come between any two steps of the main loop, so `DriverInv`
speaks of every step that the call at hand has left (`left`), as a set, and
only `Fits` of the order of some. Its parts are

- `Typed`, with the shape of what is left of a call;
- `StateFits`: what each step left will find the driver in. This is where the
  interrupt is met: it moves the driver along
  `ReadyForAnything`, `BlockedForIncoming`, `AwaitingProcessing` only, which is
  as far as a call in `SetToReceiving` or `SendPacket` tolerates it;
- `WillHear`, which is `DeafIsServed`, inductive once the queue is known to
  keep a restoring event until it is served (`QueueKeeps`);
- `Credit`: a credit is in the queue or being handed over at most once, of a
  packet whose service waits for it, whose transmission has ended and which is
  no longer `lastSentHeader`; so that the field the interrupt copies is the one
  of the packet on the air, or `None`;
- `IfAttended`: where nothing is left or queued that restores the driver,
  its state and the radio are in step, or a step left will bring them there.

Only `TypeOK` and `StateFits` hold after an event that matters is lost; the
other parts say what holds until then, as the properties do.

`DuplexLink_proof` proves, for any width of the counters, any even period, air
time, latency and estimate, any first values and phases of the RTCs, and any
number of slips:

| Theorem | States | Assumes |
|---|---|---|
| `DuplexTypeCorrect` | `Spec => []TypeOK` | |
| `DuplexInvariant` | `Spec => []DuplexInv`, the inductive invariant | `NoRollOver` |
| `RemoteFollowsMicros` | `Spec => []FollowsHostMicros` | `NoRollOver` |
| `SlotsMatch` | `Spec => []ArrivesInReceiveSlot` | `NoRollOver` |
| `OverlapOfTurns` | `Spec => []OverlapIsBounded` | `NoHostWrap` |

`ClockAssumption` and `DuplexAssumption` say what the code's types and
constants say. The two hypotheses bound how long time runs; a link may last longer:
`NoRollOver`, for builds with an RTC, ends it before the seconds exceed their
mask of 16 bits (`LoLaClock/RTCClockSource.h:29`). There the clock of an end
jumps by what is no multiple of 2^32; with a range of three seconds TLC finds
`FollowsHostMicros` violated when they roll over. `NoHostWrap`, for builds on
micros(), is the wrap of the clock of the host (section 3). The instance of
`duplex` satisfies both.

The argument. All counters wrap, so equations hold up to a multiple of `Wrap`
(`Cong`), and what is bounded is the least of the numbers a counter stands for
(`Near`, `SignedIsLeast`). Each step puts the clocks on by the same, and the
remote by a slip or by what the host told it (`GoOn`), so one lemma
(`MovedErrors`) carries through every step what `DuplexInv` says:

- `RtcInv`: an RTC has gone on with micros() since its last interrupt;
- `OutInv`: the request, the reply the host owes and the reply exclude each
  other, which is what `requested` is for;
- `ErrorInv`: what the request holds is what the clock of the remote shows when
  it arrives by the estimate; the owed reply and the reply, added to the lead of
  the remote, leave what the latency differs from the estimate; and once
  enough estimations were good the lead itself is bounded, by the last of
  them. The reply may be lost, then that bound stays, or received, then it is
  better. The slips since are added to each;
- `SlotInv`: when its frame began with exact clocks, it was in the slot of its
  sender by the clock of the host.

For `OverlapOfTurns` the slots must be compared as numbers and not up to
`Wrap`: `HostInv` keeps the clock of the host from its wrap, `TurnInv` dates
each frame by it, and the slots are `ETTM` apart on both sides of a period
(`SlotsApart`). It needs nothing of the exchange.

Only checked by TLC:

- liveness (`ReceptionComesBack`, `ReaderCatchesUp`, `LossIsMutual`), which the
  provers cannot reach;
- what the average of the samples comes to: the theorems hold whatever it is.


## 5. What is not modelled

- The bytes of packets, IVs, keys and blocks; wording of debug output;
  set-up of the chip and its registers.
- Time in the handshake: its time-outs are choices, so how long a handshake
  takes, and whether it ends, is not asked. RTT is a constant of `DuplexLink`.
- Token hopping and channel hopping, compiled out; `RadioScanner`, a
  development tool; `PseudoMacGenerator` and `UniqueIdProvider`, which read a
  serial number; the sketches under `src/examples`, read for how they set the
  schedulers up and use a surface.
- `Services/Stream`: unfinished, includes headers that do not exist.
- The libraries underneath: ring buffer, scheduler, bit tracker, elliptic
  curves, cipher. They are modelled by how the code uses them.

## 6. What comes next

1. Liveness of the handshake, in a model of its time-outs: the clock request
   that is sent once, the host that sleeps until a discovery.
2. The builds with token and channel hopping: `LoLaLinkTimedHopper` in the time
   of `DuplexLink`.
3. The latency meter's samples, and the table of services.
