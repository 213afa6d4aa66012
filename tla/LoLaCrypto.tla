---------------------------- MODULE LoLaCrypto ----------------------------
(***************************************************************************)
(* The key exchanger and the packet encoder of one node, as records and    *)
(* operators on them (LoLaCrypto/LoLaCryptoKeyExchange.h and               *)
(* LoLaCrypto/LoLaCryptoEncoder.h).                                        *)
(*                                                                         *)
(* The cryptography is ideal: two key pairs yield one shared secret, the   *)
(* same for both ends, and a frame is readable only under the very key, IV *)
(* and token it was written under.                                         *)
(***************************************************************************)
EXTENDS Integers

CONSTANTS
  Hosts,              \* nodes running LoLaLinkHostService
  Remotes,            \* nodes running LoLaLinkRemoteService
  Ids,                \* values of the uint8_t id of a packet; a session is one
  INVALID_SESSION,    \* the id that stands for "no session"
  KeyGens,            \* generations of the key pair of a node
  None                \* absent node, key, IV, token or packet

Nodes == Hosts \cup Remotes

KeyPairs == [owner : Nodes, gen : KeyGens]
Ivs == [session : Ids, id1 : Nodes \cup {None}, id2 : Nodes \cup {None}]

\* What Cypher is keyed with: the shared secret, the IV and the token.
CipherBlocks == [key   : SUBSET (KeyPairs \cup {None}),
                 iv    : Ivs \cup {None},
                 token : Ivs \cup {None}]

KeyExchangers == [stage   : {"Clear", "LocalKey", "PartnerKey", "SharedKey"},
                  local   : KeyPairs \cup {None},
                  partner : KeyPairs \cup {None}]

Encoders == [state : {"AllClear", "AllReady", "FullPower"}, block : CipherBlocks]

----------------------------------------------------------------------------
(* Key exchanger *)

ClearKeyExchanger == [stage |-> "Clear", local |-> None, partner |-> None]

ClearPartner(kx) ==
  [kx EXCEPT !.stage = IF @ \in {"PartnerKey", "SharedKey"} THEN "LocalKey" ELSE @]

\* A fresh pair is one the node does not hold already.
FreshPairs(n, kx) == {k \in KeyPairs : k.owner = n /\ k # kx.local}

GenerateNewKeyPair(kx, pair) == [kx EXCEPT !.stage = "LocalKey", !.local = pair]

\* Refused unless the exchanger holds its own pair and no partner key.
SetPartnerPublicKey(kx, key) == [kx EXCEPT !.stage = "PartnerKey", !.partner = key]

CanGenerateSharedKey(kx) == kx.stage \in {"PartnerKey", "SharedKey"}

GenerateSharedKey(kx) == [kx EXCEPT !.stage = "SharedKey"]

SharedKey(kx) == {kx.local, kx.partner}

----------------------------------------------------------------------------
(* Encoder *)

ClearBlock == [key |-> {}, iv |-> None, token |-> None]

ClearEncoder == [state |-> "AllClear", block |-> ClearBlock]

SetIvData(e, session, id1, id2) ==
  [e EXCEPT !.block.iv = [session |-> session, id1 |-> id1, id2 |-> id2]]

SetSecretKey(e, key) == [e EXCEPT !.block.key = key, !.state = "AllReady"]

\* An encoder without a key stays as it is: SetEnabled returns false.
SetEnabled(e) == [e EXCEPT !.state = IF @ = "AllClear" THEN @ ELSE "FullPower"]

\* SetTokenSeed hashes the bytes that follow the 16 bytes of KeyHolder, the
\* first of IVHolder: the seed is a function of the IV, kept as the IV itself.
SetToken(e) == [e EXCEPT !.block.token = e.block.iv]

\* The block a frame is written under; None is plain text.
FrameCipher(e) == IF e.state = "FullPower" THEN e.block ELSE None

=============================================================================
