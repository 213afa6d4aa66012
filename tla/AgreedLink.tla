----------------------------- MODULE AgreedLink -----------------------------
(***************************************************************************)
(* What the handshake of a host and a remote promises: an attempt is       *)
(* entered by the remote first, on terms that are new, and by the host on  *)
(* the same terms; then the host asks, the remote commits, and the host    *)
(* commits last. Either may leave at any time, and the other then goes on  *)
(* alone until it leaves too: nobody enters an attempt twice.              *)
(***************************************************************************)

CONSTANTS
  Terms,        \* what an attempt is made on: a key and an IV
  NoTerms

VARIABLES host, remote   \* the phase and the terms of the attempt each is in

vars == <<host, remote>>

\* An end that is in no attempt.
Apart == [phase |-> "Apart", terms |-> NoTerms]

HostPhases == {"Entered", "Joining", "Asking", "Committed"}
RemotePhases == {"Entered", "Joining", "Committed"}

TypeOK ==
  /\ host \in [phase : HostPhases, terms : Terms] \cup {Apart}
  /\ remote \in [phase : RemotePhases, terms : Terms] \cup {Apart}

Init == host = Apart /\ remote = Apart

In(end, phases) == end.phase \in phases

RemoteEnters ==
  /\ host = Apart /\ remote = Apart
  /\ remote' \in [phase : {"Entered"}, terms : Terms]
  /\ UNCHANGED host

HostEnters ==
  /\ host = Apart
  /\ host' \in [phase : {"Entered"}, terms : Terms]
  /\ remote = Apart \/ host'.terms = remote.terms
  /\ UNCHANGED remote

RemoteJoins ==
  /\ In(remote, {"Entered"})
  /\ remote' = [remote EXCEPT !.phase = "Joining"]
  /\ UNCHANGED host

HostJoins ==
  /\ In(host, {"Entered"})
  /\ host' = [host EXCEPT !.phase = "Joining"]
  /\ UNCHANGED remote

HostAsks ==
  /\ In(host, {"Joining"})
  /\ host' = [host EXCEPT !.phase = "Asking"]
  /\ UNCHANGED remote

\* On the request of a host that may have left since.
RemoteCommits ==
  /\ In(remote, {"Joining"})
  /\ host = Apart \/ In(host, {"Asking"})
  /\ remote' = [remote EXCEPT !.phase = "Committed"]
  /\ UNCHANGED host

\* On the answer of a remote that may have left since.
HostCommits ==
  /\ In(host, {"Asking"})
  /\ remote = Apart \/ In(remote, {"Committed"})
  /\ host' = [host EXCEPT !.phase = "Committed"]
  /\ UNCHANGED remote

Leave ==
  \/ host' = Apart /\ UNCHANGED remote
  \/ remote' = Apart /\ UNCHANGED host

Next ==
  \/ RemoteEnters \/ HostEnters
  \/ RemoteJoins \/ HostJoins \/ HostAsks \/ RemoteCommits \/ HostCommits \/ Leave

Spec == Init /\ [][Next]_vars

=============================================================================
