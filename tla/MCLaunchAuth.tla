---------------------------- MODULE MCLaunchAuth ----------------------------
(***************************************************************************)
(* Instance of LaunchAuth for TLC.  One unit of time stands for the        *)
(* expiry buffer and for the longest delay of an answer.                   *)
(***************************************************************************)
EXTENDS LaunchAuth, TLC

\* A session left by an earlier sign-in: its access token is spent, its
\* registration lasts until cexp.
SpentSession(cexp) ==
  [client |-> Prior, cexp |-> cexp, at |-> [lin |-> Prior, dies |-> 0],
   rt |-> [lin |-> Prior, n |-> 1], texp |-> 1]

MCPriorSessions == {SpentSession(2)}

MCTokenLifetimes == {3}
MCSecretLifetimes == {0, 2}

\* Invocations are interchangeable, and so are the processes they spawn.
MCSymmetry == Permutations(Procs) \cup Permutations(Servers)
=============================================================================
