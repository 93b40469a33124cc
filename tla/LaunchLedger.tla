---------------------------- MODULE LaunchLedger ----------------------------
(***************************************************************************)
(* What create-launch promises, without uploads, attempts or lost answers: *)
(* an invocation is asked for one source, at most one launch is made for   *)
(* it, from exactly what it was asked for, and success is told only of a   *)
(* launch that was made.  A failure may be told although the launch was    *)
(* made, or is made later: that is all a caller can conclude from it.      *)
(***************************************************************************)
CONSTANTS
  Calls,       \* invocations of create-launch
  Sources,     \* what they may be asked for
  LaunchIds,   \* names of launches
  ContentOf,   \* ContentOf[s]: what a launch of s consists of
  Refused,     \* the content of what cannot be launched
  NoSource     \* the invocation has not been asked

VARIABLES
  asked,  \* the source of each invocation
  made,   \* the launches made for each invocation, with their content
  told    \* what each invocation reported

ledgerVars == <<asked, made, told>>

LedgerInit ==
  /\ asked = [c \in Calls |-> NoSource]
  /\ made = [c \in Calls |-> {}]
  /\ told = [c \in Calls |-> "nothing"]

Ask(c, s) ==
  /\ asked[c] = NoSource
  /\ asked' = [asked EXCEPT ![c] = s]
  /\ UNCHANGED <<made, told>>

\* Nothing says that this happens before the invocation has reported.
Make(c, l) ==
  /\ asked[c] # NoSource /\ ContentOf[asked[c]] # Refused
  /\ made[c] = {}
  /\ \A d \in Calls : \A m \in made[d] : m.id # l
  /\ made' = [made EXCEPT ![c] = {[id |-> l, content |-> ContentOf[asked[c]]]}]

Tell(c, outcome) ==
  /\ asked[c] # NoSource
  /\ told[c] = "nothing"
  /\ outcome = "ok" => made'[c] # {}
  /\ told' = [told EXCEPT ![c] = outcome]

\* A refusal to begin, the creation, a report, or the creation whose answer is
\* the report.
LedgerNext ==
  \/ \E c \in Calls, s \in Sources : Ask(c, s)
  \/ \E c \in Calls, l \in LaunchIds : Make(c, l) /\ UNCHANGED <<asked, told>>
  \/ \E c \in Calls, outcome \in {"ok", "failed"} :
       Tell(c, outcome) /\ UNCHANGED <<asked, made>>
  \/ \E c \in Calls, l \in LaunchIds :
       Make(c, l) /\ Tell(c, "ok") /\ UNCHANGED asked

LedgerSpec == LedgerInit /\ [][LedgerNext]_ledgerVars
=============================================================================
