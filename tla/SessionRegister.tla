--------------------------- MODULE SessionRegister ---------------------------
(***************************************************************************)
(* What the sign-in commands make of the session file together, without    *)
(* processes, answers and clocks: a register that holds a session or none. *)
(* A sign-in enters it once, when its user has completed it; from then on  *)
(* the register holds its sessions in the order the provider issued them,  *)
(* as if refreshes held a lock: the next one is issued only when the last  *)
(* one is in the register.  A sign-in comes back after another one, or     *)
(* after a sign-out, only by a refresh that had loaded it before.  No      *)
(* order is promised for a sign-in that is disturbed: a sign-out was begun, *)
(* or a refresh got a session and did not store it.                        *)
(***************************************************************************)
EXTENDS Naturals

CONSTANTS
  SignIns,  \* the sign-ins there may be
  Rotates   \* TRUE: a refresh issues a new session, FALSE: it prolongs the old one

VARIABLES
  entry,     \* the register: empty, or one sign-in and the number of its session
  newest,    \* the number of the newest session of a sign-in, 0 if there is none
  arriving,  \* sign-ins whose first session is not stored yet
  loaded,    \* sign-ins a refresh has loaded
  pending,   \* those whose refresh was granted and is not stored yet
  disturbed  \* sign-ins no order is promised for

registerVars == <<entry, newest, arriving, loaded, pending, disturbed>>

RegisterInit ==
  /\ newest \in [SignIns -> {0, 1}]
  /\ entry = {} \/ \E l \in SignIns : newest[l] = 1 /\ entry = {[by |-> l, n |-> 1]}
  /\ arriving = {} /\ loaded = {} /\ pending = {} /\ disturbed = {}

\* The user completes a sign-in; its first session is stored, or lost.
SignIn(l) ==
  /\ newest[l] = 0 /\ l \notin arriving
  /\ newest' = [newest EXCEPT ![l] = 1]
  /\ arriving' = arriving \cup {l}
  /\ UNCHANGED <<entry, loaded, pending, disturbed>>

Enter(l) ==
  /\ l \in arriving
  /\ entry' = {[by |-> l, n |-> 1]}
  /\ arriving' = arriving \ {l}
  /\ UNCHANGED <<newest, loaded, pending, disturbed>>

Lose(l) ==
  /\ l \in arriving
  /\ arriving' = arriving \ {l}
  /\ UNCHANGED <<entry, newest, loaded, pending, disturbed>>

Load ==
  /\ loaded' = loaded \cup {e.by : e \in entry}
  /\ UNCHANGED <<entry, newest, arriving, pending, disturbed>>

\* One refresh at a time: while its session is not stored there is no other.
Renew(l) ==
  /\ l \in loaded \ disturbed
  /\ Rotates => l \notin pending
  /\ newest' = [newest EXCEPT ![l] = IF Rotates THEN @ + 1 ELSE @]
  /\ pending' = pending \cup {l}
  /\ UNCHANGED <<entry, arriving, loaded, disturbed>>

\* What is stored is the newest session; other readers may still have the sign-in.
Store(l) ==
  /\ l \in pending \ disturbed
  /\ entry' = {[by |-> l, n |-> newest[l]]}
  /\ loaded' \in {loaded, loaded \ {l}}
  /\ pending' \in {pending, pending \ {l}}
  /\ Rotates => l \notin pending'
  /\ UNCHANGED <<newest, arriving, disturbed>>

\* A reader gives up; with rotation a session it had got is lost.
Leave(l) ==
  /\ l \in loaded
  /\ loaded' \in {loaded, loaded \ {l}}
  /\ pending' \in {pending, pending \ {l}}
  /\ disturbed' \in {disturbed, disturbed \cup {l}}
  /\ Rotates /\ pending' # pending => l \in disturbed'
  /\ UNCHANGED <<entry, newest, arriving>>

\* A sign-out that loaded l has begun: the provider may have revoked its sessions.
Disturb(l) ==
  /\ newest' = [newest EXCEPT ![l] = newest'[l]]
  /\ disturbed' = disturbed \cup {l}
  /\ UNCHANGED <<entry, arriving, loaded, pending>>

Clear ==
  /\ entry' = {}
  /\ disturbed' = disturbed \cup {e.by : e \in entry}
  /\ UNCHANGED <<newest, arriving, loaded, pending>>

\* A refresh that had loaded a disturbed sign-in goes on.
Stray(l) ==
  /\ l \in loaded \cap disturbed
  /\ newest' = [newest EXCEPT ![l] = newest'[l]]
  /\ entry' = entry \/ (entry' # {} /\ \A e \in entry' : e.by = l)
  /\ loaded' \in {loaded, loaded \ {l}}
  /\ pending' \in {pending, pending \cup {l}, pending \ {l}}
  /\ UNCHANGED <<arriving, disturbed>>

RegisterNext ==
  \/ \E l \in SignIns : SignIn(l) \/ Enter(l) \/ Lose(l)
  \/ Load \/ Clear
  \/ \E l \in SignIns : Renew(l) \/ Store(l) \/ Leave(l) \/ Disturb(l) \/ Stray(l)

RegisterSpec == RegisterInit /\ [][RegisterNext]_registerVars
=============================================================================
