-------------------------- MODULE RefreshChainProofs --------------------------
(***************************************************************************)
(* The chain of refresh tokens of a sign-in, for every value of the        *)
(* constants: which of its copies, in the session file and in the memory   *)
(* of the invocations, may be the one the provider still accepts.          *)
(*                                                                         *)
(* StoredRefreshTokenLive is not inductive: whether the token in the file   *)
(* is live after a step depends on what the invocations hold.  ChainInv    *)
(* says that no copy is newer than the provider's, that an invocation with *)
(* an answer in hand holds the newest, and that with rotation it is the    *)
(* only one.  The same invariant makes every step of the system a step of  *)
(* the abstract register of module SessionRegister.                        *)
(***************************************************************************)
EXTENDS LaunchAuthProofs

InFile(l) == file # NoSession /\ file.rt.lin = l
InUse(l) == InFile(l) \/ \E p \in Procs : Refreshing(p, l)
Removed(l) == \E p \in Procs : Removes(p, l)

\* The number of the refresh token an invocation has got last.
Newest(p) == IF reply[p] # NoGrant THEN reply[p].rt.n ELSE held[p].rt.n

FileChained(l) ==
  InFile(l) =>
    /\ file.rt.n <= live[l]
    /\ file.rt.n = live[l] \/ (Rotates /\ \E p \in Procs : KeepsNewer(p, l))

HeldChained(l) ==
  \A p \in Procs :
    Refreshing(p, l) => /\ Newest(p) <= live[l]
                        /\ KeepsNewer(p, l) => Newest(p) = live[l]

OneNewest(l) ==
  Rotates =>
    \A p \in Procs :
      KeepsNewer(p, l) =>
        /\ InFile(l) => file.rt.n < live[l]
        /\ \A q \in Procs \ {p} : Refreshing(q, l) => Newest(q) < live[l]

Chained(l) == FileChained(l) /\ HeldChained(l) /\ OneNewest(l)

\* A sign-in in use is in order, or a sign-out is about to remove it.
ChainInv ==
  \A l \in Lineages \ (broken \cup raced) : InUse(l) => Removed(l) \/ Chained(l)

\* With rotation an answer carries the number after the one it was asked with.
ReplyNewer ==
  \A p \in Procs : reply[p] # NoGrant /\ Rotates => reply[p].rt.n = held[p].rt.n + 1

\* Until its server has saved it, the first refresh token of a sign-in is live.
FirstTokens ==
  \A s \in Servers :
    /\ grant[s] # NoGrant => live[s] = 1 /\ grant[s].rt.n = 1
    /\ newSession[s] # NoSession => live[s] = 1 /\ newSession[s].rt.n = 1

-----------------------------------------------------------------------------
(* What the steps do to the provider's tokens and to the invocations.       *)

\* A session in use comes from a sign-in whose server has exited.
LEMMA InUseSettled ==
  ASSUME TypeInv, SessionsInv, NEW s \in Servers, InUse(s) \/ Removed(s)
  PROVE  phase[s] = "exited"
<1>1. \A p \in Procs : Refreshing(p, s) => held[p] # NoSession
  BY DEF TypeInv, TypeOK, HoldsSession, Refreshing
<1> QED
  BY <1>1 DEF InUse, Removed, InFile, Refreshing, Removes, SessionsInv, FileInv, HeldInv, Settled

\* The provider issues or revokes a refresh token in three steps only.
LEMMA LiveStep ==
  [Next]_vars => \/ live' = live
                 \/ \E p \in Procs : IdpRefresh(p) \/ Revoke(p)
                 \/ \E s \in Servers : IdpExchange(s)
<1>1. ASSUME NEW s \in Servers, ServerNext(s) PROVE IdpExchange(s) \/ live' = live
  BY <1>1 DEF ServerNext, Accept, DoGet, PeerCloses, PeerResets, Wake, Expire, LoopStopped,
     Exchanged, ServerSave, ServerDies, baseVars, idpVars
<1>2. ASSUME NEW p \in Procs, ProcNext(p) PROVE IdpRefresh(p) \/ Revoke(p) \/ live' = live
  BY <1>2 DEF ProcNext, GetAccessToken, StartAuth, TryCached, Refreshed, SaveRefreshed,
     RefreshFails, StartWithClient, RegisterAndStart, StartFails, WaitForAuth, PollSession,
     ProbeServer, Recheck, WaitTimesOut, SignOut, Unlink, Crash, baseVars, idpVars
<1> QED
  BY <1>1, <1>2 DEF Next, ServerStep, Tick, vars, baseVars, idpVars

LEMMA ReplyNewerStep == TypeInv /\ ReplyNewer /\ [Next]_vars => ReplyNewer'
<1> SUFFICES ASSUME TypeInv, ReplyNewer, [Next]_vars,
                    NEW q \in Procs, reply'[q] # NoGrant, Rotates
             PROVE  reply'[q].rt.n = held'[q].rt.n + 1
  BY DEF ReplyNewer
<1>1. CASE IdpRefresh(q)
  <2>1. PICK life \in TokenLifetimes :
          reply' = [reply EXCEPT ![q] = RefreshGrant(held[q], life)]
    BY <1>1 DEF IdpRefresh
  <2>2. reply'[q] = RefreshGrant(held[q], life) /\ held' = held
    BY <1>1, <2>1 DEF IdpRefresh, TypeInv, TypeOK, ProcTypeOK
  <2> QED
    BY <2>2 DEF RefreshGrant
<1>2. CASE reply'[q] = reply[q] /\ held'[q] = held[q]
  BY <1>2 DEF ReplyNewer
<1> QED
  BY <1>1, <1>2, ReplyStep

\* The grant of a server appears when the provider gives it, and becomes its session.
LEMMA ServerTokensStep ==
  ASSUME TypeOK, [Next]_vars, NEW s \in Servers
  PROVE  \/ IdpExchange(s)
         \/ Exchanged(s)
         \/ grant'[s] \in {grant[s], NoGrant} /\ newSession'[s] \in {newSession[s], NoSession}
<1> DEFINE Kept == /\ grant'[s] \in {grant[s], NoGrant}
                   /\ newSession'[s] \in {newSession[s], NoSession}
<1>t. /\ grant \in [Servers -> Grant \cup {NoGrant}]
      /\ newSession \in [Servers -> Session \cup {NoSession}]
  BY DEF TypeOK, ServerTypeOK
<1>a. ASSUME NEW u, Gone(u) PROVE Kept
  BY <1>a, <1>t DEF Gone
<1>b. CASE UNCHANGED <<grant, newSession>>
  BY <1>b
<1>1. CASE Tick \/ UNCHANGED vars
  BY <1>1, <1>b DEF Tick, vars, serverVars
<1>2. ASSUME NEW p \in Procs, ProcNext(p) PROVE Kept
  BY <1>2, <1>a, <1>b DEF ProcNext, GetAccessToken, StartAuth, TryCached, IdpRefresh,
     Refreshed, SaveRefreshed, RefreshFails, StartWithClient, RegisterAndStart, Spawn,
     StartFails, WaitForAuth, PollSession, ProbeServer, Recheck, WaitTimesOut, SignOut,
     Revoke, Unlink, Crash, serverVars
<1>3. ASSUME NEW u \in Servers, ServerNext(u) PROVE Kept \/ IdpExchange(s) \/ Exchanged(s)
  <2>1. CASE IdpExchange(u) \/ Exchanged(u)
    BY <2>1, <1>t DEF IdpExchange, Exchanged
  <2> QED
    BY <1>3, <1>a, <1>b, <2>1 DEF ServerNext, Accept, DoGet, PeerCloses, PeerResets, Wake,
       Expire, LoopStopped, ServerSave, ServerDies
<1> QED
  BY <1>1, <1>2, <1>3 DEF Next, ServerStep

LEMMA FirstTokensStep == TypeInv /\ SessionsInv /\ FirstTokens /\ [Next]_vars => FirstTokens'
<1> SUFFICES ASSUME TypeInv, SessionsInv, FirstTokens, [Next]_vars, NEW s \in Servers
             PROVE  /\ grant'[s] # NoGrant => live'[s] = 1 /\ grant'[s].rt.n = 1
                    /\ newSession'[s] # NoSession => live'[s] = 1 /\ newSession'[s].rt.n = 1
  BY DEF FirstTokens
<1>t. /\ TypeOK
      /\ live \in [Lineages -> Nat]
      /\ grant \in [Servers -> Grant \cup {NoGrant}]
      /\ newSession \in [Servers -> Session \cup {NoSession}]
      /\ s \in Lineages
  BY DEF TypeInv, TypeOK, BaseTypeOK, ServerTypeOK, Lineages
<1>1. CASE IdpExchange(s)
  <2>1. PICK life \in TokenLifetimes : grant' = [grant EXCEPT ![s] = FirstGrant(s, life)]
    BY <1>1 DEF IdpExchange
  <2>2. grant'[s].rt.n = 1 /\ live'[s] = 1
    BY <1>1, <1>t, <2>1 DEF IdpExchange, FirstGrant
  <2>3. newSession'[s] = NoSession
    BY <1>1 DEF IdpExchange, SessionsInv, NewSessionInv
  <2> QED
    BY <2>2, <2>3
<1>2. CASE Exchanged(s)
  BY <1>2, <1>t DEF Exchanged, baseVars, FirstTokens
<1>3. CASE /\ grant'[s] \in {grant[s], NoGrant}
           /\ newSession'[s] \in {newSession[s], NoSession}
           /\ ~IdpExchange(s)
  <2> SUFFICES ASSUME grant[s] # NoGrant \/ newSession[s] # NoSession PROVE live'[s] = 1
    BY <1>3 DEF FirstTokens
  <2>1. live[s] = 1 /\ phase[s] \in {"exchanging", "saving"}
    BY DEF FirstTokens, SessionsInv, GrantInv, NewSessionInv
  <2>2. ASSUME NEW p \in Procs, IdpRefresh(p) \/ Revoke(p) PROVE live'[s] = live[s]
    <3>1. held[p] # NoSession
      BY <2>2 DEF IdpRefresh, Revoke, TypeInv, TypeOK, HoldsSession
    <3>2. held[p].rt.lin # s
      BY <2>1, <3>1 DEF SessionsInv, HeldInv, Settled
    <3> QED
      BY <1>t, <2>2, <3>2 DEF IdpRefresh, Revoke
  <2>3. ASSUME NEW u \in Servers, IdpExchange(u) PROVE live'[s] = live[s]
    BY <1>3, <1>t, <2>3 DEF IdpExchange
  <2> QED
    BY <2>1, <2>2, <2>3, LiveStep
<1> QED
  BY <1>t, <1>1, <1>2, <1>3, ServerTokensStep

-----------------------------------------------------------------------------
(* Every step keeps the chain.                                              *)

\* What the chain says of an invocation is as it was.
SameProc(q) == UNCHANGED <<pc[q], held[q], reply[q]>>

LEMMA SameProcView ==
  ASSUME NEW q, SameProc(q), NEW l
  PROVE  /\ Refreshing(q, l)' = Refreshing(q, l)
         /\ KeepsNewer(q, l)' = KeepsNewer(q, l)
         /\ Removes(q, l)' = Removes(q, l)
         /\ Newest(q)' = Newest(q)
BY DEF SameProc, Refreshing, KeepsNewer, Removes, Newest

\* An invocation that is not refreshing after the step neither takes the newest token
\* of a sign-in with it nor leaves the removal of one undone, unless it breaks it.
LEMMA LeavesKept ==
  ASSUME ChainInv, UNCHANGED <<file, live, raced>>, broken \subseteq broken',
         NEW p \in Procs, \A q \in Procs \ {p} : SameProc(q),
         pc'[p] \notin {"refreshing", "saving"},
         \A l \in Lineages : (Rotates /\ KeepsNewer(p, l)) \/ Removes(p, l) => l \in broken'
  PROVE  ChainInv'
<1> SUFFICES ASSUME NEW l \in Lineages \ (broken' \cup raced'), InUse(l)'
             PROVE  Removed(l)' \/ Chained(l)'
  BY DEF ChainInv
<1>1. ~Refreshing(p, l)' /\ ~KeepsNewer(p, l)' /\ ~Removes(p, l)
  BY DEF Refreshing, KeepsNewer
<1>2. InFile(l)' = InFile(l)
  BY DEF InFile
<1>3. InUse(l)
  BY <1>1, <1>2, SameProcView DEF InUse
<1>4. CASE Removed(l)
  BY <1>1, <1>4, SameProcView DEF Removed
<1>5. CASE Chained(l)
  <2>1. FileChained(l)'
    BY <1>2, <1>5, SameProcView DEF Chained, FileChained
  <2>2. HeldChained(l)'
    BY <1>1, <1>5, SameProcView DEF Chained, HeldChained
  <2>3. OneNewest(l)'
    BY <1>1, <1>2, <1>5, SameProcView DEF Chained, OneNewest
  <2> QED
    BY <2>1, <2>2, <2>3 DEF Chained
<1> QED
  BY <1>3, <1>4, <1>5 DEF ChainInv

\* No invocation changes what the chain says of it, nor do the file and the tokens.
LEMMA SameViewKept ==
  ASSUME ChainInv, UNCHANGED <<file, live, broken, raced>>,
         \A q \in Procs, l \in Lineages :
           /\ Refreshing(q, l)' = Refreshing(q, l)
           /\ KeepsNewer(q, l)' = KeepsNewer(q, l)
           /\ Removes(q, l)' = Removes(q, l)
           /\ Refreshing(q, l) => Newest(q)' = Newest(q)
  PROVE  ChainInv'
<1> SUFFICES ASSUME NEW l \in Lineages \ (broken \cup raced), InUse(l)'
             PROVE  Removed(l)' \/ Chained(l)'
  BY DEF ChainInv
<1>1. InFile(l)' = InFile(l)
  BY DEF InFile
<1>2. InUse(l) /\ (Removed(l) => Removed(l)')
  BY <1>1 DEF InUse, Removed
<1>3. CASE Chained(l)
  <2>1. FileChained(l)'
    BY <1>1, <1>3 DEF Chained, FileChained
  <2>2. HeldChained(l)'
    BY <1>3 DEF Chained, HeldChained
  <2>3. OneNewest(l)'
    BY <1>1, <1>3 DEF Chained, OneNewest, KeepsNewer
  <2> QED
    BY <2>1, <2>2, <2>3 DEF Chained
<1> QED
  BY <1>2, <1>3 DEF ChainInv

\* A command that loads a session to refresh it takes a copy of the file's token.
LEMMA LoadKept ==
  ASSUME TypeInv, ChainInv, NEW p \in Procs, pc[p] = "ready", pc'[p] = "refreshing",
         held'[p] = file, file # NoSession, reply'[p] = reply[p],
         \A q \in Procs \ {p} : SameProc(q), UNCHANGED <<file, live, broken, raced>>
  PROVE  ChainInv'
<1> SUFFICES ASSUME NEW l \in Lineages \ (broken \cup raced), InUse(l)'
             PROVE  Removed(l)' \/ Chained(l)'
  BY DEF ChainInv
<1>1. reply[p] = NoGrant /\ reply'[p] = NoGrant
  BY DEF TypeInv, AnswersAwaited
<1>2. /\ ~KeepsNewer(p, l) /\ ~KeepsNewer(p, l)'
      /\ ~Removes(p, l)
      /\ Refreshing(p, l)' = InFile(l)
      /\ InFile(l)' = InFile(l)
      /\ InFile(l) => Newest(p)' = file.rt.n
  BY <1>1 DEF KeepsNewer, Refreshing, Removes, InFile, Newest
<1>3. InUse(l)
  BY <1>2, SameProcView DEF InUse
<1>4. CASE Removed(l)
  BY <1>2, <1>4, SameProcView DEF Removed
<1>5. CASE Chained(l)
  <2>1. FileChained(l)'
    BY <1>2, <1>5, SameProcView DEF Chained, FileChained
  <2>2. HeldChained(l)'
    BY <1>2, <1>5, SameProcView DEF Chained, HeldChained, FileChained
  <2>3. OneNewest(l)'
    BY <1>2, <1>5, SameProcView DEF Chained, OneNewest
  <2> QED
    BY <2>1, <2>2, <2>3 DEF Chained
<1> QED
  BY <1>3, <1>4, <1>5 DEF ChainInv

\* The provider accepts a refresh token only if it is the newest: with rotation the
\* answer is then the only newest copy, whoever else holds an older one.
LEMMA IdpRefreshKept ==
  ASSUME TypeInv, SessionsInv, ChainInv, NEW p \in Procs, IdpRefresh(p)
  PROVE  ChainInv'
<1> SUFFICES ASSUME NEW l \in Lineages \ (broken \cup raced), InUse(l)'
             PROVE  Removed(l)' \/ Chained(l)'
  BY DEF ChainInv, IdpRefresh, historyVars
<1> DEFINE m == held[p].rt.lin
           n == held[p].rt.n
           new == IF Rotates THEN n + 1 ELSE n
<1>t. /\ held[p] \in Session
      /\ m \in Lineages
      /\ n \in Nat
      /\ live \in [Lineages -> Nat]
      /\ reply \in [Procs -> Grant \cup {NoGrant}]
      /\ pc[p] = "refreshing" /\ reply[p] = NoGrant /\ live[m] = n
      /\ UNCHANGED <<pc, held, file>>
  BY SessionFields
     DEF IdpRefresh, Refreshable, TypeInv, TypeOK, BaseTypeOK, ProcTypeOK, HoldsSession
<1>1. reply'[p] # NoGrant /\ reply'[p].rt.n = new
  <2>1. PICK life \in TokenLifetimes :
          reply' = [reply EXCEPT ![p] = RefreshGrant(held[p], life)]
    BY DEF IdpRefresh
  <2>2. RefreshGrant(held[p], life) \in Grant
    BY <1>t, RefreshGrantType, ConstantsAssumption DEF TypeInv, TypeOK, BaseTypeOK
  <2> QED
    BY <1>t, <2>1, <2>2, ConstantsAssumption DEF RefreshGrant
<1>2. \A q \in Procs \ {p} : SameProc(q)
  BY <1>t DEF IdpRefresh, SameProc
<1>3. live'[m] = new /\ \A k \in Lineages : k # m => live'[k] = live[k]
  BY <1>t DEF IdpRefresh, RefreshGrant
<1>4. /\ Newest(p) = n /\ Newest(p)' = new
      /\ Refreshing(p, l)' = Refreshing(p, l) /\ (Refreshing(p, l) <=> l = m)
      /\ ~KeepsNewer(p, l) /\ (KeepsNewer(p, l)' <=> l = m)
      /\ InFile(l)' = InFile(l)
      /\ ~Removes(p, l)
  BY <1>t, <1>1 DEF Newest, Refreshing, KeepsNewer, InFile, Removes
<1> HIDE DEF m, n, new
<1>5. InUse(l)
  BY <1>2, <1>4, SameProcView DEF InUse
<1>6. CASE Removed(l)
  BY <1>2, <1>4, <1>6, SameProcView DEF Removed
<1>7. CASE Chained(l) /\ l # m
  <2>1. FileChained(l)'
    BY <1>t, <1>2, <1>3, <1>4, <1>7, SameProcView DEF Chained, FileChained
  <2>2. HeldChained(l)'
    BY <1>2, <1>3, <1>4, <1>7, SameProcView DEF Chained, HeldChained
  <2>3. OneNewest(l)'
    BY <1>t, <1>2, <1>3, <1>4, <1>7, SameProcView DEF Chained, OneNewest
  <2> QED
    BY <2>1, <2>2, <2>3 DEF Chained
<1>8. CASE Chained(l) /\ l = m
  <2>t. /\ file # NoSession => file.rt.n \in Nat
        /\ \A q \in Procs : Refreshing(q, l) => Newest(q) \in Nat
    BY SessionFields, GrantFields
       DEF TypeInv, TypeOK, BaseTypeOK, ProcTypeOK, HoldsSession, Refreshing, Newest
  <2>1. CASE ~Rotates
    <3>1. new = n
      BY <2>1 DEF new
    <3>2. FileChained(l)'
      BY <1>t, <1>3, <1>4, <1>8, <2>1, <3>1 DEF Chained, FileChained
    <3>3. HeldChained(l)'
      BY <1>t, <1>2, <1>3, <1>4, <1>8, <3>1, SameProcView DEF Chained, HeldChained
    <3>4. OneNewest(l)'
      BY <2>1 DEF OneNewest
    <3> QED
      BY <3>2, <3>3, <3>4 DEF Chained
  <2>2. CASE Rotates
    <3>1. new = n + 1
      BY <2>2 DEF new
    <3>2. \A q \in Procs \ {p} : ~KeepsNewer(q, l)
      BY <1>t, <1>4, <1>8, <2>2 DEF Chained, OneNewest
    <3>3. FileChained(l)'
      BY <1>t, <1>3, <1>4, <1>8, <2>2, <2>t, <3>1 DEF Chained, FileChained, InFile
    <3>4. HeldChained(l)'
      BY <1>t, <1>2, <1>3, <1>4, <1>8, <2>t, <3>1, <3>2, SameProcView
         DEF Chained, HeldChained
    <3>5. OneNewest(l)'
      <4>1. InFile(l) => file'.rt.n < live'[l]
        BY <1>t, <1>3, <1>8, <2>t, <3>1 DEF Chained, FileChained, InFile
      <4>2. \A q \in Procs \ {p} : Refreshing(q, l)' => Newest(q)' < live'[l]
        BY <1>t, <1>2, <1>3, <1>8, <2>t, <3>1, SameProcView DEF Chained, HeldChained
      <4> QED
        BY <1>2, <1>4, <3>2, <4>1, <4>2, SameProcView DEF OneNewest
    <3> QED
      BY <3>3, <3>4, <3>5 DEF Chained
  <2> QED
    BY <2>1, <2>2
<1> QED
  BY <1>5, <1>6, <1>7, <1>8 DEF ChainInv

\* The answer replaces the tokens it was asked with: the newest copy stays with p.
LEMMA RefreshedKept ==
  ASSUME TypeInv, SessionsInv, ChainInv, NEW p \in Procs, Refreshed(p)
  PROVE  ChainInv'
<1>t. /\ pc \in [Procs -> PCs]
      /\ held \in [Procs -> Session \cup {NoSession}]
      /\ reply \in [Procs -> Grant \cup {NoGrant}]
      /\ pc[p] = "refreshing" /\ reply[p] # NoGrant
  BY DEF TypeInv, TypeOK, ProcTypeOK, Refreshed
<1>1. /\ pc'[p] = "saving" /\ reply'[p] = NoGrant
      /\ held'[p].rt = reply[p].rt
      /\ held'[p].rt.lin = held[p].rt.lin
      /\ \A q \in Procs \ {p} : SameProc(q)
      /\ UNCHANGED <<file, live, broken, raced>>
  BY <1>t, RefreshedSettled
     DEF Refreshed, Go, WithTokens, SameProc, baseVars, historyVars
<1>2. ASSUME NEW l \in Lineages
      PROVE  /\ Refreshing(p, l)' = Refreshing(p, l)
             /\ KeepsNewer(p, l)' = KeepsNewer(p, l)
             /\ Removes(p, l)' = Removes(p, l)
             /\ Newest(p)' = Newest(p)
  BY <1>t, <1>1 DEF Refreshing, KeepsNewer, Removes, Newest
<1> QED
  BY <1>1, <1>2, SameProcView, SameViewKept

\* A save puts the newest copy into the file: whatever was saved, or loaded, in
\* between belongs to another sign-in or is older.
LEMMA SaveKept ==
  ASSUME TypeInv, SessionsInv, ChainInv, NEW p \in Procs, SaveRefreshed(p)
  PROVE  ChainInv'
<1> SUFFICES ASSUME NEW l \in Lineages \ (broken \cup raced), InUse(l)'
             PROVE  Removed(l)' \/ Chained(l)'
  BY DEF ChainInv, SaveRefreshed, historyVars
<1>t. /\ held[p] # NoSession
      /\ reply[p] = NoGrant
      /\ pc[p] = "saving" /\ pc'[p] = "done"
      /\ file' = held[p]
      /\ live' = live
      /\ \A q \in Procs \ {p} : SameProc(q)
  BY DEF SaveRefreshed, Exit, Go, SameProc, TypeInv, TypeOK, ProcTypeOK, HoldsSession,
     AnswersAwaited, idpVars
<1>1. /\ ~Refreshing(p, l)' /\ ~KeepsNewer(p, l)'
      /\ ~Removes(p, l)
      /\ Refreshing(p, l) <=> held[p].rt.lin = l
      /\ KeepsNewer(p, l) <=> held[p].rt.lin = l
      /\ InFile(l)' <=> held[p].rt.lin = l
      /\ Newest(p) = held[p].rt.n
  BY <1>t DEF Refreshing, KeepsNewer, Removes, InFile, Newest
<1>2. InUse(l)
  BY <1>t, <1>1, SameProcView DEF InUse
<1>3. CASE Removed(l)
  BY <1>t, <1>1, <1>3, SameProcView DEF Removed
<1>4. CASE Chained(l)
  <2>1. held[p].rt.lin = l => held[p].rt.n = live[l]
    BY <1>1, <1>4 DEF Chained, HeldChained
  <2>t. live[l] \in Nat
    BY DEF TypeInv, TypeOK, BaseTypeOK
  <2>2. FileChained(l)'
    BY <1>t, <1>1, <2>1, <2>t DEF FileChained
  <2>3. HeldChained(l)'
    BY <1>t, <1>1, <1>4, SameProcView DEF Chained, HeldChained
  <2>4. ASSUME Rotates, held[p].rt.lin = l, NEW q \in Procs \ {p}, KeepsNewer(q, l)
        PROVE  FALSE
    BY <1>1, <1>4, <2>4, <2>t DEF Chained, HeldChained, OneNewest, KeepsNewer
  <2>5. OneNewest(l)'
    BY <1>t, <1>1, <1>4, <2>4, SameProcView DEF Chained, OneNewest
  <2> QED
    BY <2>2, <2>3, <2>5 DEF Chained
<1> QED
  BY <1>2, <1>3, <1>4 DEF ChainInv

\* A revoked sign-in is about to be removed by the sign-out that revoked it.
LEMMA RevokeKept ==
  ASSUME TypeInv, ChainInv, NEW p \in Procs, Revoke(p)
  PROVE  ChainInv'
<1> SUFFICES ASSUME NEW l \in Lineages \ (broken \cup raced), InUse(l)'
             PROVE  Removed(l)' \/ Chained(l)'
  BY DEF ChainInv, Revoke, historyVars
<1>t. /\ held[p] \in Session
      /\ live \in [Lineages -> Nat]
      /\ pc[p] = "revoking" /\ pc'[p] = "unlinking"
      /\ \A q \in Procs \ {p} : SameProc(q)
      /\ UNCHANGED <<held, file>>
  BY DEF Revoke, Go, SameProc, TypeInv, TypeOK, BaseTypeOK, ProcTypeOK, HoldsSession
<1>1. CASE held[p].rt.lin = l
  BY <1>t, <1>1, ConstantsAssumption DEF Removed, Removes
<1>2. CASE held[p].rt.lin # l
  <2>1. live'[l] = live[l]
    BY <1>t, <1>2, SessionFields DEF Revoke
  <2>2. /\ ~Refreshing(p, l) /\ ~KeepsNewer(p, l) /\ ~Removes(p, l)
        /\ ~Refreshing(p, l)' /\ ~KeepsNewer(p, l)'
        /\ InFile(l)' = InFile(l)
    BY <1>t DEF Refreshing, KeepsNewer, Removes, InFile
  <2>3. InUse(l)
    BY <1>t, <2>2, SameProcView DEF InUse
  <2>4. CASE Removed(l)
    BY <1>t, <2>2, <2>4, SameProcView DEF Removed
  <2>5. CASE Chained(l)
    <3>1. FileChained(l)'
      BY <1>t, <2>1, <2>2, <2>5, SameProcView DEF Chained, FileChained
    <3>2. HeldChained(l)'
      BY <1>t, <2>1, <2>2, <2>5, SameProcView DEF Chained, HeldChained
    <3>3. OneNewest(l)'
      BY <1>t, <2>1, <2>2, <2>5, SameProcView DEF Chained, OneNewest
    <3> QED
      BY <3>1, <3>2, <3>3 DEF Chained
  <2> QED
    BY <2>3, <2>4, <2>5 DEF ChainInv
<1> QED
  BY <1>1, <1>2

\* After a sign-out nobody uses the sign-ins it ended, unless somebody was just then
\* refreshing one of them: the sign-out raced with it.
LEMMA UnlinkKept ==
  ASSUME TypeInv, ChainInv, NEW p \in Procs, Unlink(p)
  PROVE  ChainInv'
<1> SUFFICES ASSUME NEW l \in Lineages \ (broken' \cup raced'), InUse(l)'
             PROVE  Removed(l)' \/ Chained(l)'
  BY DEF ChainInv
<1>t. /\ file' = NoSession
      /\ live' = live
      /\ broken' = broken
      /\ pc[p] = "unlinking" /\ pc'[p] = "done"
      /\ \A q \in Procs \ {p} : SameProc(q)
      /\ raced' = raced \cup {k \in Ended(p) : \E q \in Procs : Refreshing(q, k)}
  BY DEF Unlink, Exit, Go, SameProc, TypeInv, TypeOK, ProcTypeOK, idpVars
<1>1. ~Refreshing(p, l) /\ ~Refreshing(p, l)' /\ ~KeepsNewer(p, l)' /\ ~InFile(l)'
  BY <1>t DEF Refreshing, KeepsNewer, InFile
<1>2. \E q \in Procs : Refreshing(q, l)
  BY <1>t, <1>1, SameProcView DEF InUse
<1>3. l \notin Ended(p)
  BY <1>t, <1>2
<1>4. ~InFile(l) /\ ~Removes(p, l)
  BY <1>3 DEF Ended, InFile, Removes
<1>5. CASE Removed(l)
  BY <1>t, <1>4, <1>5, SameProcView DEF Removed
<1>6. CASE Chained(l)
  <2>1. FileChained(l)'
    BY <1>1 DEF FileChained
  <2>2. HeldChained(l)'
    BY <1>t, <1>1, <1>6, SameProcView DEF Chained, HeldChained
  <2>3. OneNewest(l)'
    BY <1>t, <1>1, <1>6, SameProcView DEF Chained, OneNewest
  <2> QED
    BY <2>1, <2>2, <2>3 DEF Chained
<1> QED
  BY <1>t, <1>2, <1>5, <1>6 DEF ChainInv, InUse

\* A sign-in that begins is not in use before its server has saved it.
LEMMA IdpExchangeKept ==
  ASSUME TypeInv, SessionsInv, ChainInv, NEW s \in Servers, ServerStep(s), IdpExchange(s)
  PROVE  ChainInv'
<1> SUFFICES ASSUME NEW l \in Lineages \ (broken \cup raced), InUse(l)'
             PROVE  Removed(l)' \/ Chained(l)'
  BY DEF ChainInv, ServerStep, historyVars
<1>t. UNCHANGED <<file, pc, held, reply>>
  BY DEF ServerStep, IdpExchange, procVars
<1>1. \A q \in Procs : SameProc(q)
  BY <1>t DEF SameProc
<1>2. InFile(l)' = InFile(l)
  BY <1>t DEF InFile
<1>3. InUse(l)
  BY <1>1, <1>2, SameProcView DEF InUse
<1>4. l # s
  BY <1>3, InUseSettled DEF IdpExchange
<1>5. live'[l] = live[l]
  BY <1>4 DEF IdpExchange, TypeInv, TypeOK, BaseTypeOK
<1>6. CASE Removed(l)
  BY <1>1, <1>6, SameProcView DEF Removed
<1>7. CASE Chained(l)
  <2>1. FileChained(l)'
    BY <1>t, <1>1, <1>2, <1>5, <1>7, SameProcView DEF Chained, FileChained
  <2>2. HeldChained(l)'
    BY <1>1, <1>5, <1>7, SameProcView DEF Chained, HeldChained
  <2>3. OneNewest(l)'
    BY <1>t, <1>1, <1>2, <1>5, <1>7, SameProcView DEF Chained, OneNewest
  <2> QED
    BY <2>1, <2>2, <2>3 DEF Chained
<1> QED
  BY <1>3, <1>6, <1>7 DEF ChainInv

\* A server saves the first token of its own sign-in, which nobody uses yet.
LEMMA ServerSaveKept ==
  ASSUME TypeInv, SessionsInv, FirstTokens, ChainInv, NEW s \in Servers, ServerStep(s),
         ServerSave(s)
  PROVE  ChainInv'
<1> SUFFICES ASSUME NEW l \in Lineages \ (broken \cup raced), InUse(l)'
             PROVE  Removed(l)' \/ Chained(l)'
  BY DEF ChainInv, ServerStep, historyVars
<1>t. /\ file' = newSession[s] /\ newSession[s] # NoSession
      /\ newSession[s].rt.lin = s /\ newSession[s].rt.n = 1 /\ live[s] = 1
      /\ phase[s] = "saving"
      /\ UNCHANGED <<live, pc, held, reply>>
  BY DEF ServerStep, ServerSave, procVars, idpVars, SessionsInv, NewSessionInv, FirstTokens
<1>1. \A q \in Procs : SameProc(q)
  BY <1>t DEF SameProc
<1>2. InFile(l)' <=> l = s
  BY <1>t DEF InFile
<1>3. CASE l = s
  <2>1. \A q \in Procs : ~Refreshing(q, l) /\ ~KeepsNewer(q, l)
    BY <1>t, <1>3, InUseSettled DEF InUse, KeepsNewer
  <2>2. Chained(l)'
    BY <1>t, <1>1, <1>3, <2>1, SameProcView DEF Chained, FileChained, HeldChained, OneNewest
  <2> QED
    BY <2>2
<1>4. CASE l # s
  <2>1. InUse(l)
    BY <1>1, <1>2, <1>4, SameProcView DEF InUse
  <2>2. CASE Removed(l)
    BY <1>1, <2>2, SameProcView DEF Removed
  <2>3. CASE Chained(l)
    <3>1. FileChained(l)'
      BY <1>2, <1>4 DEF FileChained
    <3>2. HeldChained(l)'
      BY <1>t, <1>1, <2>3, SameProcView DEF Chained, HeldChained
    <3>3. OneNewest(l)'
      BY <1>t, <1>1, <1>2, <1>4, <2>3, SameProcView DEF Chained, OneNewest
    <3> QED
      BY <3>1, <3>2, <3>3 DEF Chained
  <2> QED
    BY <2>1, <2>2, <2>3 DEF ChainInv
<1> QED
  BY <1>3, <1>4

\* An answer or a revocation that is dropped breaks the chain, and is noted.
LEMMA DroppedChain ==
  ASSUME TypeInv, ReplyNewer, SessionsInv, NEW p \in Procs, NEW l \in Lineages,
         (Rotates /\ KeepsNewer(p, l)) \/ Removes(p, l)
  PROVE  l \in Dropped(p)
<1>1. CASE Removes(p, l)
  <2>1. pc[p] = "unlinking" /\ held[p] # NoSession /\ held[p].rt.lin = l /\ reply[p] = NoGrant
    BY <1>1 DEF Removes, TypeInv, AnswersAwaited
  <2> QED
    BY <2>1 DEF Dropped
<1>2. CASE Rotates /\ KeepsNewer(p, l) /\ reply[p] # NoGrant
  <2>1. held[p] \in Session /\ held[p].rt.lin = l
    BY <1>2 DEF KeepsNewer, Refreshing, TypeInv, TypeOK, ProcTypeOK, HoldsSession
  <2>2. reply[p].rt # held[p].rt
    BY <1>2, <2>1, SessionFields DEF ReplyNewer
  <2> QED
    BY <1>2, <2>1, <2>2 DEF Dropped
<1>3. CASE Rotates /\ KeepsNewer(p, l) /\ reply[p] = NoGrant
  BY <1>3 DEF KeepsNewer, Refreshing, Dropped
<1> QED
  BY <1>1, <1>2, <1>3

LEMMA ChainProcStep ==
  ASSUME TypeInv, SessionsInv, ReplyNewer, ChainInv, NEW p \in Procs, ProcNext(p)
  PROVE  ChainInv'
<1>t. /\ pc \in [Procs -> PCs]
      /\ held \in [Procs -> Session \cup {NoSession}]
      /\ reply \in [Procs -> Grant \cup {NoGrant}]
  BY DEF TypeInv, TypeOK, ProcTypeOK
<1> DEFINE Quiet == UNCHANGED <<file, live, broken, raced>>
<1>a. ASSUME NEW r, Exit(p, r), Quiet, pc[p] \notin {"refreshing", "saving", "unlinking"}
      PROVE  ChainInv'
  BY <1>a, <1>t, LeavesKept DEF Exit, Go, SameProc, KeepsNewer, Refreshing, Removes
<1>b. ASSUME NEW w, Go(p, w), w \notin {"refreshing", "saving"}, Quiet,
             pc[p] \notin {"refreshing", "saving", "unlinking"}, reply' = reply,
             \A q \in Procs \ {p} : held'[q] = held[q]
      PROVE  ChainInv'
  BY <1>b, <1>t, LeavesKept DEF Go, SameProc, KeepsNewer, Refreshing, Removes
<1>1. ASSUME NEW c, TryCached(p, c) PROVE ChainInv'
  <2>1. Quiet /\ pc[p] = "ready"
    BY <1>1 DEF TryCached, baseVars, historyVars
  <2>2. CASE \E r : Exit(p, r)
    BY <1>a, <2>1, <2>2
  <2>3. CASE Go(p, "register") /\ UNCHANGED <<held, reply>>
    BY <1>b, <2>1, <2>3
  <2>4. CASE /\ MayRefresh(file) /\ Go(p, "refreshing")
             /\ held' = [held EXCEPT ![p] = file] /\ UNCHANGED reply
    BY <1>t, <2>1, <2>4, LoadKept DEF MayRefresh, Go, SameProc
  <2> QED
    BY <1>1, <2>2, <2>3, <2>4 DEF TryCached
<1>2. CASE IdpRefresh(p)
  BY <1>2, IdpRefreshKept
<1>3. CASE Refreshed(p)
  BY <1>3, RefreshedKept
<1>4. CASE SaveRefreshed(p)
  BY <1>4, SaveKept
<1>5. CASE RefreshFails(p) \/ Crash(p)
  <2>1. /\ broken' = broken \cup Dropped(p)
        /\ pc'[p] \in {"done", "reuse"}
        /\ \A q \in Procs \ {p} : SameProc(q)
        /\ UNCHANGED <<file, live, raced>>
    BY <1>5, <1>t DEF RefreshFails, Crash, Exit, Go, SameProc, baseVars
  <2> QED
    BY <2>1, DroppedChain, LeavesKept
<1>6. CASE StartWithClient(p) \/ RegisterAndStart(p) \/ StartFails(p)
  BY <1>6, <1>a DEF StartWithClient, RegisterAndStart, StartFails, baseVars, historyVars
<1>7. CASE WaitForAuth(p)
  BY <1>7, <1>b DEF WaitForAuth, baseVars, historyVars
<1>8. CASE PollSession(p) \/ ProbeServer(p) \/ Recheck(p) \/ WaitTimesOut(p)
  BY <1>8, <1>a, <1>b DEF PollSession, ProbeServer, Recheck, WaitTimesOut, baseVars, historyVars
<1>9. CASE SignOut(p)
  BY <1>9, <1>b, <1>t DEF SignOut, baseVars, historyVars
<1>10. CASE Revoke(p)
  BY <1>10, RevokeKept
<1>11. CASE Unlink(p)
  BY <1>11, UnlinkKept
<1> QED
  BY <1>1, <1>2, <1>3, <1>4, <1>5, <1>6, <1>7, <1>8, <1>9, <1>10, <1>11
     DEF ProcNext, GetAccessToken, StartAuth

LEMMA ChainStep ==
  TypeInv /\ SessionsInv /\ ReplyNewer /\ FirstTokens /\ ChainInv /\ [Next]_vars => ChainInv'
<1> SUFFICES ASSUME TypeInv, SessionsInv, ReplyNewer, FirstTokens, ChainInv, [Next]_vars
             PROVE  ChainInv'
  OBVIOUS
<1>a. ASSUME UNCHANGED <<file, live, broken, raced, pc, held, reply>> PROVE ChainInv'
  BY <1>a, SameProcView, SameViewKept DEF SameProc
<1>1. CASE Tick \/ UNCHANGED vars
  BY <1>1, <1>a DEF Tick, vars, baseVars, idpVars, procVars, historyVars
<1>2. ASSUME NEW s \in Servers, ServerStep(s), ~IdpExchange(s), ~ServerSave(s)
      PROVE  ChainInv'
  BY <1>2, <1>a DEF ServerStep, ServerNext, Accept, DoGet, PeerCloses, PeerResets, Wake, Expire,
     LoopStopped, Exchanged, ServerDies, baseVars, procVars, historyVars
<1> QED
  BY <1>1, <1>2, ChainProcStep, IdpExchangeKept, ServerSaveKept DEF Next

LEMMA ChainInit == Init => ReplyNewer /\ FirstTokens /\ ChainInv
<1> SUFFICES ASSUME Init PROVE ReplyNewer /\ FirstTokens /\ ChainInv
  OBVIOUS
<1>1. ReplyNewer /\ FirstTokens
  BY DEF Init, ServerInit, ReplyNewer, FirstTokens
<1>2. \A p \in Procs : \A l : ~Refreshing(p, l) /\ ~KeepsNewer(p, l)
  BY DEF Init, Refreshing, KeepsNewer
<1>3. ASSUME NEW l \in Lineages, InFile(l) PROVE file.rt.n = live[l] /\ live[l] = 1
  BY <1>3, PriorAssumption DEF InFile, Init, BaseInit
<1>4. ChainInv
  BY <1>2, <1>3 DEF ChainInv, InUse, Chained, FileChained, HeldChained, OneNewest
<1> QED
  BY <1>1, <1>4

LEMMA ChainCorrect == Spec => [](TypeInv /\ ChainInv)
<1>1. Init => TypeInv /\ SessionsInv /\ ReplyNewer /\ FirstTokens /\ ChainInv
  BY TypeInit, SessionsInit, ChainInit
<1>2. ASSUME TypeInv, SessionsInv, ReplyNewer, FirstTokens, ChainInv, [Next]_vars
      PROVE  ReplyNewer' /\ FirstTokens' /\ ChainInv'
  BY <1>2, ReplyNewerStep, FirstTokensStep, ChainStep
<1> QED
  BY <1>1, <1>2, SessionsCorrect, PTL DEF Spec

-----------------------------------------------------------------------------
(* The refresh token in the file.                                           *)

\* However many invocations refresh the same session at once, and whatever becomes of
\* their answers, the refresh token in the file is the live one, or its successor is
\* about to be saved, or a sign-out is about to remove it; only a lost answer, a crash
\* or a sign-out that raced with a refresh leaves a dead token for good.
THEOREM RefreshTokenKept == Spec => []StoredRefreshTokenLive
<1>1. TypeInv /\ ChainInv => StoredRefreshTokenLive
  <2> SUFFICES ASSUME TypeInv, ChainInv, file # NoSession,
                      file.rt.lin \notin broken \cup raced
               PROVE  \/ live[file.rt.lin] = file.rt.n
                      \/ \E p \in Procs :
                           KeepsNewer(p, file.rt.lin) \/ Removes(p, file.rt.lin)
    BY DEF StoredRefreshTokenLive
  <2>1. file.rt.lin \in Lineages /\ InUse(file.rt.lin) /\ InFile(file.rt.lin)
    BY SessionFields DEF TypeInv, TypeOK, BaseTypeOK, InUse, InFile
  <2> QED
    BY <2>1 DEF ChainInv, Removed, Chained, FileChained
<1> QED
  BY <1>1, ChainCorrect, PTL

\* The newer refresh token of a sign-in is with one invocation at most.
OneHolder ==
  \A l \in Lineages \ (broken \cup raced) :
    \A p, q \in Procs :
      Rotates /\ KeepsNewer(p, l) /\ KeepsNewer(q, l) /\ ~Removed(l) => p = q

\* With rotation no two invocations of _refresh_token hold the newest refresh token of a
\* sign-in at the same time, unless the sign-in was broken or its sign-out raced with a
\* refresh: so no save of an older session follows that of the newest.
THEOREM NewestTokenHeldOnce == Spec => []OneHolder
<1>1. TypeInv /\ ChainInv => OneHolder
  <2> SUFFICES ASSUME TypeInv, ChainInv, NEW l \in Lineages \ (broken \cup raced),
                      NEW p \in Procs, NEW q \in Procs, Rotates, KeepsNewer(p, l),
                      KeepsNewer(q, l), ~Removed(l), p # q
               PROVE  FALSE
    BY DEF OneHolder
  <2>1. Refreshing(p, l) /\ Refreshing(q, l) /\ live[l] \in Nat
    BY DEF KeepsNewer, TypeInv, TypeOK, BaseTypeOK
  <2>2. Chained(l)
    BY <2>1 DEF ChainInv, InUse
  <2> QED
    BY <2>1, <2>2 DEF Chained, HeldChained, OneNewest
<1> QED
  BY <1>1, ChainCorrect, PTL
-----------------------------------------------------------------------------
(* LaunchAuth implements SessionRegister: each step is a step of the       *)
(* register or leaves it alone.                                            *)

\* No refresh token has been issued for a sign-in that is not completed.
Unissued ==
  \A s \in Servers :
    \/ phase[s] \in {"unused", "listening", "closing", "expired"}
    \/ phase[s] = "exchanging" /\ grant[s] = NoGrant
    => live[s] = 0

LEMMA PhaseStep ==
  ASSUME TypeOK, [Next]_vars, NEW s \in Servers
  PROVE  \/ IdpExchange(s)
         \/ phase'[s] \in {"exited", "saving"}
         \/ /\ grant'[s] = grant[s]
            /\ phase'[s] = phase[s] \/ phase[s] \in {"unused", "listening", "closing"}
<1> DEFINE Goal == \/ IdpExchange(s)
                   \/ phase'[s] \in {"exited", "saving"}
                   \/ /\ grant'[s] = grant[s]
                      /\ phase'[s] = phase[s] \/ phase[s] \in {"unused", "listening", "closing"}
<1>t. /\ grant \in [Servers -> Grant \cup {NoGrant}]
      /\ phase \in [Servers -> Phases]
  BY DEF TypeOK, ServerTypeOK
<1>a. ASSUME NEW u, Gone(u) PROVE Goal
  BY <1>a, <1>t DEF Gone
<1>b. CASE UNCHANGED <<phase, grant>>
  BY <1>b
<1>c. ASSUME NEW u, NEW x, Spawn(u, x) PROVE Goal
  BY <1>c, <1>t DEF Spawn
<1>1. CASE Tick \/ UNCHANGED vars
  BY <1>1, <1>b DEF Tick, vars, serverVars
<1>2. ASSUME NEW p \in Procs, ProcNext(p) PROVE Goal
  BY <1>2, <1>a, <1>b, <1>c DEF ProcNext, GetAccessToken, StartAuth, TryCached, IdpRefresh,
     Refreshed, SaveRefreshed, RefreshFails, StartWithClient, RegisterAndStart,
     StartFails, WaitForAuth, PollSession, ProbeServer, Recheck, WaitTimesOut, SignOut,
     Revoke, Unlink, Crash, serverVars
<1>3. ASSUME NEW u \in Servers, ServerNext(u) PROVE Goal
  <2>1. CASE IdpExchange(u) \/ Exchanged(u)
    BY <2>1, <1>t DEF IdpExchange, Exchanged
  <2>2. CASE Wake(u) \/ Expire(u)
    BY <2>2, <1>t DEF Wake, Expire
  <2>3. CASE LoopStopped(u)
    BY <2>3, <1>a, <1>t DEF LoopStopped
  <2> QED
    BY <1>3, <1>a, <1>b, <2>1, <2>2, <2>3 DEF ServerNext, Accept, DoGet, PeerCloses,
       PeerResets, ServerSave, ServerDies
<1> QED
  BY <1>1, <1>2, <1>3 DEF Next, ServerStep

LEMMA UnissuedStep == TypeInv /\ SessionsInv /\ Unissued /\ [Next]_vars => Unissued'
<1> DEFINE Early(s) == \/ phase[s] \in {"unused", "listening", "closing", "expired"}
                       \/ phase[s] = "exchanging" /\ grant[s] = NoGrant
<1> SUFFICES ASSUME TypeInv, SessionsInv, Unissued, [Next]_vars, NEW s \in Servers, Early(s)'
             PROVE  live'[s] = 0
  BY DEF Unissued
<1>t. /\ TypeOK
      /\ live \in [Lineages -> Nat]
      /\ s \in Lineages
  BY DEF TypeInv, TypeOK, BaseTypeOK, Lineages
<1>1. ~IdpExchange(s)
  <2> SUFFICES ASSUME IdpExchange(s) PROVE FALSE
    OBVIOUS
  <2>1. PICK life \in TokenLifetimes : grant' = [grant EXCEPT ![s] = FirstGrant(s, life)]
    BY DEF IdpExchange
  <2>2. FirstGrant(s, life) \in Grant
    BY <1>t, FirstGrantType, ConstantsAssumption DEF TypeOK, BaseTypeOK
  <2>3. grant'[s] # NoGrant /\ phase'[s] = "exchanging"
    BY <1>t, <2>1, <2>2, ConstantsAssumption DEF IdpExchange, TypeOK, ServerTypeOK
  <2> QED
    BY <2>3
<1>2. Early(s)
  BY <1>t, <1>1, PhaseStep DEF SessionsInv, GrantInv
<1>3. live[s] = 0 /\ phase[s] # "exited"
  BY <1>2 DEF Unissued
<1>4. ASSUME NEW p \in Procs, IdpRefresh(p) \/ Revoke(p) PROVE live'[s] = live[s]
  <2>1. held[p] # NoSession
    BY <1>4 DEF IdpRefresh, Revoke, TypeInv, TypeOK, HoldsSession
  <2>2. held[p].rt.lin # s
    BY <1>3, <2>1 DEF SessionsInv, HeldInv, Settled
  <2> QED
    BY <1>t, <1>4, <2>2 DEF IdpRefresh, Revoke
<1>5. ASSUME NEW u \in Servers, IdpExchange(u) PROVE live'[s] = live[s]
  BY <1>1, <1>t, <1>5 DEF IdpExchange
<1> QED
  BY <1>3, <1>4, <1>5, LiveStep

\* Nothing the register consists of changes.
SameRegister == UNCHANGED <<Stored, live, Arriving, Loaded, Pending, Disturbed>>

LEMMA SameRegisterKept ==
  ASSUME UNCHANGED <<file, live, grant, newSession, broken, raced, signedOut>>,
         \A q \in Procs, l \in Lineages :
           /\ Refreshing(q, l)' = Refreshing(q, l)
           /\ KeepsNewer(q, l)' = KeepsNewer(q, l)
           /\ Removes(q, l)' = Removes(q, l)
  PROVE  SameRegister
<1>1. Stored' = Stored /\ Arriving' = Arriving
  BY DEF Stored, Arriving
<1>2. Loaded' = Loaded /\ Pending' = Pending
  BY DEF Loaded, Pending
<1>3. Disturbed' = Disturbed
  BY DEF Disturbed
<1> QED
  BY <1>1, <1>2, <1>3 DEF SameRegister

\* An invocation that refreshes no sign-in but l changes what is loaded and pending of l only.
LEMMA OneReader ==
  ASSUME NEW p \in Procs, NEW l \in Lineages, \A q \in Procs \ {p} : SameProc(q),
         \A k \in Lineages \ {l} : ~Refreshing(p, k) /\ ~Refreshing(p, k)'
  PROVE  /\ Loaded' \in {Loaded, Loaded \cup {l}, Loaded \ {l}}
         /\ Pending' \in {Pending, Pending \cup {l}, Pending \ {l}}
         /\ ~Refreshing(p, l)' => Loaded' \in {Loaded, Loaded \ {l}}
         /\ ~KeepsNewer(p, l)' => Pending' \in {Pending, Pending \ {l}}
         /\ ~KeepsNewer(p, l)' /\ ~KeepsNewer(p, l) => Pending' = Pending
         /\ (\E q \in Procs : Refreshing(q, l)) => l \in Loaded
         /\ (\E q \in Procs : KeepsNewer(q, l)) => l \in Pending
<1>1. ASSUME NEW k \in Lineages \ {l}
      PROVE  /\ k \in Loaded' <=> k \in Loaded
             /\ k \in Pending' <=> k \in Pending
  <2>1. ~KeepsNewer(p, k) /\ ~KeepsNewer(p, k)'
    BY DEF KeepsNewer
  <2> QED
    BY <2>1, SameProcView DEF Loaded, Pending
<1>2. Loaded \subseteq Lineages /\ Loaded' \subseteq Lineages
      /\ Pending \subseteq Lineages /\ Pending' \subseteq Lineages
  BY DEF Loaded, Pending
<1>3. ~Refreshing(p, l)' /\ l \notin Loaded => l \notin Loaded'
  BY SameProcView DEF Loaded
<1>4. ~KeepsNewer(p, l)' /\ l \notin Pending => l \notin Pending'
  BY SameProcView DEF Pending
<1>5. ~KeepsNewer(p, l)' /\ ~KeepsNewer(p, l) => (l \in Pending' <=> l \in Pending)
  BY SameProcView DEF Pending
<1>6. /\ (\E q \in Procs : Refreshing(q, l)) => l \in Loaded
      /\ (\E q \in Procs : KeepsNewer(q, l)) => l \in Pending
  BY DEF Loaded, Pending
<1> QED
  BY <1>1, <1>2, <1>3, <1>4, <1>5, <1>6

\* Of the readers none begins or ends.
LEMMA NoReader ==
  ASSUME NEW p \in Procs, \A q \in Procs \ {p} : SameProc(q),
         \A k \in Lineages : ~Refreshing(p, k) /\ ~Refreshing(p, k)'
  PROVE  Loaded' = Loaded /\ Pending' = Pending
<1>1. \A k \in Lineages : ~KeepsNewer(p, k) /\ ~KeepsNewer(p, k)'
  BY DEF KeepsNewer
<1> QED
  BY <1>1, SameProcView DEF Loaded, Pending

\* A sign-in in use that is not disturbed is in order.
LEMMA UndisturbedChained ==
  ASSUME ChainInv, NEW l \in Lineages \ Disturbed, InUse(l)
  PROVE  Chained(l)
BY DEF ChainInv, Disturbed, Removed

LEMMA StoredSession ==
  ASSUME file # NoSession
  PROVE  Stored = {[by |-> file.rt.lin, n |-> file.rt.n]} /\ {e.by : e \in Stored} = {file.rt.lin}
<1> DEFINE entry == [by |-> file.rt.lin, n |-> file.rt.n]
<1>1. entry.by = file.rt.lin
  OBVIOUS
<1>2. Stored = {entry}
  BY DEF Stored
<1> HIDE DEF entry
<1>3. {e.by : e \in {entry}} = {entry.by}
  OBVIOUS
<1> QED
  BY <1>1, <1>2, <1>3 DEF entry

LEMMA StoredNext ==
  ASSUME file' # NoSession
  PROVE  Stored' = {[by |-> file'.rt.lin, n |-> file'.rt.n]}
BY DEF Stored

\* A command that loads a session to refresh it.
LEMMA LoadMapped ==
  ASSUME TypeInv, NEW p \in Procs, pc[p] = "ready", pc'[p] = "refreshing",
         held'[p] = file, file # NoSession, reply'[p] = reply[p],
         \A q \in Procs \ {p} : SameProc(q),
         UNCHANGED <<file, live, grant, newSession, broken, raced, signedOut>>
  PROVE  Register!Load
<1> DEFINE l == file.rt.lin
<1>1. l \in Lineages /\ reply[p] = NoGrant
  BY SessionFields DEF TypeInv, TypeOK, BaseTypeOK, AnswersAwaited
<1>2. \A k : /\ ~Refreshing(p, k) /\ (Refreshing(p, k)' <=> k = l)
             /\ ~KeepsNewer(p, k) /\ ~KeepsNewer(p, k)'
             /\ ~Removes(p, k) /\ ~Removes(p, k)'
  BY <1>1 DEF Refreshing, KeepsNewer, Removes
<1>3. Loaded' = Loaded \cup {l}
  BY <1>1, <1>2, SameProcView DEF Loaded
<1>4. Pending' = Pending
  BY <1>2, SameProcView DEF Pending
<1>5. Disturbed' = Disturbed
  BY <1>2, SameProcView DEF Disturbed
<1>6. Stored' = Stored /\ Arriving' = Arriving
  BY DEF Stored, Arriving
<1>7. {e.by : e \in Stored} = {l}
  BY StoredSession
<1> QED
  BY <1>3, <1>4, <1>5, <1>6, <1>7 DEF Register!Load

\* The provider answers a refresh: one at a time, unless the sign-in is disturbed.
LEMMA IdpRefreshMapped ==
  ASSUME TypeInv, ChainInv, NEW p \in Procs, IdpRefresh(p)
  PROVE  \E l \in Lineages : Register!Renew(l) \/ Register!Stray(l)
<1> DEFINE l == held[p].rt.lin
           n == held[p].rt.n
           new == IF Rotates THEN n + 1 ELSE n
<1>t. /\ l \in Lineages /\ n \in Nat
      /\ live \in [Lineages -> Nat]
      /\ pc[p] = "refreshing" /\ reply[p] = NoGrant /\ live[l] = n
      /\ UNCHANGED <<pc, held, file, grant, newSession, broken, raced, signedOut>>
      /\ live' = [live EXCEPT ![l] = new]
  BY SessionFields DEF IdpRefresh, Refreshable, RefreshGrant, TypeInv, TypeOK, BaseTypeOK,
     ProcTypeOK, HoldsSession, serverVars, historyVars
<1>1. reply'[p] # NoGrant
  <2>1. PICK life \in TokenLifetimes :
          reply' = [reply EXCEPT ![p] = RefreshGrant(held[p], life)]
    BY DEF IdpRefresh
  <2>2. RefreshGrant(held[p], life) \in Grant
    BY <1>t, RefreshGrantType, ConstantsAssumption
       DEF TypeInv, TypeOK, BaseTypeOK, ProcTypeOK, HoldsSession
  <2> QED
    BY <2>1, <2>2, ConstantsAssumption DEF TypeInv, TypeOK, ProcTypeOK
<1>2. \A q \in Procs \ {p} : SameProc(q)
  BY <1>t DEF IdpRefresh, SameProc, TypeInv, TypeOK, ProcTypeOK
<1>3. \A k : /\ (Refreshing(p, k) <=> k = l) /\ (Refreshing(p, k)' <=> k = l)
             /\ ~KeepsNewer(p, k) /\ (KeepsNewer(p, k)' <=> k = l)
             /\ ~Removes(p, k) /\ ~Removes(p, k)'
  BY <1>t, <1>1 DEF Refreshing, KeepsNewer, Removes
<1>4. Newest(p) = n
  BY <1>t DEF Newest
<1>5. /\ Loaded' = Loaded /\ l \in Loaded
      /\ Pending' = Pending \cup {l}
      /\ Disturbed' = Disturbed
      /\ Stored' = Stored /\ Arriving' = Arriving
  <2>1. Loaded' = Loaded /\ l \in Loaded
    BY <1>t, <1>2, <1>3, SameProcView DEF Loaded
  <2>2. Pending' = Pending \cup {l}
    BY <1>t, <1>2, <1>3, SameProcView DEF Pending
  <2>3. Disturbed' = Disturbed
    BY <1>t, <1>2, <1>3, SameProcView DEF Disturbed
  <2>4. Stored' = Stored /\ Arriving' = Arriving
    BY <1>t DEF Stored, Arriving
  <2> QED
    BY <2>1, <2>2, <2>3, <2>4
<1>6. live' = [live EXCEPT ![l] = live'[l]]
  BY <1>t
<1>7. CASE l \in Disturbed
  <2>1. Register!Stray(l)
    BY <1>5, <1>6, <1>7 DEF Register!Stray
  <2> QED
    BY <1>t, <2>1
<1>8. CASE l \notin Disturbed
  <2>1. Chained(l)
    BY <1>t, <1>3, <1>8, UndisturbedChained DEF InUse
  <2>2. Rotates => l \notin Pending
    <3> SUFFICES ASSUME Rotates, NEW q \in Procs, KeepsNewer(q, l) PROVE FALSE
      BY DEF Pending
    <3>1. q # p
      BY <1>3
    <3> QED
      BY <1>t, <1>3, <1>4, <2>1, <3>1 DEF Chained, OneNewest
  <2>3. live' = [live EXCEPT ![l] = IF Rotates THEN @ + 1 ELSE @]
    BY <1>t
  <2> HIDE DEF l
  <2>4. Register!Renew(l)
    BY <1>5, <1>8, <2>2, <2>3 DEF Register!Renew
  <2> QED
    BY <1>t, <2>4
<1> QED
  BY <1>7, <1>8

\* A save stores the newest session of its sign-in, unless that is disturbed.
LEMMA SaveMapped ==
  ASSUME TypeInv, ChainInv, NEW p \in Procs, SaveRefreshed(p)
  PROVE  \E l \in Lineages : Register!Store(l) \/ Register!Stray(l)
<1>0. PICK l \in Lineages : held[p].rt.lin = l
  BY SessionFields DEF SaveRefreshed, TypeInv, TypeOK, ProcTypeOK, HoldsSession
<1>t. /\ held[p] # NoSession /\ held[p] \in Session
      /\ live \in [Lineages -> Nat]
      /\ reply[p] = NoGrant
      /\ pc[p] = "saving" /\ pc'[p] = "done"
      /\ file' = held[p]
      /\ \A q \in Procs \ {p} : SameProc(q)
      /\ UNCHANGED <<live, grant, newSession, broken, raced, signedOut>>
  BY DEF SaveRefreshed, Exit, Go, SameProc, TypeInv, TypeOK, BaseTypeOK, ProcTypeOK,
     HoldsSession, AnswersAwaited, idpVars, serverVars, historyVars
<1>1. \A k : /\ (Refreshing(p, k) <=> k = l) /\ ~Refreshing(p, k)'
             /\ (KeepsNewer(p, k) <=> k = l) /\ ~KeepsNewer(p, k)'
             /\ ~Removes(p, k) /\ ~Removes(p, k)'
  BY <1>0, <1>t DEF Refreshing, KeepsNewer, Removes
<1>2. /\ Loaded' \in {Loaded, Loaded \ {l}} /\ l \in Loaded
      /\ Pending' \in {Pending, Pending \ {l}} /\ l \in Pending
  BY <1>t, <1>1, OneReader
<1>3. Disturbed' = Disturbed
  BY <1>t, <1>1, SameProcView DEF Disturbed
<1>4. Arriving' = Arriving
  BY <1>t DEF Arriving
<1>5. Stored' = {[by |-> l, n |-> held[p].rt.n]}
  BY <1>0, <1>t, StoredNext
<1>6. live' = [live EXCEPT ![l] = live'[l]]
  BY <1>t
<1>7. CASE l \in Disturbed
  <2>1. Stored' # {} /\ \A e \in Stored' : e.by = l
    BY <1>5
  <2>2. Register!Stray(l)
    BY <1>2, <1>3, <1>4, <1>6, <1>7, <2>1 DEF Register!Stray
  <2> QED
    BY <2>2
<1>8. CASE l \notin Disturbed
  <2>1. Chained(l)
    BY <1>t, <1>1, <1>8, UndisturbedChained DEF InUse
  <2>2. held[p].rt.n = live[l]
    BY <1>0, <1>t, <1>1, <2>1 DEF Chained, HeldChained, Newest
  <2>3. Rotates => l \notin Pending'
    <3> SUFFICES ASSUME Rotates, NEW q \in Procs, KeepsNewer(q, l)' PROVE FALSE
      BY DEF Pending
    <3>1. q # p /\ KeepsNewer(q, l)
      BY <1>t, <1>1, SameProcView
    <3>2. Refreshing(q, l) /\ Newest(q) = live[l]
      BY <2>1, <3>1 DEF Chained, HeldChained, KeepsNewer
    <3>3. Newest(q) < live[l]
      BY <1>1, <2>1, <3>1, <3>2 DEF Chained, OneNewest
    <3> QED
      BY <1>t, <3>2, <3>3
  <2>4. Stored' = {[by |-> l, n |-> live[l]]} /\ live' = live
    BY <1>t, <1>5, <2>2
  <2>5. Register!Store(l)
    BY <1>2, <1>3, <1>4, <1>8, <2>3, <2>4 DEF Register!Store
  <2> QED
    BY <2>5
<1> QED
  BY <1>7, <1>8

\* A refresh is given up, or its process is killed: a session it had got is lost.
LEMMA LeaveMapped ==
  ASSUME TypeInv, SessionsInv, ReplyNewer, NEW p \in Procs,
         pc[p] \in {"refreshing", "saving"}, pc'[p] \in {"done", "reuse"},
         broken' = broken \cup Dropped(p), \A q \in Procs \ {p} : SameProc(q),
         UNCHANGED <<file, live, grant, newSession, raced, signedOut>>
  PROVE  \E l \in Lineages : Register!Leave(l)
<1>0. PICK l \in Lineages : held[p].rt.lin = l
  BY SessionFields DEF TypeInv, TypeOK, ProcTypeOK, HoldsSession
<1>1. \A k : /\ (Refreshing(p, k) <=> k = l) /\ ~Refreshing(p, k)'
             /\ ~KeepsNewer(p, k)'
             /\ ~Removes(p, k) /\ ~Removes(p, k)'
  BY <1>0 DEF Refreshing, KeepsNewer, Removes
<1>2. /\ Loaded' \in {Loaded, Loaded \ {l}} /\ l \in Loaded
      /\ Pending' \in {Pending, Pending \ {l}}
      /\ ~KeepsNewer(p, l) => Pending' = Pending
  BY <1>1, OneReader
<1>3. Dropped(p) \in {{}, {l}}
  BY <1>0 DEF Dropped
<1>4. Disturbed' = Disturbed \cup Dropped(p)
  <2>1. \A q \in Procs, k \in Lineages : Removes(q, k)' <=> Removes(q, k)
    BY <1>1, SameProcView
  <2> QED
    BY <2>1 DEF Disturbed
<1>5. Rotates /\ KeepsNewer(p, l) => l \in Dropped(p)
  BY DroppedChain
<1>6. Stored' = Stored /\ Arriving' = Arriving
  BY DEF Stored, Arriving
<1>7. Register!Leave(l)
  BY <1>2, <1>3, <1>4, <1>5, <1>6 DEF Register!Leave
<1> QED
  BY <1>7

\* The answer reaches the invocation that waits for it: it held the newest before.
LEMMA RefreshedMapped ==
  ASSUME TypeInv, SessionsInv, NEW p \in Procs, Refreshed(p)
  PROVE  SameRegister
<1>t. /\ pc \in [Procs -> PCs]
      /\ held \in [Procs -> Session \cup {NoSession}]
      /\ reply \in [Procs -> Grant \cup {NoGrant}]
      /\ pc[p] = "refreshing" /\ reply[p] # NoGrant
  BY DEF TypeInv, TypeOK, ProcTypeOK, Refreshed
<1>1. /\ pc'[p] = "saving"
      /\ held'[p].rt.lin = held[p].rt.lin
      /\ \A q \in Procs \ {p} : SameProc(q)
      /\ UNCHANGED <<file, live, grant, newSession, broken, raced, signedOut>>
  BY <1>t, RefreshedSettled
     DEF Refreshed, Go, SameProc, baseVars, idpVars, serverVars, historyVars
<1>2. ASSUME NEW l \in Lineages
      PROVE  /\ Refreshing(p, l)' = Refreshing(p, l)
             /\ KeepsNewer(p, l)' = KeepsNewer(p, l)
             /\ Removes(p, l)' = Removes(p, l)
  BY <1>t, <1>1 DEF Refreshing, KeepsNewer, Removes
<1> QED
  BY <1>1, <1>2, SameProcView, SameRegisterKept

\* A sign-out that has sent the revocation is about to remove the sign-in.
LEMMA RevokeMapped ==
  ASSUME TypeInv, NEW p \in Procs, Revoke(p)
  PROVE  \E l \in Lineages : Register!Disturb(l)
<1>0. PICK l \in Lineages : held[p].rt.lin = l
  BY SessionFields DEF Revoke, TypeInv, TypeOK, ProcTypeOK, HoldsSession
<1>t. /\ held[p] # NoSession
      /\ live \in [Lineages -> Nat]
      /\ pc[p] = "revoking" /\ pc'[p] = "unlinking"
      /\ \A q \in Procs \ {p} : SameProc(q)
      /\ UNCHANGED <<held, file, grant, newSession, broken, raced, signedOut>>
  BY DEF Revoke, Go, SameProc, TypeInv, TypeOK, BaseTypeOK, ProcTypeOK, HoldsSession,
     serverVars, historyVars
<1>1. \A k : /\ ~Refreshing(p, k) /\ ~Refreshing(p, k)'
             /\ ~Removes(p, k) /\ (Removes(p, k)' <=> k = l)
  BY <1>0, <1>t DEF Refreshing, Removes
<1>2. Loaded' = Loaded /\ Pending' = Pending
  BY <1>t, <1>1, NoReader
<1>3. Disturbed' = Disturbed \cup {l}
  BY <1>t, <1>1, SameProcView DEF Disturbed
<1>4. live' = [live EXCEPT ![l] = live'[l]]
  BY <1>0, <1>t DEF Revoke
<1>5. Stored' = Stored /\ Arriving' = Arriving
  BY <1>t DEF Stored, Arriving
<1>6. Register!Disturb(l)
  BY <1>2, <1>3, <1>4, <1>5 DEF Register!Disturb
<1> QED
  BY <1>6

\* The file is removed, whatever it holds: no order is promised for that sign-in.
LEMMA UnlinkMapped ==
  ASSUME TypeInv, NEW p \in Procs, Unlink(p)
  PROVE  Register!Clear
<1>t. /\ file' = NoSession
      /\ pc[p] = "unlinking" /\ pc'[p] = "done"
      /\ \A q \in Procs \ {p} : SameProc(q)
      /\ raced \subseteq raced' /\ raced' \subseteq raced \cup Ended(p)
      /\ signedOut' = signedOut \cup Ended(p)
      /\ UNCHANGED <<live, grant, newSession, broken>>
  BY DEF Unlink, Exit, Go, SameProc, TypeInv, TypeOK, ProcTypeOK, idpVars, serverVars
<1>1. \A k : ~Refreshing(p, k) /\ ~Refreshing(p, k)' /\ ~Removes(p, k)'
  BY <1>t DEF Refreshing, Removes
<1>2. Loaded' = Loaded /\ Pending' = Pending
  BY <1>t, <1>1, NoReader
<1>3. /\ Ended(p) \subseteq Lineages
      /\ \A k \in Lineages : k \in Ended(p) <=> Removes(p, k) \/ InFile(k)
  BY <1>t, SessionFields DEF Ended, Removes, InFile, TypeInv, TypeOK, BaseTypeOK, ProcTypeOK
<1>4. {e.by : e \in Stored} = {k \in Lineages : InFile(k)}
  <2>1. CASE file = NoSession
    BY <2>1 DEF Stored, InFile
  <2>2. CASE file # NoSession
    <3>1. file.rt.lin \in Lineages
      BY <2>2, SessionFields DEF TypeInv, TypeOK, BaseTypeOK
    <3> QED
      BY <2>2, <3>1, StoredSession DEF InFile
  <2> QED
    BY <2>1, <2>2
<1>5. Disturbed' = Disturbed \cup {k \in Lineages : InFile(k)}
  <2>1. \A k \in Lineages : (\E q \in Procs : Removes(q, k)) <=>
                            Removes(p, k) \/ \E q \in Procs : Removes(q, k)'
    BY <1>t, <1>1, SameProcView
  <2> QED
    BY <1>t, <1>3, <2>1 DEF Disturbed
<1>6. Stored' = {} /\ Arriving' = Arriving
  BY <1>t DEF Stored, Arriving
<1> QED
  BY <1>t, <1>2, <1>4, <1>5, <1>6 DEF Register!Clear

\* A step of an invocation that neither refreshes nor removes a sign-in.
LEMMA QuietView ==
  ASSUME NEW p \in Procs, pc[p] \notin {"refreshing", "saving", "unlinking"},
         pc'[p] \notin {"refreshing", "saving"},
         pc'[p] = "unlinking" => held'[p] = NoSession,
         \A q \in Procs \ {p} : SameProc(q), UNCHANGED <<broken, raced, signedOut>>
  PROVE  UNCHANGED <<Loaded, Pending, Disturbed>>
<1>1. \A k : /\ ~Refreshing(p, k) /\ ~Refreshing(p, k)'
             /\ ~Removes(p, k) /\ ~Removes(p, k)'
  BY DEF Refreshing, Removes
<1>2. Loaded' = Loaded /\ Pending' = Pending
  BY <1>1, NoReader
<1>3. Disturbed' = Disturbed
  BY <1>1, SameProcView DEF Disturbed
<1> QED
  BY <1>2, <1>3

\* A sign-out that is killed before it removed the file leaves its sign-in disturbed.
LEMMA CrashMapped ==
  ASSUME TypeInv, NEW p \in Procs, Crash(p), pc[p] \notin {"refreshing", "saving"}
  PROVE  SameRegister
<1>t. /\ pc'[p] = "done"
      /\ \A q \in Procs \ {p} : SameProc(q)
      /\ broken' = broken \cup Dropped(p)
      /\ reply[p] = NoGrant
      /\ UNCHANGED <<file, live, grant, newSession, raced, signedOut>>
  BY DEF Crash, Exit, Go, SameProc, TypeInv, TypeOK, ProcTypeOK, AnswersAwaited, baseVars, idpVars,
     serverVars
<1>1. \A k : ~Refreshing(p, k) /\ ~Refreshing(p, k)' /\ ~Removes(p, k)'
  BY <1>t DEF Refreshing, Removes
<1>2. Loaded' = Loaded /\ Pending' = Pending
  BY <1>t, <1>1, NoReader
<1>3. \A k \in Lineages : k \in Dropped(p) <=> Removes(p, k)
  BY <1>t DEF Dropped, Removes
<1>4. Dropped(p) \subseteq Lineages
  BY <1>t, SessionFields DEF Dropped, TypeInv, TypeOK, ProcTypeOK
<1>5. Disturbed' = Disturbed
  <2>1. \A k \in Lineages : (\E q \in Procs : Removes(q, k)) <=>
                            Removes(p, k) \/ \E q \in Procs : Removes(q, k)'
    BY <1>t, <1>1, SameProcView
  <2> QED
    BY <1>t, <1>3, <1>4, <2>1 DEF Disturbed
<1> QED
  BY <1>t, <1>2, <1>5 DEF SameRegister, Stored, Arriving

\* The steps of a callback server are no steps of an invocation.
LEMMA ServerView ==
  ASSUME UNCHANGED <<pc, held, reply, broken, raced, signedOut>>
  PROVE  UNCHANGED <<Loaded, Pending, Disturbed>>
<1>1. \A q \in Procs : SameProc(q)
  BY DEF SameProc
<1>2. Loaded' = Loaded /\ Pending' = Pending
  BY <1>1, SameProcView DEF Loaded, Pending
<1>3. Disturbed' = Disturbed
  BY <1>1, SameProcView DEF Disturbed
<1> QED
  BY <1>2, <1>3

\* A server that is gone takes the session it did not save with it.
LEMMA GoneMapped ==
  ASSUME TypeOK, NEW s \in Servers, Gone(s), UNCHANGED <<file, live>>,
         UNCHANGED <<Loaded, Pending, Disturbed>>
  PROVE  SameRegister \/ Register!Lose(s)
<1>1. Arriving' = Arriving \ {s}
  BY DEF Gone, Arriving, TypeOK, ServerTypeOK
<1>2. Stored' = Stored
  BY DEF Stored
<1>3. CASE s \in Arriving
  BY <1>1, <1>2, <1>3 DEF Register!Lose
<1>4. CASE s \notin Arriving
  BY <1>1, <1>2, <1>4 DEF SameRegister
<1> QED
  BY <1>3, <1>4

\* A sign-in begins when the provider accepts its code.
LEMMA IdpExchangeMapped ==
  ASSUME TypeInv, SessionsInv, Unissued, NEW s \in Servers, ServerStep(s), IdpExchange(s)
  PROVE  Register!SignIn(s)
<1>t. /\ UNCHANGED <<file, newSession, pc, held, reply, broken, raced, signedOut>>
      /\ grant \in [Servers -> Grant \cup {NoGrant}]
      /\ live' = [live EXCEPT ![s] = 1]
  BY DEF ServerStep, IdpExchange, procVars, historyVars, TypeInv, TypeOK, ServerTypeOK
<1>1. live[s] = 0 /\ grant[s] = NoGrant /\ newSession[s] = NoSession
  BY DEF IdpExchange, Unissued, SessionsInv, NewSessionInv
<1>2. grant'[s] # NoGrant /\ \A u \in Servers \ {s} : grant'[u] = grant[u]
  <2>1. PICK life \in TokenLifetimes : grant' = [grant EXCEPT ![s] = FirstGrant(s, life)]
    BY DEF IdpExchange
  <2>2. FirstGrant(s, life) \in Grant
    BY FirstGrantType, ConstantsAssumption DEF TypeInv, TypeOK, BaseTypeOK, Lineages
  <2> QED
    BY <1>t, <2>1, <2>2, ConstantsAssumption
<1>3. s \notin Arriving /\ Arriving' = Arriving \cup {s}
  BY <1>t, <1>1, <1>2 DEF Arriving
<1>4. Stored' = Stored
  BY <1>t DEF Stored
<1>5. UNCHANGED <<Loaded, Pending, Disturbed>>
  BY <1>t, ServerView
<1> QED
  BY <1>t, <1>1, <1>3, <1>4, <1>5 DEF Register!SignIn

\* A server enters its sign-in into the register once.
LEMMA ServerSaveMapped ==
  ASSUME TypeInv, SessionsInv, FirstTokens, NEW s \in Servers, ServerStep(s), ServerSave(s)
  PROVE  Register!Enter(s)
<1>t. /\ file' = newSession[s] /\ newSession[s] # NoSession
      /\ newSession[s].rt.lin = s /\ newSession[s].rt.n = 1
      /\ Gone(s)
      /\ UNCHANGED <<live, pc, held, reply, broken, raced, signedOut>>
  BY DEF ServerStep, ServerSave, procVars, historyVars, idpVars, SessionsInv, NewSessionInv,
     FirstTokens
<1>1. s \in Arriving /\ Arriving' = Arriving \ {s}
  BY <1>t DEF Gone, Arriving, TypeInv, TypeOK, ServerTypeOK
<1>2. Stored' = {[by |-> s, n |-> 1]}
  BY <1>t, StoredNext
<1>3. UNCHANGED <<Loaded, Pending, Disturbed>>
  BY <1>t, ServerView
<1>4. live' = live
  BY <1>t
<1> QED
  BY <1>1, <1>2, <1>3, <1>4, Zenon DEF Register!Enter

\* The code has become a session that is about to be saved.
LEMMA ExchangedMapped ==
  ASSUME TypeInv, SessionsInv, NEW s \in Servers, ServerStep(s), Exchanged(s)
  PROVE  SameRegister
<1>a. /\ grant[s] # NoGrant
      /\ grant' = [grant EXCEPT ![s] = NoGrant]
      /\ \E y : newSession' = [newSession EXCEPT ![s] = y]
      /\ UNCHANGED <<file, live, pc, held, reply, broken, raced, signedOut>>
  BY Zenon DEF ServerStep, Exchanged, procVars, historyVars, baseVars, idpVars
<1>b. /\ grant \in [Servers -> Grant \cup {NoGrant}]
      /\ newSession \in [Servers -> Session \cup {NoSession}]
  BY DEF TypeInv, TypeOK, ServerTypeOK
<1>c. newSession'[s] # NoSession
  BY ExchangedWellMade, ConstantsAssumption
<1>t. /\ UNCHANGED <<file, live, pc, held, reply, broken, raced, signedOut>>
      /\ grant[s] # NoGrant
      /\ newSession'[s] # NoSession
      /\ \A u \in Servers \ {s} : grant'[u] = grant[u] /\ newSession'[u] = newSession[u]
  BY <1>a, <1>b, <1>c
<1>1. Arriving' = Arriving
  BY <1>t DEF Arriving
<1>2. UNCHANGED <<Loaded, Pending, Disturbed>>
  BY <1>t, ServerView
<1> QED
  BY <1>t, <1>1, <1>2 DEF SameRegister, Stored

LEMMA RegisterServerStep ==
  ASSUME TypeInv, SessionsInv, FirstTokens, Unissued, NEW s \in Servers, ServerStep(s)
  PROVE  SameRegister \/ Register!RegisterNext
<1>t. s \in Lineages /\ TypeOK
  BY DEF Lineages, TypeInv
<1>1. UNCHANGED <<pc, held, reply, broken, raced, signedOut>>
  BY DEF ServerStep, procVars, historyVars
<1>2. UNCHANGED <<Loaded, Pending, Disturbed>>
  BY <1>1, ServerView
<1>3. CASE UNCHANGED <<file, live, grant, newSession>>
  BY <1>2, <1>3 DEF SameRegister, Stored, Arriving
<1>4. CASE Gone(s) /\ UNCHANGED <<file, live>>
  BY <1>t, <1>2, <1>4, GoneMapped DEF Register!RegisterNext
<1>5. CASE IdpExchange(s)
  BY <1>t, <1>5, IdpExchangeMapped DEF Register!RegisterNext
<1>6. CASE ServerSave(s)
  BY <1>t, <1>6, ServerSaveMapped DEF Register!RegisterNext
<1>7. CASE Exchanged(s)
  BY <1>7, ExchangedMapped
<1> QED
  BY <1>3, <1>4, <1>5, <1>6, <1>7 DEF ServerStep, ServerNext, Accept, DoGet, PeerCloses, PeerResets,
     Wake, Expire, LoopStopped, ServerDies, baseVars, idpVars

LEMMA RegisterProcStep ==
  ASSUME TypeInv, SessionsInv, ReplyNewer, ChainInv, NEW p \in Procs, ProcNext(p)
  PROVE  SameRegister \/ Register!RegisterNext
<1>t. /\ pc \in [Procs -> PCs]
      /\ held \in [Procs -> Session \cup {NoSession}]
      /\ reply \in [Procs -> Grant \cup {NoGrant}]
      /\ TypeOK
  BY DEF TypeInv, TypeOK, ProcTypeOK
<1> DEFINE Goal == SameRegister \/ Register!RegisterNext
           Idle == pc[p] \notin {"refreshing", "saving", "unlinking"}
           History == UNCHANGED <<broken, raced, signedOut>>
           Quiet == History /\ UNCHANGED <<file, live, grant, newSession>>
<1>a. ASSUME NEW r, Exit(p, r), Idle, History
      PROVE  UNCHANGED <<Loaded, Pending, Disturbed>>
  BY <1>a, <1>t, QuietView DEF Exit, Go, SameProc
<1>b. ASSUME NEW r, Exit(p, r), Idle, Quiet PROVE Goal
  <2>1. UNCHANGED <<Loaded, Pending, Disturbed>>
    BY <1>a, <1>b
  <2> QED
    BY <1>b, <2>1 DEF SameRegister, Stored, Arriving
<1>c. ASSUME NEW w, Go(p, w), Idle, Quiet, w \notin {"refreshing", "saving"}, reply' = reply,
             w = "unlinking" => held'[p] = NoSession,
             \A q \in Procs \ {p} : held'[q] = held[q]
      PROVE  Goal
  <2>1. UNCHANGED <<Loaded, Pending, Disturbed>>
    BY <1>c, <1>t, QuietView DEF Go, SameProc
  <2> QED
    BY <1>c, <2>1 DEF SameRegister, Stored, Arriving
<1>1. ASSUME NEW c, TryCached(p, c) PROVE Goal
  <2>1. Quiet /\ pc[p] = "ready"
    BY <1>1 DEF TryCached, baseVars, idpVars, serverVars, historyVars
  <2>2. CASE \E r : Exit(p, r)
    BY <1>b, <2>1, <2>2
  <2>3. CASE Go(p, "register") /\ UNCHANGED <<held, reply>>
    BY <1>c, <2>1, <2>3
  <2>4. CASE /\ MayRefresh(file) /\ Go(p, "refreshing")
             /\ held' = [held EXCEPT ![p] = file] /\ UNCHANGED reply
    <3>1. Register!Load
      BY <1>t, <2>1, <2>4, LoadMapped DEF MayRefresh, Go, SameProc
    <3> QED
      BY <3>1 DEF Register!RegisterNext
  <2> QED
    BY <1>1, <2>2, <2>3, <2>4 DEF TryCached
<1>2. CASE IdpRefresh(p)
  BY <1>2, IdpRefreshMapped DEF Register!RegisterNext
<1>3. CASE Refreshed(p)
  BY <1>3, RefreshedMapped
<1>4. CASE SaveRefreshed(p)
  BY <1>4, SaveMapped DEF Register!RegisterNext
<1>5. CASE \/ RefreshFails(p)
           \/ Crash(p) /\ pc[p] \in {"refreshing", "saving"}
  <2>1. /\ broken' = broken \cup Dropped(p)
        /\ pc[p] \in {"refreshing", "saving"} /\ pc'[p] \in {"done", "reuse"}
        /\ \A q \in Procs \ {p} : SameProc(q)
        /\ UNCHANGED <<file, live, grant, newSession, raced, signedOut>>
    BY <1>5, <1>t DEF RefreshFails, Crash, Exit, Go, SameProc, baseVars, idpVars, serverVars
  <2>2. \E l \in Lineages : Register!Leave(l)
    BY <2>1, LeaveMapped
  <2> QED
    BY <2>2 DEF Register!RegisterNext
<1>6. CASE Crash(p) /\ pc[p] \notin {"refreshing", "saving"}
  BY <1>6, CrashMapped
<1>7. CASE StartWithClient(p) \/ RegisterAndStart(p) \/ StartFails(p)
  BY <1>7, <1>b DEF StartWithClient, RegisterAndStart, StartFails, Spawn, baseVars, idpVars,
     serverVars, historyVars
<1>8. CASE WaitForAuth(p)
  BY <1>8, <1>c DEF WaitForAuth, baseVars, idpVars, serverVars, historyVars
<1>9. CASE PollSession(p) \/ ProbeServer(p) \/ Recheck(p)
  BY <1>9, <1>b, <1>c DEF PollSession, ProbeServer, Recheck, baseVars, idpVars, serverVars,
     historyVars
<1>10. CASE WaitTimesOut(p)
  <2>1. CASE UNCHANGED serverVars
    BY <1>10, <2>1, <1>b DEF WaitTimesOut, baseVars, idpVars, serverVars, historyVars
  <2>2. CASE Alive(waitsFor[p]) /\ Gone(waitsFor[p])
    <3> DEFINE s == waitsFor[p]
    <3>1. UNCHANGED <<Loaded, Pending, Disturbed>>
      BY <1>10, <1>a DEF WaitTimesOut, historyVars
    <3>2. UNCHANGED <<file, live>>
      BY <1>10 DEF WaitTimesOut, baseVars, idpVars
    <3>3. CASE s \in Servers
      BY <1>t, <2>2, <3>1, <3>2, <3>3, GoneMapped DEF Register!RegisterNext, Lineages
    <3>4. CASE s \notin Servers
      BY <1>t, <2>2, <3>1, <3>2, <3>4 DEF Gone, SameRegister, Stored, Arriving, TypeOK, ServerTypeOK
    <3> QED
      BY <3>3, <3>4
  <2> QED
    BY <1>10, <2>1, <2>2 DEF WaitTimesOut
<1>11. CASE SignOut(p)
  BY <1>11, <1>c, <1>t DEF SignOut, baseVars, idpVars, serverVars, historyVars
<1>12. CASE Revoke(p)
  BY <1>12, RevokeMapped DEF Register!RegisterNext
<1>13. CASE Unlink(p)
  BY <1>13, UnlinkMapped DEF Register!RegisterNext
<1> QED
  BY <1>1, <1>2, <1>3, <1>4, <1>5, <1>6, <1>7, <1>8, <1>9, <1>10, <1>11, <1>12, <1>13
     DEF ProcNext, GetAccessToken, StartAuth

LEMMA RegisterStep ==
  ASSUME TypeInv, SessionsInv, ReplyNewer, FirstTokens, Unissued, ChainInv, [Next]_vars
  PROVE  [Register!RegisterNext]_(Register!registerVars)
<1>1. CASE Tick \/ UNCHANGED vars
  <2>1. UNCHANGED <<file, live, grant, newSession, pc, held, reply, broken, raced, signedOut>>
    BY <1>1 DEF Tick, vars, baseVars, idpVars, serverVars, procVars, historyVars
  <2>2. UNCHANGED <<Loaded, Pending, Disturbed>>
    BY <2>1, ServerView
  <2> QED
    BY <2>1, <2>2 DEF Stored, Arriving, Register!registerVars
<1>2. CASE \E p \in Procs : ProcNext(p)
  BY <1>2, RegisterProcStep DEF SameRegister, Register!registerVars
<1>3. CASE \E s \in Servers : ServerStep(s)
  BY <1>3, RegisterServerStep DEF SameRegister, Register!registerVars
<1> QED
  BY <1>1, <1>2, <1>3 DEF Next

LEMMA RegisterStart == Init => Register!RegisterInit /\ Unissued
<1> SUFFICES ASSUME Init PROVE Register!RegisterInit /\ Unissued
  OBVIOUS
<1>1. Arriving = {}
  BY DEF Init, ServerInit, Arriving
<1>2. Loaded = {} /\ Pending = {} /\ Disturbed = {}
  BY DEF Init, Loaded, Pending, Disturbed, Refreshing, KeepsNewer, Removes
<1>3. live \in [Lineages -> {0, 1}] /\ Prior \in Lineages /\ live[Prior] = 1
  BY DEF Init, BaseInit, Lineages
<1>4. Register!RegisterInit
  <2>1. CASE file = NoSession
    <3>1. Stored = {}
      BY <2>1 DEF Stored
    <3> QED
      BY <1>1, <1>2, <1>3, <3>1 DEF Register!RegisterInit
  <2>2. CASE file # NoSession
    <3>1. file.rt = [lin |-> Prior, n |-> 1]
      BY <2>2, PriorAssumption DEF Init, BaseInit
    <3>2. file.rt.lin = Prior /\ file.rt.n = 1
      BY <3>1
    <3>3. Stored = {[by |-> Prior, n |-> 1]}
      BY <2>2, <3>2, StoredSession
    <3> QED
      BY <1>1, <1>2, <1>3, <3>3 DEF Register!RegisterInit
  <2> QED
    BY <2>1, <2>2
<1>5. Unissued
  BY ConstantsAssumption DEF Init, BaseInit, Unissued, Lineages
<1> QED
  BY <1>4, <1>5

\* The invocations, which read, refresh and replace the session file without a lock,
\* and the callback servers together do with it what the register does: the sessions
\* of a sign-in enter it in the order they were issued, none twice and none after a
\* newer one, and a sign-in that was replaced or removed comes back only by a refresh
\* that had loaded it before.
THEOREM ImplementsRegister == Spec => RegisterImplemented
<1> DEFINE Inv == ReplyNewer /\ FirstTokens /\ Unissued /\ ChainInv
<1>1. Init => TypeInv /\ SessionsInv /\ Inv /\ Register!RegisterInit
  BY TypeInit, SessionsInit, ChainInit, RegisterStart
<1>2. TypeInv /\ SessionsInv /\ Inv /\ [Next]_vars => Inv'
  BY ReplyNewerStep, FirstTokensStep, UnissuedStep, ChainStep
<1>3. TypeInv /\ SessionsInv /\ Inv /\ [Next]_vars
        => [Register!RegisterNext]_(Register!registerVars)
  BY RegisterStep
<1> QED
  BY <1>1, <1>2, <1>3, SessionsCorrect, PTL DEF Spec, RegisterImplemented, Register!RegisterSpec

\* A save over a session of the same sign-in stores a newer one.
StoresNewer ==
  LET l == file.rt.lin IN
  file # NoSession /\ file' # NoSession /\ file' # file /\ file'.rt.lin = l /\ l \notin Disturbed
    => IF Rotates THEN file.rt.n < file'.rt.n ELSE file.rt.n <= file'.rt.n

\* save_session never puts an older session of a sign-in over a newer one, nor with
\* rotation the same twice, though nothing orders the saves of the invocations: only a
\* lost answer, a crash or a sign-out may leave a sign-in without this order.
THEOREM FileMovesForward == Spec => [][StoresNewer]_vars
<1>1. TypeInv /\ SessionsInv /\ ChainInv /\ [Next]_vars => StoresNewer
  <2> SUFFICES ASSUME TypeInv, SessionsInv, ChainInv, [Next]_vars, NEW l \in Lineages \ Disturbed,
                      InFile(l), file' # NoSession, file' # file, file'.rt.lin = l
               PROVE  IF Rotates THEN file.rt.n < file'.rt.n ELSE file.rt.n <= file'.rt.n
    BY SessionFields DEF StoresNewer, InFile, TypeInv, TypeOK, BaseTypeOK
  <2>1. Chained(l)
    BY UndisturbedChained DEF InUse
  <2>2. CASE \E p \in Procs : SaveRefreshed(p)
    <3>1. PICK p \in Procs : SaveRefreshed(p)
      BY <2>2
    <3>2. pc[p] = "saving" /\ file' = held[p] /\ reply[p] = NoGrant
      BY <3>1 DEF SaveRefreshed, TypeInv, AnswersAwaited
    <3>3. KeepsNewer(p, l) /\ Newest(p) = file'.rt.n
      BY <3>2 DEF KeepsNewer, Refreshing, Newest
    <3>4. file'.rt.n = live[l]
      BY <2>1, <3>3 DEF Chained, HeldChained, KeepsNewer
    <3> QED
      BY <2>1, <3>3, <3>4 DEF Chained, FileChained, OneNewest
  <2>3. ~\E s \in Servers : ServerSave(s)
    <3> SUFFICES ASSUME NEW s \in Servers, ServerSave(s) PROVE FALSE
      OBVIOUS
    <3>1. phase[s] = "saving" /\ l = s
      BY DEF ServerSave, SessionsInv, NewSessionInv
    <3> QED
      BY <3>1, InUseSettled DEF InUse
  <2> QED
    BY <2>2, <2>3, FileStep DEF TypeInv
<1> QED
  BY <1>1, ChainCorrect, SessionsCorrect, PTL DEF Spec
=============================================================================
