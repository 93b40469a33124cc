-------------------------- MODULE LaunchAuthProofs --------------------------
(***************************************************************************)
(* Theorems about LaunchAuth, for every value of its constants.            *)
(*                                                                         *)
(* Four inductive invariants carry them: TypeInv (types, and which process *)
(* holds an answer), SessionsInv (where the sessions in the file and in    *)
(* the memory of the processes come from), ServedInv (what a callback      *)
(* server has served) with WaitInv (whom an invocation waits for), and     *)
(* SignedOutInv (nobody is about to save a session that a sign-out ended).  *)
(***************************************************************************)
EXTENDS LaunchAuth, TLAPS

\* The session x was stored or loaded: its parts belong together, its expiry is
\* at most MaxDelay late, its sign-in is over, its client is registered.
WellMade(x) ==
  /\ Coherent(x)
  /\ x.texp <= x.at.dies + MaxDelay
  /\ \A s \in Servers : x.client = s => phase[s] # "unused"

Settled(x) == WellMade(x) /\ \A s \in Servers : x.rt.lin = s => phase[s] = "exited"

\* The answer g of sign-in l has been on its way for at most MaxDelay.
OnItsWay(g, l) ==
  /\ g.at.lin = l
  /\ g.rt.lin = l
  /\ clock <= (g.at.dies - g.life) + MaxDelay

FileInv == file # NoSession => Settled(file)

HeldInv == \A p \in Procs : held[p] # NoSession => Settled(held[p])

\* Only a refresh in progress has an answer of the provider.
AnswersAwaited == \A p \in Procs : reply[p] # NoGrant => pc[p] = "refreshing"

TypeInv == TypeOK /\ AnswersAwaited

ReplyInv ==
  \A p \in Procs : reply[p] # NoGrant => OnItsWay(reply[p], held[p].rt.lin)

CredInv ==
  \A s \in Servers :
    Alive(s) => /\ cred[s].cexp = clientExp[cred[s].client]
                /\ \A t \in Servers : cred[s].client = t => phase[t] # "unused"

GrantInv ==
  \A s \in Servers :
    grant[s] # NoGrant => /\ phase[s] = "exchanging"
                          /\ OnItsWay(grant[s], s)
                          /\ grantedTo[s] = cred[s].client

NewSessionInv ==
  \A s \in Servers :
    /\ phase[s] = "saving" <=> newSession[s] # NoSession
    /\ newSession[s] # NoSession => WellMade(newSession[s]) /\ newSession[s].rt.lin = s

SignedOutInv ==
  /\ \A s \in Servers : s \in signedOut => phase[s] = "exited"
  /\ \A l \in signedOut \ raced :
       /\ file # NoSession => file.rt.lin # l
       /\ \A p \in Procs : ~Refreshing(p, l)

ServedInv ==
  \A s \in Servers :
    /\ code[s] => "ownCode" \in served[s]
    /\ served[s] \cap {"denied", "strayCode"} # {} => error[s]
    /\ phase[s] \in {"exchanging", "saving"} => conn[s] \notin Requests /\ code[s] /\ ~error[s]

WaitInv ==
  \A p \in Procs :
    /\ pc[p] \in {"polling", "probing"} =>
         waitsFor[p] \in Servers /\ phase[waitsFor[p]] # "unused"
    /\ pc[p] = "recheck" \/ result[p] \in {"exited", "timeout"} =>
         waitsFor[p] \in Servers /\ phase[waitsFor[p]] = "exited"
    /\ pc[p] # "done" => result[p] = "none"

-----------------------------------------------------------------------------
(* Types.                                                                   *)

\* A token answer is well typed, and so is a session its tokens are put into.
LEMMA FirstGrantType ==
  ASSUME clock \in Nat, NEW l \in Lineages, NEW life \in Nat
  PROVE  FirstGrant(l, life) \in Grant
BY DEF FirstGrant, Grant, AccessToken, RefreshToken

LEMMA RefreshGrantType ==
  ASSUME clock \in Nat, NEW x \in Session, NEW life \in Nat
  PROVE  RefreshGrant(x, life) \in Grant
BY DEF RefreshGrant, Grant, AccessToken, RefreshToken, Session

LEMMA SessionTypes ==
  ASSUME clock \in Nat, NEW x \in Session, NEW g \in Grant
  PROVE  WithTokens(x, g) \in Session
BY DEF WithTokens, Session, Grant

LEMMA SessionFields ==
  ASSUME NEW x \in Session
  PROVE  /\ x.client \in Lineages
         /\ x.rt.lin \in Lineages
         /\ x.at.lin \in Lineages
         /\ x.rt.n \in Nat
         /\ x.cexp \in Int
         /\ x.texp \in Int
         /\ x.at.dies \in Int
BY DEF Session, AccessToken, RefreshToken

LEMMA GrantFields ==
  ASSUME NEW g \in Grant
  PROVE  /\ g.rt.lin \in Lineages
         /\ g.at.lin \in Lineages
         /\ g.rt.n \in Nat
         /\ g.life \in Nat
         /\ g.at.dies \in Int
         /\ g.at \in AccessToken
         /\ g.rt \in RefreshToken
BY DEF Grant, AccessToken, RefreshToken

\* A server that exits or starts keeps the types of the servers' state.
LEMMA GoneType ==
  ASSUME ServerTypeOK, NEW s, Gone(s)
  PROVE  ServerTypeOK'
<1>1. ASSUME NEW t \in Servers PROVE NoCredentials(t) \in Credentials
  BY DEF NoCredentials, Credentials, Lineages
<1> QED
  BY <1>1 DEF ServerTypeOK, Gone, Phases

LEMMA SpawnType ==
  ASSUME ServerTypeOK, clock \in Nat, NEW s, NEW c \in Credentials, Spawn(s, c)
  PROVE  ServerTypeOK'
<1>1. clock + CallbackTimeout \in Nat
  BY ConstantsAssumption
<1> QED
  BY <1>1 DEF ServerTypeOK, Spawn, Phases

\* An invocation that exits keeps the types of the invocations' state.
LEMMA ExitType ==
  ASSUME ProcTypeOK, HoldsSession, NEW p, NEW r \in Results, Exit(p, r),
         UNCHANGED waitsFor
  PROVE  ProcTypeOK' /\ HoldsSession'
BY DEF ProcTypeOK, HoldsSession, Exit, Go, PCs

\* A dropped answer belongs to a known sign-in.
LEMMA DroppedType ==
  ASSUME ProcTypeOK, HoldsSession, AnswersAwaited, NEW p \in Procs
  PROVE  Dropped(p) \subseteq Lineages
<1>1. held[p] # NoSession => held[p].rt.lin \in Lineages
  BY SessionFields DEF ProcTypeOK
<1> QED
  BY <1>1 DEF HoldsSession, AnswersAwaited, Dropped

\* The initial states are well typed.
LEMMA TypeInit == Init => TypeInv
<1> SUFFICES ASSUME Init PROVE TypeInv
  OBVIOUS
<1> USE DEF Init, TypeInv, TypeOK
<1>1. BaseTypeOK
  <2>1. file \in Session \cup {NoSession}
    BY PriorAssumption DEF BaseInit
  <2>2. clientExp \in [Lineages -> Int]
    BY <2>1, SessionFields DEF BaseInit
  <2> QED
    BY <2>1, <2>2 DEF BaseInit, BaseTypeOK
<1>2. ServerTypeOK
  BY DEF ServerInit, ServerTypeOK, Phases, NoCredentials, Credentials, Lineages
<1>3. ProcTypeOK /\ HistoryTypeOK /\ HoldsSession /\ AnswersAwaited
  BY DEF ProcTypeOK, HistoryTypeOK, HoldsSession, AnswersAwaited, PCs, Results
<1> QED
  BY <1>1, <1>2, <1>3

\* A step of a callback server keeps the types.
LEMMA TypeServerStep ==
  ASSUME TypeInv, NEW s \in Servers, ServerStep(s)
  PROVE  TypeInv'
<1> USE DEF TypeInv, TypeOK
<1>1. ProcTypeOK' /\ HistoryTypeOK' /\ HoldsSession' /\ AnswersAwaited'
  BY DEF ServerStep, procVars, historyVars, ProcTypeOK, HistoryTypeOK, HoldsSession,
         AnswersAwaited
<1>2. BaseTypeOK' /\ ServerTypeOK'
  <2> USE DEF baseVars, idpVars
  <2>1. CASE Accept(s)
    BY <2>1 DEF Accept, BaseTypeOK, ServerTypeOK
  <2>2. CASE DoGet(s)
    BY <2>2 DEF DoGet, BaseTypeOK, ServerTypeOK
  <2>3. CASE PeerCloses(s) \/ PeerResets(s)
    BY <2>3 DEF PeerCloses, PeerResets, BaseTypeOK, ServerTypeOK
  <2>4. CASE Wake(s) \/ Expire(s)
    BY <2>4 DEF Wake, Expire, BaseTypeOK, ServerTypeOK, Phases
  <2>5. CASE LoopStopped(s)
    <3>1. BaseTypeOK'
      BY <2>5 DEF LoopStopped, BaseTypeOK
    <3>2. CASE Gone(s)
      BY <3>1, <3>2, GoneType
    <3>3. CASE phase' = [phase EXCEPT ![s] = "exchanging"]
               /\ UNCHANGED <<conn, code, error, expiry, cred, grant, newSession, served>>
      BY <3>1, <3>3 DEF ServerTypeOK, Phases
    <3> QED
      BY <2>5, <3>2, <3>3 DEF LoopStopped
  <2>6. CASE IdpExchange(s)
    <3>1. \A life \in TokenLifetimes : FirstGrant(s, life) \in Grant
      BY ConstantsAssumption, FirstGrantType DEF BaseTypeOK, Lineages
    <3>2. cred[s].client \in Lineages
      BY DEF ServerTypeOK, Credentials
    <3>3. BaseTypeOK'
      BY <2>6, <3>2 DEF IdpExchange, BaseTypeOK, Lineages
    <3> QED
      BY <2>6, <3>1, <3>3 DEF IdpExchange, ServerTypeOK
  <2>7. CASE Exchanged(s)
    <3>1. grant[s] \in Grant
      BY <2>7 DEF Exchanged, ServerTypeOK
    <3>2. cred[s] \in Credentials /\ clock \in Nat
      BY DEF ServerTypeOK, BaseTypeOK
    <3>3. [client |-> cred[s].client, cexp |-> cred[s].cexp, at |-> grant[s].at,
           rt |-> grant[s].rt, texp |-> clock + grant[s].life] \in Session
      BY <3>1, <3>2, GrantFields DEF Credentials, Session
    <3> QED
      BY <2>7, <3>3 DEF Exchanged, BaseTypeOK, ServerTypeOK, Phases
  <2>8. CASE ServerSave(s)
    <3>1. ServerTypeOK'
      BY <2>8, GoneType DEF ServerSave
    <3> QED
      BY <2>8, <3>1 DEF ServerSave, BaseTypeOK, ServerTypeOK
  <2>9. CASE ServerDies(s)
    BY <2>9, GoneType DEF ServerDies, BaseTypeOK
  <2> QED
    BY <2>1, <2>2, <2>3, <2>4, <2>5, <2>6, <2>7, <2>8, <2>9 DEF ServerStep, ServerNext
<1> QED
  BY <1>1, <1>2

\* A step of an invocation keeps the types.
LEMMA TypeProcStep ==
  ASSUME TypeInv, NEW p \in Procs, ProcNext(p)
  PROVE  TypeInv'
<1> USE DEF TypeInv, TypeOK
<1> DEFINE SameBase == UNCHANGED baseVars
           SameServers == UNCHANGED serverVars
           Silent == UNCHANGED <<signedOut, raced, broken>>
<1>a. SameBase => BaseTypeOK'
  BY DEF baseVars, BaseTypeOK
<1>b. SameServers => ServerTypeOK'
  BY DEF serverVars, ServerTypeOK
<1>c. Silent => HistoryTypeOK'
  BY DEF HistoryTypeOK
<1>d. ASSUME NEW r \in Results, Exit(p, r), UNCHANGED waitsFor
      PROVE  ProcTypeOK' /\ HoldsSession' /\ AnswersAwaited'
  BY <1>d, ExitType DEF Exit, Go, AnswersAwaited, ProcTypeOK
<1>e. ASSUME broken' = broken \cup Dropped(p), UNCHANGED <<signedOut, raced>>
      PROVE  HistoryTypeOK'
  BY <1>e, DroppedType DEF HistoryTypeOK
<1>f. clock \in Nat /\ file \in Session \cup {NoSession}
  BY DEF BaseTypeOK
<1>g. held[p] # NoSession => held[p] \in Session
  BY DEF ProcTypeOK
<1>h. clock + CallbackTimeout \in Nat
  BY <1>f, ConstantsAssumption
<1> HIDE DEF SameBase, SameServers, Silent
<1>1. ASSUME NEW c \in {"token", "start"}, TryCached(p, c) PROVE TypeInv'
  <2>1. SameBase /\ SameServers /\ Silent
    BY <1>1 DEF TryCached, SameBase, SameServers, Silent, historyVars
  <2>2. ProcTypeOK' /\ HoldsSession' /\ AnswersAwaited'
    <3>1. CASE \E r \in {"cached", "expired"} : Exit(p, r)
      BY <1>1, <1>d, <3>1 DEF TryCached, Results
    <3>2. CASE /\ MayRefresh(file)
               /\ Go(p, "refreshing")
               /\ cmd' = [cmd EXCEPT ![p] = c]
               /\ held' = [held EXCEPT ![p] = file]
               /\ UNCHANGED <<reply, deadline, result>>
      BY <1>1, <1>f, <3>2 DEF TryCached, MayRefresh, Go, ProcTypeOK, HoldsSession,
         AnswersAwaited, PCs, Commands
    <3>3. CASE /\ Go(p, "register")
               /\ cmd' = [cmd EXCEPT ![p] = c]
               /\ UNCHANGED <<held, reply, deadline, result>>
      BY <1>1, <3>3 DEF TryCached, Go, ProcTypeOK, HoldsSession,
         AnswersAwaited, PCs, Commands
    <3> QED
      BY <1>1, <3>1, <3>2, <3>3 DEF TryCached
  <2> QED
    BY <1>a, <1>b, <1>c, <2>1, <2>2
<1>2. CASE IdpRefresh(p)
  <2>1. \A life \in TokenLifetimes \cup {0} : RefreshGrant(held[p], life) \in Grant
    BY <1>2, <1>f, <1>g, RefreshGrantType, ConstantsAssumption DEF IdpRefresh, HoldsSession
  <2>2. BaseTypeOK'
    BY <1>2, <2>1, GrantFields DEF IdpRefresh, BaseTypeOK
  <2>3. ProcTypeOK' /\ HoldsSession' /\ AnswersAwaited'
    BY <1>2, <2>1 DEF IdpRefresh, ProcTypeOK, HoldsSession, AnswersAwaited
  <2> QED
    BY <1>2, <1>b, <1>c, <2>2, <2>3 DEF IdpRefresh, SameServers, Silent, historyVars
<1>3. CASE Refreshed(p)
  <2>1. held[p] \in Session /\ reply[p] \in Grant
    BY <1>3, <1>g DEF Refreshed, ProcTypeOK, HoldsSession
  <2>2. WithTokens(held[p], reply[p]) \in Session
    BY <1>f, <2>1, SessionTypes
  <2>3. ProcTypeOK' /\ HoldsSession' /\ AnswersAwaited'
    BY <1>3, <2>2, ConstantsAssumption
       DEF Refreshed, Go, ProcTypeOK, HoldsSession, AnswersAwaited, PCs
  <2> QED
    BY <1>3, <1>a, <1>b, <1>c, <2>3 DEF Refreshed, SameBase, SameServers, Silent, historyVars
<1>4. CASE SaveRefreshed(p)
  <2>1. BaseTypeOK'
    BY <1>4, <1>g DEF SaveRefreshed, BaseTypeOK, HoldsSession, idpVars
  <2> QED
    BY <1>4, <1>b, <1>c, <1>d, <2>1
       DEF SaveRefreshed, SameServers, Silent, historyVars, Results
<1>5. CASE RefreshFails(p)
  <2>1. HistoryTypeOK'
    BY <1>5, <1>e DEF RefreshFails
  <2>2. CASE Exit(p, "expired")
    BY <1>5, <1>a, <1>b, <1>d, <2>1, <2>2 DEF RefreshFails, SameBase, SameServers, Results
  <2>3. CASE /\ Go(p, "reuse")
             /\ reply' = [reply EXCEPT ![p] = NoGrant]
             /\ UNCHANGED <<cmd, held, deadline, result>>
    <3>1. ProcTypeOK' /\ HoldsSession' /\ AnswersAwaited'
      BY <1>5, <2>3 DEF RefreshFails, Go, ProcTypeOK, HoldsSession, AnswersAwaited, PCs
    <3> QED
      BY <1>5, <1>a, <1>b, <2>1, <3>1 DEF RefreshFails, SameBase, SameServers
  <2> QED
    BY <1>5, <2>2, <2>3 DEF RefreshFails
<1>6. CASE StartWithClient(p)
  <2>1. [client |-> held[p].client, cexp |-> held[p].cexp] \in Credentials
    BY <1>6, <1>g, SessionFields DEF StartWithClient, HoldsSession, Credentials
  <2>2. ServerTypeOK'
    BY <1>6, <1>f, <2>1, SpawnType DEF StartWithClient
  <2> QED
    BY <1>6, <1>a, <1>c, <1>d, <2>2
       DEF StartWithClient, SameBase, Silent, historyVars, Results
<1>7. CASE RegisterAndStart(p)
  <2>1. PICK s \in Servers, life \in SecretLifetimes :
          /\ Spawn(s, [client |-> s, cexp |-> ClientExpiry(life)])
          /\ clientExp' = [clientExp EXCEPT ![s] = ClientExpiry(life)]
          /\ secretExp' = [secretExp EXCEPT ![s] = IF life = 0 THEN 0 ELSE clock + life]
    BY <1>7 DEF RegisterAndStart
  <2>2. ClientExpiry(life) \in Int /\ clock + life \in Int
    BY <1>f, ConstantsAssumption DEF ClientExpiry
  <2>3. [client |-> s, cexp |-> ClientExpiry(life)] \in Credentials
    BY <2>2 DEF Credentials, Lineages
  <2>4. ServerTypeOK'
    BY <1>f, <2>1, <2>3, SpawnType
  <2>5. BaseTypeOK'
    <3>1. clientExp' \in [Lineages -> Int]
      BY <2>1, <2>2 DEF BaseTypeOK
    <3>2. secretExp' \in [Lineages -> Int]
      <4>1. (IF life = 0 THEN 0 ELSE clock + life) \in Int
        BY <2>2
      <4>2. \A v \in Int : [secretExp EXCEPT ![s] = v] \in [Lineages -> Int]
        BY DEF BaseTypeOK
      <4> QED
        BY <2>1, <4>1, <4>2, Zenon
    <3> QED
      BY <1>7, <3>1, <3>2 DEF RegisterAndStart, BaseTypeOK
  <2> QED
    BY <1>7, <1>c, <1>d, <2>4, <2>5 DEF RegisterAndStart, Silent, historyVars, Results
<1>8. CASE StartFails(p)
  BY <1>8, <1>a, <1>b, <1>c, <1>d
     DEF StartFails, SameBase, SameServers, Silent, historyVars, Results
<1>9. CASE WaitForAuth(p)
  <2>1. ProcTypeOK' /\ HoldsSession' /\ AnswersAwaited'
    BY <1>9, <1>h
       DEF WaitForAuth, Go, ProcTypeOK, HoldsSession, AnswersAwaited, PCs, Commands
  <2> QED
    BY <1>9, <1>a, <1>b, <1>c, <2>1
       DEF WaitForAuth, SameBase, SameServers, Silent, historyVars
<1>10. CASE PollSession(p) \/ ProbeServer(p) \/ Recheck(p)
  <2>1. SameBase /\ SameServers /\ Silent /\ UNCHANGED waitsFor
    BY <1>10 DEF PollSession, ProbeServer, Recheck, SameBase, SameServers, Silent, historyVars
  <2>2. CASE \E r \in {"authenticated", "exited"} : Exit(p, r)
    BY <1>a, <1>b, <1>c, <1>d, <2>1, <2>2 DEF Results
  <2>3. CASE /\ \E w \in {"probing", "polling", "recheck"} : Go(p, w)
             /\ UNCHANGED <<cmd, held, reply, deadline, result>>
    <3>1. pc[p] \in {"polling", "probing", "recheck"}
      BY <1>10 DEF PollSession, ProbeServer, Recheck
    <3>2. ProcTypeOK' /\ HoldsSession' /\ AnswersAwaited'
      BY <2>1, <2>3, <3>1 DEF Go, ProcTypeOK, HoldsSession, AnswersAwaited, PCs
    <3> QED
      BY <1>a, <1>b, <1>c, <2>1, <3>2
  <2> QED
    BY <1>10, <2>2, <2>3 DEF PollSession, ProbeServer, Recheck
<1>11. CASE WaitTimesOut(p)
  <2>1. ServerTypeOK'
    BY <1>11, <1>b, GoneType DEF WaitTimesOut, SameServers
  <2> QED
    BY <1>11, <1>a, <1>c, <1>d, <2>1
       DEF WaitTimesOut, SameBase, Silent, historyVars, Results
<1>12. CASE SignOut(p)
  <2>1. ProcTypeOK' /\ HoldsSession' /\ AnswersAwaited'
    BY <1>12, <1>f DEF SignOut, Go, ProcTypeOK, HoldsSession, AnswersAwaited, PCs, Commands
  <2> QED
    BY <1>12, <1>a, <1>b, <1>c, <2>1
       DEF SignOut, SameBase, SameServers, Silent, historyVars
<1>13. CASE Revoke(p)
  <2>1. BaseTypeOK'
    BY <1>13 DEF Revoke, BaseTypeOK
  <2>2. ProcTypeOK' /\ HoldsSession' /\ AnswersAwaited'
    BY <1>13 DEF Revoke, Go, ProcTypeOK, HoldsSession, AnswersAwaited, PCs
  <2> QED
    BY <1>13, <1>b, <1>c, <2>1, <2>2 DEF Revoke, SameServers, Silent, historyVars
<1>14. CASE Unlink(p)
  <2>1. Ended(p) \subseteq Lineages
    BY <1>f, <1>g, SessionFields DEF Ended
  <2>2. HistoryTypeOK' /\ BaseTypeOK'
    BY <1>14, <2>1 DEF Unlink, HistoryTypeOK, BaseTypeOK, idpVars
  <2> QED
    BY <1>14, <1>b, <1>d, <2>2 DEF Unlink, SameServers, Results
<1>15. CASE Crash(p)
  <2>1. HistoryTypeOK'
    BY <1>15, <1>e DEF Crash
  <2> QED
    BY <1>15, <1>a, <1>b, <1>d, <2>1 DEF Crash, SameBase, SameServers, Results
<1> QED
  BY <1>1, <1>2, <1>3, <1>4, <1>5, <1>6, <1>7, <1>8, <1>9, <1>10, <1>11, <1>12, <1>13,
     <1>14, <1>15 DEF ProcNext, GetAccessToken, StartAuth

LEMMA TypeStep == TypeInv /\ [Next]_vars => TypeInv'
<1> SUFFICES ASSUME TypeInv, [Next]_vars PROVE TypeInv'
  OBVIOUS
<1> USE DEF TypeInv, TypeOK
<1>1. CASE Tick
  BY <1>1 DEF Tick, BaseTypeOK, ServerTypeOK, ProcTypeOK, HistoryTypeOK, HoldsSession,
     AnswersAwaited, idpVars, serverVars, procVars, historyVars
<1>2. CASE UNCHANGED vars
  BY <1>2 DEF BaseTypeOK, ServerTypeOK, ProcTypeOK, HistoryTypeOK, HoldsSession,
     AnswersAwaited, vars, baseVars, serverVars, procVars, historyVars
<1> QED
  BY <1>1, <1>2, TypeProcStep, TypeServerStep DEF Next

\* Every variable keeps its type in every reachable state, and no command goes on
\* with a session that load_session did not return.
THEOREM TypeCorrect == Spec => []TypeOK
<1>1. TypeInv => TypeOK
  BY DEF TypeInv
<1> QED
  BY <1>1, TypeInit, TypeStep, PTL DEF Spec

-----------------------------------------------------------------------------
(* What a step may do to the servers and to the provider's bookkeeping.     *)

\* A server never goes back: once started it was started, once gone it is gone.  The
\* lifetime of a client is set before its server starts, the client of a sign-in
\* while its server has no grant yet.  The clock does not run backwards.
OnlyForward ==
  /\ \A s \in Servers : phase[s] # "unused" => phase'[s] # "unused"
  /\ \A s \in Servers : phase[s] = "exited" => phase'[s] = "exited"
  /\ \A l \in Lineages : clientExp'[l] # clientExp[l] => l \in Servers /\ phase[l] = "unused"
  /\ \A l \in Lineages :
       grantedTo'[l] # grantedTo[l] =>
         l \in Servers /\ phase[l] = "exchanging" /\ grant[l] = NoGrant
  /\ clock <= clock'

LEMMA StepsForward == TypeOK /\ [Next]_vars => OnlyForward
<1> SUFFICES ASSUME TypeOK, [Next]_vars PROVE OnlyForward
  OBVIOUS
<1> USE DEF OnlyForward
<1>t. /\ clock \in Nat
      /\ phase \in [Servers -> Phases]
      /\ clientExp \in [Lineages -> Int]
      /\ grantedTo \in [Lineages -> Lineages]
  BY DEF TypeOK, BaseTypeOK, ServerTypeOK
<1>a. UNCHANGED <<clock, phase, clientExp, grantedTo>> => OnlyForward
  BY <1>t
<1>b. ASSUME NEW s, Gone(s), UNCHANGED <<clock, clientExp, grantedTo>>,
             s \in Servers => phase[s] # "unused"
      PROVE  OnlyForward
  BY <1>b, <1>t DEF Gone
<1>1. CASE Tick
  BY <1>1, <1>t DEF Tick, idpVars, serverVars
<1>2. CASE UNCHANGED vars
  BY <1>2, <1>a DEF vars, baseVars, serverVars
<1>3. ASSUME NEW p \in Procs, ProcNext(p) PROVE OnlyForward
  <2>1. CASE StartWithClient(p)
    BY <2>1, <1>t DEF StartWithClient, Spawn, baseVars
  <2>2. CASE RegisterAndStart(p)
    BY <2>2, <1>t DEF RegisterAndStart, Spawn
  <2>3. CASE WaitTimesOut(p)
    <3>1. CASE Alive(waitsFor[p])
      BY <2>3, <3>1, <1>b DEF WaitTimesOut, baseVars, Alive
    <3> QED
      BY <2>3, <3>1, <1>a DEF WaitTimesOut, baseVars, serverVars
  <2>4. CASE \/ GetAccessToken(p) \/ StartAuth(p) \/ Refreshed(p) \/ RefreshFails(p)
             \/ StartFails(p) \/ WaitForAuth(p) \/ PollSession(p) \/ ProbeServer(p)
             \/ Recheck(p) \/ SignOut(p) \/ Crash(p)
    BY <2>4, <1>a DEF GetAccessToken, StartAuth, TryCached, Refreshed, RefreshFails,
       StartFails, WaitForAuth, PollSession, ProbeServer, Recheck, SignOut, Crash,
       baseVars, serverVars
  <2>5. CASE IdpRefresh(p) \/ SaveRefreshed(p) \/ Revoke(p) \/ Unlink(p)
    BY <2>5, <1>a DEF IdpRefresh, SaveRefreshed, Revoke, Unlink, idpVars, serverVars
  <2> QED
    BY <1>3, <2>1, <2>2, <2>3, <2>4, <2>5 DEF ProcNext
<1>4. ASSUME NEW s \in Servers, ServerNext(s) PROVE OnlyForward
  <2>1. CASE Accept(s) \/ DoGet(s) \/ PeerCloses(s) \/ PeerResets(s)
    BY <2>1, <1>a DEF Accept, DoGet, PeerCloses, PeerResets, baseVars
  <2>2. CASE Wake(s) \/ Expire(s) \/ Exchanged(s)
    BY <2>2, <1>t DEF Wake, Expire, Exchanged, baseVars
  <2>3. CASE LoopStopped(s)
    BY <2>3, <1>b, <1>t DEF LoopStopped, baseVars
  <2>4. CASE IdpExchange(s)
    BY <2>4, <1>t DEF IdpExchange
  <2>5. CASE ServerSave(s) \/ ServerDies(s)
    BY <2>5, <1>b DEF ServerSave, ServerDies, Alive, idpVars, baseVars
  <2> QED
    BY <1>4, <2>1, <2>2, <2>3, <2>4, <2>5 DEF ServerNext
<1> QED
  BY <1>1, <1>2, <1>3, <1>4 DEF Next, ServerStep

-----------------------------------------------------------------------------
(* The callback server: what was served before a code is exchanged.         *)

LEMMA ServedStep == TypeOK /\ ServedInv /\ [Next]_vars => ServedInv'
<1> SUFFICES ASSUME TypeOK, ServedInv, [Next]_vars PROVE ServedInv'
  OBVIOUS
<1> USE DEF ServedInv
<1>t. /\ phase \in [Servers -> Phases]
      /\ conn \in [Servers -> Requests \cup {"none", "stopped"}]
      /\ code \in [Servers -> BOOLEAN]
      /\ error \in [Servers -> BOOLEAN]
      /\ served \in [Servers -> SUBSET Requests]
  BY DEF TypeOK, ServerTypeOK
<1>a. UNCHANGED serverVars => ServedInv'
  BY DEF serverVars
<1>b. ASSUME NEW s, Gone(s) PROVE ServedInv'
  BY <1>b, <1>t DEF Gone, Requests
<1>c. ASSUME NEW s, NEW c, Spawn(s, c) PROVE ServedInv'
  BY <1>c, <1>t DEF Spawn
<1>1. CASE Tick \/ UNCHANGED vars
  BY <1>1, <1>a DEF Tick, vars
<1>2. ASSUME NEW p \in Procs, ProcNext(p) PROVE ServedInv'
  <2>1. CASE StartWithClient(p) \/ RegisterAndStart(p)
    BY <2>1, <1>c DEF StartWithClient, RegisterAndStart
  <2>2. CASE WaitTimesOut(p)
    BY <2>2, <1>a, <1>b DEF WaitTimesOut
  <2>3. CASE UNCHANGED serverVars
    BY <2>3, <1>a
  <2> QED
    BY <1>2, <2>1, <2>2, <2>3 DEF ProcNext, GetAccessToken, StartAuth, TryCached, IdpRefresh,
       Refreshed, SaveRefreshed, RefreshFails, StartFails, WaitForAuth, PollSession,
       ProbeServer, Recheck, SignOut, Revoke, Unlink, Crash
<1>3. ASSUME NEW s \in Servers, ServerNext(s) PROVE ServedInv'
  <2>1. CASE Accept(s)
    BY <2>1, <1>t DEF Accept
  <2>2. CASE DoGet(s)
    <3>1. phase[s] \notin {"exchanging", "saving"}
      BY <2>2 DEF DoGet
    <3> QED
      BY <2>2, <3>1, <1>t DEF DoGet
  <2>3. CASE PeerCloses(s) \/ PeerResets(s)
    BY <2>3, <1>t DEF PeerCloses, PeerResets, Requests
  <2>4. CASE Wake(s) \/ Expire(s)
    BY <2>4, <1>t DEF Wake, Expire
  <2>5. CASE LoopStopped(s)
    BY <2>5, <1>b, <1>t DEF LoopStopped
  <2>6. CASE IdpExchange(s) \/ Exchanged(s)
    BY <2>6, <1>t DEF IdpExchange, Exchanged
  <2>7. CASE ServerSave(s) \/ ServerDies(s)
    BY <2>7, <1>b DEF ServerSave, ServerDies
  <2> QED
    BY <1>3, <2>1, <2>2, <2>3, <2>4, <2>5, <2>6, <2>7 DEF ServerNext
<1> QED
  BY <1>1, <1>2, <1>3 DEF Next, ServerStep

\* Whatever requests reach the callback server, and in whatever order, it exchanges
\* a code only after the genuine redirect and never after an error or a foreign
\* state: the verdict is read after shutdown() has returned.
THEOREM ExchangeSafe == Spec => []ExchangeOnlyAfterOwnCode
<1>1. Init => ServedInv
  BY DEF Init, ServerInit, ServedInv, Requests
<1>2. TypeOK /\ ServedInv => ExchangeOnlyAfterOwnCode
  BY DEF TypeOK, ServerTypeOK, ServedInv, ExchangeOnlyAfterOwnCode
<1> QED
  BY <1>1, <1>2, ServedStep, TypeCorrect, PTL DEF Spec

-----------------------------------------------------------------------------
(* auth-wait and the server it waits for.                                   *)

LEMMA WaitStepInv == TypeOK /\ WaitInv /\ [Next]_vars => WaitInv'
<1> SUFFICES ASSUME TypeOK, WaitInv, [Next]_vars PROVE WaitInv'
  OBVIOUS
<1> USE DEF WaitInv
<1>t. /\ phase \in [Servers -> Phases]
      /\ pc \in [Procs -> PCs]
      /\ waitsFor \in [Procs -> Servers \cup {NoServer}]
      /\ result \in [Procs -> Results]
  BY DEF TypeOK, ServerTypeOK, ProcTypeOK
<1>f. /\ \A s \in Servers : phase[s] # "unused" => phase'[s] # "unused"
      /\ \A s \in Servers : phase[s] = "exited" => phase'[s] = "exited"
  BY StepsForward DEF OnlyForward
<1>a. UNCHANGED <<pc, waitsFor, result>> => WaitInv'
  BY <1>f, <1>t
<1>b. ASSUME NEW p \in Procs, NEW r \in Results \ {"exited", "timeout"}, Exit(p, r),
             UNCHANGED waitsFor
      PROVE  WaitInv'
  BY <1>b, <1>f, <1>t DEF Exit, Go
<1>c. ASSUME NEW p \in Procs, NEW w \in PCs \ {"polling", "probing", "recheck"}, Go(p, w),
             pc[p] # "done", UNCHANGED <<waitsFor, result>>
      PROVE  WaitInv'
  BY <1>c, <1>f, <1>t DEF Go
<1>1. CASE Tick \/ UNCHANGED vars
  BY <1>1, <1>a DEF Tick, vars, procVars
<1>2. ASSUME NEW s \in Servers, ServerStep(s) PROVE WaitInv'
  BY <1>2, <1>a DEF ServerStep, procVars
<1>3. ASSUME NEW p \in Procs, ProcNext(p) PROVE WaitInv'
  <2>1. CASE GetAccessToken(p) \/ StartAuth(p)
    BY <2>1, <1>b, <1>c DEF GetAccessToken, StartAuth, TryCached, PCs, Results
  <2>2. CASE IdpRefresh(p)
    BY <2>2, <1>a DEF IdpRefresh
  <2>3. CASE Refreshed(p) \/ SaveRefreshed(p) \/ RefreshFails(p)
    BY <2>3, <1>b, <1>c DEF Refreshed, SaveRefreshed, RefreshFails, PCs, Results
  <2>4. CASE StartWithClient(p) \/ RegisterAndStart(p) \/ StartFails(p)
    BY <2>4, <1>b DEF StartWithClient, RegisterAndStart, StartFails, Results
  <2>5. CASE WaitForAuth(p)
    BY <2>5, <1>f, <1>t DEF WaitForAuth, Go, serverVars
  <2>6. CASE PollSession(p)
    <3>1. CASE Exit(p, "authenticated")
      BY <2>6, <3>1, <1>b DEF PollSession, Results
    <3> QED
      BY <2>6, <3>1, <1>f, <1>t DEF PollSession, Go
  <2>7. CASE ProbeServer(p)
    BY <2>7, <1>f, <1>t DEF ProbeServer, Go, Alive
  <2>8. CASE Recheck(p)
    <3>1. CASE Exit(p, "authenticated")
      BY <2>8, <3>1, <1>b DEF Recheck, Results
    <3> QED
      BY <2>8, <3>1, <1>f, <1>t DEF Recheck, Exit, Go
  <2>9. CASE WaitTimesOut(p)
    <3>1. phase'[waitsFor[p]] = "exited"
      <4>1. waitsFor[p] \in Servers /\ phase[waitsFor[p]] # "unused"
        BY <2>9 DEF WaitTimesOut
      <4>2. CASE Alive(waitsFor[p])
        BY <2>9, <4>1, <4>2, <1>t DEF WaitTimesOut, Gone
      <4>3. CASE ~Alive(waitsFor[p])
        BY <2>9, <4>1, <4>3, <1>f DEF WaitTimesOut, Alive
      <4> QED
        BY <4>2, <4>3
    <3> QED
      BY <2>9, <3>1, <1>f, <1>t DEF WaitTimesOut, Exit, Go
  <2>10. CASE SignOut(p) \/ Revoke(p)
    BY <2>10, <1>c DEF SignOut, Revoke, PCs
  <2>11. CASE Unlink(p) \/ Crash(p)
    BY <2>11, <1>b DEF Unlink, Crash, Results
  <2> QED
    BY <1>3, <2>1, <2>2, <2>3, <2>4, <2>5, <2>6, <2>7, <2>8, <2>9, <2>10, <2>11 DEF ProcNext
<1> QED
  BY <1>1, <1>2, <1>3 DEF Next

\* However the wait, the server, the other invocations and the clock interleave, an
\* auth-wait that reports failure leaves no callback server of its own behind.
THEOREM FailedWaitSafe == Spec => []FailedWaitLeavesNoServer
<1>1. Init => WaitInv
  BY DEF Init, WaitInv
<1>2. WaitInv => FailedWaitLeavesNoServer
  BY DEF WaitInv, FailedWaitLeavesNoServer
<1> QED
  BY <1>1, <1>2, WaitStepInv, TypeCorrect, PTL DEF Spec

\* Only a second look at the file lets auth-wait report that its server is gone.
LEMMA ExitedStep ==
  ASSUME TypeOK, [Next]_vars, NEW p \in Procs, Reports(p, "exited")
  PROVE  ~TokenValid(file)
<1>t. result \in [Procs -> Results]
  BY DEF TypeOK, ProcTypeOK
<1>a. ASSUME NEW q \in Procs, NEW r, r # "exited" PROVE ~Exit(q, r)
  BY <1>a, <1>t DEF Exit, Reports
<1>b. ~UNCHANGED result
  BY DEF Reports
<1>1. CASE Tick \/ UNCHANGED vars
  BY <1>1, <1>b DEF Tick, vars, procVars
<1>2. ASSUME NEW s \in Servers, ServerStep(s) PROVE FALSE
  BY <1>2, <1>b DEF ServerStep, procVars
<1>3. ASSUME NEW q \in Procs, ProcNext(q) PROVE ~TokenValid(file)
  BY <1>3, <1>a, <1>b DEF ProcNext, GetAccessToken, StartAuth, TryCached, IdpRefresh,
     Refreshed, SaveRefreshed, RefreshFails, StartWithClient, RegisterAndStart, StartFails,
     WaitForAuth, PollSession, ProbeServer, Recheck, WaitTimesOut, SignOut, Revoke,
     Unlink, Crash
<1> QED
  BY <1>1, <1>2, <1>3 DEF Next

\* A sign-in that is completed between a poll of the file and the probe of the server
\* is not mistaken for a server that exited without completing it.
THEOREM WaitNeverMissesSignIn == Spec => WaitSeesSignIn
<1>1. ASSUME TypeOK, [Next]_vars
      PROVE  [\A p \in Procs :
                Reports(p, "exited") =>
                  ~(TokenValid(file) /\ file.rt.lin = waitsFor[p])]_vars
  BY <1>1, ExitedStep
<1> QED
  BY <1>1, TypeCorrect, PTL DEF Spec, WaitSeesSignIn

-----------------------------------------------------------------------------
(* Sessions: where what is in the file and in memory comes from.            *)

\* A step of any process leaves a session that is already made as good as it was.
LEMMA WellMadeKept ==
  ASSUME TypeOK, [Next]_vars, NEW x \in Session, WellMade(x),
         ASSUME x.rt.lin \in Servers, phase[x.rt.lin] = "exchanging"
         PROVE  grant[x.rt.lin] # NoGrant
  PROVE  WellMade(x)'
<1>1. x.client \in Lineages /\ x.rt.lin \in Lineages
  BY SessionFields
<1>2. clientExp'[x.client] = clientExp[x.client]
  BY <1>1, StepsForward DEF OnlyForward, WellMade
<1>3. grantedTo'[x.rt.lin] = grantedTo[x.rt.lin]
  BY <1>1, StepsForward DEF OnlyForward
<1> QED
  BY <1>2, <1>3, StepsForward DEF OnlyForward, WellMade, Coherent

LEMMA SettledKept ==
  ASSUME TypeOK, [Next]_vars, NEW x \in Session, Settled(x)
  PROVE  Settled(x)'
<1>1. WellMade(x)'
  BY WellMadeKept DEF Settled
<1> QED
  BY <1>1, StepsForward DEF OnlyForward, Settled

SessionsInv == FileInv /\ HeldInv /\ ReplyInv /\ CredInv /\ GrantInv /\ NewSessionInv

\* What the file holds after a step was in it before, or was saved from memory.
LEMMA FileStep ==
  ASSUME TypeOK, [Next]_vars
  PROVE  \/ file' \in {file, NoSession}
         \/ \E p \in Procs : SaveRefreshed(p)
         \/ \E s \in Servers : ServerSave(s)
<1>1. CASE Tick \/ UNCHANGED vars
  BY <1>1 DEF Tick, vars, baseVars
<1>2. ASSUME NEW s \in Servers, ServerNext(s) PROVE ServerSave(s) \/ file' = file
  BY <1>2 DEF ServerNext, Accept, DoGet, PeerCloses, PeerResets, Wake, Expire, LoopStopped,
     IdpExchange, Exchanged, ServerDies, baseVars
<1>3. ASSUME NEW p \in Procs, ProcNext(p)
      PROVE  SaveRefreshed(p) \/ file' \in {file, NoSession}
  BY <1>3 DEF ProcNext, GetAccessToken, StartAuth, TryCached, IdpRefresh, Refreshed,
     RefreshFails, StartWithClient, RegisterAndStart, StartFails, WaitForAuth, PollSession,
     ProbeServer, Recheck, WaitTimesOut, SignOut, Revoke, Unlink, Crash, baseVars
<1> QED
  BY <1>1, <1>2, <1>3 DEF Next, ServerStep

LEMMA FileInvStep == TypeInv /\ SessionsInv /\ [Next]_vars => FileInv'
<1> SUFFICES ASSUME TypeInv, SessionsInv, [Next]_vars, file' # NoSession
             PROVE  Settled(file)'
  BY DEF FileInv
<1>t. TypeOK /\ TypeOK'
  BY TypeStep DEF TypeInv
<1>1. file' \in Session
  BY <1>t DEF TypeOK, BaseTypeOK
<1>2. \A x \in Session : Settled(x) => Settled(x)'
  BY <1>t, SettledKept
<1>3. CASE file' = file
  BY <1>1, <1>2, <1>3 DEF SessionsInv, FileInv
<1>4. ASSUME NEW p \in Procs, SaveRefreshed(p) PROVE Settled(file)'
  BY <1>1, <1>2, <1>4 DEF SaveRefreshed, SessionsInv, HeldInv
<1>5. ASSUME NEW s \in Servers, ServerSave(s) PROVE Settled(file)'
  <2>1. /\ file' = newSession[s]
        /\ WellMade(newSession[s])
        /\ newSession[s].rt.lin = s
        /\ phase[s] = "saving"
    BY <1>5 DEF ServerSave, SessionsInv, NewSessionInv
  <2>2. WellMade(file)'
    BY <1>1, <1>t, <2>1, WellMadeKept
  <2>3. phase'[s] = "exited"
    BY <1>5, <1>t DEF ServerSave, Gone, TypeOK, ServerTypeOK
  <2> QED
    BY <2>1, <2>2, <2>3 DEF Settled
<1> QED
  BY <1>t, <1>3, <1>4, <1>5, FileStep

\* What an invocation holds after a step it held before, or has just loaded, or has
\* just put new tokens into; a process that exits holds nothing.
LEMMA HeldStep ==
  ASSUME TypeOK, [Next]_vars, NEW q \in Procs
  PROVE  \/ held'[q] \in {held[q], NoSession, file}
         \/ Refreshed(q)
<1>t. held \in [Procs -> Session \cup {NoSession}]
  BY DEF TypeOK, ProcTypeOK
<1>a. ASSUME NEW p \in Procs, NEW r, Exit(p, r) PROVE held'[q] \in {held[q], NoSession}
  BY <1>a, <1>t DEF Exit
<1>1. CASE Tick \/ UNCHANGED vars
  BY <1>1 DEF Tick, vars, procVars
<1>2. ASSUME NEW s \in Servers, ServerStep(s) PROVE held' = held
  BY <1>2 DEF ServerStep, procVars
<1>3. ASSUME NEW p \in Procs, ProcNext(p)
      PROVE  held'[q] \in {held[q], NoSession, file} \/ Refreshed(q)
  <2>1. CASE GetAccessToken(p) \/ StartAuth(p)
    BY <2>1, <1>a, <1>t DEF GetAccessToken, StartAuth, TryCached
  <2>2. CASE SignOut(p)
    BY <2>2, <1>t DEF SignOut
  <2>3. CASE Refreshed(p)
    BY <2>3, <1>t DEF Refreshed
  <2>4. CASE UNCHANGED held
    BY <2>4
  <2>5. CASE \E r : Exit(p, r)
    BY <2>5, <1>a
  <2> QED
    BY <1>3, <2>1, <2>2, <2>3, <2>4, <2>5 DEF ProcNext, IdpRefresh, SaveRefreshed, RefreshFails,
       StartWithClient, RegisterAndStart, StartFails, WaitForAuth, PollSession,
       ProbeServer, Recheck, WaitTimesOut, Revoke, Unlink, Crash
<1> QED
  BY <1>1, <1>2, <1>3 DEF Next

\* The tokens of an answer that came in time make a session as good as the old one.
LEMMA RefreshedSettled ==
  ASSUME TypeInv, SessionsInv, NEW p \in Procs, Refreshed(p)
  PROVE  /\ held[p] \in Session
         /\ Settled(held[p])
         /\ held'[p] \in Session
         /\ Settled(held'[p])
         /\ held'[p].rt.lin = held[p].rt.lin
<1>t. /\ held[p] \in Session
      /\ reply[p] \in Grant
      /\ clock \in Nat
      /\ MaxDelay \in Nat
  BY ConstantsAssumption
     DEF Refreshed, TypeInv, TypeOK, BaseTypeOK, ProcTypeOK, HoldsSession
<1> DEFINE y == WithTokens(held[p], reply[p])
<1>1. held'[p] = y
  BY <1>t DEF Refreshed, TypeInv, TypeOK, ProcTypeOK
<1>2. y \in Session
  BY <1>t, SessionTypes
<1>3. /\ y.client = held[p].client
      /\ y.cexp = held[p].cexp
      /\ y.at = reply[p].at
      /\ y.rt = reply[p].rt
      /\ y.texp = clock + reply[p].life
  BY DEF WithTokens
<1> HIDE DEF y
<1>4. Settled(held[p])
  BY <1>t, ConstantsAssumption DEF SessionsInv, HeldInv
<1>5. OnItsWay(reply[p], held[p].rt.lin)
  BY DEF Refreshed, SessionsInv, ReplyInv
<1>6. y.at.lin = held[p].rt.lin /\ y.rt.lin = held[p].rt.lin
  BY <1>3, <1>5 DEF OnItsWay
<1>7. y.texp <= y.at.dies + MaxDelay
  BY <1>t, <1>3, <1>5, GrantFields DEF OnItsWay
<1>8. Settled(y)
  BY <1>3, <1>4, <1>6, <1>7 DEF Settled, WellMade, Coherent
<1> QED
  BY <1>t, <1>1, <1>2, <1>4, <1>6, <1>8

LEMMA HeldInvStep == TypeInv /\ SessionsInv /\ [Next]_vars => HeldInv'
<1> SUFFICES ASSUME TypeInv, SessionsInv, [Next]_vars,
                    NEW q \in Procs, held'[q] # NoSession
             PROVE  Settled(held[q])'
  BY DEF HeldInv
<1>t. TypeOK /\ TypeOK'
  BY TypeStep DEF TypeInv
<1>1. held'[q] \in Session
  BY <1>t DEF TypeOK, ProcTypeOK
<1>2. \A x \in Session : Settled(x) => Settled(x)'
  BY <1>t, SettledKept
<1>3. CASE held'[q] = held[q]
  BY <1>1, <1>2, <1>3 DEF SessionsInv, HeldInv
<1>4. CASE held'[q] = file
  BY <1>1, <1>2, <1>4 DEF SessionsInv, FileInv
<1>5. CASE Refreshed(q)
  BY <1>1, <1>2, <1>5, RefreshedSettled
<1> QED
  BY <1>t, <1>3, <1>4, <1>5, HeldStep

\* Time passes in no step but Tick.
LEMMA ClockStep == [Next]_vars => Tick \/ clock' = clock
<1>1. ASSUME NEW s \in Servers, ServerNext(s) PROVE clock' = clock
  BY <1>1 DEF ServerNext, Accept, DoGet, PeerCloses, PeerResets, Wake, Expire, LoopStopped,
     IdpExchange, Exchanged, ServerSave, ServerDies, baseVars
<1>2. ASSUME NEW p \in Procs, ProcNext(p) PROVE clock' = clock
  BY <1>2 DEF ProcNext, GetAccessToken, StartAuth, TryCached, IdpRefresh, Refreshed,
     SaveRefreshed, RefreshFails, StartWithClient, RegisterAndStart, StartFails,
     WaitForAuth, PollSession, ProbeServer, Recheck, WaitTimesOut, SignOut, Revoke,
     Unlink, Crash, baseVars
<1> QED
  BY <1>1, <1>2 DEF Next, ServerStep, vars, baseVars

\* An answer appears when the provider gives it and waits for the session it renews.
LEMMA ReplyStep ==
  ASSUME TypeInv, [Next]_vars, NEW q \in Procs, reply'[q] # NoGrant
  PROVE  IdpRefresh(q) \/ (reply'[q] = reply[q] /\ held'[q] = held[q])
<1>t. /\ held \in [Procs -> Session \cup {NoSession}]
      /\ reply \in [Procs -> Grant \cup {NoGrant}]
      /\ reply[q] # NoGrant => pc[q] = "refreshing"
  BY DEF TypeInv, TypeOK, ProcTypeOK, AnswersAwaited
<1> DEFINE Same == reply'[q] = reply[q] /\ held'[q] = held[q]
<1>a. ASSUME NEW p \in Procs, NEW r, Exit(p, r) PROVE Same
  BY <1>a, <1>t DEF Exit
<1>1. CASE Tick \/ UNCHANGED vars
  BY <1>1 DEF Tick, vars, procVars
<1>2. ASSUME NEW s \in Servers, ServerStep(s) PROVE Same
  BY <1>2 DEF ServerStep, procVars
<1>3. ASSUME NEW p \in Procs, ProcNext(p) PROVE IdpRefresh(q) \/ Same
  <2>1. CASE GetAccessToken(p) \/ StartAuth(p)
    BY <2>1, <1>a, <1>t DEF GetAccessToken, StartAuth, TryCached
  <2>2. CASE SignOut(p)
    BY <2>2, <1>t DEF SignOut
  <2>3. CASE Refreshed(p) \/ IdpRefresh(p)
    BY <2>3, <1>t DEF Refreshed, IdpRefresh
  <2>4. CASE RefreshFails(p)
    BY <2>4, <1>a, <1>t DEF RefreshFails
  <2>5. CASE UNCHANGED <<held, reply>>
    BY <2>5
  <2>6. CASE \E r : Exit(p, r)
    BY <2>6, <1>a
  <2> QED
    BY <1>3, <2>1, <2>2, <2>3, <2>4, <2>5, <2>6 DEF ProcNext, SaveRefreshed,
       StartWithClient, RegisterAndStart, StartFails, WaitForAuth, PollSession,
       ProbeServer, Recheck, WaitTimesOut, Revoke, Unlink, Crash
<1> QED
  BY <1>1, <1>2, <1>3 DEF Next

LEMMA ReplyInvStep == TypeInv /\ SessionsInv /\ [Next]_vars => ReplyInv'
<1> SUFFICES ASSUME TypeInv, SessionsInv, [Next]_vars,
                    NEW q \in Procs, reply'[q] # NoGrant
             PROVE  OnItsWay(reply[q], held[q].rt.lin)'
  BY DEF ReplyInv
<1>t. /\ TypeOK
      /\ clock \in Nat
      /\ MaxDelay \in Nat
      /\ TokenLifetimes \subseteq Nat
      /\ reply \in [Procs -> Grant \cup {NoGrant}]
      /\ held \in [Procs -> Session \cup {NoSession}]
  BY ConstantsAssumption DEF TypeInv, TypeOK, BaseTypeOK, ProcTypeOK
<1>1. CASE IdpRefresh(q)
  <2>1. PICK life \in TokenLifetimes :
          reply' = [reply EXCEPT ![q] = RefreshGrant(held[q], life)]
    BY <1>1 DEF IdpRefresh
  <2>2. reply'[q] = RefreshGrant(held[q], life) /\ held' = held /\ clock' = clock
    BY <1>1, <1>t, <2>1 DEF IdpRefresh
  <2> QED
    BY <1>t, <2>2 DEF OnItsWay, RefreshGrant
<1>2. CASE reply'[q] = reply[q] /\ held'[q] = held[q]
  <2>1. OnItsWay(reply[q], held[q].rt.lin)
    BY <1>2 DEF SessionsInv, ReplyInv
  <2>2. reply[q] \in Grant
    BY <1>t, <1>2
  <2>3. CASE Tick
    BY <1>t, <1>2, <2>1, <2>2, <2>3, GrantFields DEF Tick, InTime, OnItsWay
  <2>4. CASE clock' = clock
    BY <1>2, <2>1, <2>4 DEF OnItsWay
  <2> QED
    BY <2>3, <2>4, ClockStep
<1> QED
  BY <1>1, <1>2, ReplyStep

\* A server gets its credentials once, with the lifetime of a client that is known.
LEMMA CredInvStep == TypeInv /\ SessionsInv /\ [Next]_vars => CredInv'
<1> SUFFICES ASSUME TypeInv, SessionsInv, [Next]_vars PROVE CredInv'
  OBVIOUS
<1>t. /\ TypeOK
      /\ phase \in [Servers -> Phases]
      /\ cred \in [Servers -> Credentials]
      /\ clientExp \in [Lineages -> Int]
      /\ held \in [Procs -> Session \cup {NoSession}]
  BY DEF TypeInv, TypeOK, BaseTypeOK, ServerTypeOK, ProcTypeOK
<1> DEFINE Good(c) == /\ c.cexp = clientExp[c.client]
                      /\ \A t \in Servers : c.client = t => phase[t] # "unused"
<1>1. \A c \in Credentials : Good(c) => Good(c)'
  <2>1. \A c \in Credentials : c.client \in Lineages
    BY DEF Credentials
  <2> QED
    BY <1>t, <2>1, StepsForward DEF OnlyForward
<1>2. \A s \in Servers : Alive(s) => Good(cred[s])
  BY DEF SessionsInv, CredInv
<1>3. ASSUME NEW s \in Servers, cred'[s] = cred[s], Alive(s)' => Alive(s)
      PROVE  Alive(s)' => Good(cred[s])'
  <2>1. cred[s] \in Credentials
    BY <1>t
  <2> QED
    BY <1>1, <1>2, <1>3, <2>1
<1> SUFFICES ASSUME NEW s \in Servers, Alive(s)' PROVE Good(cred[s])'
  BY DEF CredInv
<1>4. CASE cred'[s] = cred[s] /\ Alive(s)
  BY <1>3, <1>4
<1>5. ASSUME NEW u, Gone(u) PROVE cred'[s] = cred[s] /\ Alive(s)
  BY <1>5, <1>t DEF Gone, Alive
<1>6. ASSUME NEW p \in Procs, StartWithClient(p) PROVE Good(cred[s])'
  <2>1. PICK u \in Servers : Spawn(u, [client |-> held[p].client, cexp |-> held[p].cexp])
    BY <1>6 DEF StartWithClient
  <2>2. CASE u = s
    <3>1. held[p] \in Session /\ Settled(held[p])
      BY <1>6, <1>t DEF StartWithClient, TypeInv, TypeOK, HoldsSession, SessionsInv, HeldInv
    <3>2. cred'[s] = [client |-> held[p].client, cexp |-> held[p].cexp]
      BY <1>t, <2>1, <2>2 DEF Spawn
    <3>3. /\ cred'[s].client = held[p].client
          /\ cred'[s].cexp = clientExp[held[p].client]
          /\ clientExp' = clientExp
      BY <1>6, <3>1, <3>2 DEF StartWithClient, Settled, WellMade, Coherent, baseVars
    <3> QED
      BY <3>1, <3>3, <1>t, StepsForward DEF OnlyForward, Settled, WellMade
  <2> QED
    BY <1>4, <1>t, <2>1, <2>2 DEF Spawn, Alive
<1>7. ASSUME NEW p \in Procs, RegisterAndStart(p) PROVE Good(cred[s])'
  <2>1. PICK u \in Servers, life \in SecretLifetimes :
          /\ Spawn(u, [client |-> u, cexp |-> ClientExpiry(life)])
          /\ clientExp' = [clientExp EXCEPT ![u] = ClientExpiry(life)]
    BY <1>7 DEF RegisterAndStart
  <2>2. CASE u = s
    <3>1. /\ cred'[s] = [client |-> s, cexp |-> ClientExpiry(life)]
          /\ clientExp'[s] = ClientExpiry(life)
          /\ phase'[s] = "listening"
      BY <1>t, <2>1, <2>2 DEF Spawn, Lineages
    <3> QED
      BY <3>1
  <2> QED
    BY <1>4, <1>t, <2>1, <2>2 DEF Spawn, Alive
<1>8. CASE Tick \/ UNCHANGED vars
  BY <1>4, <1>8 DEF Tick, vars, serverVars, Alive
<1>9. ASSUME NEW p \in Procs, ProcNext(p) PROVE Good(cred[s])'
  <2>1. CASE UNCHANGED serverVars
    BY <1>4, <2>1 DEF serverVars, Alive
  <2>2. CASE WaitTimesOut(p)
    BY <1>4, <1>5, <2>1, <2>2 DEF WaitTimesOut
  <2> QED
    BY <1>9, <1>6, <1>7, <2>1, <2>2 DEF ProcNext, GetAccessToken, StartAuth, TryCached,
       IdpRefresh, Refreshed, SaveRefreshed, RefreshFails, StartFails, WaitForAuth,
       PollSession, ProbeServer, Recheck, SignOut, Revoke, Unlink, Crash
<1>10. ASSUME NEW u \in Servers, ServerNext(u) PROVE Good(cred[s])'
  <2>1. CASE Gone(u)
    BY <1>4, <1>5, <2>1
  <2>2. CASE UNCHANGED cred
    BY <1>4, <1>10, <1>t, <2>2 DEF ServerNext, Accept, DoGet, PeerCloses, PeerResets, Wake,
       Expire, LoopStopped, IdpExchange, Exchanged, ServerSave, ServerDies, Gone, Alive
  <2> QED
    BY <1>10, <2>1, <2>2 DEF ServerNext, Accept, DoGet, PeerCloses, PeerResets, Wake,
       Expire, LoopStopped, IdpExchange, Exchanged, ServerSave, ServerDies
<1> QED
  BY <1>8, <1>9, <1>10 DEF Next, ServerStep

LEMMA GrantInvStep == TypeInv /\ SessionsInv /\ [Next]_vars => GrantInv'
<1> SUFFICES ASSUME TypeInv, SessionsInv, [Next]_vars,
                    NEW s \in Servers, grant'[s] # NoGrant
             PROVE  /\ phase'[s] = "exchanging"
                    /\ OnItsWay(grant[s], s)'
                    /\ grantedTo'[s] = cred'[s].client
  BY DEF GrantInv
<1> DEFINE Goal == /\ phase'[s] = "exchanging"
                   /\ OnItsWay(grant[s], s)'
                   /\ grantedTo'[s] = cred'[s].client
<1>t. /\ TypeOK
      /\ clock \in Nat
      /\ MaxDelay \in Nat
      /\ TokenLifetimes \subseteq Nat
      /\ phase \in [Servers -> Phases]
      /\ cred \in [Servers -> Credentials]
      /\ grant \in [Servers -> Grant \cup {NoGrant}]
      /\ grantedTo \in [Lineages -> Lineages]
      /\ s \in Lineages
  BY ConstantsAssumption DEF TypeInv, TypeOK, BaseTypeOK, ServerTypeOK, Lineages
<1>1. grant[s] # NoGrant =>
        /\ phase[s] = "exchanging"
        /\ OnItsWay(grant[s], s)
        /\ grantedTo[s] = cred[s].client
  BY DEF SessionsInv, GrantInv
<1>2. ASSUME phase'[s] = phase[s], cred'[s] = cred[s], grant'[s] = grant[s],
             grantedTo'[s] = grantedTo[s]
      PROVE  Goal
  <2>1. grant[s] \in Grant
    BY <1>t, <1>2
  <2>2. CASE Tick
    BY <1>t, <1>1, <1>2, <2>1, <2>2, GrantFields DEF Tick, InTime, OnItsWay
  <2>3. CASE clock' = clock
    BY <1>1, <1>2, <2>3 DEF OnItsWay
  <2> QED
    BY <2>2, <2>3, ClockStep
<1>3. ASSUME NEW u, Gone(u), grantedTo' = grantedTo PROVE Goal
  <2>1. u # s
    BY <1>3, <1>t DEF Gone
  <2> QED
    BY <1>2, <1>3, <1>t, <2>1 DEF Gone
<1>4. ASSUME NEW u, NEW c, Spawn(u, c), grantedTo' = grantedTo PROVE Goal
  <2>1. u # s
    BY <1>1, <1>4, <1>t DEF Spawn
  <2> QED
    BY <1>2, <1>4, <1>t, <2>1 DEF Spawn
<1>5. CASE UNCHANGED <<serverVars, grantedTo>>
  BY <1>2, <1>5 DEF serverVars
<1>6. CASE Tick \/ UNCHANGED vars
  BY <1>5, <1>6 DEF Tick, vars, baseVars, idpVars
<1>7. ASSUME NEW p \in Procs, ProcNext(p) PROVE Goal
  <2>1. CASE StartWithClient(p) \/ RegisterAndStart(p)
    BY <1>4, <2>1 DEF StartWithClient, RegisterAndStart, baseVars
  <2>2. CASE WaitTimesOut(p)
    BY <1>3, <1>5, <2>2 DEF WaitTimesOut, baseVars
  <2> QED
    BY <1>5, <1>7, <2>1, <2>2 DEF ProcNext, GetAccessToken, StartAuth, TryCached, IdpRefresh,
       Refreshed, SaveRefreshed, RefreshFails, StartFails, WaitForAuth, PollSession,
       ProbeServer, Recheck, SignOut, Revoke, Unlink, Crash, baseVars, idpVars
<1>8. ASSUME NEW u \in Servers, ServerNext(u) PROVE Goal
  <2>1. CASE Accept(u) \/ DoGet(u) \/ PeerCloses(u) \/ PeerResets(u)
    BY <1>2, <2>1 DEF Accept, DoGet, PeerCloses, PeerResets, baseVars
  <2>2. CASE Wake(u) \/ Expire(u)
    BY <1>1, <1>2, <1>t, <2>2 DEF Wake, Expire, baseVars
  <2>3. CASE LoopStopped(u)
    BY <1>1, <1>2, <1>3, <1>t, <2>3 DEF LoopStopped, baseVars
  <2>4. CASE IdpExchange(u)
    <3>1. CASE u = s
      <4>1. PICK life \in TokenLifetimes : grant' = [grant EXCEPT ![s] = FirstGrant(s, life)]
        BY <2>4, <3>1 DEF IdpExchange
      <4>2. /\ grant'[s] = FirstGrant(s, life)
            /\ phase' = phase /\ cred' = cred /\ clock' = clock
            /\ phase[s] = "exchanging"
            /\ grantedTo'[s] = cred[s].client
        BY <1>t, <2>4, <3>1, <4>1 DEF IdpExchange
      <4> QED
        BY <1>t, <4>2 DEF OnItsWay, FirstGrant
    <3>2. CASE u # s
      BY <1>2, <1>t, <2>4, <3>2 DEF IdpExchange, Lineages
    <3> QED
      BY <3>1, <3>2
  <2>5. CASE Exchanged(u)
    BY <1>2, <1>t, <2>5 DEF Exchanged, baseVars
  <2>6. CASE ServerSave(u) \/ ServerDies(u)
    BY <1>3, <2>6 DEF ServerSave, ServerDies, idpVars, baseVars
  <2> QED
    BY <1>8, <2>1, <2>2, <2>3, <2>4, <2>5, <2>6 DEF ServerNext
<1> QED
  BY <1>6, <1>7, <1>8 DEF Next, ServerStep

\* The session a server makes of an answer is as good as one found in the file.
LEMMA ExchangedWellMade ==
  ASSUME TypeInv, SessionsInv, NEW s \in Servers, Exchanged(s)
  PROVE  /\ newSession'[s] \in Session
         /\ newSession'[s].rt.lin = s
         /\ WellMade(newSession'[s])
<1> DEFINE y == [client |-> cred[s].client, cexp |-> cred[s].cexp, at |-> grant[s].at,
                 rt |-> grant[s].rt, texp |-> clock + grant[s].life]
<1>t. /\ clock \in Nat
      /\ MaxDelay \in Nat
      /\ cred[s] \in Credentials
      /\ grant[s] \in Grant
      /\ newSession \in [Servers -> Session \cup {NoSession}]
  BY ConstantsAssumption DEF Exchanged, TypeInv, TypeOK, BaseTypeOK, ServerTypeOK
<1>1. newSession'[s] = y
  BY <1>t DEF Exchanged
<1>2. y \in Session
  BY <1>t, GrantFields DEF Session, Credentials
<1>3. /\ OnItsWay(grant[s], s)
      /\ grantedTo[s] = cred[s].client
      /\ cred[s].cexp = clientExp[cred[s].client]
      /\ \A t \in Servers : cred[s].client = t => phase[t] # "unused"
  BY DEF Exchanged, SessionsInv, GrantInv, CredInv, Alive
<1>4. /\ y.client = cred[s].client
      /\ y.cexp = cred[s].cexp
      /\ y.at.lin = s
      /\ y.rt.lin = s
      /\ y.texp <= y.at.dies + MaxDelay
  BY <1>t, <1>3, GrantFields DEF OnItsWay
<1> QED
  BY <1>1, <1>2, <1>3, <1>4 DEF WellMade, Coherent

LEMMA NewSessionInvStep == TypeInv /\ SessionsInv /\ [Next]_vars => NewSessionInv'
<1> SUFFICES ASSUME TypeInv, SessionsInv, [Next]_vars, NEW s \in Servers
             PROVE  /\ phase'[s] = "saving" <=> newSession'[s] # NoSession
                    /\ newSession'[s] # NoSession =>
                         WellMade(newSession[s])' /\ newSession'[s].rt.lin = s
  BY DEF NewSessionInv
<1> DEFINE Goal == /\ phase'[s] = "saving" <=> newSession'[s] # NoSession
                   /\ newSession'[s] # NoSession =>
                        WellMade(newSession[s])' /\ newSession'[s].rt.lin = s
<1>t. /\ TypeOK
      /\ phase \in [Servers -> Phases]
      /\ newSession \in [Servers -> Session \cup {NoSession}]
      /\ NoSession \notin Session
  BY ConstantsAssumption DEF TypeInv, TypeOK, ServerTypeOK
<1>1. /\ phase[s] = "saving" <=> newSession[s] # NoSession
      /\ newSession[s] # NoSession => WellMade(newSession[s]) /\ newSession[s].rt.lin = s
  BY DEF SessionsInv, NewSessionInv
<1>2. ASSUME phase'[s] = "saving" <=> phase[s] = "saving", newSession'[s] = newSession[s]
      PROVE  Goal
  <2>1. CASE newSession[s] # NoSession
    <3>1. newSession[s] \in Session /\ phase[s] = "saving"
      BY <1>1, <1>t, <2>1
    <3>2. \A x \in Session : x = newSession[s] => WellMade(x)'
      BY <1>1, <1>t, <2>1, <3>1, WellMadeKept
    <3> QED
      BY <1>1, <1>2, <2>1, <3>1, <3>2
  <2> QED
    BY <1>1, <1>2, <2>1
<1>3. ASSUME NEW u, Gone(u) PROVE Goal
  BY <1>2, <1>3, <1>t DEF Gone
<1>4. ASSUME NEW u, NEW c, Spawn(u, c) PROVE Goal
  BY <1>2, <1>4, <1>t DEF Spawn
<1>5. CASE UNCHANGED serverVars
  BY <1>2, <1>5 DEF serverVars
<1>6. CASE Tick \/ UNCHANGED vars
  BY <1>5, <1>6 DEF Tick, vars
<1>7. ASSUME NEW p \in Procs, ProcNext(p) PROVE Goal
  <2>1. CASE StartWithClient(p) \/ RegisterAndStart(p)
    BY <1>4, <2>1 DEF StartWithClient, RegisterAndStart
  <2>2. CASE WaitTimesOut(p)
    BY <1>3, <1>5, <2>2 DEF WaitTimesOut
  <2> QED
    BY <1>5, <1>7, <2>1, <2>2 DEF ProcNext, GetAccessToken, StartAuth, TryCached, IdpRefresh,
       Refreshed, SaveRefreshed, RefreshFails, StartFails, WaitForAuth, PollSession,
       ProbeServer, Recheck, SignOut, Revoke, Unlink, Crash
<1>8. ASSUME NEW u \in Servers, ServerNext(u) PROVE Goal
  <2>1. CASE Accept(u) \/ DoGet(u) \/ PeerCloses(u) \/ PeerResets(u) \/ IdpExchange(u)
    BY <1>2, <2>1 DEF Accept, DoGet, PeerCloses, PeerResets, IdpExchange
  <2>2. CASE Wake(u) \/ Expire(u)
    BY <1>2, <1>t, <2>2 DEF Wake, Expire
  <2>3. CASE LoopStopped(u)
    BY <1>2, <1>3, <1>t, <2>3 DEF LoopStopped
  <2>4. CASE Exchanged(u)
    <3>1. CASE u # s
      BY <1>2, <1>t, <2>4, <3>1 DEF Exchanged
    <3>2. CASE u = s
      <4>1. newSession'[s] \in Session /\ newSession'[s].rt.lin = s /\ WellMade(newSession'[s])
        BY <2>4, <3>2, ExchangedWellMade
      <4>2. phase'[s] = "saving" /\ clientExp' = clientExp /\ grantedTo' = grantedTo
        BY <1>t, <2>4, <3>2 DEF Exchanged, baseVars
      <4> QED
        BY <1>t, <4>1, <4>2, StepsForward DEF OnlyForward, WellMade, Coherent
    <3> QED
      BY <3>1, <3>2
  <2>5. CASE ServerSave(u) \/ ServerDies(u)
    BY <1>3, <2>5 DEF ServerSave, ServerDies
  <2> QED
    BY <1>8, <2>1, <2>2, <2>3, <2>4, <2>5 DEF ServerNext
<1> QED
  BY <1>6, <1>7, <1>8 DEF Next, ServerStep

LEMMA SessionsInit == Init => SessionsInv
<1> SUFFICES ASSUME Init PROVE SessionsInv
  OBVIOUS
<1>1. FileInv
  <2> SUFFICES ASSUME file # NoSession PROVE Settled(file)
    BY DEF FileInv
  <2>1. /\ file \in PriorSessions
        /\ file.client = Prior
        /\ file.at.lin = Prior
        /\ file.rt.lin = Prior
        /\ file.texp <= file.at.dies + MaxDelay
    BY PriorAssumption DEF Init, BaseInit
  <2>2. grantedTo[Prior] = Prior /\ clientExp[Prior] = file.cexp
    BY DEF Init, BaseInit, Lineages
  <2> QED
    BY <2>1, <2>2, ConstantsAssumption DEF Settled, WellMade, Coherent
<1>2. HeldInv /\ ReplyInv
  BY DEF Init, HeldInv, ReplyInv
<1>3. CredInv /\ GrantInv /\ NewSessionInv
  BY DEF Init, ServerInit, CredInv, GrantInv, NewSessionInv, Alive
<1> QED
  BY <1>1, <1>2, <1>3 DEF SessionsInv

LEMMA SessionsCorrect == Spec => [](TypeInv /\ SessionsInv)
<1>1. Init => TypeInv /\ SessionsInv
  BY TypeInit, SessionsInit
<1>2. TypeInv /\ SessionsInv /\ [Next]_vars => (TypeInv /\ SessionsInv)'
  BY TypeStep, FileInvStep, HeldInvStep, ReplyInvStep, CredInvStep, GrantInvStep,
     NewSessionInvStep DEF SessionsInv
<1> QED
  BY <1>1, <1>2, PTL DEF Spec

\* However many invocations and callback servers read and replace the session file,
\* and whatever the provider answers, the file never mixes two sign-ins: its tokens,
\* its client and its lifetime belong together.
THEOREM SessionNeverMixed == Spec => []SessionCoherent
<1>1. TypeInv /\ SessionsInv => SessionCoherent
  BY DEF SessionsInv, FileInv, Settled, WellMade, SessionCoherent
<1> QED
  BY <1>1, SessionsCorrect, PTL

-----------------------------------------------------------------------------
(* Cached tokens.                                                           *)

\* Only the cached branch of get_access_token and start_auth reports "cached".
LEMMA CachedStep ==
  ASSUME TypeOK, [Next]_vars, NEW p \in Procs, Reports(p, "cached")
  PROVE  TokenValid(file)
<1>t. result \in [Procs -> Results]
  BY DEF TypeOK, ProcTypeOK
<1>a. ASSUME NEW q \in Procs, NEW r, r # "cached" PROVE ~Exit(q, r)
  BY <1>a, <1>t DEF Exit, Reports
<1>b. ~UNCHANGED result
  BY DEF Reports
<1>1. CASE Tick \/ UNCHANGED vars
  BY <1>1, <1>b DEF Tick, vars, procVars
<1>2. ASSUME NEW s \in Servers, ServerStep(s) PROVE FALSE
  BY <1>2, <1>b DEF ServerStep, procVars
<1>3. ASSUME NEW q \in Procs, ProcNext(q) PROVE TokenValid(file)
  BY <1>3, <1>a, <1>b DEF ProcNext, GetAccessToken, StartAuth, TryCached, IdpRefresh,
     Refreshed, SaveRefreshed, RefreshFails, StartWithClient, RegisterAndStart, StartFails,
     WaitForAuth, PollSession, ProbeServer, Recheck, WaitTimesOut, SignOut, Revoke,
     Unlink, Crash
<1> QED
  BY <1>1, <1>2, <1>3 DEF Next

\* The expiry buffer covers the delay of the answer: a token handed out from the
\* file is one the provider still honours.
THEOREM CachedTokenLive == Spec => CachedTokenIsLive
<1>1. ASSUME TypeInv, SessionsInv, [Next]_vars
      PROVE  [\A p \in Procs : Reports(p, "cached") => file.at.dies > clock]_vars
  <2> SUFFICES ASSUME NEW p \in Procs, Reports(p, "cached") PROVE file.at.dies > clock
    OBVIOUS
  <2>1. TokenValid(file)
    BY <1>1, CachedStep DEF TypeInv
  <2>2. file \in Session /\ clock \in Nat /\ file.texp <= file.at.dies + MaxDelay
    BY <1>1, <2>1 DEF TypeInv, TypeOK, BaseTypeOK, TokenValid, SessionsInv, FileInv, Settled,
       WellMade
  <2> QED
    BY <2>1, <2>2, SessionFields, ConstantsAssumption, DelayAssumption DEF TokenValid
<1> QED
  BY <1>1, SessionsCorrect, PTL DEF Spec, CachedTokenIsLive

-----------------------------------------------------------------------------
(* Sign-out.                                                                *)

\* An invocation that refreshes a sign-in was doing so, or loads it in this step.
LEMMA RefreshingStep ==
  ASSUME TypeInv, SessionsInv, [Next]_vars, NEW q \in Procs, NEW l, Refreshing(q, l)'
  PROVE  \/ Refreshing(q, l)
         \/ file # NoSession /\ file.rt.lin = l /\ UNCHANGED <<signedOut, raced>>
<1> DEFINE Goal == \/ Refreshing(q, l)
                   \/ file # NoSession /\ file.rt.lin = l /\ UNCHANGED <<signedOut, raced>>
<1>t. /\ pc \in [Procs -> PCs]
      /\ held \in [Procs -> Session \cup {NoSession}]
  BY DEF TypeInv, TypeOK, ProcTypeOK
<1>a. pc'[q] \in {"refreshing", "saving"} /\ held'[q].rt.lin = l
  BY DEF Refreshing
<1>b. ASSUME NEW p \in Procs, NEW r, Exit(p, r) PROVE Refreshing(q, l)
  BY <1>a, <1>b, <1>t DEF Exit, Go, Refreshing
<1>c. ASSUME NEW p \in Procs, NEW w, w \notin {"refreshing", "saving"}, Go(p, w),
             p # q => held'[q] = held[q]
      PROVE  Refreshing(q, l)
  BY <1>a, <1>c, <1>t DEF Go, Refreshing
<1>1. CASE Tick \/ UNCHANGED vars
  BY <1>a, <1>1 DEF Tick, vars, procVars, Refreshing
<1>2. ASSUME NEW s \in Servers, ServerStep(s) PROVE Goal
  BY <1>a, <1>2 DEF ServerStep, procVars, Refreshing
<1>3. ASSUME NEW p \in Procs, ProcNext(p) PROVE Goal
  <2>1. ASSUME NEW c, TryCached(p, c) PROVE Goal
    <3>1. CASE \E r : Exit(p, r)
      BY <1>b, <3>1
    <3>2. CASE Go(p, "register") /\ UNCHANGED held
      BY <1>c, <3>2
    <3>3. CASE MayRefresh(file) /\ Go(p, "refreshing") /\ held' = [held EXCEPT ![p] = file]
      BY <1>a, <1>t, <2>1, <3>3 DEF TryCached, MayRefresh, Go, Refreshing, historyVars
    <3> QED
      BY <2>1, <3>1, <3>2, <3>3 DEF TryCached
  <2>2. CASE IdpRefresh(p)
    BY <1>a, <2>2 DEF IdpRefresh, Refreshing
  <2>3. CASE Refreshed(p)
    <3>1. CASE p = q
      BY <1>a, <2>3, <3>1, RefreshedSettled DEF Refreshed, Refreshing
    <3>2. CASE p # q
      BY <1>a, <1>t, <2>3, <3>2 DEF Refreshed, Go, Refreshing
    <3> QED
      BY <3>1, <3>2
  <2>4. CASE RefreshFails(p)
    BY <1>b, <1>c, <2>4 DEF RefreshFails
  <2>5. CASE PollSession(p) \/ ProbeServer(p) \/ Recheck(p)
    BY <1>b, <1>c, <2>5 DEF PollSession, ProbeServer, Recheck
  <2>6. CASE WaitForAuth(p) \/ Revoke(p)
    BY <1>c, <2>6 DEF WaitForAuth, Revoke
  <2>7. CASE SignOut(p)
    BY <1>c, <1>t, <2>7 DEF SignOut
  <2>8. CASE \E r : Exit(p, r)
    BY <1>b, <2>8
  <2> QED
    BY <1>3, <2>1, <2>2, <2>3, <2>4, <2>5, <2>6, <2>7, <2>8 DEF ProcNext, GetAccessToken,
       StartAuth, SaveRefreshed, StartWithClient, RegisterAndStart, StartFails,
       WaitTimesOut, Unlink, Crash
<1> QED
  BY <1>1, <1>2, <1>3 DEF Next

\* Only a sign-out ends a sign-in.
LEMMA SignedOutChange == [Next]_vars => UNCHANGED <<signedOut, raced>> \/ \E p \in Procs : Unlink(p)
<1>1. ASSUME NEW p \in Procs, ProcNext(p) PROVE UNCHANGED <<signedOut, raced>> \/ Unlink(p)
  BY <1>1 DEF ProcNext, GetAccessToken, StartAuth, TryCached, IdpRefresh, Refreshed,
     SaveRefreshed, RefreshFails, StartWithClient, RegisterAndStart, StartFails,
     WaitForAuth, PollSession, ProbeServer, Recheck, WaitTimesOut, SignOut, Revoke,
     Crash, historyVars
<1> QED
  BY <1>1 DEF Next, ServerStep, Tick, vars, historyVars

LEMMA SignedOutStep == TypeInv /\ SessionsInv /\ SignedOutInv /\ [Next]_vars => SignedOutInv'
<1> SUFFICES ASSUME TypeInv, SessionsInv, SignedOutInv, [Next]_vars PROVE SignedOutInv'
  OBVIOUS
<1>t. TypeOK /\ NoSession \notin Session
  BY ConstantsAssumption DEF TypeInv
<1>1. CASE UNCHANGED <<signedOut, raced>>
  <2>1. \A s \in Servers : s \in signedOut' => phase'[s] = "exited"
    BY <1>t, <1>1, StepsForward DEF OnlyForward, SignedOutInv
  <2>2. ASSUME NEW l \in signedOut' \ raced', file' # NoSession
        PROVE  file'.rt.lin # l
    <3>1. CASE file' \in {file, NoSession}
      BY <1>1, <2>2, <3>1 DEF SignedOutInv
    <3>2. ASSUME NEW p \in Procs, SaveRefreshed(p) PROVE file'.rt.lin # l
      BY <1>1, <2>2, <3>2 DEF SaveRefreshed, Refreshing, SignedOutInv
    <3>3. ASSUME NEW s \in Servers, ServerSave(s) PROVE file'.rt.lin # l
      BY <1>1, <2>2, <3>3 DEF ServerSave, SessionsInv, NewSessionInv, SignedOutInv
    <3> QED
      BY <1>t, <3>1, <3>2, <3>3, FileStep
  <2>3. ASSUME NEW l \in signedOut' \ raced', NEW q \in Procs, Refreshing(q, l)'
        PROVE  FALSE
    BY <1>1, <2>3, RefreshingStep DEF SignedOutInv
  <2> QED
    BY <2>1, <2>2, <2>3 DEF SignedOutInv
<1>2. ASSUME NEW p \in Procs, Unlink(p) PROVE SignedOutInv'
  <2>1. /\ file' = NoSession
        /\ signedOut' = signedOut \cup Ended(p)
        /\ raced' = raced \cup {l \in Ended(p) : \E q \in Procs : Refreshing(q, l)}
    BY <1>2 DEF Unlink
  <2>2. ASSUME NEW s \in Servers, s \in signedOut' PROVE phase'[s] = "exited"
    <3>1. CASE s \in signedOut
      BY <1>t, <3>1, StepsForward DEF OnlyForward, SignedOutInv
    <3>2. CASE s \in Ended(p)
      <4>1. PICK x \in {held[p], file} \ {NoSession} : x.rt.lin = s
        BY <3>2 DEF Ended
      <4>2. Settled(x)
        BY <4>1 DEF SessionsInv, FileInv, HeldInv
      <4> QED
        BY <1>t, <4>1, <4>2, StepsForward DEF OnlyForward, Settled
    <3> QED
      BY <2>1, <2>2, <3>1, <3>2
  <2>3. ASSUME NEW l \in signedOut' \ raced', NEW q \in Procs, Refreshing(q, l)'
        PROVE  FALSE
    <3>1. Refreshing(q, l)
      BY <1>2, <2>3, <1>t DEF Unlink, Exit, Go, Refreshing, TypeOK, ProcTypeOK
    <3> QED
      BY <2>1, <2>3, <3>1 DEF SignedOutInv
  <2> QED
    BY <2>1, <2>2, <2>3 DEF SignedOutInv
<1> QED
  BY <1>1, <1>2, SignedOutChange

\* A session that a sign-out removed stays removed, whatever callback servers and
\* later invocations do, unless an invocation was refreshing it at that instant.
THEOREM SignOutFinal == Spec => []SignOutSticks
<1>1. Init => SignedOutInv
  BY DEF Init, SignedOutInv
<1>2. SignedOutInv => SignOutSticks
  BY DEF SignedOutInv, SignOutSticks
<1> QED
  BY <1>1, <1>2, SignedOutStep, SessionsCorrect, PTL DEF Spec
=============================================================================
