----------------------------- MODULE LaunchAuth -----------------------------
(***************************************************************************)
(* The authentication commands of launch-with-aws (auth.py): every element *)
(* of Procs is one invocation of launch_with_aws.py, a process that runs   *)
(* one command and exits with a result.  Invocations, the callback servers *)
(* they spawn and the clock interleave at the points where the code leaves *)
(* the process: a call of the identity provider, a read or a replacement   *)
(* of the session file, a signal.                                          *)
(***************************************************************************)
EXTENDS CallbackServer

CONSTANTS
  Procs,      \* invocations of the command-line tool
  NoServer    \* the invocation waits for no server

ASSUME ProcsAssumption == NoServer \notin Servers

VARIABLES
  pc,         \* where the invocation is
  cmd,        \* the command it runs
  held,       \* its local `session`, then the `updated` one
  reply,      \* the answer of _refresh_token on its way
  waitsFor,   \* the pid wait_for_auth was given
  deadline,   \* when wait_for_auth gives up
  result,     \* what it reported
  signedOut,  \* history: sign-ins whose session a sign-out removed or revoked
  raced,      \* history: those some other invocation was refreshing meanwhile
  broken      \* history: sign-ins whose latest refresh token nobody kept

procVars == <<pc, cmd, held, reply, waitsFor, deadline, result>>
historyVars == <<signedOut, raced, broken>>
vars == <<baseVars, serverVars, procVars, historyVars>>

Commands == {"token", "start", "wait", "signout"}

\* ready      -> the invocation has not begun
\* refreshing -> _refresh_token is running; saving -> save_session is next
\* reuse      -> interactive sign-in with the loaded client credentials
\* register   -> interactive sign-in with a new client registration
\* polling, probing, recheck -> the three reads of wait_for_auth's loop
\* revoking, unlinking -> the two steps of sign_out
\* done       -> the process has exited
PCs == {"ready", "refreshing", "saving", "reuse", "register", "polling", "probing",
        "recheck", "revoking", "unlinking", "done"}

Results == {"none", "cached", "refreshed", "authenticated", "signInUrl",
            "expired", "failed", "exited", "timeout", "signedOut", "crashed"}

ProcTypeOK ==
  /\ pc \in [Procs -> PCs]
  /\ cmd \in [Procs -> Commands \cup {"none"}]
  /\ held \in [Procs -> Session \cup {NoSession}]
  /\ reply \in [Procs -> Grant \cup {NoGrant}]
  /\ waitsFor \in [Procs -> Servers \cup {NoServer}]
  /\ deadline \in [Procs -> Nat]
  /\ result \in [Procs -> Results]

HistoryTypeOK ==
  /\ signedOut \subseteq Lineages
  /\ raced \subseteq Lineages
  /\ broken \subseteq Lineages

\* No command uses the fields of a session it has not got.
HoldsSession ==
  \A p \in Procs :
    pc[p] \in {"refreshing", "saving", "reuse", "revoking"} => held[p] # NoSession

\* Every variable has its type, and no command dereferences a missing session.
TypeOK ==
  /\ BaseTypeOK
  /\ ServerTypeOK
  /\ ProcTypeOK
  /\ HistoryTypeOK
  /\ HoldsSession

Init ==
  /\ BaseInit
  /\ ServerInit
  /\ pc = [p \in Procs |-> "ready"]
  /\ cmd = [p \in Procs |-> "none"]
  /\ held = [p \in Procs |-> NoSession]
  /\ reply = [p \in Procs |-> NoGrant]
  /\ waitsFor = [p \in Procs |-> NoServer]
  /\ deadline = [p \in Procs |-> 0]
  /\ result = [p \in Procs |-> "none"]
  /\ signedOut = {}
  /\ raced = {}
  /\ broken = {}

-----------------------------------------------------------------------------
(* Helpers.                                                                 *)

Go(p, where) == pc' = [pc EXCEPT ![p] = where]

\* The process exits with result r; nothing it held in memory survives.
Exit(p, r) ==
  /\ Go(p, "done")
  /\ result' = [result EXCEPT ![p] = r]
  /\ cmd' = [cmd EXCEPT ![p] = "none"]
  /\ held' = [held EXCEPT ![p] = NoSession]
  /\ reply' = [reply EXCEPT ![p] = NoGrant]
  /\ deadline' = [deadline EXCEPT ![p] = 0]

\* Invocation p loaded a session of sign-in l and may still write one.
Refreshing(p, l) == pc[p] \in {"refreshing", "saving"} /\ held[p].rt.lin = l

\* p drops an answer it has got: a rotated refresh token is lost with it.
Dropped(p) ==
  CASE reply[p] # NoGrant ->
         IF reply[p].rt # held[p].rt THEN {held[p].rt.lin} ELSE {}
    [] pc[p] = "saving" /\ Rotates -> {held[p].rt.lin}
    [] pc[p] = "unlinking" /\ held[p] # NoSession -> {held[p].rt.lin}
    [] OTHER -> {}

-----------------------------------------------------------------------------
(* get_access_token and the same first half of start_auth.                  *)

\* The session is loaded and the clock read; what they say decides the branch.
TryCached(p, c) ==
  /\ pc[p] = "ready"
  /\ \/ /\ TokenValid(file)
        /\ Exit(p, "cached")
     \/ /\ ~TokenValid(file)
        /\ MayRefresh(file)
        /\ Go(p, "refreshing")
        /\ cmd' = [cmd EXCEPT ![p] = c]
        /\ held' = [held EXCEPT ![p] = file]
        /\ UNCHANGED <<reply, deadline, result>>
     \/ /\ ~TokenValid(file)
        /\ ~MayRefresh(file)
        /\ IF c = "token"
           THEN Exit(p, "expired")
           ELSE /\ Go(p, "register")
                /\ cmd' = [cmd EXCEPT ![p] = c]
                /\ UNCHANGED <<held, reply, deadline, result>>
  /\ UNCHANGED <<waitsFor, baseVars, serverVars, historyVars>>

GetAccessToken(p) == TryCached(p, "token")
StartAuth(p) == TryCached(p, "start")

\* The provider accepts the refresh token (external).
IdpRefresh(p) ==
  /\ pc[p] = "refreshing"
  /\ reply[p] = NoGrant
  /\ Refreshable(held[p])
  /\ \E life \in TokenLifetimes :
       reply' = [reply EXCEPT ![p] = RefreshGrant(held[p], life)]
  /\ live' = [live EXCEPT ![held[p].rt.lin] = RefreshGrant(held[p], 0).rt.n]
  /\ UNCHANGED <<clock, file, grantedTo, clientExp, secretExp>>
  /\ UNCHANGED <<pc, cmd, held, waitsFor, deadline, result, serverVars, historyVars>>

\* Mutant: the tokens are merged into whatever the file holds by now.
RefreshedFromFile(p) ==
  /\ pc[p] = "refreshing"
  /\ reply[p] # NoGrant
  /\ held' = [held EXCEPT ![p] =
       WithTokens(IF file = NoSession THEN held[p] ELSE file, reply[p])]
  /\ reply' = [reply EXCEPT ![p] = NoGrant]
  /\ Go(p, "saving")
  /\ UNCHANGED <<cmd, waitsFor, deadline, result, baseVars, serverVars, historyVars>>

\* _refresh_token returns: the loaded session with the new tokens.
Refreshed(p) ==
  /\ pc[p] = "refreshing"
  /\ reply[p] # NoGrant
  /\ held' = [held EXCEPT ![p] = WithTokens(held[p], reply[p])]
  /\ reply' = [reply EXCEPT ![p] = NoGrant]
  /\ Go(p, "saving")
  /\ UNCHANGED <<cmd, waitsFor, deadline, result, baseVars, serverVars, historyVars>>

\* save_session of the refreshed session, and the success that follows.
SaveRefreshed(p) ==
  /\ pc[p] = "saving"
  /\ file' = held[p]
  /\ Exit(p, "refreshed")
  /\ UNCHANGED <<clock, idpVars, waitsFor, serverVars, historyVars>>

\* Mutant: when the refresh fails the loaded session is written back.
RefreshFailsRestoring(p) ==
  /\ pc[p] \in {"refreshing", "saving"}
  /\ broken' = broken \cup Dropped(p)
  /\ file' = held[p]
  /\ Exit(p, "expired")
  /\ UNCHANGED <<clock, idpVars, waitsFor, serverVars, signedOut, raced>>

\* _refresh_token or save_session raises: the exception is swallowed.
RefreshFails(p) ==
  /\ pc[p] \in {"refreshing", "saving"}
  /\ broken' = broken \cup Dropped(p)
  /\ IF cmd[p] = "token"
     THEN Exit(p, "expired")
     ELSE /\ Go(p, "reuse")
          /\ reply' = [reply EXCEPT ![p] = NoGrant]
          /\ UNCHANGED <<cmd, held, deadline, result>>
  /\ UNCHANGED <<waitsFor, baseVars, serverVars, signedOut, raced>>

-----------------------------------------------------------------------------
(* The interactive half of start_auth.                                      *)

\* The loaded client is used again: its remaining lifetime comes along.
StartWithClient(p) ==
  /\ pc[p] = "reuse"
  /\ clock + CallbackTimeout <= MaxTime
  /\ \E s \in Servers : Spawn(s, [client |-> held[p].client, cexp |-> held[p].cexp])
  /\ Exit(p, "signInUrl")
  /\ UNCHANGED <<waitsFor, baseVars, historyVars>>

\* _register_client: a new client, named here by the server it is made for.
RegisterAndStart(p) ==
  /\ pc[p] = "register"
  /\ clock + CallbackTimeout <= MaxTime
  /\ \E s \in Servers, life \in SecretLifetimes :
       /\ Spawn(s, [client |-> s, cexp |-> ClientExpiry(life)])
       /\ clientExp' = [clientExp EXCEPT ![s] = ClientExpiry(life)]
       /\ secretExp' = [secretExp EXCEPT ![s] = IF life = 0 THEN 0 ELSE clock + life]
  /\ Exit(p, "signInUrl")
  /\ UNCHANGED <<clock, file, live, grantedTo, waitsFor, historyVars>>

\* Registration fails or the server prints no port: the command raises.
StartFails(p) ==
  /\ pc[p] \in {"reuse", "register"}
  /\ Exit(p, "failed")
  /\ UNCHANGED <<waitsFor, baseVars, serverVars, historyVars>>

-----------------------------------------------------------------------------
(* wait_for_auth.                                                           *)

WaitForAuth(p) ==
  /\ pc[p] = "ready"
  /\ clock + CallbackTimeout <= MaxTime
  /\ \E s \in Servers :
       /\ phase[s] # "unused"
       /\ waitsFor' = [waitsFor EXCEPT ![p] = s]
  /\ cmd' = [cmd EXCEPT ![p] = "wait"]
  /\ deadline' = [deadline EXCEPT ![p] = clock + CallbackTimeout]
  /\ Go(p, "polling")
  /\ UNCHANGED <<held, reply, result, baseVars, serverVars, historyVars>>

\* has_valid_session, while the deadline is ahead.
PollSession(p) ==
  /\ pc[p] = "polling"
  /\ clock < deadline[p]
  /\ IF TokenValid(file)
     THEN Exit(p, "authenticated")
     ELSE Go(p, "probing") /\ UNCHANGED <<cmd, held, reply, deadline, result>>
  /\ UNCHANGED <<waitsFor, baseVars, serverVars, historyVars>>

\* Mutant: a server that is gone means failure, the session is not read again.
ProbeServerNoRecheck(p) ==
  /\ pc[p] = "probing"
  /\ IF Alive(waitsFor[p])
     THEN Go(p, "polling") /\ UNCHANGED <<cmd, held, reply, deadline, result>>
     ELSE Exit(p, "exited")
  /\ UNCHANGED <<waitsFor, baseVars, serverVars, historyVars>>

\* os.kill(pid, 0): sleep while the server runs, read the session again if not.
ProbeServer(p) ==
  /\ pc[p] = "probing"
  /\ Go(p, IF Alive(waitsFor[p]) THEN "polling" ELSE "recheck")
  /\ UNCHANGED <<cmd, held, reply, waitsFor, deadline, result>>
  /\ UNCHANGED <<baseVars, serverVars, historyVars>>

Recheck(p) ==
  /\ pc[p] = "recheck"
  /\ Exit(p, IF TokenValid(file) THEN "authenticated" ELSE "exited")
  /\ UNCHANGED <<waitsFor, baseVars, serverVars, historyVars>>

\* Mutant: the timeout is reported and the server left running.
WaitTimesOutNoKill(p) ==
  /\ pc[p] = "polling"
  /\ clock >= deadline[p]
  /\ Exit(p, "timeout")
  /\ UNCHANGED <<waitsFor, baseVars, serverVars, historyVars>>

\* Mutant: the server is stopped and the loop goes on.
WaitTimesOutAndGoesOn(p) ==
  /\ pc[p] = "polling"
  /\ clock >= deadline[p]
  /\ IF Alive(waitsFor[p]) THEN Gone(waitsFor[p]) ELSE UNCHANGED serverVars
  /\ UNCHANGED <<baseVars, procVars, historyVars>>

\* The deadline has passed: SIGTERM to the server, then TimeoutError.
WaitTimesOut(p) ==
  /\ pc[p] = "polling"
  /\ clock >= deadline[p]
  /\ IF Alive(waitsFor[p]) THEN Gone(waitsFor[p]) ELSE UNCHANGED serverVars
  /\ Exit(p, "timeout")
  /\ UNCHANGED <<waitsFor, baseVars, historyVars>>

-----------------------------------------------------------------------------
(* sign_out.                                                                *)

\* Mutant: the revocation is attempted although no session was loaded.
SignOutUnguarded(p) ==
  /\ pc[p] = "ready"
  /\ cmd' = [cmd EXCEPT ![p] = "signout"]
  /\ held' = [held EXCEPT ![p] = file]
  /\ Go(p, "revoking")
  /\ UNCHANGED <<reply, waitsFor, deadline, result, baseVars, serverVars, historyVars>>

SignOut(p) ==
  /\ pc[p] = "ready"
  /\ cmd' = [cmd EXCEPT ![p] = "signout"]
  /\ held' = [held EXCEPT ![p] = file]
  /\ Go(p, IF file = NoSession THEN "unlinking" ELSE "revoking")
  /\ UNCHANGED <<reply, waitsFor, deadline, result, baseVars, serverVars, historyVars>>

\* The refresh token is revoked, or the attempt has no effect.
Revoke(p) ==
  /\ pc[p] = "revoking"
  /\ \/ live' = [live EXCEPT ![held[p].rt.lin] = IF @ = held[p].rt.n THEN 0 ELSE @]
     \/ UNCHANGED live
  /\ Go(p, "unlinking")
  /\ UNCHANGED <<clock, file, grantedTo, clientExp, secretExp>>
  /\ UNCHANGED <<cmd, held, reply, waitsFor, deadline, result, serverVars, historyVars>>

\* The sign-ins this sign-out ends: the one it loaded, the one it removes.
Ended(p) == {s.rt.lin : s \in {held[p], file} \ {NoSession}}

\* Mutant: the file is kept when there is no refresh token left to revoke.
UnlinkOnlyLive(p) ==
  /\ pc[p] = "unlinking"
  /\ file' = IF held[p] # NoSession /\ live[held[p].rt.lin] # held[p].rt.n
             THEN file ELSE NoSession
  /\ signedOut' = signedOut \cup Ended(p)
  /\ raced' = raced \cup {l \in Ended(p) : \E q \in Procs : Refreshing(q, l)}
  /\ Exit(p, "signedOut")
  /\ UNCHANGED <<clock, idpVars, waitsFor, broken, serverVars>>

\* os.unlink, whatever the file holds by now; its absence is no error.
Unlink(p) ==
  /\ pc[p] = "unlinking"
  /\ file' = NoSession
  /\ signedOut' = signedOut \cup Ended(p)
  /\ raced' = raced \cup {l \in Ended(p) : \E q \in Procs : Refreshing(q, l)}
  /\ Exit(p, "signedOut")
  /\ UNCHANGED <<clock, idpVars, waitsFor, broken, serverVars>>

-----------------------------------------------------------------------------
\* The process is killed at any point; a temporary file is never read again.
Crash(p) ==
  /\ pc[p] \notin {"ready", "done"}
  /\ broken' = broken \cup Dropped(p)
  /\ Exit(p, "crashed")
  /\ UNCHANGED <<waitsFor, baseVars, serverVars, signedOut, raced>>

\* Time passes, though not past the arrival of an answer that is on its way.
Tick ==
  /\ clock < MaxTime
  /\ \A p \in Procs : InTime(reply[p])
  /\ \A s \in Servers : InTime(grant[s])
  /\ clock' = clock + 1
  /\ UNCHANGED <<file, idpVars, serverVars, procVars, historyVars>>

ProcNext(p) ==
  \/ GetAccessToken(p) \/ StartAuth(p)
  \/ IdpRefresh(p) \/ Refreshed(p) \/ SaveRefreshed(p) \/ RefreshFails(p)
  \/ StartWithClient(p) \/ RegisterAndStart(p) \/ StartFails(p)
  \/ WaitForAuth(p) \/ PollSession(p) \/ ProbeServer(p) \/ Recheck(p)
  \/ WaitTimesOut(p)
  \/ SignOut(p) \/ Revoke(p) \/ Unlink(p)
  \/ Crash(p)

ServerStep(s) == ServerNext(s) /\ UNCHANGED <<procVars, historyVars>>

Next ==
  \/ \E p \in Procs : ProcNext(p)
  \/ \E s \in Servers : ServerStep(s)
  \/ Tick

Spec == Init /\ [][Next]_vars

-----------------------------------------------------------------------------
(* Fairness.  The scheduler runs a process that can step, calls of the     *)
(* provider return or raise, time passes.  Nothing is assumed of users     *)
(* (which commands they run, whether they sign in) or of the peers that    *)
(* connect to a callback server, except that a received request ends.      *)

CallEnds(p) == Refreshed(p) \/ SaveRefreshed(p) \/ RefreshFails(p)
WaitStep(p) == PollSession(p) \/ ProbeServer(p) \/ Recheck(p) \/ WaitTimesOut(p)

ServerWorks(s) ==
  /\ WF_vars(Wake(s) /\ UNCHANGED <<procVars, historyVars>>)
  /\ WF_vars(Expire(s) /\ UNCHANGED <<procVars, historyVars>>)
  /\ WF_vars(LoopStopped(s) /\ UNCHANGED <<procVars, historyVars>>)
  /\ WF_vars(RequestEnds(s) /\ UNCHANGED <<procVars, historyVars>>)
  /\ WF_vars(ExchangeEnds(s) /\ UNCHANGED <<procVars, historyVars>>)
  /\ WF_vars(ServerSave(s) /\ UNCHANGED <<procVars, historyVars>>)

Fairness ==
  /\ WF_vars(Tick)
  /\ \A p \in Procs : WF_vars(CallEnds(p)) /\ WF_vars(WaitStep(p))
  /\ \A s \in Servers : ServerWorks(s)

FairSpec == Spec /\ Fairness

-----------------------------------------------------------------------------
(* Properties.                                                              *)

\* What the session file holds belongs together: both tokens come from one
\* sign-in, it was made with the stored client, and the stored lifetime is the
\* one computed when that client was registered.  Refreshes, sign-ins and
\* sign-outs of other processes may come between a load and a save.
Coherent(s) ==
  /\ s.at.lin = s.rt.lin
  /\ s.client = grantedTo[s.rt.lin]
  /\ s.cexp = clientExp[s.client]

SessionCoherent == file # NoSession => Coherent(file)

\* A sign-in that a sign-out ended comes back only by the hand of an invocation
\* that was already refreshing it when the file was unlinked; no command that
\* starts later, and no running callback server, restores it.
SignOutSticks == \A l \in signedOut \ raced : file # NoSession => file.rt.lin # l

\* Concurrent refreshes never leave a dead refresh token in the file for good: it
\* is live, or a newer one is about to be saved, or a sign-out is about to remove
\* it, unless a crash, a lost answer or a raced sign-out broke the chain.
KeepsNewer(p, l) == Refreshing(p, l) /\ (pc[p] = "saving" \/ reply[p] # NoGrant)
Removes(p, l) == pc[p] = "unlinking" /\ held[p] # NoSession /\ held[p].rt.lin = l

StoredRefreshTokenLive ==
  file # NoSession =>
    LET l == file.rt.lin IN
    \/ live[l] = file.rt.n
    \/ l \in broken \cup raced
    \/ \E p \in Procs : KeepsNewer(p, l) \/ Removes(p, l)

\* A code is exchanged only if the genuine redirect was served and no request
\* served up to the end of the HTTP loop reported an error or a foreign state.
ExchangeOnlyAfterOwnCode ==
  \A s \in Servers :
    phase[s] \in {"exchanging", "saving"} =>
      "ownCode" \in served[s] /\ served[s] \cap {"denied", "strayCode"} = {}

\* auth-wait never reports a failure and leaves the callback server it waited for
\* behind: no port stays open and no later save can follow.
FailedWaitLeavesNoServer ==
  \A p \in Procs : result[p] \in {"exited", "timeout"} => phase[waitsFor[p]] = "exited"

Reports(p, r) == result[p] = "none" /\ result'[p] = r

\* auth-wait does not report "exited without completing" when the server it waits
\* for has put a usable session in the file, even between two of its reads.
WaitSeesSignIn ==
  [][\A p \in Procs :
       Reports(p, "exited") =>
         ~(TokenValid(file) /\ file.rt.lin = waitsFor[p])]_vars

\* get_access_token and start_auth hand out a cached token only while the provider
\* still honours it, although its expiry was computed from the local clock when
\* the answer arrived, later than the instant it was issued.
CachedTokenIsLive ==
  [][\A p \in Procs : Reports(p, "cached") => file.at.dies > clock]_vars

\* auth-wait returns: the sign-in, the server's exit or the deadline ends it.
WaitReturns == \A p \in Procs : (pc[p] = "polling") ~> (pc[p] = "done")

\* A callback server ends, or is held by a peer that connected and sends nothing.
ServerExitsUnlessPeerSilent ==
  \A s \in Servers :
    (phase[s] = "listening") ~> (phase[s] = "exited" \/ conn[s] = "silent")

-----------------------------------------------------------------------------
(* The session file as a register.                                          *)

\* The file: the sign-in of its session and the number of its refresh token.
Stored == {[by |-> s.rt.lin, n |-> s.rt.n] : s \in {file} \ {NoSession}}

Arriving == {s \in Servers : grant[s] # NoGrant \/ newSession[s] # NoSession}
Loaded == {l \in Lineages : \E p \in Procs : Refreshing(p, l)}
Pending == {l \in Lineages : \E p \in Procs : KeepsNewer(p, l)}

\* Sign-ins a sign-out ended or is about to, or whose newest token was lost.
Disturbed ==
  broken \cup raced \cup signedOut \cup {l \in Lineages : \E p \in Procs : Removes(p, l)}

Register == INSTANCE SessionRegister
  WITH SignIns <- Lineages, entry <- Stored, newest <- live, arriving <- Arriving,
       loaded <- Loaded, pending <- Pending, disturbed <- Disturbed

\* However many invocations load, refresh and save the session file without a lock,
\* the sessions of a sign-in enter it in order and none twice, and a sign-in that was
\* replaced or removed is back only by a refresh that had loaded it before
\* (get_access_token, start_auth, sign_out and the callback server).
RegisterImplemented == Register!RegisterSpec

-----------------------------------------------------------------------------
(* What the documentation says and the code does not do.                    *)

\* SKILL.md: after the session lifetime the interactive flow is required again.
NoTokenAfterSessionLifetime ==
  [][\A p \in Procs : Reports(p, "cached") => file.cexp > clock]_vars

\* sign_out's docstring: the next call requires re-auth.
SignedOutStaysOut == \A l \in signedOut : file # NoSession => file.rt.lin # l

\* auth_callback_server.py's docstring: listens for the OAuth callback.  While it has
\* received none, its HTTP loop is there to serve one.
ListensForCallback ==
  \A s \in Servers : phase[s] = "listening" /\ ~code_received(s) => conn[s] # "stopped"

\* auth_callback_server.py's docstring: writes session.json, and exits.
ServerExits == \A s \in Servers : (phase[s] = "listening") ~> (phase[s] = "exited")
=============================================================================
