--------------------------- MODULE CallbackServer ---------------------------
(***************************************************************************)
(* auth_callback_server.py: the background process start_auth spawns.  Its *)
(* main thread waits for the OAuth redirect, stops the HTTP loop, exchanges *)
(* the code and writes the session file; the loop runs _CallbackHandler on *)
(* one connection at a time in a thread of its own.                        *)
(***************************************************************************)
EXTENDS AuthBase

VARIABLES
  phase,     \* what the main thread of the server is doing
  conn,      \* what the HTTP loop is serving; "none"; "stopped" when its thread died
  code,      \* _OAuthState.auth_code is set
  error,     \* _OAuthState.error is set
  expiry,    \* when code_received.wait(timeout) gives up
  cred,      \* client id and client_expires_at received on stdin
  grant,     \* the answer of _exchange_code on its way
  newSession,\* the session about to be saved
  served     \* history: requests whose handler ran to its end

serverVars == <<phase, conn, code, error, expiry, cred, grant, newSession, served>>

\* What a connection to the loopback port turns out to be: an error redirect, a
\* code with a foreign state, a request without code (favicon), the genuine
\* redirect, or a peer that connects and sends nothing.
Requests == {"denied", "strayCode", "noCode", "ownCode", "silent"}

\* unused -> listening -> closing | expired -> exchanging -> saving -> exited
Phases == {"unused", "listening", "closing", "expired", "exchanging", "saving", "exited"}

Credentials == [client: Lineages, cexp: Int]
NoCredentials(s) == [client |-> s, cexp |-> 0]

ServerTypeOK ==
  /\ phase \in [Servers -> Phases]
  /\ conn \in [Servers -> Requests \cup {"none", "stopped"}]
  /\ code \in [Servers -> BOOLEAN]
  /\ error \in [Servers -> BOOLEAN]
  /\ expiry \in [Servers -> Nat]
  /\ cred \in [Servers -> Credentials]
  /\ grant \in [Servers -> Grant \cup {NoGrant}]
  /\ newSession \in [Servers -> Session \cup {NoSession}]
  /\ served \in [Servers -> SUBSET Requests]

ServerInit ==
  /\ phase = [s \in Servers |-> "unused"]
  /\ conn = [s \in Servers |-> "none"]
  /\ code = [s \in Servers |-> FALSE]
  /\ error = [s \in Servers |-> FALSE]
  /\ expiry = [s \in Servers |-> 0]
  /\ cred = [s \in Servers |-> NoCredentials(s)]
  /\ grant = [s \in Servers |-> NoGrant]
  /\ newSession = [s \in Servers |-> NoSession]
  /\ served = [s \in Servers |-> {}]

code_received(s) == code[s] \/ error[s]
Alive(s) == phase[s] \notin {"unused", "exited"}

\* The process is gone, and with it whatever it held in memory.
Gone(s) ==
  /\ phase' = [phase EXCEPT ![s] = "exited"]
  /\ conn' = [conn EXCEPT ![s] = "none"]
  /\ code' = [code EXCEPT ![s] = FALSE]
  /\ error' = [error EXCEPT ![s] = FALSE]
  /\ expiry' = [expiry EXCEPT ![s] = 0]
  /\ cred' = [cred EXCEPT ![s] = NoCredentials(s)]
  /\ grant' = [grant EXCEPT ![s] = NoGrant]
  /\ newSession' = [newSession EXCEPT ![s] = NoSession]
  /\ served' = [served EXCEPT ![s] = {}]

\* start_auth spawns the process, hands it the credentials and reads its port.
Spawn(s, c) ==
  /\ phase[s] = "unused"
  /\ phase' = [phase EXCEPT ![s] = "listening"]
  /\ expiry' = [expiry EXCEPT ![s] = clock + CallbackTimeout]
  /\ cred' = [cred EXCEPT ![s] = c]
  /\ UNCHANGED <<conn, code, error, grant, newSession, served>>

-----------------------------------------------------------------------------
(* The HTTP loop.                                                           *)

\* serve_forever accepts the next connection; shutdown() ends the loop.
Accept(s) ==
  /\ phase[s] = "listening"
  /\ conn[s] = "none"
  /\ \E r \in Requests : conn' = [conn EXCEPT ![s] = r]
  /\ UNCHANGED <<phase, code, error, expiry, cred, grant, newSession, served, baseVars>>

\* do_GET: an error redirect and a code with a foreign state record an error, the
\* genuine redirect records the code, a request without code is answered 204.
DoGet(s) ==
  /\ conn[s] \in Requests \ {"silent"}
  /\ error' = [error EXCEPT ![s] = @ \/ conn[s] \in {"denied", "strayCode"}]
  /\ code' = [code EXCEPT ![s] = @ \/ conn[s] = "ownCode"]
  /\ served' = [served EXCEPT ![s] = @ \cup {conn[s]}]
  /\ conn' = [conn EXCEPT ![s] = "none"]
  /\ UNCHANGED <<phase, expiry, cred, grant, newSession, baseVars>>

\* A peer that sent nothing closes its end: the handler returns.
PeerCloses(s) ==
  /\ conn[s] = "silent"
  /\ conn' = [conn EXCEPT ![s] = "none"]
  /\ UNCHANGED <<phase, code, error, expiry, cred, grant, newSession, served, baseVars>>

\* The connection is reset under the handler, before it has recorded anything.  The
\* report of the exception goes to a stderr whose reader start_auth has closed, and
\* the error of that write ends the thread of the HTTP loop.
PeerResets(s) ==
  /\ conn[s] \in Requests
  /\ conn' = [conn EXCEPT ![s] = "stopped"]
  /\ UNCHANGED <<phase, code, error, expiry, cred, grant, newSession, served, baseVars>>

-----------------------------------------------------------------------------
(* The main thread.                                                         *)

\* code_received.wait() returned: shutdown() tells the loop to stop.
Wake(s) ==
  /\ phase[s] = "listening"
  /\ code_received(s)
  /\ phase' = [phase EXCEPT ![s] = "closing"]
  /\ UNCHANGED <<conn, code, error, expiry, cred, grant, newSession, served, baseVars>>

\* Mutant: code_received.wait() is called without its timeout.
ExpireNever(s) == FALSE /\ UNCHANGED <<serverVars, baseVars>>

\* code_received.wait() timed out: shutdown(), then exit 1.
Expire(s) ==
  /\ phase[s] = "listening"
  /\ ~code_received(s)
  /\ clock >= expiry[s]
  /\ phase' = [phase EXCEPT ![s] = "expired"]
  /\ UNCHANGED <<conn, code, error, expiry, cred, grant, newSession, served, baseVars>>

\* Mutant: error and auth_code are tested before shutdown() has returned.
LoopStoppedEarlyTest(s) ==
  /\ phase[s] \in {"closing", "expired"}
  /\ IF phase[s] = "expired" \/ error[s] \/ ~code[s]
     THEN Gone(s)
     ELSE /\ phase' = [phase EXCEPT ![s] = "exchanging"]
          /\ UNCHANGED <<conn, code, error, expiry, cred, grant, newSession, served>>
  /\ UNCHANGED baseVars

\* shutdown() returns once the request being handled is finished; the verdict of
\* the requests is read only then.
LoopStopped(s) ==
  /\ phase[s] \in {"closing", "expired"}
  /\ conn[s] \notin Requests
  /\ IF phase[s] = "expired" \/ error[s] \/ ~code[s]
     THEN Gone(s)
     ELSE /\ phase' = [phase EXCEPT ![s] = "exchanging"]
          /\ UNCHANGED <<conn, code, error, expiry, cred, grant, newSession, served>>
  /\ UNCHANGED baseVars

\* The provider accepts the code: the sign-in s begins (external).
IdpExchange(s) ==
  /\ phase[s] = "exchanging"
  /\ grant[s] = NoGrant
  /\ SecretOK(cred[s].client)
  /\ \E life \in TokenLifetimes : grant' = [grant EXCEPT ![s] = FirstGrant(s, life)]
  /\ live' = [live EXCEPT ![s] = 1]
  /\ grantedTo' = [grantedTo EXCEPT ![s] = cred[s].client]
  /\ UNCHANGED <<phase, conn, code, error, expiry, cred, newSession, served>>
  /\ UNCHANGED <<clock, file, clientExp, secretExp>>

\* _exchange_code returns; the session joins the credentials and the tokens.
Exchanged(s) ==
  /\ phase[s] = "exchanging"
  /\ grant[s] # NoGrant
  /\ newSession' = [newSession EXCEPT ![s] =
       [client |-> cred[s].client, cexp |-> cred[s].cexp, at |-> grant[s].at,
        rt |-> grant[s].rt, texp |-> clock + grant[s].life]]
  /\ grant' = [grant EXCEPT ![s] = NoGrant]
  /\ phase' = [phase EXCEPT ![s] = "saving"]
  /\ UNCHANGED <<conn, code, error, expiry, cred, served, baseVars>>

\* save_session: os.replace puts the whole file in place, and the process exits.
ServerSave(s) ==
  /\ phase[s] = "saving"
  /\ file' = newSession[s]
  /\ Gone(s)
  /\ UNCHANGED <<clock, idpVars>>

\* The exchange or the save raises, or the process is killed.
ServerDies(s) ==
  /\ Alive(s)
  /\ Gone(s)
  /\ UNCHANGED baseVars

ServerNext(s) ==
  \/ Accept(s)
  \/ DoGet(s)
  \/ PeerCloses(s)
  \/ PeerResets(s)
  \/ Wake(s)
  \/ Expire(s)
  \/ LoopStopped(s)
  \/ IdpExchange(s)
  \/ Exchanged(s)
  \/ ServerSave(s)
  \/ ServerDies(s)

\* A received request is handled or its connection is reset; _exchange_code
\* returns or raises (the HTTP client has timeouts).
RequestEnds(s) == conn[s] # "silent" /\ (DoGet(s) \/ PeerResets(s))
ExchangeEnds(s) == phase[s] = "exchanging" /\ (Exchanged(s) \/ ServerDies(s))
=============================================================================
