------------------------------ MODULE AuthBase ------------------------------
(***************************************************************************)
(* The state the launch-with-aws commands share: the wall clock, the       *)
(* session file (~/.launch-with-aws/session.json) and the identity         *)
(* provider's view of clients and tokens.  Everything here is read and     *)
(* written by the modules CallbackServer and LaunchAuth.                   *)
(*                                                                         *)
(* A token is represented by what the identity provider knows of it: an    *)
(* access token by the sign-in it descends from and the instant it dies, a *)
(* refresh token by its sign-in and its position in the rotation.  A       *)
(* sign-in (a "lineage") is named by the callback server that completed    *)
(* it; Prior names the one the session file may hold at the start.         *)
(***************************************************************************)
EXTENDS Integers

CONSTANTS
  Servers,             \* callback server processes that may ever be started
  Prior,               \* the sign-in of the session file found at the start
  PriorSessions,       \* what that file may contain
  TokenExpiryBuffer,   \* TOKEN_EXPIRY_BUFFER_SECS
  MaxSessionLifetime,  \* MAX_SESSION_LIFETIME_SECS
  CallbackTimeout,     \* CALLBACK_TIMEOUT_SECS
  TokenLifetimes,      \* expiresIn of the tokens, DEFAULT_TOKEN_LIFETIME_SECS included
  SecretLifetimes,     \* lifetime the provider gives a client secret; 0: no expiry
  MaxDelay,            \* longest time a grant may be on its way to the caller
  Rotates,             \* TRUE: a refresh replaces the refresh token
  MaxRotations,        \* bound: refresh tokens issued per sign-in
  MaxTime,             \* bound: last instant of the clock
  NoSession,           \* load_session() returned None
  NoGrant              \* no token answer is on its way

Lineages == Servers \cup {Prior}

AccessToken == [lin: Lineages, dies: Int]
RefreshToken == [lin: Lineages, n: Nat]

Session == [client: Lineages, cexp: Int, at: AccessToken, rt: RefreshToken, texp: Int]

\* An answer of create_token: the token pair and its lifetime.
Grant == [at: AccessToken, rt: RefreshToken, life: Nat]

ASSUME ConstantsAssumption ==
  /\ Prior \notin Servers
  /\ TokenExpiryBuffer \in Nat
  /\ MaxSessionLifetime \in Nat
  /\ CallbackTimeout \in Nat
  /\ TokenLifetimes \subseteq Nat
  /\ SecretLifetimes \subseteq Nat
  /\ MaxDelay \in Nat
  /\ Rotates \in BOOLEAN
  /\ MaxRotations \in Nat
  /\ MaxTime \in Nat
  /\ NoSession \notin Session
  /\ NoGrant \notin Grant

\* The HTTP client gives up on an answer (60 s) well before the buffer (300 s).
ASSUME DelayAssumption == MaxDelay <= TokenExpiryBuffer

\* A session file found at the start was written by an earlier sign-in.
ASSUME PriorAssumption ==
  \A s \in PriorSessions :
    /\ s \in Session
    /\ s.client = Prior /\ s.at.lin = Prior /\ s.rt = [lin |-> Prior, n |-> 1]
    /\ s.texp <= s.at.dies + MaxDelay

VARIABLES
  clock,      \* int(time.time())
  file,       \* the session file: a Session, or NoSession when it is absent
  live,       \* the provider: number of the live refresh token of a sign-in, 0 if none
  grantedTo,  \* the provider: the client a sign-in was made with
  clientExp,  \* client_expires_at computed when the client was registered
  secretExp   \* the provider: when the client's secret expires, 0 if never

idpVars == <<live, grantedTo, clientExp, secretExp>>
baseVars == <<clock, file, live, grantedTo, clientExp, secretExp>>

BaseTypeOK ==
  /\ clock \in Nat
  /\ file \in Session \cup {NoSession}
  /\ live \in [Lineages -> Nat]
  /\ grantedTo \in [Lineages -> Lineages]
  /\ clientExp \in [Lineages -> Int]
  /\ secretExp \in [Lineages -> Int]

BaseInit ==
  /\ clock = 0
  /\ file \in PriorSessions \cup {NoSession}
  /\ live = [l \in Lineages |-> IF l = Prior THEN 1 ELSE 0]
  /\ grantedTo = [l \in Lineages |-> l]
  /\ clientExp = [l \in Lineages |->
                    IF l = Prior /\ file # NoSession THEN file.cexp ELSE 0]
  /\ secretExp = [l \in Lineages |-> 0]

-----------------------------------------------------------------------------
(* The decisions the code takes on a loaded session.                        *)

\* Mutant: the expiry is compared with the bare clock, without the buffer.
TokenValidNoBuffer(s) == s # NoSession /\ s.texp > clock

\* has_valid_session, and the same test in get_access_token and start_auth.
TokenValid(s) == s # NoSession /\ s.texp > clock + TokenExpiryBuffer

\* Silent refresh is tried only inside the session's own lifetime.
MayRefresh(s) == s # NoSession /\ s.cexp > clock

\* client_expires_at: the sooner of the secret's expiry and the cap.
ClientExpiry(life) ==
  IF life = 0 \/ life > MaxSessionLifetime
  THEN clock + MaxSessionLifetime
  ELSE clock + life

-----------------------------------------------------------------------------
(* The identity provider (external): what create_token may answer.          *)

SecretOK(c) == secretExp[c] = 0 \/ clock < secretExp[c]

\* The first tokens of sign-in l, valid for `life` from now.
FirstGrant(l, life) ==
  [at |-> [lin |-> l, dies |-> clock + life], rt |-> [lin |-> l, n |-> 1], life |-> life]

\* The provider still accepts the refresh token of s.
Refreshable(s) ==
  /\ live[s.rt.lin] = s.rt.n
  /\ SecretOK(s.client)
  /\ Rotates => s.rt.n < MaxRotations

RefreshGrant(s, life) ==
  [at   |-> [lin |-> s.rt.lin, dies |-> clock + life],
   rt   |-> [lin |-> s.rt.lin, n |-> IF Rotates THEN s.rt.n + 1 ELSE s.rt.n],
   life |-> life]

\* A grant may not be on its way for longer than MaxDelay.
InTime(g) == g # NoGrant => clock < (g.at.dies - g.life) + MaxDelay

\* Mutant: the refresh token of the answer is not kept.
WithAccessTokenOnly(s, g) == [s EXCEPT !.at = g.at, !.texp = clock + g.life]

\* token_expires_at counts from the moment the answer is read.
WithTokens(s, g) ==
  [client |-> s.client, cexp |-> s.cexp, at |-> g.at, rt |-> g.rt, texp |-> clock + g.life]
=============================================================================
