------------------------------ MODULE LaunchApi ------------------------------
(***************************************************************************)
(* The launch commands of launch_with_aws.py against the launch service.   *)
(* Every element of Calls is one invocation that runs one command that     *)
(* changes something: create-launch, refine-plan, start-launch-execution   *)
(* or delete-launch.  Such a command ends in one API call that botocore    *)
(* sends up to MaxAttempts times; a request may be executed without the    *)
(* answer arriving, even after the client has given up on it.  The agent   *)
(* polls get-launch-status in between.  The service is external and        *)
(* modelled from its service model.                                        *)
(***************************************************************************)
EXTENDS Integers, FiniteSets

CONSTANTS
  Calls,         \* invocations that change something
  Directories,   \* local directories that may be launched
  Repositories,  \* GitHub repository URLs
  OtherUrls,     \* http(s) URLs of anything else
  ContentOf,     \* the archive of a directory, or the repository itself
  Refused,       \* the content of what cannot be launched
  UploadIds,     \* uploadIds of create_upload_url
  LaunchIds,     \* ids of launches
  Earlier,       \* launches of earlier sessions, planned and not started
  Nobody,        \* whose invocations are gone
  MaxAttempts,   \* requests botocore sends for one call
  NoSource, NoUpload, NoLaunch, NoArchive

Sources == Directories \cup Repositories \cup OtherUrls
Contents == {ContentOf[s] : s \in Directories \cup Repositories} \ {Refused}

ASSUME LaunchAssumption ==
  /\ MaxAttempts \in Nat \ {0}
  /\ Directories \cap Repositories = {}
  /\ OtherUrls \cap (Directories \cup Repositories) = {}
  /\ \A s \in Repositories : ContentOf[s] # Refused
  /\ \A s \in OtherUrls : ContentOf[s] = Refused
  /\ NoSource \notin Sources
  /\ NoUpload \notin UploadIds
  /\ NoLaunch \notin LaunchIds
  /\ NoArchive \notin Contents
  /\ Earlier \subseteq LaunchIds
  /\ Nobody \notin Calls

VARIABLES
  pc,        \* where the invocation is
  cmd,       \* the command it runs
  source,    \* the source of create-launch
  upload,    \* target["uploadId"]
  launch,    \* launch_id: the argument, or what create-launch reported
  tries,     \* attempts of its API call
  result,    \* "none", "ok" or "failed"
  uploads,   \* the service: what has been put to an upload, NoArchive before
  issued,    \* the service: the uploads it has handed out
  launches,  \* the service: its launches
  applied,   \* the service: invocations whose change of a launch it has made
  wire,      \* requests sent and not yet handled
  watching   \* launches it polls until they are complete or have failed

callVars == <<pc, cmd, source, upload, launch, tries, result>>
serviceVars == <<uploads, issued, launches, applied>>
vars == <<callVars, serviceVars, wire, watching>>

PCs == {"ready", "raised", "url", "put", "send", "await", "done"}
Commands == {"create", "refine", "start", "delete"}

Statuses == {"analyzing", "awaiting_input", "planning", "planned", "executing",
             "completed", "failed", "deleting", "gone"}

ClientTokenOfAttempt(c, n) == <<c, n>>

\* The idempotency token botocore puts into a call that was given none: one for
\* the call, whatever the attempt.
ClientToken(c, n) == <<c, 1>>

Launch == [status: Statuses, content: Contents, by: Calls \cup {Nobody},
           token: {ClientToken(c, n) : c \in Calls \cup {Nobody}, n \in 1..MaxAttempts}]

ASSUME NoLaunchAssumption == NoLaunch \notin Launch

Request == [call: Calls, n: 1..MaxAttempts]

TypeOK ==
  /\ pc \in [Calls -> PCs]
  /\ cmd \in [Calls -> Commands \cup {"none"}]
  /\ source \in [Calls -> Sources \cup {NoSource}]
  /\ upload \in [Calls -> UploadIds \cup {NoUpload}]
  /\ launch \in [Calls -> LaunchIds \cup {NoLaunch}]
  /\ tries \in [Calls -> 0..MaxAttempts]
  /\ result \in [Calls -> {"none", "ok", "failed"}]
  /\ uploads \in [UploadIds -> Contents \cup {NoArchive}]
  /\ issued \subseteq UploadIds
  /\ launches \in [LaunchIds -> Launch \cup {NoLaunch}]
  /\ applied \subseteq Calls
  /\ wire \subseteq Request
  /\ watching \subseteq LaunchIds

Init ==
  /\ pc = [c \in Calls |-> "ready"]
  /\ cmd = [c \in Calls |-> "none"]
  /\ source = [c \in Calls |-> NoSource]
  /\ upload = [c \in Calls |-> NoUpload]
  /\ launch = [c \in Calls |-> NoLaunch]
  /\ tries = [c \in Calls |-> 0]
  /\ result = [c \in Calls |-> "none"]
  /\ uploads = [u \in UploadIds |-> NoArchive]
  /\ issued = {}
  /\ \E s \in Repositories :
       launches = [l \in LaunchIds |->
         IF l \in Earlier
         THEN [status |-> "planned", content |-> ContentOf[s], by |-> Nobody,
               token |-> ClientToken(Nobody, 1)]
         ELSE NoLaunch]
  /\ applied = {}
  /\ wire = {}
  /\ watching = {}

Go(c, where) == pc' = [pc EXCEPT ![c] = where]

\* The process exits: _ok or _fail.
Exit(c, r) ==
  /\ Go(c, "done")
  /\ result' = [result EXCEPT ![c] = r]

-----------------------------------------------------------------------------
(* The commands up to their API call.                                       *)

\* A repository is passed on; a directory is zipped, which may be refused; any
\* other URL is refused.
CreateLaunch(c, s) ==
  /\ pc[c] = "ready"
  /\ cmd' = [cmd EXCEPT ![c] = "create"]
  /\ source' = [source EXCEPT ![c] = s]
  /\ \/ s \in Repositories /\ Go(c, "send")
     \/ s \in Directories /\ ContentOf[s] # Refused /\ Go(c, "url")
     \/ s \notin Repositories /\ ContentOf[s] = Refused /\ Go(c, "raised")
  /\ UNCHANGED <<upload, launch, tries, result, serviceVars, wire, watching>>

\* Which name is next does not matter.
FreshUpload == CHOOSE u \in UploadIds \ issued : TRUE

CreateUploadUrl(c) ==
  /\ pc[c] = "url"
  /\ UploadIds \ issued # {}
  /\ upload' = [upload EXCEPT ![c] = FreshUpload]
  /\ issued' = issued \cup {FreshUpload}
  /\ Go(c, "put")
  /\ UNCHANGED <<cmd, source, launch, tries, result, uploads, launches, applied, wire, watching>>

Store(c) == uploads' = [uploads EXCEPT ![upload[c]] = ContentOf[source[c]]]

PutArchiveErrorSwallowed(c) ==
  /\ pc[c] = "put"
  /\ Store(c) \/ UNCHANGED uploads
  /\ Go(c, "send")
  /\ UNCHANGED <<cmd, source, upload, launch, tries, result, issued, launches, applied,
                 wire, watching>>

\* put_archive does not retry; the archive may be stored although it fails.
PutArchive(c) ==
  /\ pc[c] = "put"
  /\ \/ Store(c) /\ Go(c, "send")
     \/ Store(c) /\ Go(c, "raised")
  /\ UNCHANGED <<cmd, source, upload, launch, tries, result, issued, launches, applied,
                 wire, watching>>

\* list_launches asks for one page, which may hold any launch.
ListLaunches == {l \in LaunchIds : launches[l] # NoLaunch /\ launches[l].status # "gone"}

\* The launches the agent can name: those it was told of and those on a page.
Known == ListLaunches \cup {launch[c] : c \in {d \in Calls : result[d] = "ok"}}

\* refine-plan, start-launch-execution and delete-launch name a launch.
CommandOnLaunch(c, what, l) ==
  /\ pc[c] = "ready"
  /\ what \in Commands \ {"create"}
  /\ l \in Known
  /\ cmd' = [cmd EXCEPT ![c] = what]
  /\ launch' = [launch EXCEPT ![c] = l]
  /\ Go(c, "send")
  /\ UNCHANGED <<source, upload, tries, result, serviceVars, wire, watching>>

\* No session, an unsafe base URL, an error that is not retried, an upload
\* that stored nothing, an error raised before: main reports it and exits.
CommandFails(c) ==
  /\ pc[c] \in {"raised", "url", "put", "send"}
  /\ Exit(c, "failed")
  /\ UNCHANGED <<cmd, source, upload, launch, tries, serviceVars, wire, watching>>

-----------------------------------------------------------------------------
(* The API call.                                                            *)

Send(c) ==
  /\ pc[c] = "send"
  /\ tries' = [tries EXCEPT ![c] = @ + 1]
  /\ wire' = wire \cup {[call |-> c, n |-> tries'[c]]}
  /\ Go(c, "await")
  /\ UNCHANGED <<cmd, source, upload, launch, result, serviceVars, watching>>

AttemptFailsOffByOne(c) ==
  /\ pc[c] = "await"
  /\ \/ tries[c] <= MaxAttempts /\ Go(c, "send") /\ UNCHANGED result
     \/ tries[c] > MaxAttempts /\ Exit(c, "failed")
  /\ UNCHANGED <<cmd, source, upload, launch, tries, serviceVars, wire, watching>>

AttemptFailsUncounted(c) ==
  /\ pc[c] = "await"
  /\ Go(c, "send")
  /\ tries' = [tries EXCEPT ![c] = 0]
  /\ UNCHANGED <<cmd, source, upload, launch, result, serviceVars, wire, watching>>

\* The read timeout, a broken connection or an error that is retried.
AttemptFails(c) ==
  /\ pc[c] = "await"
  /\ \/ tries[c] < MaxAttempts /\ Go(c, "send") /\ UNCHANGED result
     \/ tries[c] = MaxAttempts /\ Exit(c, "failed")
  /\ UNCHANGED <<cmd, source, upload, launch, tries, serviceVars, wire, watching>>

Made(token) == {l \in LaunchIds : launches[l] # NoLaunch /\ launches[l].token = token}

\* The source of a create request: what the named upload holds, or the repository.
SourceOf(c) ==
  IF source[c] \in Directories THEN uploads[upload[c]] ELSE ContentOf[source[c]]

FreshLaunch == CHOOSE l \in LaunchIds : launches[l] = NoLaunch

\* A launch for request r under id l; the same token gets the same launch.
ServeCreate(r, l) ==
  LET c == r.call
      made == Made(ClientToken(c, r.n))
  IN  \/ l \in made /\ UNCHANGED launches
      \/ /\ made = {} /\ launches[l] = NoLaunch /\ l = FreshLaunch
         /\ SourceOf(c) # NoArchive
         /\ launches' = [launches EXCEPT ![l] =
              [status |-> "analyzing", content |-> SourceOf(c), by |-> c,
               token |-> ClientToken(c, r.n)]]

SetStatus(l, s) == launches' = [launches EXCEPT ![l].status = s]

\* A change of launch l.  refine-plan and start-launch-execution carry a token:
\* repeated, they change nothing.
ServeChange(r, l) ==
  LET c == r.call
  IN  /\ launches[l] # NoLaunch
      /\ l = launch[c]
      /\ applied' = applied \cup {c}
      /\ \/ /\ cmd[c] = "refine" /\ c \notin applied
            /\ launches[l].status \in {"awaiting_input", "planned"}
            /\ SetStatus(l, "planning")
         \/ /\ cmd[c] = "start" /\ c \notin applied
            /\ launches[l].status = "planned"
            /\ SetStatus(l, "executing")
         \/ /\ cmd[c] = "delete"
            /\ launches[l].status # "gone"
            /\ SetStatus(l, "deleting")
         \/ /\ cmd[c] \in {"refine", "start"} /\ c \in applied
            /\ UNCHANGED launches

\* The service executes r on launch l.  The answer reaches the invocation if it
\* still waits for this attempt, or is lost.
Serve(r, l) ==
  /\ r \in wire
  /\ wire' = wire \ {r}
  /\ \/ cmd[r.call] = "create" /\ ServeCreate(r, l) /\ UNCHANGED applied
     \/ cmd[r.call] # "create" /\ ServeChange(r, l)
  /\ \/ /\ pc[r.call] = "await" /\ tries[r.call] = r.n
        /\ Exit(r.call, "ok")
        /\ launch' = [launch EXCEPT ![r.call] = l]
        /\ watching' = IF cmd[r.call] = "start" THEN watching \cup {l} ELSE watching
     \/ UNCHANGED <<pc, result, launch, watching>>
  /\ UNCHANGED <<cmd, source, upload, tries, uploads, issued>>

\* The service refuses r (not found, conflict, validation), or r never arrives.
Refuse(r) ==
  /\ r \in wire
  /\ wire' = wire \ {r}
  /\ \/ pc[r.call] = "await" /\ tries[r.call] = r.n /\ Exit(r.call, "failed")
     \/ UNCHANGED <<pc, result>>
  /\ UNCHANGED <<cmd, source, upload, launch, tries, serviceVars, watching>>

-----------------------------------------------------------------------------
(* Reads.                                                                   *)

IsComplete(status) == status = "completed"
IsFailedNever(status) == FALSE
IsFailed(status) == status = "failed"

\* One get-launch-status of the agent that follows an execution: it goes on
\* until the launch is complete, has failed, or is no longer there.
GetLaunchStatus(l) ==
  /\ l \in watching
  /\ LET status == launches[l].status
     IN  watching' = IF IsComplete(status) \/ IsFailed(status) \/ status = "gone"
                     THEN watching \ {l} ELSE watching
  /\ UNCHANGED <<callVars, serviceVars, wire>>

-----------------------------------------------------------------------------
(* The service on its own.                                                  *)

Progress ==
  {<<"analyzing", "awaiting_input">>, <<"analyzing", "planning">>, <<"analyzing", "failed">>,
   <<"planning", "awaiting_input">>, <<"planning", "planned">>, <<"planning", "failed">>,
   <<"executing", "completed">>, <<"executing", "failed">>, <<"deleting", "gone">>}

ServiceStep(l) ==
  /\ launches[l] # NoLaunch
  /\ \E s \in Statuses :
       /\ <<launches[l].status, s>> \in Progress
       /\ SetStatus(l, s)
  /\ UNCHANGED <<callVars, uploads, issued, applied, wire, watching>>

Next ==
  \/ \E c \in Calls :
       \/ \E s \in Sources : CreateLaunch(c, s)
       \/ CreateUploadUrl(c)
       \/ PutArchive(c)
       \/ \E what \in Commands, l \in LaunchIds : CommandOnLaunch(c, what, l)
       \/ CommandFails(c)
       \/ Send(c)
       \/ AttemptFails(c)
  \/ \E r \in wire : (\E l \in LaunchIds : Serve(r, l)) \/ Refuse(r)
  \/ \E l \in LaunchIds : GetLaunchStatus(l) \/ ServiceStep(l)

Spec == Init /\ [][Next]_vars

\* An invocation runs, its attempts time out, the agent goes on polling, and the
\* service finishes what it has begun; nothing says that it ever answers.
Works(c) == CreateUploadUrl(c) \/ PutArchive(c) \/ CommandFails(c) \/ Send(c) \/ AttemptFails(c)

Fairness ==
  /\ \A c \in Calls : WF_vars(Works(c))
  /\ \A l \in LaunchIds :
       /\ WF_vars(GetLaunchStatus(l))
       /\ WF_vars(launches[l] # NoLaunch /\ launches[l].status \in {"executing", "deleting"}
                   /\ ServiceStep(l))

FairSpec == Spec /\ Fairness

-----------------------------------------------------------------------------
(* Properties.                                                              *)

\* When create-launch sends a request, and as long as one is under way, the
\* upload it names is its own and holds the archive of its own directory:
\* cmd_create_launch uploads before it creates, and stops when that failed.
UploadComesFirst ==
  \A c \in Calls :
    (source[c] \in Directories /\ (pc[c] \in {"send", "await"} \/ \E r \in wire : r.call = c))
    => /\ upload[c] # NoUpload
       /\ uploads[upload[c]] = ContentOf[source[c]]
       /\ \A d \in Calls \ {c} : upload[d] # upload[c]

\* What the ledger calls made, asked and told.
LaunchesOf(c) ==
  {[id |-> l, content |-> launches[l].content] :
     l \in {k \in LaunchIds : launches[k] # NoLaunch /\ launches[k].by = c}}

Told(c) == IF cmd[c] = "create" /\ result[c] # "none" THEN result[c] ELSE "nothing"

Ledger == INSTANCE LaunchLedger
  WITH asked <- source, made <- [c \in Calls |-> LaunchesOf(c)],
       told <- [c \in Calls |-> Told(c)]

\* Whatever is lost, late or repeated: an invocation of create-launch makes at
\* most one launch, of the source it was asked for, and reports only launches
\* that exist (create_launch with the idempotency token of botocore).
LedgerImplemented == Ledger!LedgerSpec

\* Every invocation ends: attempts are counted and time out.
InvocationEnds == \A c \in Calls : pc[c] # "ready" ~> pc[c] = "done"

\* The polling of a started launch ends, however the launch ends:
\* cmd_get_launch_status tells completion and failure apart from the rest.
WatchEnds == \A l \in LaunchIds : l \in watching ~> l \notin watching
=============================================================================
