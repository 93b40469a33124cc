# A TLA+ model of SimpleBrain

This directory holds the formal model of the programs in this repository: TLA+
modules, the TLC configurations that check them on small instances, and proofs
checked by TLAPS. The code is the reference; a definition names in
`PROJECT.json` ("map") the source lines it stands for.

All programs of the repository with a behaviour of their own are modelled: the
sign-in and the launch commands of `launch-with-aws`, its archives, the dynamic
instrumentation commands and the snapshot search of `aws-observability`, the
`/ship` script, the agent manifest fetcher and the vault's three installers. What
is left out, and why, is in section 6.

## 1. Inventory

Most of the repository is prose for people and agents. The programs are:

### 1.1 launch-with-aws: sign-in (`skills/launch-with-aws/scripts/auth.py`, `auth_callback_server.py`, `launch_config.py`, `launch_with_aws.py`)

- **State.** The session file `~/.launch-with-aws/session.json` (client
  registration and its lifetime, access token and its expiry, refresh token),
  replaced as a whole by `os.replace`; the memory of each command (the loaded
  `session`, `now`); the memory of a callback server (`_OAuthState`, the
  credentials read from stdin); at the provider, the client, its secret's
  lifetime and which refresh token of a sign-in is the live one.
- **Operations.** `get_access_token`, `start_auth`, `wait_for_auth`, `sign_out`,
  `session_status` (a read); in the server `do_GET`, the wait for the code,
  `shutdown`, `_exchange_code`, `save_session`.
- **Interaction.** Each command is a process of its own. `start_auth` spawns the
  callback server and passes it the credentials over stdin; after that they share
  only the session file, a pid (`os.kill(pid, 0)`, SIGTERM) and the clock. There
  is no lock.
- **Hard behaviour.** Refreshes by several processes with one rotating refresh
  token; a save after somebody else's sign-out; requests that arrive between the
  code and the end of the HTTP loop; a peer that never sends, a connection that is
  reset; three timeouts that race (the server's, auth-wait's, the tokens');
  crashes and lost answers.
- **Correct when** the file never mixes two sign-ins, a sign-out sticks, the
  stored refresh token is alive, no code is exchanged after an error, a cached
  token is still honoured, auth-wait reports what happened and returns, and a
  failed wait leaves no server behind.

### 1.2 launch-with-aws: launches (`launch_api_client.py`, `launch_with_aws.py`)

- **State.** In an invocation its command, its upload target, the attempts of its
  one API call; at the service the uploads and what they hold, the launches with
  their status and the idempotency token they were made with; on the wire,
  requests that were sent and not yet handled.
- **Operations.** `create-launch` (zip, request an upload, put, create), `refine-plan`,
  `start-launch-execution`, `delete-launch`, `list-launches`, `get-launch-status`.
- **Hard behaviour.** A request that is executed although its answer is lost, or after
  the client gave up; the repetition of a create; an upload that fails or is stored
  although the put fails; a launch whose status changes while it is watched.
- **Correct when** nothing is created before its upload, one invocation makes at most
  one launch and of what it was asked for, success is told only of a launch that
  exists, and invocations and watches end.

### 1.3 launch-with-aws: archives (`archive.py`)

- **State.** The files of a directory and what git says of them; the entries of an
  archive; the bytes read so far of a download.
- **Operations.** `zip_local_repo`, `validate_archive_bytes`, `download_github_zip`.
- **Hard behaviour.** git that is missing, refuses or hangs; limits at equality; an entry
  that packs to nothing; redirects; a body cut into chunks around the cap.
- **Correct when** no ignored file and no secret is uploaded, every limit is exact, and
  what is kept of a download never passes the cap.

### 1.4 aws-observability: instrumentation commands (`di_instrumentation.py` and `di_*.py`)

- **State.** The configurations at the service, one per location, each a generation of
  its own with its creation time; the status events SDKs report; the command under
  way with its call, its attempts and what it has found.
- **Operations.** Create, list by pages, batch delete by scope and by ARNs, delete, get,
  get-status, check-status (`assess`: up to four calls).
- **Hard behaviour.** Batches that fail in part; empty pages with a continuation token;
  events of an earlier configuration at the same location; a query that fails in the
  middle of an assessment; others who create and delete meanwhile; repeated requests.
- **Correct when** exit code 0 means that it is done, a verdict follows the events, ACTIVE
  is of the present configuration, and no page is skipped. Of the inputs: what can
  never fire is refused, what was created is found again and shown as it is.

### 1.5 aws-observability: snapshot search (`di_snapshots.py`, `di_snapshot_*.py`)

- **State.** The arguments, the query at the Logs service and its rows, the polling time
  left, what is printed, the exit code.
- **Operations.** `search` and `sample`: check, start the query, poll, render; the summary
  of one snapshot; the escaping of a text that goes into a query.
- **Hard behaviour.** A query that ends in any way or never; a poll that gives up; windows
  cut to whole seconds; rows that are no JSON objects; captured values that are null, not captured,
  cut or nested; filters that are passed on unescaped.
- **Correct when** exit code 0 is an answer, the window is sound, the search ends, a summary
  shows what was captured and nothing else, an escaped text stays one literal, and the
  check of a filter's quotes is right (it is not, see 3).

### 1.6 /ship pipeline (`coding/ship-workflow.js`, `coding/ship/`)

- **State.** The stage, the answers of the agents, the `.pipeline/*.md` files, which no run
  removes.
- **Operations.** Plan, build, test, review, each with stop conditions.
- **Hard behaviour.** Answers that are missing or lack fields; files of an earlier run.
- **Correct when** a verdict is returned only on green tests, a specification without open
  questions, and files of the same run (an answer without `blockedOnOpenQuestions` breaks the
  last two, see 3).

### 1.7 amazon-bedrock: agent manifest fetcher (`fetch_bedrock_agent.py`)

- **State.** The manifest under construction, the outcome of each call.
- **Hard behaviour.** Errors that are tolerated inside a manifest that looks complete.
- **Correct when** what is missing from a manifest is missing with an error, and a manifest of
  the DRAFT says that production may differ.

### 1.8 Installers (`coding/ship/install.ps1`, `skills/install.ps1`, `user-memory/install.ps1`)

State: the checked-out vault; the skill directories, agents, command, memory file
and its backups under `~/.claude`; git's `core.excludesFile` and the file it names.
Operations: add, update, keep, back up, add the ignore rule, dry run. Others write
to the same files: the session-start hook (`protocols/skills.md:10`), the user. Hard:
failure between or in two file operations, the hook between a removal and a copy,
hand-written content. Correct when a completed run leaves the vault's files,
hand-written content survives, a dry run writes nothing, and git ignores `.pipeline/`.

### 1.9 How they interact

`create-launch` takes its token from the sign-in and its bytes from the archive code; the
installers put the skills, the agents and the `/ship` command where Claude Code runs
them. Between these parts there is nothing but files and exit codes, so each is a model of
its own: `LaunchApi` takes a session that is or is not there (`CommandFails`) and the
content of a directory, or its refusal, as given.

## 2. Modules

| module | stands for | contains |
|---|---|---|
| `AuthBase` | what the processes share | clock, session file, the provider's bookkeeping; the decisions on a loaded session (`TokenValid`, `MayRefresh`, `ClientExpiry`); what `create_token` may answer |
| `CallbackServer` | `auth_callback_server.py` and `_CallbackHandler` | one record of state per server, its HTTP loop and its main thread |
| `LaunchAuth` | the commands of `auth.py` | one process per invocation; composes the commands, the servers and the clock; properties and fairness |
| `SessionRegister` | what the sign-in commands make of the session file together | the abstract specification: a register without processes or answers; `LaunchAuth` implements it |
| `LaunchLedger` | what create-launch promises | the abstract specification: asked, made, told |
| `LaunchApi` | the launch commands, botocore's attempts, the launch service | one process per invocation, requests on the wire, the launches; implements `LaunchLedger` |
| `Instrumentation` | `di_instrumentation.py` and the service behind it | one command after the other against a service others use too |
| `InstrInputs` | `di_validation.py`, `di_location.py`, `di_capture.py` | what create refuses and sends, how a configuration is named, what is shown |
| `Snapshots` | `di_snapshots.py` | one search from its arguments to its exit code |
| `SnapshotParsing` | `di_snapshot_parsing.py` | the preview of a captured value, escaping, the quote check |
| `Archive` | `zip_local_repo`, `validate_archive_bytes` | which files are zipped, which archives accepted |
| `ArchiveDownload` | `download_github_zip`, `_read_capped` | redirects and the capped read |
| `ShipWorkflow` | `ship-workflow.js` | the stages and gates, run repeatedly in one checkout |
| `AgentManifest` | `fetch_bedrock_agent.py` | what becomes of the outcome of every call |
| `Scripts` | the short programs | composes the previous seven (`InstrInputs` to `AgentManifest`): a behaviour runs one of them |
| `InstallerBase` | what the three `install.ps1` share | the checkout, the script that is running, `-Check` |
| `SkillsInstaller`, `MemoryInstaller`, `ShipInstaller` | one script each | its files, its place in the script, the other writers |
| `Installers` | a machine with the three | composition and properties |
| `MC*` | - | the instances for TLC: `MCLaunchAuth`, `MCLaunchApi`, `MCInstrumentation`, `MCScripts`, `MCInstallers` |
| `*Proofs` | - | the theorems: `LaunchAuthProofs`, `RefreshChainProofs`, `LaunchApiProofs`, `InstrumentationProofs`, `ScriptsProofs`, `PureToolsProofs`, `InstallersProofs` |
| `RecursionLemmas` | - | induction over numbers, and what a recursive function, a fold and `FlattenSeq` return, for `PureToolsProofs` |

`LaunchAuth` extends `CallbackServer`, which extends `AuthBase`: the three share the
session file and the provider, so they share variables. `Instrumentation` extends
`InstrInputs` for the names of arguments that were not given. The tools of `Scripts` share
nothing; they are one module so that every sequential program has a place where its
inputs are enumerated, not because they interact.

### 2.1 Sign-in: state and code

| variable | in the code |
|---|---|
| `clock` | `int(time.time())` |
| `file` | the session file; `NoSession` when `load_session` returns `None` |
| `live`, `grantedTo`, `clientExp`, `secretExp` | the provider: live refresh token of a sign-in, client it was made with, `client_expires_at` computed at registration, end of the secret |
| `phase[s]` | where `main` of server `s` is: listening (`code_received.wait`), closing (`shutdown` after the code), expired (`shutdown` after the timeout), exchanging, saving, exited |
| `conn[s]` | the request the single-threaded `HTTPServer` is serving; `"stopped"` once its thread has died |
| `code[s]`, `error[s]` | `_OAuthState.auth_code`, `.error`; `code_received` is their disjunction, as the code sets the event together with one of them |
| `cred[s]`, `grant[s]`, `newSession[s]` | credentials from stdin, the answer of `_exchange_code` on its way, `new_session` |
| `pc[p]`, `cmd[p]`, `held[p]`, `reply[p]` | where invocation `p` is, its command, its `session` and then `updated`, the answer of `_refresh_token` on its way |
| `waitsFor[p]`, `deadline[p]` | `pid` and `deadline` of `wait_for_auth` |
| `result[p]` | what the command printed |
| `served`, `signedOut`, `raced`, `broken` | history, read by properties only |

A token is what the provider knows of it: its sign-in (named by the callback
server that completed it, or `Prior` for the one found at the start) and, for an
access token, when it dies, for a refresh token, its number in the rotation.

### 2.2 Sign-in: steps and code

A step ends where the process touches something others see: the file is read or
replaced, a signal is sent, the provider decides, a thread is woken. Between two
such points the code runs on local data and the step contains all of it.

| actions | code |
|---|---|
| `GetAccessToken`, `StartAuth` (`TryCached`) | `auth.py:272-302`, `363-397`: one read of file and clock decides the branch |
| `IdpRefresh`, `Refreshed`, `SaveRefreshed`, `RefreshFails` | `_refresh_token`: the provider acts, the answer is read, the session saved; any exception is swallowed |
| `StartWithClient`, `RegisterAndStart`, `StartFails` | `start_auth` from `auth.py:393`, with `_register_client` |
| `WaitForAuth`, `PollSession`, `ProbeServer`, `Recheck`, `WaitTimesOut` | the loop of `wait_for_auth`, its two reads, the probe, the timeout with its SIGTERM |
| `SignOut`, `Revoke`, `Unlink` | `sign_out`: load, best-effort revocation, unlink |
| `Accept`, `DoGet`, `PeerCloses`, `PeerResets` | the HTTP loop and `do_GET` |
| `Wake`, `Expire`, `LoopStopped`, `IdpExchange`, `Exchanged`, `ServerSave`, `ServerDies` | `main` of the server |
| `Crash`, `ServerDies`, `Tick` | processes killed or failing at any point, time |

The provider's action and the arrival of its answer are two steps
(`IdpRefresh`/`Refreshed`, `IdpExchange`/`Exchanged`), because a process may die, or
an answer get lost (`RefreshFails`, `ServerDies`), when the token has already been
replaced.

### 2.3 Sign-in: abstractions and bounds

- `os.replace` and `os.unlink` are atomic, so a save is one step; the temporary file
  is never read and is not modelled.
- `os.kill(pid, SIGTERM)` ends a server at once; pids are never reused.
- An invocation runs one command. Repeating commands is running more invocations.
- The kinds of request to a callback server are the branches of `do_GET` plus a
  peer that sends nothing. Any request may be reset before the handler has recorded
  anything.
- The provider rotates refresh tokens always (`Rotates`) or never. It may accept a
  live refresh token or not answer; a revocation takes effect or does not.
- A grant reaches its reader within `MaxDelay` (the client's 60 s read timeout); the
  assumption `DelayAssumption` says that this is at most the 300 s buffer. A process
  that is suspended between reading the answer and reading the clock is outside it.
- Local time and the provider's are the same clock.
- Bounds: `MaxTime` ends the clock, and a command with a deadline starts only when
  its deadline lies before it, so that no timeout is cut off; `MaxRotations` bounds
  the refresh tokens of a sign-in; `Servers` and `Procs` bound the processes.
- In the instance one unit of time is the buffer and the longest delay. Tokens live
  3 units and a registration at most 3, so that within `MaxTime = 3` a token can be
  fresh, inside the buffer, and dead, a secret can end before the cap, and the
  session found at the start (its token spent, its client good until 2) can be
  refreshed or have run out. Three invocations are enough for two refreshers and a
  sign-out, a start, a wait and a sign-out, or two refreshers and a new sign-in.

**The register.** `SessionRegister` says what all these processes do with the session
file, seen from outside: the register holds a session or none (`entry`), and for each
sign-in it is known which session is the newest (`newest`), whether its first one is still
to arrive, whether a refresh has loaded it or has got a newer one (`arriving`, `loaded`,
`pending`). `LaunchAuth` implements it under the mapping `Stored`, `live`, `Arriving`,
`Loaded`, `Pending`, `Disturbed`:

| step of the register | step of the model |
|---|---|
| `SignIn`, `Enter`, `Lose` | `IdpExchange`, `ServerSave`, a server that ends otherwise |
| `Load` | `TryCached` when it decides to refresh |
| `Renew`, `Store`, `Leave` | `IdpRefresh`, `SaveRefreshed`, `RefreshFails` or `Crash` of a refresh |
| `Disturb`, `Clear` | `Revoke`, `Unlink` |
| `Stray` | `IdpRefresh` and `SaveRefreshed` of a sign-in that is disturbed |
| none | everything else |

The register promises that what `Store` enters is the newest session, that with
rotation a session is issued only when the last one is in the register, and that a sign-in
enters once, after that only by `Store` or `Stray`, both of which need that it was loaded.
Of a disturbed sign-in (a sign-out was begun, or a newest token was lost) it promises
only the last: that is what a file without a lock and a best-effort revocation can keep.

### 2.4 The installers

| variable | in the code |
|---|---|
| `version`, `script`, `dry` | the checkout; the script under way; `$Check` |
| `home[s]`, `left`, `current`, `step` | `~/.claude/skills/s` as a set of files; what the `foreach` has left; `$s`; the next operation on it |
| `target`, `memStep`, `backups` | `$Target`, the next operation, the `.bak` files |
| `installed[f]`, `todo`, `shipStep`, `skip` | the agents and the command, the calls of `Install-One` left, the part of the script, `$SkipGitIgnore` |
| `config`, `excludes` | `core.excludesFile` is set; the file, as lines and whether the last one is terminated |
| `hooked`, `owed` | history, read by properties only |

| actions | code |
|---|---|
| `StartSkills`, `CompareSkill`, `RemoveSkill`, `CopySkill`, `FinishSkills` | `skills/install.ps1`: the loop, with removal and copy as two steps |
| `StartMemory`, `ReadTarget`, `BackUp`, `WriteTarget` | `user-memory/install.ps1:75-102`: the read that decides, the copy that reads again, the write |
| `StartShip`, `InstallOne`, `FilesInstalled`, `SetConfig`, `AddRule` | `coding/ship/install.ps1` |
| `SkillsBreakOff`, `MemoryBreakOff`, `ShipBreakOff` | `exit 1`, `throw`, or `$ErrorActionPreference = 'Stop'` at any step; the operation under way may be half done |
| `SessionStarts`, `UserWrites`, `UserEdits`, `Pull` | external: the hook, the user, `git pull` |

`Copied` models `Copy-Item -Recurse` by what it does: into a destination that exists it
copies the directory itself, nested. `SameText` is PowerShell's `-eq`, which ignores
case. `WithRule` is `Add-Content`: behind an unterminated last line it writes on that
line. `SetConfig` may leave `config` unset: `git config` is a program, its exit code is
not looked at, and `'Stop'` does not apply to it. File contents are names. The two hashes of `CompareSkill` are one step, and so
are the read of the excludes file and the append to it. The order of skills and of
files in their loops is left open. Nothing is pulled while a script runs, and two
scripts do not run at once. The only bound is `LastVersion`, the number of versions:
the rest of the state is finite. In the instance the second version drops a file of
a skill, adds a skill that also has an upstream, changes the template in case
only and the command in content; one ship file stands for the five.

### 2.5 Launches

| variable | in the code |
|---|---|
| `pc[c]`, `cmd[c]`, `source[c]`, `upload[c]`, `launch[c]` | where an invocation is, its command and arguments, `target["uploadId"]`, `launch_id` |
| `tries[c]`, `wire` | the attempts of the call (`retries` of the botocore configuration); requests sent, not handled |
| `result[c]` | `_ok` or `_fail` |
| `uploads`, `issued`, `launches`, `applied` | the service, from its service model |
| `watching` | launches the agent polls with `get-launch-status` |

| actions | code |
|---|---|
| `CreateLaunch`, `CreateUploadUrl`, `PutArchive` | `cmd_create_launch` with its steps before the create call |
| `CommandOnLaunch` | the other commands that change a launch |
| `Send`, `AttemptFails` | `_call`: an attempt, its timeout, the repetition or the end |
| `CommandFails` | everything that makes `main` report an error and exit 1 |
| `GetLaunchStatus` | the poll and its verdict on the status |
| `Serve`, `Refuse`, `ServiceStep` | external: a request is executed, refused or lost; a launch goes on |

A request is served when it is on the wire, also after the invocation has given up on it or
has ended; its answer reaches an invocation only while it waits for that attempt. The
idempotency token of a create is the one botocore adds to a call that has none
(`ClientToken`): the same for all attempts, another one for every invocation. So a
second invocation for the same directory makes a second launch, and the ledger says
that this may happen. Contents are names: of a directory's archive (`ContentOf`), of a
repository, and `Refused` for what cannot be zipped. `get-launch`, the download URL and the
text of errors are left out; they change nothing.

`LaunchLedger` is the abstract specification: `asked`, `made` and `told` of each invocation.
`LaunchApi` implements it under the mapping `source`, `LaunchesOf`, `Told`: uploads,
attempts, the wire and other commands are steps that leave the ledger alone.

Bounds: `Calls`, `UploadIds` and `LaunchIds` are finite sets; `MaxAttempts` is 4 in the code (three
retries) and 2 in the instance, which is enough for a repetition and for a last attempt. Two invocations,
a directory, a repository, a URL that is refused and a launch from an earlier session give
every pair of commands on one or two launches.

### 2.6 Instrumentation

| variable | in the code |
|---|---|
| `configs`, `created`, `events`, `clock` | the service: the configuration at each location, how many there have been, what SDKs reported, time |
| `op`, `stage`, `attempts`, `reply`, `exit` | the command, whether its call is under way or answered, failed attempts, the answer, the exit code |
| `asking`, `checks` | which call of `assess` is made, and `created_at` and the results so far |
| `listing` | the token printed last and the configurations shown, over the pages the agent follows |
| `before` | history: what there was when the command (a listing: its first page) began |

| actions | code |
|---|---|
| `Start`, `ExitAtOnce` | `main` of `di_instrumentation.py` and the checks of each op |
| `Serve` | the call the op makes, executed by the service |
| `Resend` | external: botocore repeats it, whether it was executed or not |
| `Receive`, `CallFails` (`Conclude`, `ConcludeGet`, `ConcludeCheck`) | the answer or a `GatewayError`, what the op makes of it, and its `ok` |
| `OtherCreates`, `OtherDeletes`, `SdkReports` | external |

A location stands for its hash. A configuration is created at a time of its own, later than any
event before it (`AddConfig`), and an SDK reports only on the configuration there is: an SDK
that reports late on a deleted one is outside the model. `AfterGet` and `AfterCheck` are the order of
`di_status_assessment.py`; a call that fails counts there as one that found nothing. A page, of
a listing (`ServeList`) or of status events (`ServeStatus`), may end anywhere and be empty
although more follow. A listing can be continued by its token; of the status events
`check-status` reads the first page only (`di_status_tools.py:34-49`), so a status whose first page is
empty counts as one without events. `checks.failed` and `checks.cut` keep the statuses that
were not seen for one reason or the other.

Bounds: `Commands` (all eight, check-status with windows that begin before, at and after a
creation, end before and after one, or are reversed or no time), two locations, `MaxAttempts`
2, `MaxArns` 1 against two ARNs, two creations and two events: enough for an event of
each of two generations at one location, a batch that fails for one of two, and a listing
of two pages with a change in between.

### 2.7 Short programs

A behaviour of `Scripts` chooses a tool. A program that only computes a result from its input
does so in one step (`RunPure`, `Computes`): `create` (`InstrInputs`), `preview`, `escape`
and `filter` (`SnapshotParsing`), `zip` and `validate` (`Archive`), `manifest` (`AgentManifest`). The
others take steps:

| module | variables | actions and code |
|---|---|---|
| `Snapshots` | `args`, `step`, `query`, `rows`, `left`, `answer`, `shown`, `status` | `ReadArguments`, `StartQuery`, `QueryNotStarted` (start of `_execute_cloudwatch_query`); `PollFinds`, `PollAgain`, `PollFails`, `PollTimesOut` (its loop); `Finish` (renderer, `--out`, exit code); `QueryEndsAt` (external) |
| `ArchiveDownload` | `stage`, `hops`, `declared`, `body`, `total`, `kept` | `AskForZipball`, `FollowRedirect`, `Respond`, `ReadChunk`, `EndOfBody`, `Validate`, `DownloadFails` |
| `ShipWorkflow` | `runs`, `phase`, `ending`, `handoff`, `asks`, `green`, `mute` | `Invoke`, `Plan`, `Build`, `Test`, `Review`: one agent each, with the gate behind it |

- Inputs are the classes the code tells apart (a text: `None`, `""`, blank, given; a file
  name: the test that matches it; a row: an object, other JSON or no JSON, and larger or not than
  what a sample prints unparsed). Times of a search are
  counted in half seconds, so that the cut to whole seconds is visible.
- A captured value (`_preview_captured_value`) is a sequence: its keys and the kinds of its fields,
  then those of its first element, of the first element of that, and so on, which is as far
  down as the preview goes (`Opened`). `KeysShown` is what is printed of one of them, `FieldsShown`
  the one level of fields that is expanded.
- `download_github_zip` is called by no command of `launch_with_aws.py`; it is modelled as
  the library function it is.
- Of the agents of `/ship` only what their prompts promise is assumed: an agent that answers has
  written its file, a coder that finds open questions writes nothing and does not deny them, and
  `allPassed` is not said of a suite that was not seen to pass. The script calls `agent()`
  without a schema, so any field may be missing, of a blocked coder's answer too
  (`BlockedAnswers`): most end the run (`"raised"`), a missing `blockedOnOpenQuestions` does not,
  and `mute` notes it.
- In `AgentManifest` a call stands for the same call for every item of a list, and the order of
  calls does not matter to the outcome.
- Bounds: texts of up to six characters, captured values with one kind of field and down to the
  first element of a list in a list, directories of two files, archives of up to four entries around limits of two or
  three, a cap of 3 with bodies up to 5 in chunks of 2, two redirects, polling for up to three seconds,
  logs of two rows, two invocations of `/ship` (one leaves the files, one finds them),
  manifests with two failing calls. Each limit is met from below, exactly and from above.

## 3. Runs

| run | checks | shows |
|---|---|---|
| `safety` (`LaunchAuth_safety.cfg`) | `TypeOK`, `SessionCoherent`, `SignOutSticks`, `StoredRefreshTokenLive`, `ExchangeOnlyAfterOwnCode`, `FailedWaitLeavesNoServer`, `WaitSeesSignIn`, `CachedTokenIsLive` | 3 invocations, 1 server; 1.7 million states up to symmetry |
| `liveness` (`LaunchAuth_liveness.cfg`) | `WaitReturns`, `ServerExitsUnlessPeerSilent`, `RegisterImplemented` | 2 invocations, 1 server, under `FairSpec`; shorter times, no symmetry |
| `launches` (`LaunchApi_launches.cfg`) | `TypeOK`, `UploadComesFirst`, `LedgerImplemented`, `InvocationEnds`, `WatchEnds` | 2 invocations, 2 attempts, lost and late requests, 3 launches; 135 thousand states |
| `instrument` (`Instrumentation_instrument.cfg`) | `InstrTypeOK`, `ExitZeroMeansDone`, `ActiveIsOfThisGeneration`, `VerdictFollowsEvents`, `ListingComplete`, `CommandEnds` | every sequence of commands with others at work; 769 thousand states |
| `scripts` (`Scripts_scripts.cfg`) | `ScriptsTypeOK`, `CreatedCanFire`, `CreatedIsFound`, `CreatedIsShown`, `SummaryIsFaithful`, `QueryTextIsSafe`, `ArchiveIsFiltered`, `ArchiveLimitsHold`, `ManifestIsHonest`, `CapIsExact`, `ExitZeroIsAnAnswer`, `WindowIsSound`, `VerdictOnlyAfterGates`, `SearchEnds` | the short programs on every class of input; 116 thousand states |
| `files` (`Installers_files.cfg`) | `InstallersTypeOK`, `HandWrittenKept`, `InstalledIsVault`, `CheckWritesNothing` | every interleaving of runs, failures, dry runs, sessions, edits and a pull; 2.2 million states |
| `lifetime` | `NoTokenAfterSessionLifetime` | violated: a cached token outlives the session's cap |
| `signout` | `SignedOutStaysOut` | violated: a refresh under way restores a session that was signed out |
| `exit` | `ServerExits` | violated: a silent peer holds the server past its timeout |
| `listens` | `ListensForCallback` | violated: a reset connection ends the HTTP loop for good |
| `gitignore` | `PipelineIgnored` | violated: the rule is glued to an unterminated last line |
| `caseonly` | `MemoryIsVault` | violated: a change of case only counts as current |

The properties of the sign-in:

- `SessionCoherent`: the two tokens in the file come from one sign-in, made with the
  stored client, and the stored lifetime is that client's.
- `SignOutSticks`: a sign-in that a sign-out ended comes back only through an
  invocation that was refreshing it when the file was unlinked (`raced`).
- `StoredRefreshTokenLive`: the refresh token in the file is the live one, or somebody
  is about to save the newer one or to remove the file, unless a crash, a lost answer
  or a raced sign-out broke the chain (`broken`, `raced`).
- `ExchangeOnlyAfterOwnCode`: the exchange follows the genuine redirect and no error
  or foreign state served up to the return of `shutdown()`.
- `FailedWaitLeavesNoServer`: an auth-wait that failed leaves no server behind.
- `WaitSeesSignIn`: auth-wait does not report failure over a usable session of its
  own server, even one saved between two of its reads.
- `CachedTokenIsLive`: a cached token that is handed out is still honoured.
- `WaitReturns`, `ServerExitsUnlessPeerSilent`: progress.
- `RegisterImplemented`: the refinement of `SessionRegister`. It is checked with two
  invocations, in the run without symmetry: two refreshes of one sign-in, or a refresh and
  a sign-out, are the interleavings in which a save could come out of order; section 4.1
  proves it for any number.

`TypeOK` of `LaunchAuth` includes `HoldsSession`: no command goes on to use a session that
`load_session` did not return.

The properties of the launches:

- `UploadComesFirst`: from the first create request on, the upload it names is the invocation's
  own, is stored and holds the archive of its directory.
- `LedgerImplemented`: the refinement of `LaunchLedger`. In particular at most one launch per
  invocation although requests are repeated, and no success without a launch.
- `InvocationEnds`, `WatchEnds`: progress.

The properties of the instrumentation commands:

- `ExitZeroMeansDone`: exit code 0 means that the service did what the command says it did.
  Others may undo it, and a request may have been executed twice; the property speaks of what
  was there when the command began.
- `ActiveIsOfThisGeneration`: ACTIVE rests on events of the configuration that was read, or a
  later one. READY and ERROR do not have this property: the code asks for them from the
  requested start, and an earlier configuration at the location may answer.
- `VerdictFollowsEvents`: a verdict of ACTIVE, READY or ERROR rests on an event in the window of its
  status, and one after ACTIVE is given only if the statuses before it had none in theirs when the
  command began; with two exceptions that the code leaves. A status whose query failed counts as
  one without events, and the command still exits with 0. So does a status whose first page was
  empty with a `NextToken`, which is not followed (`di_status_tools.py:48`): the event that would have
  decided may be on the next page.
- `ListingComplete`: an agent that follows the printed tokens sees every configuration that was there
  all the time, unless a page without configurations came, which is printed without its
  token (`listing.cut`): then the agent cannot know that more follow.
- `CommandEnds`: progress.

The properties of the short programs:

- `CreatedCanFire`, `CreatedIsFound`, `CreatedIsShown`: no request is sent that an SDK would
  drop or that captures nothing; the arguments of a create, and what is read back, name the
  same configuration; `get` shows what was asked for, `False` and empty included.
- `SummaryIsFaithful`: at every depth a preview shows nothing that was not captured, shows what
  was, and says of a text that it was cut. It does not say so of a text in a field, and it loses
  `truncated` of elements, entries and fields and `size` of the first two, which the
  documentation printed with it names as the sign of an oversize collection
  (`di_snapshot_rendering.py:304`).
- `QueryTextIsSafe`: an escaped text stays one literal. A custom filter is passed on as it is, after a
  check for "an unbalanced double-quote that would leak into (or truncate) the rest of the query"
  (`di_snapshot_tools.py:152`; `snapshot-parsing.md:43-44` promises the same). The check is wrong both ways,
  because a quote behind an escaped backslash counts as escaped: `"\\""` passes with an
  open literal, `"a\\"` is refused (the theorem `QuoteCheckErrs`). The property says that it is wrong only
  where a backslash is escaped itself or stands outside a literal.
- `ArchiveIsFiltered`: no ignored file, secret, link or pruned file is zipped, whatever git does.
  `ArchiveLimitsHold`: an archive is accepted if and only if it is within the limits.
  `CapIsExact`: nothing beyond the cap is kept and nothing within it refused.
- `ManifestIsHonest`: what a manifest lacks has an error in it. Two gaps are exempt because the code
  leaves them: a tolerated error of `list_role_policies` disappears
  (`fetch_bedrock_agent.py:217`: the inline policies are just empty, although line 61 says
  "record but don't crash"), and a boto3 without collaborators.
- `ExitZeroIsAnAnswer`: exit code 0 follows a complete query only; "no snapshots found" and an empty
  list are said only of a query that found none; every row that is a JSON object is shown, as a
  summary only if it is large and the raw text was not asked for. It does not hold of other
  rows: a sample that is no JSON, or a large one that is no object, is printed as an empty snapshot with
  SUCCESS (`di_snapshot_rendering.py:216-220`).
- `WindowIsSound`: a query's range of seconds does not end before it starts and holds the status
  event, if there is one. It may be empty: a window of the caller's within one second is.
  `SearchEnds`: progress.
- `VerdictOnlyAfterGates`: a verdict of `/ship` is returned only on green tests and on a
  specification, test results and a review of the same run. Open questions (the planner need not
  report them) and a `changes.md` of an earlier run get that far in one way only: the coder's answer
  lists changed files and leaves `blockedOnOpenQuestions` out (`mute`), which the gate takes for "not
  blocked" (`ship-workflow.js:147`) and which `CHANGES_SCHEMA` would not require if it were passed
  (line 54).

The properties of the installers:

- `InstalledIsVault`: a skills or ship run that reaches its end leaves exactly the
  vault's files, also after a run that broke off half-way or an older version; except
  in skills the session hook wrote to since the run began.
- `InstallersTypeOK` includes that no line of the excludes file ever holds the rule twice.
- `HandWrittenKept`: what the user wrote to `CLAUDE.md` without the marker is in place or
  in a backup. What is written after the script's last look at the file, which is the backup or, where
  none was needed, the read that decided so, and before `Set-Content` is not counted: the
  script does lose it.
- `CheckWritesNothing`: during a run with `-Check` only others write.

Deadlock is not checked where the system stops as it should: when every invocation has exited and
no server is left (`LaunchAuth`), every launch is at its end (`LaunchApi`), a short program is
over (`Scripts`). It is not checked for the installers either, though none occurs: nothing is
ever required to run. In `Instrumentation` it is checked: a command can always be started.

The six violations are disagreements between a sentence of the repository and
the code, quoted in `PROJECT.json` ("findings"). Each of `lifetime` and `signout`
checks the plain form of a claim whose weaker form (`CachedTokenIsLive`,
`SignOutSticks`) holds; `exit` the plain form of `ServerExitsUnlessPeerSilent`.

### 3.1 Fairness

- `LaunchAuth`: weak fairness of the clock; of the local steps of a command that has called the
  provider or is waiting, and the return or failure of that call (the HTTP client has
  timeouts); of the steps of a server's main thread and the end of a request it has
  received. Nothing is assumed of users, of peers that connect (a silent peer may stay
  silent), of which command runs, or of crashes. The code has no priorities and takes no
  locks, so weak fairness is what a scheduler gives.
- `LaunchApi`: an invocation that was started goes on (`Works`), because botocore's attempts have a
  timeout and their number is bounded; nothing says that the service ever answers.
  For `WatchEnds` the agent goes on polling and the service finishes what it is executing or
  deleting: a launch that is never finished is polled for ever, as the skill says.
- `Instrumentation`: weak fairness of the command's own steps: a call is answered or times out.
- `Scripts`: weak fairness of the search's own steps (`InvocationStep`); the query may never end.

## 4. Proofs

Every theorem holds for all values of the constants that satisfy the named assumptions; TLC
evaluates these in the runs.

### 4.1 Sign-in

`LaunchAuthProofs` and `RefreshChainProofs` hold the theorems, for every number of
invocations and servers, every time bound, buffer, lifetime, and both rotation policies.

| theorem | statement | rests on |
|---|---|---|
| `TypeCorrect` | `Spec => []TypeOK` | `TypeInv` |
| `SessionNeverMixed` | `Spec => []SessionCoherent` | `SessionsInv` |
| `CachedTokenLive` | `Spec => CachedTokenIsLive` | `SessionsInv`, `DelayAssumption` |
| `SignOutFinal` | `Spec => []SignOutSticks` | `SignedOutInv`, `SessionsInv` |
| `ExchangeSafe` | `Spec => []ExchangeOnlyAfterOwnCode` | `ServedInv` |
| `FailedWaitSafe` | `Spec => []FailedWaitLeavesNoServer` | `WaitInv` |
| `WaitNeverMissesSignIn` | `Spec => WaitSeesSignIn` | `ExitedStep` |
| `RefreshTokenKept` | `Spec => []StoredRefreshTokenLive` | `ChainInv` |
| `NewestTokenHeldOnce` | `Spec => []OneHolder` | `ChainInv` |
| `FileMovesForward` | `Spec => [][StoresNewer]_vars` | `ChainInv`, `SessionsInv` |
| `ImplementsRegister` | `Spec => RegisterImplemented` | `ChainInv`, `Unissued`, `FirstTokens`, `ReplyNewer`, `SessionsInv` |

Assumptions: `ConstantsAssumption` (sorts of the constants), `PriorAssumption` (the
file found at the start was written by an earlier sign-in), `ProcsAssumption`, and
`DelayAssumption`, which only `CachedTokenLive` needs.

**Why the strengthenings are needed.** `SessionCoherent` speaks of the file, but
the next file comes out of the memory of some process, perhaps loaded long before.
`SessionsInv` therefore says the same of every session anybody holds (`HeldInv`,
`NewSessionInv`) and of every answer on its way (`ReplyInv`, `GrantInv`, `CredInv`). A
held session stays coherent only if the bookkeeping it refers to no longer changes;
`Settled` says so: its client's server has been started and its sign-in's server has
exited, and the lemma `StepsForward` shows that servers never go back and that the
bookkeeping of a sign-in changes only before. The lemma `WellMadeKept` joins the two, and
each action then only has to show that the sessions it makes are well made.

`SignOutSticks` is not inductive because a process may hold the signed-out session;
`SignedOutInv` adds that nobody is refreshing it (or the sign-in would be in `raced`)
and that its server has exited, so that nobody saves it again.

`ServedInv` relates the two flags to the requests served and says that from the
exchange on the HTTP loop serves nothing. `WaitInv` says that the server an
invocation waits for was started, and has exited by the time of a failure.

`WaitSeesSignIn` needs no invariant: the lemma `ExitedStep` finds that only `Recheck`
reports `"exited"`, and it reads the file in the same step.

`StoredRefreshTokenLive` is not inductive: a save puts into the file what an invocation
has held, perhaps since before other refreshes of the same sign-in. `ChainInv` says of each
sign-in in use, unless it is in `broken` or `raced` or a sign-out is about to remove it,
where the copies of its refresh token stand (`Chained`): none is newer than the
provider's; an invocation with an answer, or about to save, holds the provider's
(`HeldChained`); the file's is the provider's, or with rotation somebody holds its
successor (`FileChained`); with rotation nobody else then holds the provider's
(`OneNewest`). So a provider that accepts a refresh token takes it from an invocation
that no other is ahead of, and a save of an older session after that of a newer one is
impossible. `ReplyNewer` (with rotation an answer is the next number) shows that a lost
answer is noted in `broken`; `FirstTokens` (until its server has saved it, a
sign-in's first token is live) that a server's save starts a chain that is in order.
`FileMovesForward` says the same of two successive contents of the file.

`ImplementsRegister` has one lemma for each kind of step (`LoadMapped`, `IdpRefreshMapped`,
`SaveMapped`, `LeaveMapped`, `RevokeMapped`, `UnlinkMapped`, `IdpExchangeMapped`, `ServerSaveMapped`,
`GoneMapped`); the others leave all six mapped variables alone (`SameRegister`). An accepted
refresh is `Renew` because of `OneNewest`: nobody else has an answer to save. A save is
`Store` because of `HeldChained`. If the chain does not hold, the sign-in is disturbed and the
step is `Stray`. `Unissued` (no refresh token of a sign-in whose code was not exchanged)
makes `IdpExchange` a `SignIn`, which happens once.

### 4.2 Launches

`LaunchApiProofs`: `TypeCorrect` (`Spec => []TypeOK`), `UploadedBeforeCreated` (`Spec =>
[]UploadComesFirst`) and `ImplementsLedger` (`Spec => LedgerImplemented`), under
`LaunchAssumption` and `NoLaunchAssumption`, for any number of invocations, attempts and launches.

The invariant `IInv` has three parts besides the types. `CallsInv`: what an invocation has at each
of its points; a request under way belongs to an invocation that has sent it, for a source that can
be launched. `UploadsInv`: an upload is one invocation's alone and, while a create request of it can
still be executed, holds that invocation's archive. `LaunchesInv`: a launch carries the token and
the content of the invocation it was made by, and an invocation has one at most.
The refinement needs exactly these: `NextLedger`
shows that a step that adds a launch is `Make` (no launch was there, because the token
would have found it), one that reports is `Tell`, one that does both is the fourth
disjunct of `LedgerNext`, and every other step leaves the three mapped variables alone; a change
of a launch's status changes neither who it was made by nor its content.

### 4.3 Instrumentation

`InstrumentationProofs` holds five theorems, one for each safety property of the run
(`InstrTypeCorrect`, `SuccessIsTrue`, `ActiveIsCurrent`, `VerdictIsFirst`, `ListingsAreComplete`), under
`InstrumentationAssumption` and `CommandsAssumption`, for any commands, locations and bounds.

The steps of the service, whoever asks for them, have one abstraction, `Grows`: the clock and the
generations do not decrease, events are only added, a configuration at a location stays, goes
away or is a later generation. The lemmas `GoneStays`, `BeforeStays`, `SeenStays`, `AchievedStays`
show that what the invariant says of the past survives any such step; each action
then has one lemma for what it does to the command. The parts of `IInv`: `ServiceInv` (a
configuration is the last generation of its location, and there is no event from the future),
`BeforeInv` (what was there when the command began is no later than what is there now), `SeenInv`
(events from the creation time of a configuration on are of its generation or a later one, for every
configuration anybody has read), `CheckInv` (how far an assessment has come, and that an answer to
it holds events of its window only, and all of them unless more follow), `AchievedInv` (an answer of success, also one still
on its way, says what was achieved), `ListInv` (up to the token, every configuration that was there
all the time has been seen).

### 4.4 Short programs

`ScriptsProofs`: `ScriptsTypeCorrect`, `DownloadWithinCap`, `SearchExitIsAnswer`,
`SearchWindowSound`, `VerdictAfterGates`, for any caps, chunk sizes, arguments, logs and number of
invocations. As the tools share no variable, `ScriptsInv` is the conjunction of three invariants, each
proved for its own module's steps: `DownloadInv` (what is kept is what was read, up to the cap),
`SearchInv` (what is known of query and rows at each step, and that a query was started for
arguments that passed the checks), `WorkflowInv` (at each stage, which files are this run's, which
gates were passed, and that only a mute coder lets open questions by).

`PureToolsProofs` has nine theorems. One, `QuoteCheckErrs`, is no invariant: it names a filter that the
quote check accepts although its last literal does not end, and one that it refuses although all end.
The others are on the programs that compute a result from an
input: `CreatedRequestsFire`, `CreatedRequestsFound`, `CreatedRequestsShown`, `SummariesFaithful`,
`QueryTextsSafe`, `ArchivesFiltered`, `ArchiveLimitsExact`, `ManifestsHonest`. Of the behaviour they
need little (`PureInv`: there is an input, and no output or the one `Computes` gives); the rest is
one lemma per tool about its operator, for every input of its type, where a run has the
few that `InputsOf` enumerates: texts of any length, directories of any finite size,
archives of any number of entries, all combinations of failing calls. The inputs are
constrained by `InputsAssumption` (their types) and `NothingAssumption` (`None` and `Absent` are no
value of an argument) only.

- `FilterChecked`: while every backslash read so far stands in a literal and is not escaped itself, the
  quote check (`QuotesBalanced`, which counts quotes that are not behind a backslash) agrees with a
  reader of the query language; by induction on the text, so where the two differ there is another
  backslash. `EscapedBackslashes` has the two filters of `QuoteCheckErrs`. `EscapedStaysIn`: an escaped text, put into a
  literal, never ends it.
- `FirstOfForms`, `FormOfValue`, `FieldFaithful`, `KeysFaithful`, `PreviewFaithful`: the order of the tests in
  `_preview_captured_value` decides what is shown of a value, of each of its fields and of each
  first element, for any sequence of them.
- `TotalAddsUp` and `TotalWithin`: the loop of `validate_archive_bytes` has refused before its total
  passes the limit exactly when the sum of all sizes is beyond it, for archives of any length.
- `ZippedFilesWanted`, `ManifestGaps`, `LanguageNormal`: what is in
  a result was in the input and passed the filters, and what is missing left an error.

Induction over data is not available with the provers installed (a theorem with an operator
parameter cannot be instantiated). `RecursionLemmas` therefore states it with sets: a set
that contains 0 and is closed under + 1 contains all numbers (`NatSetInduction`, from the
library's theorem that the order of the natural numbers is well-founded), a set of numbers that is not
empty has a least one (`MinOfNumbers`), a recursive function has the value
its equation says (`RecursionExists`, `FoldExists`), and `FlattenSeq` adds one sequence at a time
(`FlattenAppend`).

### 4.5 Installers

`InstallersProofs` holds four theorems, for any skills, files, texts and versions.

- `InstallersTypeCorrect` (`Spec => []InstallersTypeOK`). The excludes file needs a strengthening,
  `ExcludesInv`: a last line that is not terminated is the user's, because what `Add-Content`
  writes is terminated; and a skill is about to be removed only if it has a directory.
- `HandWrittenSafe` (`Spec => []HandWrittenKept`) rests on `KeptInv`: when `Set-Content` is
  the next operation, everything owed is in a backup, because the text the run has
  read was either not owed or has been copied.
- `InstallationExact` (`Spec => InstalledIsVault`) rests on two loop invariants: a skill the
  loop has passed is the vault's, and before a copy there is nothing in the way
  (`SkillsLoopInv`); a file that `Install-One` was called for is the vault's (`ShipLoopInv`).
- `CheckOnlyReads` (`Spec => CheckWritesNothing`) rests on `DryInv`: a dry run never reaches
  the steps that remove, copy, back up or write; the others look at `dry` themselves.

Assumptions: `VersionAssumption`, `SkillsAssumption`, `MemoryAssumption` and `ShipAssumption` (sorts of
the constants; a rendered template holds the marker, the part an interrupted write leaves
does not; a file of the user's that is empty has no unterminated line).

### 4.6 What is not proved

Every invariant and every action property that a passing run checks is also a theorem, and so are
both refinements. Model-checked only: `WaitReturns`, `ServerExitsUnlessPeerSilent`, `InvocationEnds`, `WatchEnds`,
`CommandEnds` and `SearchEnds`: liveness under fairness, which the prover does not reach, as it does not
reach ENABLED. The six violations are counterexamples and need no proof.

## 5. Plan

Done: sign-in with its register, launches with their ledger, archives, instrumentation, snapshot
search, `/ship` script, manifest fetcher, installers; proofs of all their safety properties. Left:

1. An abstract specification of the instrumentation commands (a map from locations to
   configurations, read and changed atomically) that `Instrumentation` implements.
2. The steps that the liveness arguments need and the prover can check: which steps lead on, and that
   a measure (attempts, remaining time, pages) decreases.
3. The location parser of `di_location.py` beyond the names of a configuration, and the containers that
   `_parse_snapshot_fields` reads.

## 6. Not modelled

- `session_status`, `get-launch`, the download URL: reads that print what they find.
  `load_config`, PKCE, URLs, regions and sessions, error texts, the wording and layout of everything printed:
  no property is about them.
- `_parse_snapshot_fields` around the preview (`di_snapshot_parsing.py:88-304`): it copies identifiers, names and
  stack frames out of the snapshot and takes a container that is missing or of the wrong type for an
  empty one, without state or decisions that another part depends on.
- `skills/aws-ai-ml/references/*/scripts`: stand-alone sequential programs that print a report on a
  dataset, a model list or an endpoint, or are copied into a notebook. They keep no state, run alone and
  write nothing another program reads; their logic is the format of records of other
  systems, which a unit test covers better.
- `skills/aws-ai-ml/references/*/templates` and `code_templates`: text that an agent completes; what it
  does is decided by what is filled in.
- Assets and one-off scripts (`powertools-handler.py`, `alarm-template.ts`, the `hitl-loop` template,
  `cbs4436-experiment.ps1`): examples, not run as part of the system.
- The `/ship` command and the agents, skills, protocols, wiki and tickets: prose.
- Crash recovery beyond what the code does: a temporary session file left by a crash, pids that are
  reused and an `expiresIn` of 0 are listed as hazards with the reason
  why no property covers them. Backups of the same second, of which the later replaces the earlier
  (`user-memory/install.ps1:86`), are kept apart: the script is run by hand.
