--------------------------- MODULE Instrumentation ---------------------------
(***************************************************************************)
(* di_instrumentation.py: the commands that create, list, read and delete  *)
(* instrumentation configurations and read their status events             *)
(* (di_crud_tools.py, di_status_tools.py, di_status_assessment.py), each   *)
(* an invocation that talks to Application Signals through di_gateway.py.  *)
(* The service, the SDKs that report events and the other people who       *)
(* create and delete configurations are external; so is botocore, which    *)
(* sends a request again when its answer does not come.                    *)
(* A configuration is known by its location.  A later configuration of the *)
(* same location is another generation of it, but has the same hash.       *)
(***************************************************************************)
EXTENDS Integers, FiniteSets, InstrInputs

CONSTANTS
  LastLocation,   \* locations are 1..LastLocation, in the order of the service
  Scope,          \* those in the service, environment and type of the commands
  MaxArns,        \* the most resource_arns accepted
  BlankArn,       \* an ARN that is blank
  NoTime,         \* a text that is no ISO 8601 timestamp
  MaxAttempts,    \* requests botocore sends for one call
  Commands,       \* bound: the commands that are run
  Reported,       \* bound: the statuses SDKs report
  MaxClock, MaxEvents   \* bounds: creations, each at a time of its own; events

Locations == 1..LastLocation
Statuses == {"ACTIVE", "READY", "ERROR", "DISABLED"}

Config == [gen: Nat \ {0}, at: Nat]
Event == [loc: Locations, gen: Nat \ {0}, status: Statuses, at: Nat]

ASSUME InstrumentationAssumption ==
  /\ {LastLocation, MaxArns, MaxAttempts, MaxClock, MaxEvents} \subseteq Nat \ {0}
  /\ Scope \subseteq Locations
  /\ Reported \subseteq Statuses
  /\ NoTime \notin Int
  /\ None \notin Int \cup Config \cup {"get", "PENDING"} \cup Statuses

\* Commands are made with the arguments their op requires.
ASSUME CommandsAssumption ==
  \A o \in Commands :
    /\ o.name \in {"create", "list", "scope", "arns", "delete", "get", "get-status",
                   "check-status"}
    /\ o.name \in {"create", "delete", "get", "get-status", "check-status"} =>
         o.loc \in Locations
    /\ o.name = "arns" => o.arns \subseteq Locations \cup {BlankArn}
    /\ o.name = "check-status" => {o.start, o.end} \subseteq Int \cup {NoTime}

VARIABLES
  clock,      \* the time
  configs,    \* service: the configuration at each location, or None
  created,    \* service: generations there have been at each location
  events,     \* service: the status events reported
  stage,      \* "idle", "calling", "answered"
  op,         \* the command: its name and arguments
  asking,     \* check-status: which of its calls it is at, None else
  attempts,   \* requests sent for the call that have failed
  reply,      \* the answer on its way
  checks,     \* check-status: what its calls have found so far
  exit,       \* exit code of the last command, None before it ends
  listing,    \* list: the token printed last, what the pages so far have shown
  before      \* history: configurations and events when the command began

serviceVars == <<clock, configs, created, events>>
commandVars == <<stage, op, asking, attempts, reply, checks, exit, listing, before>>
vars == <<clock, configs, created, events, stage, op, asking, attempts, reply, checks, exit,
          listing, before>>

\* Arguments a command does not take are None.
Command(name) ==
  [name |-> name, loc |-> None, arns |-> None, status |-> None, start |-> None, end |-> None]

\* Arguments refused before any call.  check-status reads its times later.
Refused(o) ==
  \/ o.name = "arns" /\ (o.arns = {} \/ Cardinality(o.arns) > MaxArns \/ BlankArn \in o.arns)
  \/ o.name = "get-status" /\ (o.status \notin Statuses \/ NoTime \in {o.start, o.end})

-----------------------------------------------------------------------------
(* The service.                                                             *)

EventsOf(known, loc, status, from, to) ==
  {e \in known : e.loc = loc /\ e.status = status /\ from <= e.at /\ e.at <= to}

\* A configuration is created later than any event of the one before it.
AddConfig(l) ==
  /\ clock < MaxClock
  /\ clock' = clock + 1
  /\ created' = [created EXCEPT ![l] = @ + 1]
  /\ configs' = [configs EXCEPT ![l] = [gen |-> created[l] + 1, at |-> clock + 1]]
  /\ UNCHANGED events

DropConfigs(L) ==
  /\ configs' = [l \in Locations |-> IF l \in L THEN None ELSE configs[l]]
  /\ UNCHANGED <<clock, created, events>>

Existing == {l \in Locations : configs[l] # None}

\* An answer is an error (GatewayError to the caller), bare, or carries data.
Failure == [error |-> TRUE]
Done == [error |-> FALSE]
Answer(r) == reply' = r

ServeCreate(l) ==
  IF l \in Existing THEN Answer(Failure) /\ UNCHANGED serviceVars
  ELSE AddConfig(l) /\ Answer(Done)

ServeGet(l) ==
  /\ Answer(IF l \in Existing THEN configs[l] ELSE Failure)
  /\ UNCHANGED serviceVars

ServeDelete(l) ==
  IF l \in Existing THEN DropConfigs({l}) /\ Answer(Done)
  ELSE Answer(Failure) /\ UNCHANGED serviceVars

\* An item of a batch may fail alone; an ARN of nothing is an error of its own.
ServeBatch(L, failing) ==
  /\ DropConfigs(L \ failing)
  /\ Answer([errors |-> failing \cup (L \ Existing)])

\* A page ends anywhere, and may have no configuration on it though more follow.
ServeList(last) ==
  /\ last \in listing.token + 1 .. LastLocation
  /\ Answer([page |-> {[loc |-> l, gen |-> configs[l].gen] :
                         l \in {k \in Scope \cap Existing : k > listing.token /\ k <= last}},
             next |-> IF last < LastLocation THEN last ELSE 0])
  /\ UNCHANGED serviceVars

\* One page of the events: it may end anywhere, before the first one too, and has
\* a NextToken when events are left.
ServeStatus(l, status, from, to) ==
  LET all == EventsOf(events, l, status, from, to) IN
  /\ \E page \in SUBSET all :
       Answer(IF l \in Existing THEN [found |-> page, more |-> page # all] ELSE Failure)
  /\ UNCHANGED serviceVars

-----------------------------------------------------------------------------
(* check-status: assess of di_status_assessment.py.                         *)

Larger(s, t) == IF s >= t THEN s ELSE t

\* ACTIVE counts from the creation on; READY and ERROR in the whole window.
ActiveStartUnclamped(o, at) == o.start   \* mutant: the clamp is lost

ActiveStart(o, at) == Larger(at, o.start)

CheckStartClamped(status) == ActiveStart(op, checks.created.at)   \* mutant: for all three

CheckStart(status) == IF status = "ACTIVE" THEN ActiveStart(op, checks.created.at) ELSE op.start

\* No ACTIVE query is made for a window that the creation has emptied.
AfterGet(config) ==
  IF NoTime \in {op.start, op.end} \/ op.end <= op.start THEN None
  ELSE IF op.end > ActiveStart(op, config.at) THEN "ACTIVE" ELSE "READY"

AfterCheck == [status \in {"ACTIVE", "READY"} |-> IF status = "ACTIVE" THEN "READY" ELSE "ERROR"]

\* failed: the statuses whose query failed or was not made; cut: those whose
\* page was empty although it had a NextToken.
NoChecks ==
  [created |-> None, verdict |-> None, found |-> {}, failed |-> {}, cut |-> {}]

-----------------------------------------------------------------------------
(* The command.                                                             *)

NoListing == [token |-> 0, seen |-> {}, cut |-> FALSE, more |-> FALSE]

\* The agent goes on with a listing by passing the token that was printed.
Continues(o) == o.name = "list" /\ op.name = "list" /\ exit = 0 /\ listing.more

\* What the properties compare the outcome of a command with.
Now(o) == [configs |-> configs, created |-> created,
           events |-> IF o.name = "check-status" THEN events ELSE {}]

Started(o) ==
  /\ stage = "idle"
  /\ op' = o
  /\ IF Continues(o) THEN UNCHANGED <<listing, before>>
     ELSE listing' = NoListing /\ before' = Now(o)
  /\ attempts' = 0 /\ reply' = None /\ checks' = NoChecks
  /\ UNCHANGED serviceVars

Start(o) ==
  /\ ~Refused(o)
  /\ Started(o)
  /\ stage' = "calling" /\ exit' = None
  /\ asking' = IF o.name = "check-status" THEN "get" ELSE None

\* Arguments the op refuses, or an SDK that does not know the service: 1;
\* arguments that are not JSON or do not fit the op: 2.
ExitAtOnce(o, code) ==
  /\ Refused(o) => code = 1
  /\ Started(o)
  /\ exit' = code
  /\ asking' = None /\ UNCHANGED stage

\* The call each command makes.
CreateInstrumentation == op.name = "create" /\ ServeCreate(op.loc)

ListInstrumentations == op.name = "list" /\ \E last \in Locations : ServeList(last)

BatchDeleteByScope ==
  op.name = "scope" /\ \E failing \in SUBSET (Scope \cap Existing) :
                          ServeBatch(Scope \cap Existing, failing)

BatchDeleteByArns ==
  op.name = "arns" /\ \E failing \in SUBSET (op.arns \cap Existing) :
                         ServeBatch(op.arns, failing)

DeleteInstrumentation == op.name = "delete" /\ ServeDelete(op.loc)

GetInstrumentation == op.name = "get" /\ ServeGet(op.loc)

GetStatus ==
  /\ op.name = "get-status"
  /\ ServeStatus(op.loc, op.status, IF op.start = None THEN 0 ELSE op.start, clock)

\* check-status: the creation time first, then one status after the other.
CheckCreatedAt == asking = "get" /\ ServeGet(op.loc)

CheckStatus ==
  /\ asking \in {"ACTIVE", "READY", "ERROR"}
  /\ ServeStatus(op.loc, asking, CheckStart(asking), op.end)

Serve ==
  /\ stage = "calling"
  /\ \/ CreateInstrumentation \/ ListInstrumentations
     \/ BatchDeleteByScope \/ BatchDeleteByArns
     \/ DeleteInstrumentation \/ GetInstrumentation
     \/ GetStatus \/ CheckCreatedAt \/ CheckStatus
  /\ stage' = "answered"
  /\ UNCHANGED <<op, asking, attempts, checks, exit, listing, before>>

\* A request or its answer is lost, and botocore sends it again.
ResendOffByOne ==   \* mutant: one attempt too many
  /\ stage \in {"calling", "answered"}
  /\ attempts < MaxAttempts
  /\ attempts' = attempts + 1
  /\ stage' = "calling" /\ reply' = None
  /\ UNCHANGED <<op, asking, checks, exit, listing, before>> /\ UNCHANGED serviceVars

ResendUncounted ==   \* mutant: for ever
  /\ stage \in {"calling", "answered"}
  /\ stage' = "calling" /\ reply' = None
  /\ UNCHANGED <<op, asking, attempts, checks, exit, listing, before>>
  /\ UNCHANGED serviceVars

Resend ==
  /\ stage \in {"calling", "answered"}
  /\ attempts < MaxAttempts - 1
  /\ attempts' = attempts + 1
  /\ stage' = "calling" /\ reply' = None
  /\ UNCHANGED <<op, asking, checks, exit, listing, before>> /\ UNCHANGED serviceVars

\* not data.get("Errors") for a batch; a page, a configuration or events else.
ReplyOkAlways(r) == r # Failure   \* mutant: the items of a batch are not looked at

ReplyOk(r) ==
  /\ r # Failure
  /\ op.name \in {"scope", "arns"} => r.errors = {}

Exits(code) == stage' = "idle" /\ exit' = code /\ asking' = None

\* A page without configurations is printed without its token.
PrintsTokenOfFullPage(r) == Cardinality(r.page) > 1 /\ r.next # 0   \* mutant

PrintsToken(r) == r.page # {} /\ r.next # 0

\* Every command but check-status makes one call and renders what it got.
Conclude(r) ==
  /\ stage \in {"calling", "answered"} /\ op.name # "check-status"
  /\ reply' = None
  /\ Exits(IF ReplyOk(r) THEN 0 ELSE 1)
  /\ listing' = IF op.name # "list" \/ ~ReplyOk(r) THEN listing
                ELSE [token |-> r.next, seen |-> listing.seen \cup r.page,
                      cut |-> r.page = {} /\ r.next # 0, more |-> PrintsToken(r)]
  /\ UNCHANGED <<op, attempts, checks, before>> /\ UNCHANGED serviceVars

\* The call that fetches created_at decides whether the others are made.
ConcludeGet(r) ==
  /\ stage \in {"calling", "answered"} /\ asking = "get"
  /\ reply' = None
  /\ IF r = Failure \/ AfterGet(r) = None
     THEN Exits(1) /\ UNCHANGED <<attempts, checks>>
     ELSE /\ checks' = [checks EXCEPT !.created = r,
                          !.failed = IF AfterGet(r) = "ACTIVE" THEN {} ELSE {"ACTIVE"}]
          /\ asking' = AfterGet(r) /\ stage' = "calling" /\ attempts' = 0
          /\ UNCHANGED exit
  /\ UNCHANGED <<op, listing, before>> /\ UNCHANGED serviceVars

\* A call that fails counts as one that finds nothing, and so does an empty page:
\* nobody asks for the next one.  ok is True in the end.
ConcludeCheck(r) ==
  /\ stage \in {"calling", "answered"} /\ asking \in {"ACTIVE", "READY", "ERROR"}
  /\ reply' = None
  /\ LET found == IF r = Failure THEN {} ELSE r.found
         over == found # {} \/ asking = "ERROR"
     IN  /\ checks' = [checks EXCEPT
                         !.verdict = IF found # {} THEN asking
                                     ELSE IF over THEN "PENDING" ELSE None,
                         !.found = found,
                         !.failed = IF r = Failure THEN @ \cup {asking} ELSE @,
                         !.cut = IF r # Failure /\ found = {} /\ r.more
                                 THEN @ \cup {asking} ELSE @]
         /\ IF over THEN Exits(0) /\ UNCHANGED attempts
            ELSE asking' = AfterCheck[asking] /\ stage' = "calling" /\ attempts' = 0
                 /\ UNCHANGED exit
  /\ UNCHANGED <<op, listing, before>> /\ UNCHANGED serviceVars

Receive ==
  LET r == IF stage = "answered" THEN reply ELSE None
  IN  stage = "answered" /\ (Conclude(r) \/ ConcludeGet(r) \/ ConcludeCheck(r))

\* The last attempt, or one that is not repeated, fails.
CallFails ==
  Conclude(Failure) \/ ConcludeGet(Failure) \/ ConcludeCheck(Failure)

CommandStep == Serve \/ Resend \/ Receive \/ CallFails

-----------------------------------------------------------------------------
(* The others.                                                              *)

OtherCreates(l) == l \notin Existing /\ AddConfig(l) /\ UNCHANGED commandVars

\* Someone deletes it, or it expires.
OtherDeletes(l) == l \in Existing /\ DropConfigs({l}) /\ UNCHANGED commandVars

\* An SDK reports on the configuration it has, now.
SdkReports(l, status) ==
  /\ l \in Existing /\ Cardinality(events) < MaxEvents
  /\ events' = events \cup {[loc |-> l, gen |-> configs[l].gen, status |-> status, at |-> clock]}
  /\ UNCHANGED <<clock, configs, created>> /\ UNCHANGED commandVars

Init ==
  /\ clock = 0
  /\ configs = [l \in Locations |-> None] /\ created = [l \in Locations |-> 0]
  /\ events = {}
  /\ stage = "idle" /\ op = Command("list") /\ asking = None
  /\ attempts = 0 /\ reply = None /\ checks = NoChecks /\ exit = None
  /\ listing = NoListing
  /\ before = Now(op)

Next ==
  \/ \E o \in Commands : Start(o)
  \/ \E o \in Commands, code \in {1, 2} : ExitAtOnce(o, code)
  \/ CommandStep
  \/ \E l \in Locations : OtherCreates(l)
  \/ \E l \in Locations : OtherDeletes(l)
  \/ \E l \in Locations, status \in Reported : SdkReports(l, status)

Spec == Init /\ [][Next]_vars

\* An invocation runs on: calls are answered or time out, and are repeated a
\* limited number of times.
FairSpec == Spec /\ WF_vars(CommandStep)

-----------------------------------------------------------------------------
(* Properties.                                                              *)

\* The types of the variables.
InstrTypeOK ==
  /\ clock \in Nat
  /\ configs \in [Locations -> Config \cup {None}]
  /\ created \in [Locations -> Nat]
  /\ events \subseteq Event
  /\ stage \in {"idle", "calling", "answered"}
  /\ op \in Commands \cup {Command("list")}
  /\ asking \in {None, "get", "ACTIVE", "READY", "ERROR"}
  /\ attempts \in 0 .. MaxAttempts - 1
  /\ exit \in {None, 0, 1, 2}
  /\ listing.token \in 0..LastLocation

Succeeded(name) == op.name = name /\ exit = 0

\* A target is gone when what was there as the command began is there no more.
Gone(l) == before.configs[l] = None \/ configs[l] # before.configs[l]

\* Exit 0 of a command that changes something means that it is done: a new
\* generation exists or existed, the configuration deleted is gone, and a batch
\* left none of its targets (the comments on ok in di_crud_tools.py).  This is
\* so whatever was sent twice, lost, or done by others meanwhile.
ExitZeroMeansDone ==
  /\ Succeeded("create") => created[op.loc] > before.created[op.loc]
  /\ Succeeded("delete") => Gone(op.loc)
  /\ Succeeded("scope") => \A l \in Scope : Gone(l)
  /\ Succeeded("arns") => \A l \in op.arns : Gone(l)

\* ACTIVE is never concluded from events of an earlier configuration of the
\* location: the clamp of di_status_assessment.py leaves out what was reported
\* before the configuration was created.
ActiveIsOfThisGeneration ==
  checks.verdict = "ACTIVE" => \A e \in checks.found : e.gen >= checks.created.gen

\* The verdict is the first of ACTIVE, READY and ERROR that shows events.  It rests
\* on an event in the window of its status; the statuses before it had none in
\* theirs when the command began, or were not seen: their query failed, or its
\* first page was empty with more to follow, which check-status does not read
\* (di_status_tools.py:48).  PENDING says so of all three.
VerdictFollowsEvents ==
  LET NoneOf(status, from) ==
        \/ status \in checks.failed \cup checks.cut
        \/ EventsOf(before.events, op.loc, status, from, op.end) = {}
  IN  /\ checks.verdict \in Statuses =>
           EventsOf(events, op.loc, checks.verdict, CheckStart(checks.verdict), op.end) # {}
      /\ checks.verdict \in {"READY", "ERROR", "PENDING"} =>
           NoneOf("ACTIVE", ActiveStart(op, checks.created.at))
      /\ checks.verdict \in {"ERROR", "PENDING"} => NoneOf("READY", op.start)
      /\ checks.verdict = "PENDING" => NoneOf("ERROR", op.start)

\* Following the tokens printed shows every configuration of the scope that was
\* there all the time, whatever came and went meanwhile, unless a page without
\* configurations hid its token.
ListingComplete ==
  Succeeded("list") /\ ~listing.more /\ ~listing.cut =>
    \A l \in Scope : ~Gone(l) /\ before.configs[l] # None =>
      [loc |-> l, gen |-> configs[l].gen] \in listing.seen

\* Every command ends, however the calls it makes go.
CommandEnds == (stage = "calling") ~> (stage = "idle")
=============================================================================
