------------------------------- MODULE Scripts -------------------------------
(***************************************************************************)
(* One of the short scripts: a behaviour chooses a tool and runs it to its *)
(* end; the /ship script it runs repeatedly.  The tools share nothing.     *)
(* Those that compute a result from their input alone do it in one step,   *)
(* RunPure; the search for snapshots, the download of an archive and the   *)
(* /ship script take the steps of their own modules.                       *)
(***************************************************************************)
EXTENDS InstrInputs, SnapshotParsing, Snapshots, Archive, ArchiveDownload,
        ShipWorkflow, AgentManifest

CONSTANTS
  InputsOf,   \* bound: for each of PureTools, the inputs it is run with
  Pending     \* the tool has not run yet

PureTools == {"create", "preview", "escape", "filter", "zip", "validate",
              "manifest"}

\* None and Absent are no language, and no argument of a call is Absent.
ASSUME NothingAssumption ==
  /\ None \notin DOMAIN Spellings \cup {"Python", "Java", "Javascript"}
  /\ Absent \notin {None, {}, "Python", "Java", "Javascript"}
  /\ \A in \in InputsOf["create"] :
       \A a \in {"file", "unit", "class", "method", "line", "args", "locals"} : in[a] # Absent

\* The other tools are run with what a caller, AWS or a file system may give them.
ASSUME InputsAssumption ==
  /\ InputsOf["preview"] \subseteq Seq(CapturedLayer)
  /\ InputsOf["escape"] \cup InputsOf["filter"] \subseteq Seq(Characters)
  /\ \A d \in InputsOf["zip"] : d \in SourceDir /\ IsFiniteSet(d.files)
  /\ InputsOf["validate"] \subseteq Seq(ArchiveEntry)
  /\ InputsOf["manifest"] \subseteq ManifestInput

VARIABLES tool, input, output

toolVars == <<tool, input, output>>
scriptsVars == <<tool, input, output, step, args, query, rows, left, answer, shown, status,
                 stage, hops, declared, body, sound, total, kept, tooLarge,
                 runs, phase, ending, handoff, asks, green, mute>>

\* out is what the tool t makes of in.
Computes(t, in, out) ==
  \/ t = "create" /\ CreateRefused(in) /\ out = None
  \/ t = "create" /\ ~CreateRefused(in) /\ out = CreateRequest(in)
  \/ t = "preview" /\ out = Preview(in)
  \/ t = "escape" /\ out = EscapeLogsInsightsString(in)
  \/ t = "filter" /\ out = QuotesBalanced(in)
  \/ t = "zip" /\ out = ZipLocalRepo(in)
  \/ t = "validate" /\ out = Accepted(in)
  \/ t = "manifest" /\ out = Manifest(in)

RunPure ==
  /\ output = Pending
  /\ Computes(tool, input, output')
  /\ UNCHANGED <<tool, input>>

\* The variables of a tool that is not run stay as they are.
ScriptsInit ==
  /\ \/ tool \in PureTools /\ input \in InputsOf[tool] /\ args = None /\ NothingSearched
     \/ tool = "snapshots" /\ input = None /\ SnapshotsInit
     \/ tool \in {"download", "ship"} /\ input = None /\ args = None /\ NothingSearched
  /\ output = Pending
  /\ DownloadInit
  /\ WorkflowInit

SearchStep ==
  tool = "snapshots" /\ InvocationStep /\ UNCHANGED <<toolVars, downloadVars, workflowVars>>

ScriptsNext ==
  \/ /\ tool \in PureTools /\ RunPure
     /\ UNCHANGED <<snapshotVars, downloadVars, workflowVars>>
  \/ /\ tool = "snapshots" /\ SnapshotsNext
     /\ UNCHANGED <<toolVars, downloadVars, workflowVars>>
  \/ /\ tool = "download" /\ DownloadNext
     /\ UNCHANGED <<toolVars, snapshotVars, workflowVars>>
  \/ /\ tool = "ship" /\ WorkflowNext
     /\ UNCHANGED <<toolVars, snapshotVars, downloadVars>>

\* A search goes on polling: its sleep ends, its calls return.  None has to fail.
ScriptsSpec == ScriptsInit /\ [][ScriptsNext]_scriptsVars /\ WF_scriptsVars(SearchStep)

-----------------------------------------------------------------------------
(* Properties: those of the tools, for the input and the output of a run.   *)

Ran(t) == tool = t /\ output # Pending

\* The types of the variables.
ScriptsTypeOK == SnapshotsTypeOK /\ DownloadTypeOK /\ WorkflowTypeOK

\* create_instrumentation sends nothing that can never fire.
CreatedCanFire == Ran("create") /\ output # None => Bindable(output)

\* What create_instrumentation made is found with the arguments that made it.
CreatedIsFound == Ran("create") /\ output # None => FoundAgain(input, output)

\* get_instrumentation shows what create_instrumentation was asked for.
CreatedIsShown == Ran("create") /\ output # None => ShownAsAsked(input, output)

\* The compact summary of a snapshot shows what was captured, and only that.
SummaryIsFaithful == Ran("preview") => PreviewIsFaithful(input)

\* A text that is escaped into a literal of a Logs Insights query does not leave
\* it; a raw filter is passed through, and the check of its quotes errs on nothing
\* but backslashes.
QueryTextIsSafe ==
  /\ Ran("escape") => LiteralHolds(input)
  /\ Ran("filter") => FilterQuotesChecked(input)

\* zip_local_repo uploads nothing the directory's owner keeps out of it.
ArchiveIsFiltered == Ran("zip") /\ output # Refused => NothingUnwantedIsZipped(input, output)

\* validate_archive_bytes enforces its limits, no more and no less.
ArchiveLimitsHold == Ran("validate") => LimitsAreExact(input)

\* fetch_bedrock_agent.py writes no manifest that is incomplete and does not say so.
ManifestIsHonest ==
  Ran("manifest") /\ output.exit = 0 => GapsAreTold(input, output) /\ DraftIsTold(input, output)

\* Whatever the service does or leaves undone, the search ends: polling stops
\* when max_timeout has passed.
SearchEnds == (tool = "snapshots") ~> (step = "exited")
=============================================================================
