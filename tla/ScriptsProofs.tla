--------------------------- MODULE ScriptsProofs ---------------------------
(***************************************************************************)
(* Theorems about the scripts that take more than one step: the search for *)
(* snapshots, the download of an archive and the /ship script.  The tools  *)
(* share nothing, so each has an invariant of its own, kept by its steps;  *)
(* a step of another tool leaves its variables alone.                      *)
(***************************************************************************)
EXTENDS Scripts, SequenceTheorems, TLAPS

-----------------------------------------------------------------------------
(* The download.  Until it fails everything counted is kept.               *)

DownloadInv ==
  /\ DownloadTypeOK
  /\ kept <= Cap
  /\ stage # "failed" => total = kept /\ ~tooLarge
  /\ total <= body
  /\ stage \in {"idle", "asked"} => total = 0
  /\ tooLarge => body > Cap \/ declared > Cap

LEMMA DownloadInitially == DownloadInit => DownloadInv
<1> SUFFICES ASSUME DownloadInit PROVE DownloadInv
  OBVIOUS
<1>1. DownloadTypeOK
  <2>1. {hops, declared, body, total, kept} \subseteq Nat
    BY DEF DownloadInit
  <2>2. sound \in BOOLEAN /\ tooLarge \in BOOLEAN
    BY Zenon DEF DownloadInit
  <2>3. stage \in {"idle", "asked", "reading", "validating", "returned", "failed"}
    BY DEF DownloadInit
  <2> QED
    BY <2>1, <2>2, <2>3 DEF DownloadTypeOK
<1> QED
  BY <1>1, DownloadAssumption DEF DownloadInit, DownloadInv

\* No turn of the read loop keeps a chunk that passes the cap, and a failure for
\* the cap has counted more bytes than it allows.
LEMMA DownloadKept == DownloadInv /\ [DownloadNext]_downloadVars => DownloadInv'
<1> SUFFICES ASSUME DownloadInv, [DownloadNext]_downloadVars
             PROVE  DownloadInv'
  OBVIOUS
<1> USE DownloadAssumption DEF DownloadInv, DownloadTypeOK
<1>1. ASSUME NEW b \in BOOLEAN, AskForZipball(b) PROVE DownloadInv'
  BY <1>1 DEF AskForZipball
<1>2. ASSUME NEW https \in BOOLEAN, NEW listed \in BOOLEAN, FollowRedirect(https, listed)
      PROVE  DownloadInv'
  BY <1>2 DEF FollowRedirect
<1>3. ASSUME NEW declares \in 0..MaxBody, NEW length \in 0..MaxBody, NEW ok \in BOOLEAN,
             Respond(declares, length, ok)
      PROVE  DownloadInv'
  <2>1. (declares > Cap) \in BOOLEAN
    OBVIOUS
  <2>2. tooLarge' \in BOOLEAN /\ (tooLarge' <=> declares > Cap) /\ sound' \in BOOLEAN
    BY <2>1, <1>3, Zenon DEF Respond
  <2>3. UNCHANGED <<hops, total, kept>> /\ declared' = declares /\ body' = length
    BY <1>3 DEF Respond
  <2>4. stage = "asked" /\ stage' = IF declares > Cap THEN "failed" ELSE "reading"
    BY <1>3 DEF Respond
  <2> QED
    BY <2>2, <2>3, <2>4
<1>4. ASSUME NEW n \in 1..ChunkBytes, ReadChunk(n) PROVE DownloadInv'
  <2>1. stage = "reading" /\ total' = total + n /\ total' <= body
        /\ UNCHANGED <<hops, declared, body>>
    BY <1>4 DEF ReadChunk
  <2>2. sound' \in BOOLEAN
    BY <1>4, Zenon DEF ReadChunk
  <2>3. CASE total' > Cap
    BY <1>4, <2>1, <2>2, <2>3 DEF ReadChunk
  <2>4. CASE ~(total' > Cap)
    <3>1. kept' = kept + n /\ stage' = stage
      BY <1>4, <2>4 DEF ReadChunk
    <3>2. ~tooLarge' /\ tooLarge' \in BOOLEAN
      <4>1. ~tooLarge
        BY <2>1
      <4>2. tooLarge' = tooLarge
        BY <1>4, <2>4, Zenon DEF ReadChunk
      <4> QED
        BY <4>1, <4>2, Zenon
    <3> QED
      BY <2>1, <2>2, <2>4, <3>1, <3>2
  <2> QED
    BY <2>3, <2>4
<1>5. CASE EndOfBody
  BY <1>5 DEF EndOfBody
<1>6. CASE Validate
  BY <1>6 DEF Validate
<1>7. CASE DownloadFails
  BY <1>7 DEF DownloadFails
<1>8. CASE UNCHANGED downloadVars
  BY <1>8 DEF downloadVars
<1> QED
  BY <1>1, <1>2, <1>3, <1>4, <1>5, <1>6, <1>7, <1>8 DEF DownloadNext

-----------------------------------------------------------------------------
(* The /ship script.  A stage is reached only past the gates before it.    *)

WorkflowInv ==
  /\ WorkflowTypeOK
  /\ phase # "none" => ending = "none"
  /\ phase \in {"Build", "Test", "Review"} => handoff["spec"] = runs
  /\ phase \in {"Test", "Review"} => (asks \/ handoff["changes"] # runs => mute)
  /\ phase = "Review" => handoff["test-results"] = runs /\ green
  /\ VerdictOnlyAfterGates

LEMMA WorkflowInitially == WorkflowInit => WorkflowInv
<1> SUFFICES ASSUME WorkflowInit PROVE WorkflowInv
  OBVIOUS
<1>1. {asks, green, mute} \subseteq BOOLEAN
  <2>1. asks \in BOOLEAN /\ green \in BOOLEAN /\ mute \in BOOLEAN
    BY Zenon DEF WorkflowInit
  <2> QED
    BY <2>1, Zenon
<1>2. runs = 0 /\ phase = "none" /\ ending = "none" /\ handoff = [f \in HandoffFiles |-> 0]
  BY DEF WorkflowInit
<1>3. WorkflowTypeOK
  BY <1>1, <1>2, WorkflowAssumption DEF WorkflowTypeOK
<1> QED
  BY <1>2, <1>3 DEF WorkflowInv, VerdictOnlyAfterGates

\* No stage goes on with a file that this invocation did not write, but for the
\* changes of a coder that does not say whether it was blocked.
LEMMA WorkflowKept == WorkflowInv /\ [WorkflowNext]_workflowVars => WorkflowInv'
<1> SUFFICES ASSUME WorkflowInv, [WorkflowNext]_workflowVars
             PROVE  WorkflowInv'
  OBVIOUS
<1> USE WorkflowAssumption
    DEF WorkflowInv, WorkflowTypeOK, VerdictOnlyAfterGates, Goes, Ends, Writes, HandoffFiles
<1>1. ASSUME NEW request \in {"empty", "request"}, Invoke(request) PROVE WorkflowInv'
  <2>1. runs' = runs + 1 /\ runs' \in 0..MaxRuns /\ UNCHANGED handoff
    BY <1>1 DEF Invoke
  <2>2. {asks', green', mute'} \subseteq BOOLEAN
    BY <1>1, Zenon DEF Invoke
  <2>3. \/ phase' = "none" /\ ending' = "input"
        \/ phase' = "Plan" /\ ending' = "none"
    BY <1>1 DEF Invoke
  <2> QED
    BY <2>1, <2>2, <2>3
<1>2. ASSUME NEW reply \in PlanAnswers \cup {NoAnswer}, Plan(reply) PROVE WorkflowInv'
  <2>1. phase = "Plan" /\ UNCHANGED runs
    BY <1>2 DEF Plan
  <2>2. {asks', green', mute'} \subseteq BOOLEAN
    BY <1>2, Zenon DEF Plan
  <2>3. \/ handoff' = [handoff EXCEPT !["spec"] = runs]
        \/ reply = NoAnswer /\ UNCHANGED handoff
    BY <1>2 DEF Plan
  <2>4. \/ phase' = "none" /\ ending' \in {"Plan", "raised"}
        \/ reply # NoAnswer /\ phase' = "Build" /\ UNCHANGED ending
    BY <1>2 DEF Plan, PlanAnswers
  <2> QED
    BY <2>1, <2>2, <2>3, <2>4
<1>3. ASSUME NEW reply \in BuildAnswers \cup {NoAnswer}, Build(reply) PROVE WorkflowInv'
  <2>1. phase = "Build" /\ UNCHANGED runs
    BY <1>3 DEF Build
  <2>2. {asks', green', mute'} \subseteq BOOLEAN
    BY <1>3, Zenon DEF Build, Codes
  <2>3. handoff' \in [HandoffFiles -> 0..MaxRuns] /\ handoff'["spec"] = runs
    BY <1>3, <2>1 DEF Build, Codes
  <2>4. \/ phase' = "none" /\ ending' \in {"Build", "raised"}
        \/ /\ phase' = "Test" /\ UNCHANGED ending
           /\ reply \in BuildAnswers /\ reply # NoAnswer /\ reply.blocked # TRUE
    BY <1>3 DEF Build
  <2>5. ASSUME phase' = "Test" PROVE asks' \/ handoff'["changes"] # runs => mute'
    <3>1. reply # NoAnswer /\ reply.blocked # TRUE /\ reply \in BuildAnswers
      BY <2>4, <2>5
    <3>2. CASE asks
      <4>1. reply \in BlockedAnswers
        BY <1>3, <3>1, <3>2 DEF Build, Codes
      <4>2. reply.blocked = Missing
        BY <3>1, <4>1 DEF BlockedAnswers, BuildAnswers
      <4> QED
        BY <1>3, <3>1, <4>2, Zenon DEF Build, Codes
    <3>3. CASE ~asks
      <4>1. UNCHANGED asks
        BY <1>3, Zenon DEF Build
      <4>2. handoff'["changes"] = runs
        BY <1>3, <3>1, <3>3 DEF Build, Codes
      <4> QED
        BY <3>3, <4>1, <4>2
    <3> QED
      BY <3>2, <3>3
  <2> QED
    BY <2>1, <2>2, <2>3, <2>4, <2>5
<1>4. ASSUME NEW reply \in TestAnswers \cup {NoAnswer}, Test(reply) PROVE WorkflowInv'
  BY <1>4 DEF Test
<1>5. ASSUME NEW answered \in BOOLEAN, Review(answered) PROVE WorkflowInv'
  BY <1>5 DEF Review
<1>6. CASE UNCHANGED workflowVars
  BY <1>6 DEF workflowVars
<1> QED
  BY <1>1, <1>2, <1>3, <1>4, <1>5, <1>6 DEF WorkflowNext

-----------------------------------------------------------------------------
(* The search for snapshots.                                               *)

SearchInv ==
  /\ SnapshotsTypeOK
  /\ step \in {"asking", "polling"} \/ query # "none" => ~ArgsInvalid(args)
  /\ step = "answered" => answer \in {"refused", "Error", "Polling Timeout"} \cup QueryEnds
  /\ step = "answered" /\ answer \in QueryEnds => query = answer
  /\ ExitZeroIsAnAnswer

LEMMA NoneIsNoStatus == None \notin {0, 1, 2}
BY SnapshotAssumption

LEMMA SearchInitially ==
  ASSUME args \in SnapshotArgs \cup {None}, NothingSearched
  PROVE  SearchInv
BY SnapshotAssumption
   DEF NothingSearched, SearchInv, SnapshotsTypeOK, ExitZeroIsAnAnswer, QueryEnds

LEMMA RowsOfLog ==
  ASSUME NEW log \in Logs, NEW n \in Int
  PROVE  AtMost(n, log) \in Seq(RowKinds) /\ AtMost(n, Reverse(log)) \in Seq(RowKinds)
<1>1. log \in Seq(RowKinds)
  BY SnapshotAssumption
<1>2. Reverse(log) \in Seq(RowKinds) /\ Len(Reverse(log)) \in Nat
  BY <1>1 DEF Reverse
<1>3. ASSUME NEW s \in Seq(RowKinds) PROVE AtMost(n, s) \in Seq(RowKinds)
  BY DEF AtMost
<1> QED
  BY <1>1, <1>2, <1>3

\* What is printed of a complete query has something for every row, and for an
\* object the object or, where that was agreed to, its summary.
LEMMA ObjectsShown ==
  ASSUME rows \in Seq(RowKinds)
  PROVE  /\ RowsShown(args, "Complete") = <<>> => rows = <<>>
         /\ \A i \in DOMAIN rows :
              LET line == RowsShown(args, "Complete")[i]
              IN  rows[i].json = "object" =>
                    /\ line \in {"row", "summary"}
                    /\ line = "summary" => rows[i].large /\ ~args.raw
<1>1. PICK kind : RowsShown(args, "Complete") = [i \in DOMAIN rows |-> kind[i]]
                  /\ \A i \in DOMAIN rows : kind[i] = "row" \/ kind[i] = SampleShown(args, rows[i])
  <2>1. CASE args.op = "search"
    <3>1. RowsShown(args, "Complete") = [i \in DOMAIN rows |-> "row"]
      BY <2>1 DEF RowsShown
    <3> QED
      BY <3>1
  <2>2. CASE args.op # "search"
    <3>1. RowsShown(args, "Complete") = [i \in DOMAIN rows |-> SampleShown(args, rows[i])]
      BY <2>2 DEF RowsShown
    <3> QED
      BY <3>1
  <2> QED
    BY <2>1, <2>2
<1>2. RowsShown(args, "Complete") = <<>> => rows = <<>>
  <2> SUFFICES ASSUME RowsShown(args, "Complete") = <<>> PROVE rows = <<>>
    OBVIOUS
  <2>1. DOMAIN rows = {}
    BY <1>1
  <2> QED
    BY <2>1
<1>3. ASSUME NEW i \in DOMAIN rows, rows[i].json = "object"
      PROVE  /\ SampleShown(args, rows[i]) \in {"row", "summary"}
             /\ SampleShown(args, rows[i]) = "summary" => rows[i].large /\ ~args.raw
  <2>1. CASE rows[i].large /\ ~args.raw
    BY <1>3, <2>1 DEF SampleShown
  <2>2. CASE ~(rows[i].large /\ ~args.raw)
    BY <1>3, <2>2 DEF SampleShown
  <2> QED
    BY <2>1, <2>2
<1> QED
  BY <1>1, <1>2, <1>3

LEMMA SearchKept ==
  ASSUME SearchInv, args \in SnapshotArgs, [SnapshotsNext]_snapshotVars
  PROVE  SearchInv' /\ args' \in SnapshotArgs
<1>1. CASE ReadArguments
  BY <1>1, NoneIsNoStatus DEF ReadArguments, SearchInv, SnapshotsTypeOK, ExitZeroIsAnAnswer, QueryEnds
<1>2. CASE QueryNotStarted
  BY <1>2, NoneIsNoStatus DEF QueryNotStarted, SearchInv, SnapshotsTypeOK, ExitZeroIsAnAnswer, QueryEnds
<1>3. CASE StartQuery
  <2>1. /\ query' = "running" /\ UNCHANGED <<args, rows, answer, shown>>
        /\ ~ArgsInvalid(args)
    BY <1>3 DEF StartQuery, SearchInv
  <2>2. \/ step' = "exited" /\ status' = 2 /\ left' = left
        \/ step' = "polling" /\ left' = args.timeout /\ args.timeout # NotANumber /\ status' = status
    BY <1>3, Zenon DEF StartQuery
  <2>3. status = None
    BY <1>3 DEF StartQuery, SearchInv, SnapshotsTypeOK
  <2>4. left' \in Int
    BY <2>2, SnapshotAssumption DEF SearchInv, SnapshotsTypeOK
  <2>5. SnapshotsTypeOK'
    BY <2>1, <2>2, <2>3, <2>4, NoneIsNoStatus DEF SearchInv, SnapshotsTypeOK
  <2>6. ~ArgsInvalid(args')
    BY <2>1
  <2>7. status' # 0
    BY <2>2, <2>3, NoneIsNoStatus
  <2>8. step' # "answered"
    BY <2>2
  <2> QED
    BY <2>1, <2>5, <2>6, <2>7, <2>8 DEF SearchInv, ExitZeroIsAnAnswer
<1>4. CASE PollFinds
  BY <1>4, NoneIsNoStatus DEF PollFinds, SearchInv, SnapshotsTypeOK, ExitZeroIsAnAnswer, QueryEnds
<1>5. CASE PollFails
  BY <1>5, NoneIsNoStatus DEF PollFails, SearchInv, SnapshotsTypeOK, ExitZeroIsAnAnswer, QueryEnds
<1>6. ASSUME NEW seconds \in {1, 2}, PollAgain(seconds)
      PROVE  SearchInv' /\ args' \in SnapshotArgs
  BY <1>6 DEF PollAgain, SearchInv, SnapshotsTypeOK, ExitZeroIsAnAnswer
<1>7. CASE PollTimesOut
  BY <1>7, NoneIsNoStatus DEF PollTimesOut, SearchInv, SnapshotsTypeOK, ExitZeroIsAnAnswer, QueryEnds
<1>8. CASE Finish
  <2>1. step = "answered" /\ step' = "exited" /\ UNCHANGED <<args, query, rows, left>>
    BY <1>8 DEF Finish
  <2>2. status' \in {0, 1}
    BY <1>8 DEF Finish
  <2>3. ASSUME status' = 0
        PROVE  /\ answer' = StatusShown(args, answer) /\ ~IsFailure(answer')
               /\ shown' = RowsShown(args, answer)
    <3>1. ~RendererRaises(args, answer)
      BY <1>8, <2>3 DEF Finish
    <3>2. answer' = StatusShown(args, answer)
      BY <1>8, <3>1 DEF Finish
    <3>3. args.out # "link" /\ ~IsFailure(answer')
      BY <1>8, <2>3, <3>1 DEF Finish
    <3>4. shown' = RowsShown(args, answer)
      BY <1>8, <3>1, <3>3 DEF Finish
    <3> QED
      BY <3>2, <3>3, <3>4
  <2>4. ASSUME status' = 0
        PROVE  query = "Complete" /\ answer = "Complete"
    BY <2>1, <2>3, <2>4 DEF StatusShown, IsFailure, QueryEnds, SearchInv
  <2>5. ASSUME status' = 0
        PROVE  answer' = "NO_SNAPSHOTS_FOUND" => rows = <<>>
    BY <2>3, <2>4, <2>5 DEF StatusShown
  <2>6. ExitZeroIsAnAnswer'
    <3> SUFFICES ASSUME status' = 0
                 PROVE  /\ query = "Complete"
                        /\ shown' = <<>> \/ answer' = "NO_SNAPSHOTS_FOUND" => rows = <<>>
                        /\ \A i \in DOMAIN rows :
                             rows[i].json = "object" =>
                               /\ shown'[i] \in {"row", "summary"}
                               /\ shown'[i] = "summary" => rows[i].large /\ ~args.raw
      BY <2>1 DEF ExitZeroIsAnAnswer
    <3>1. shown' = RowsShown(args, "Complete") /\ rows \in Seq(RowKinds)
      BY <2>3, <2>4 DEF SearchInv, SnapshotsTypeOK
    <3> QED
      BY <2>4, <2>5, <3>1, ObjectsShown
  <2>7. SnapshotsTypeOK'
    BY <2>1, <2>2, NoneIsNoStatus DEF SearchInv, SnapshotsTypeOK
  <2>8. query' # "none" => ~ArgsInvalid(args')
    BY <2>1 DEF SearchInv
  <2> QED
    BY <2>1, <2>6, <2>7, <2>8 DEF SearchInv
<1>9. ASSUME NEW end \in QueryEnds \cup {"Timeout"}, NEW log \in Logs, QueryEndsAt(end, log)
      PROVE  SearchInv' /\ args' \in SnapshotArgs
  <2>1. args.op = "search" => args.limit \in Int
    BY <1>9, SnapshotAssumption DEF QueryEndsAt, ArgsInvalid, SearchArgsInvalid, SearchInv
  <2>2. rows' \in Seq(RowKinds)
    <3>1. CASE end # "Complete"
      <4>1. rows' = <<>>
        BY <1>9, <3>1 DEF QueryEndsAt
      <4> QED
        BY <4>1
    <3>2. CASE end = "Complete" /\ args.op = "sample"
      <4>1. rows' = AtMost(1, Reverse(log))
        BY <1>9, <3>2 DEF QueryEndsAt
      <4> QED
        BY <4>1, RowsOfLog
    <3>3. CASE end = "Complete" /\ args.op = "search"
      <4>1. rows' = AtMost(args.limit, log)
        BY <1>9, <3>3 DEF QueryEndsAt
      <4> QED
        BY <4>1, <2>1, <3>3, RowsOfLog
    <3> QED
      BY <3>1, <3>2, <3>3, SnapshotAssumption
  <2>3. /\ query = "running" /\ query' = end
        /\ UNCHANGED <<step, args, left, answer, shown, status>>
    BY <1>9 DEF QueryEndsAt
  <2>4. status # 0 /\ (step = "answered" => answer \notin QueryEnds) /\ ~ArgsInvalid(args)
    BY <2>3 DEF SearchInv, ExitZeroIsAnAnswer, QueryEnds
  <2>5. SnapshotsTypeOK'
    BY <2>2, <2>3 DEF SearchInv, SnapshotsTypeOK
  <2> QED
    BY <2>3, <2>4, <2>5 DEF SearchInv, ExitZeroIsAnAnswer
<1>10. CASE UNCHANGED snapshotVars
  BY <1>10 DEF snapshotVars, SearchInv, SnapshotsTypeOK, ExitZeroIsAnAnswer
<1> QED
  BY <1>1, <1>2, <1>3, <1>4, <1>5, <1>6, <1>7, <1>8, <1>9, <1>10
     DEF SnapshotsNext, InvocationStep, ServiceStep

LEMMA Halves ==
  ASSUME NEW a \in Int, NEW b \in Int
  PROVE  /\ a \div 2 \in Int /\ 2 * (a \div 2) <= a /\ a <= 2 * (a \div 2) + 1
         /\ a <= b => a \div 2 <= b \div 2
OBVIOUS

\* Cutting the bounds to seconds may empty a window but never turns it around,
\* and the window around the status event keeps the event.
LEMMA WindowOfArgs ==
  ASSUME NEW a \in SnapshotArgs, ~ArgsInvalid(a)
  PROVE  /\ QueryRange(a).from <= QueryRange(a).to
         /\ ~WindowGiven(a) => 2 * QueryRange(a).from <= a.at /\ a.at <= 2 * QueryRange(a).to
<1>1. a.at \in Int /\ a.op \in {"search", "sample"}
  BY SnapshotAssumption DEF ArgsInvalid
<1>2. QueryRange(a).from = Window(a).from \div 2 /\ QueryRange(a).to = Window(a).to \div 2
  BY DEF QueryRange
<1>3. CASE WindowGiven(a)
  <2>1. Window(a).from = a.start /\ Window(a).to = a.end
    BY <1>3 DEF Window, WindowGiven
  <2>2. a.start \in Int /\ a.end \in Int
    BY <1>3, SnapshotAssumption DEF ArgsInvalid, SearchArgsInvalid, WindowGiven
  <2>3. a.start <= a.end
    BY <1>3, <2>2 DEF ArgsInvalid, SearchArgsInvalid, WindowGiven
  <2> QED
    BY <1>2, <1>3, <2>1, <2>2, <2>3, Halves
<1>4. CASE ~WindowGiven(a)
  <2>1. PICK before \in Nat \ {0}, after \in Nat \ {0} :
          Window(a).from = a.at - before /\ Window(a).to = a.at + after
    <3>1. CASE a.op = "sample"
      BY <1>4, <3>1, SnapshotAssumption DEF Window, WindowGiven
    <3>2. CASE a.op = "search"
      BY <1>4, <3>2, SnapshotAssumption DEF Window, WindowGiven
    <3> QED
      BY <1>1, <3>1, <3>2
  <2>2. /\ a.at - before \in Int /\ a.at + after \in Int
        /\ a.at - before <= a.at /\ a.at + 1 <= a.at + after
    BY <1>1
  <2>3. /\ (a.at - before) \div 2 <= (a.at + after) \div 2
        /\ 2 * ((a.at - before) \div 2) <= a.at
        /\ a.at <= 2 * ((a.at + after) \div 2)
    BY <1>1, <2>2, Halves
  <2> QED
    BY <1>2, <1>4, <2>1, <2>3
<1> QED
  BY <1>3, <1>4

-----------------------------------------------------------------------------
(* The tools together.                                                     *)

ScriptsInv ==
  /\ DownloadInv
  /\ WorkflowInv
  /\ SearchInv
  /\ tool = "snapshots" => args \in SnapshotArgs
  /\ tool # "snapshots" => query = "none"

LEMMA ScriptsInductive == ScriptsSpec => []ScriptsInv
<1>1. ScriptsInit => ScriptsInv
  <2> SUFFICES ASSUME ScriptsInit PROVE ScriptsInv
    OBVIOUS
  <2>1. /\ NothingSearched /\ DownloadInit /\ WorkflowInit /\ args \in SnapshotArgs \cup {None}
        /\ tool = "snapshots" => args \in SnapshotArgs
    BY DEF ScriptsInit, SnapshotsInit, PureTools
  <2> QED
    BY <2>1, DownloadInitially, WorkflowInitially, SearchInitially
       DEF ScriptsInv, NothingSearched
<1>2. ScriptsInv /\ [ScriptsNext]_scriptsVars => ScriptsInv'
  <2> SUFFICES ASSUME ScriptsInv, [ScriptsNext]_scriptsVars PROVE ScriptsInv'
    OBVIOUS
  <2>1. tool' = tool
    BY DEF ScriptsNext, RunPure, toolVars, scriptsVars
  <2>2. [DownloadNext]_downloadVars /\ [WorkflowNext]_workflowVars
    BY DEF ScriptsNext, scriptsVars, downloadVars, workflowVars
  <2>3. /\ [SnapshotsNext]_snapshotVars
        /\ tool # "snapshots" => UNCHANGED snapshotVars
    BY DEF ScriptsNext, scriptsVars, snapshotVars, PureTools
  <2>4. DownloadInv' /\ WorkflowInv'
    BY <2>2, DownloadKept, WorkflowKept DEF ScriptsInv
  <2>5. CASE tool = "snapshots"
    BY <2>1, <2>3, <2>4, <2>5, SearchKept DEF ScriptsInv
  <2>6. CASE tool # "snapshots"
    <3>1. UNCHANGED <<step, args, query, rows, left, answer, shown, status>>
      BY <2>3, <2>6 DEF snapshotVars
    <3>2. SearchInv'
      BY <3>1 DEF ScriptsInv, SearchInv, SnapshotsTypeOK, ExitZeroIsAnAnswer
    <3> QED
      BY <2>1, <2>4, <2>6, <3>1, <3>2 DEF ScriptsInv
  <2> QED
    BY <2>5, <2>6
<1> QED
  BY <1>1, <1>2, PTL DEF ScriptsSpec

\* The types of the variables, for any inputs and bounds (every script).
THEOREM ScriptsTypeCorrect == ScriptsSpec => []ScriptsTypeOK
<1>1. ScriptsInv => ScriptsTypeOK
  BY DEF ScriptsInv, ScriptsTypeOK, SearchInv, DownloadInv, WorkflowInv
<1> QED
  BY <1>1, ScriptsInductive, PTL

\* _read_capped keeps at most the cap and refuses only what exceeds it, whatever
\* lengths are declared and however the body is cut into chunks (archive.py).
THEOREM DownloadWithinCap == ScriptsSpec => []CapIsExact
<1>1. ScriptsInv => CapIsExact
  BY DEF ScriptsInv, DownloadInv, CapIsExact
<1> QED
  BY <1>1, ScriptsInductive, PTL

\* A snapshot search that exits with 0 had a complete query, says that it found
\* nothing only where nothing was found, and shows every object it found, for any
\* log, limits and number of polls (di_snapshots.py).
THEOREM SearchExitIsAnswer == ScriptsSpec => []ExitZeroIsAnAnswer
<1>1. ScriptsInv => ExitZeroIsAnAnswer
  BY DEF ScriptsInv, SearchInv
<1> QED
  BY <1>1, ScriptsInductive, PTL

\* Every range a query is started for is in order and holds the event it is made
\* around, for any times and widths (di_snapshot_tools.py).
THEOREM SearchWindowSound == ScriptsSpec => []WindowIsSound
<1>1. ScriptsInv => WindowIsSound
  BY WindowOfArgs DEF ScriptsInv, SearchInv, WindowIsSound
<1> QED
  BY <1>1, ScriptsInductive, PTL

\* ship-workflow.js returns a verdict only on green tests and files of the same
\* invocation, for any number of invocations; open questions and the changes of an
\* earlier one get there only with a coder that left blockedOnOpenQuestions out.
THEOREM VerdictAfterGates == ScriptsSpec => []VerdictOnlyAfterGates
<1>1. ScriptsInv => VerdictOnlyAfterGates
  BY DEF ScriptsInv, WorkflowInv
<1> QED
  BY <1>1, ScriptsInductive, PTL
=============================================================================
