------------------------------ MODULE Snapshots ------------------------------
(***************************************************************************)
(* di_snapshots.py: one invocation that looks for the snapshots of an      *)
(* instrumentation in CloudWatch Logs: the checks of its arguments         *)
(* (di_snapshot_tools.py), the query that is started and polled            *)
(* (di_snapshot_queries.py), the result (di_snapshot_rendering.py), the    *)
(* file it is written to and the exit code.  The Logs service is external: *)
(* a call to it may fail, and a query may end in any way or never.         *)
(* A row of a result is the class of its message: a JSON object, other     *)
(* JSON or no JSON, and larger or not than the sample prints unparsed.     *)
(* Times are counted in half seconds: the service is told whole seconds.   *)
(***************************************************************************)
EXTENDS Integers, Sequences, SequencesExt, InstrInputs

CONSTANTS
  NoTime,         \* a text that is no ISO 8601 timestamp
  NotANumber,     \* a JSON value that is no number
  SnapshotArgs,   \* bound: the argument objects invocations are made with
  Logs,           \* bound: what the log may hold for a query, newest row last
  SearchBefore, SearchAfter,    \* the window around status_timestamp: search
  SampleBefore, SampleAfter     \* and sample

RowKinds == [json : {"object", "other", "no JSON"}, large : BOOLEAN]

ASSUME SnapshotAssumption ==
  /\ {SearchBefore, SearchAfter, SampleBefore, SampleAfter} \subseteq Nat \ {0}
  /\ None \notin Int /\ NoTime \notin Int /\ NotANumber \notin Int
  /\ Logs \subseteq Seq(RowKinds)
  /\ \A a \in SnapshotArgs :
       /\ a.op \in {"search", "sample"}
       /\ {a.limit, a.timeout} \subseteq Int \cup {NotANumber}
       /\ a.at \in Int \cup {NoTime}
       /\ {a.start, a.end} \subseteq Int \cup {NoTime, None}

VARIABLES
  step,     \* "called", "asking", "polling", "answered" or "exited"
  args,     \* the arguments of the invocation, None where another script runs
  query,    \* the query at the service: "none", "running" or how it ended
  rows,     \* the rows it found, in the order asked for
  left,     \* seconds until _execute_cloudwatch_query stops polling
  answer,   \* its result, then the status the renderers print
  shown,    \* what is printed of the rows
  status    \* the exit code, None before it

snapshotVars == <<step, args, query, rows, left, answer, shown, status>>

QueryEnds == {"Complete", "Failed", "Cancelled"}

-----------------------------------------------------------------------------
(* The arguments.                                                           *)

\* Both bounds of a window, or neither; only search takes them.
WindowGiven(a) == a.op = "search" /\ a.start # None /\ a.end # None

Window(a) ==
  CASE WindowGiven(a)   -> [from |-> a.start, to |-> a.end]
    [] a.op = "sample"  -> [from |-> a.at - SampleBefore, to |-> a.at + SampleAfter]
    [] OTHER            -> [from |-> a.at - SearchBefore, to |-> a.at + SearchAfter]

\* int(timestamp()) of both bounds, in seconds.
QueryRange(a) == [from |-> Window(a).from \div 2, to |-> Window(a).to \div 2]

SearchArgsInvalidReversed(a) ==   \* mutant: a window that ends before it starts passes
  \/ a.limit = NotANumber
  \/ (a.start = None) # (a.end = None)
  \/ WindowGiven(a) /\ NoTime \in {a.start, a.end}
  \/ a.filter = "unbalanced"

SearchArgsInvalid(a) ==
  \/ a.limit = NotANumber
  \/ (a.start = None) # (a.end = None)
  \/ WindowGiven(a) /\ (NoTime \in {a.start, a.end} \/ a.end <= a.start)
  \/ a.filter = "unbalanced"

ArgsInvalid(a) ==
  \/ ~IsValidLocationHash(a.hash)
  \/ a.at = NoTime
  \/ a.op = "search" /\ SearchArgsInvalid(a)

-----------------------------------------------------------------------------
(* The result.                                                              *)

\* The renderers' "status": the raw one where they have no word of their own.
StatusShownAsComplete(a, result) ==   \* mutant: no case for Failed and Cancelled
  CASE result = "Error"           -> "ERROR"
    [] result = "Polling Timeout" -> "TIMEOUT"
    [] result # "Error" /\ result # "Polling Timeout" /\ a.op = "sample" ->
         IF rows = <<>> THEN "NO_SNAPSHOTS_FOUND" ELSE "SUCCESS"
    [] OTHER -> "Complete"

StatusShown(a, result) ==
  CASE result = "Error"           -> "ERROR"
    [] result = "Polling Timeout" -> "TIMEOUT"
    [] result = "Complete" /\ a.op = "sample" ->
         IF rows = <<>> THEN "NO_SNAPSHOTS_FOUND" ELSE "SUCCESS"
    [] OTHER -> result

\* The sample's row: the compact summary of a large one, unless the raw text was
\* asked for.  What is no JSON counts as an empty object, and so does, in the
\* summary, what is no object.
SampleShown(a, row) ==
  CASE row.large /\ ~a.raw -> IF row.json = "object" THEN "summary" ELSE "empty"
    [] ~(row.large /\ ~a.raw) -> IF row.json = "no JSON" THEN "empty" ELSE "row"

\* The search prints every row it found as it is.
RowsShown(a, result) ==
  CASE result # "Complete" -> <<>>
    [] result = "Complete" /\ a.op = "search" -> [i \in DOMAIN rows |-> "row"]
    [] OTHER -> [i \in DOMAIN rows |-> SampleShown(a, rows[i])]

\* The search asks a JSON value that is no object for its attributes.
RendererRaises(a, result) ==
  a.op = "search" /\ result = "Complete" /\ \E i \in DOMAIN rows : rows[i].json = "other"

\* _is_failure: a refusal of the arguments, or one of _QUERY_FAILURE_STATUSES.
IsFailure(result) ==
  result \in {"refused", "ERROR", "TIMEOUT", "Failed", "Cancelled"}

-----------------------------------------------------------------------------
NothingSearched ==
  /\ step = "called"
  /\ query = "none" /\ rows = <<>> /\ left = 0
  /\ answer = None /\ shown = <<>> /\ status = None

SnapshotsInit == args \in SnapshotArgs /\ NothingSearched

\* The op checks its arguments before it asks the service for anything.
ReadArguments ==
  /\ step = "called"
  /\ IF ArgsInvalid(args)
     THEN step' = "answered" /\ answer' = "refused"
     ELSE step' = "asking" /\ UNCHANGED answer
  /\ UNCHANGED <<args, query, rows, left, shown, status>>

\* start_query raises, or its answer has no queryId.
QueryNotStarted ==
  /\ step = "asking"
  /\ step' = "answered" /\ answer' = "Error"
  /\ UNCHANGED <<args, query, rows, left, shown, status>>

StartQueryUndecided ==   \* mutant: a max_timeout that is no number is polled with
  /\ step = "asking"
  /\ query' = "running" /\ step' = "polling"
  /\ IF args.timeout = NotANumber
     THEN status' = 2 /\ UNCHANGED left
     ELSE left' = args.timeout /\ UNCHANGED status
  /\ UNCHANGED <<args, rows, answer, shown>>

\* A max_timeout that is no number is found out only after the query started.
StartQuery ==
  /\ step = "asking"
  /\ query' = "running"
  /\ IF args.timeout = NotANumber
     THEN step' = "exited" /\ status' = 2 /\ UNCHANGED left
     ELSE step' = "polling" /\ left' = args.timeout /\ UNCHANGED status
  /\ UNCHANGED <<args, rows, answer, shown>>

AtMost(n, log) == SubSeq(log, 1, IF n < Len(log) THEN n ELSE Len(log))

\* The service runs the query; the limit of the sample is one, the newest.
QueryEndsAt(end, log) ==
  /\ query = "running"
  /\ query' = end
  /\ rows' = CASE end # "Complete" -> <<>>
               [] end = "Complete" /\ args.op = "sample" -> AtMost(1, Reverse(log))
               [] OTHER -> AtMost(args.limit, log)
  /\ UNCHANGED <<step, args, left, answer, shown, status>>

\* A poll that finds the query ended takes its rows.
PollFinds ==
  /\ step = "polling" /\ left > 0
  /\ query \in QueryEnds
  /\ step' = "answered" /\ answer' = query
  /\ UNCHANGED <<args, query, rows, left, shown, status>>

PollFails ==
  /\ step = "polling" /\ left > 0
  /\ step' = "answered" /\ answer' = "Error"
  /\ UNCHANGED <<args, query, rows, left, shown, status>>

\* The query still runs, or ended in a way the code does not know: the poll and
\* the sleep take a second at least.
PollAgainForever(seconds) ==   \* mutant: max_timeout is not looked at
  /\ step = "polling" /\ left > 0
  /\ query \notin QueryEnds
  /\ UNCHANGED snapshotVars

PollAgain(seconds) ==
  /\ step = "polling" /\ left > 0
  /\ query \notin QueryEnds
  /\ left' = left - seconds
  /\ UNCHANGED <<step, args, query, rows, answer, shown, status>>

PollTimesOut ==
  /\ step = "polling" /\ left <= 0
  /\ step' = "answered" /\ answer' = "Polling Timeout"
  /\ UNCHANGED <<args, query, rows, left, shown, status>>

\* The result is rendered and printed or written, and the invocation exits; an
\* --out that is a symbolic link is refused only now.
Finish ==
  /\ step = "answered"
  /\ step' = "exited"
  /\ IF RendererRaises(args, answer)
     THEN status' = 1 /\ UNCHANGED <<answer, shown>>
     ELSE /\ answer' = StatusShown(args, answer)
          /\ shown' = IF args.out = "link" THEN <<>> ELSE RowsShown(args, answer)
          /\ status' = IF args.out = "link" \/ IsFailure(answer') THEN 1 ELSE 0
  /\ UNCHANGED <<args, query, rows, left>>

InvocationStep ==
  \/ ReadArguments
  \/ StartQuery
  \/ PollFinds
  \/ \E seconds \in {1, 2} : PollAgain(seconds)
  \/ PollTimesOut
  \/ Finish

ServiceStep ==
  \/ QueryNotStarted
  \/ PollFails
  \/ \E end \in QueryEnds \cup {"Timeout"}, log \in Logs : QueryEndsAt(end, log)

SnapshotsNext == InvocationStep \/ ServiceStep

-----------------------------------------------------------------------------
(* Properties.                                                              *)

\* The types of the variables.
SnapshotsTypeOK ==
  /\ step \in {"called", "asking", "polling", "answered", "exited"}
  /\ args # None => args \in SnapshotArgs
  /\ query \in {"none", "running", "Timeout"} \cup QueryEnds
  /\ rows \in Seq(RowKinds)
  /\ left \in Int
  /\ status \in {None, 0, 1, 2} /\ (status # None <=> step = "exited")

\* Exit 0 means that the query of di_snapshots.py ended Complete, whatever else
\* may happen to it (the comment on _QUERY_FAILURE_STATUSES); that "no snapshots
\* found" and an empty list are said only of a query that found nothing; and that
\* a row that is a JSON object is shown, of a large one the summary only where the
\* raw text was not asked for.  That is not so of other rows: a sample that is no
\* JSON, or a large one that is no object, is printed as an empty snapshot with
\* SUCCESS (di_snapshot_rendering.py:216-220).
ExitZeroIsAnAnswer ==
  status = 0 =>
    /\ query = "Complete"
    /\ (shown = <<>> \/ answer = "NO_SNAPSHOTS_FOUND") => rows = <<>>
    /\ \A i \in DOMAIN rows :
         rows[i].json = "object" =>
           /\ shown[i] \in {"row", "summary"}
           /\ shown[i] = "summary" => rows[i].large /\ ~args.raw

\* A query is started only for a range of seconds that does not end before it
\* starts, and that holds the status event unless the caller chose the window.
WindowIsSound ==
  query # "none" =>
    LET range == QueryRange(args)
    IN  /\ range.from <= range.to
        /\ ~WindowGiven(args) => 2 * range.from <= args.at /\ args.at <= 2 * range.to
=============================================================================
