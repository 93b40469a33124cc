---------------------------- MODULE ShipWorkflow ----------------------------
(***************************************************************************)
(* ship-workflow.js: the four stages of /ship with their gates, run again  *)
(* and again in one checkout, whose .pipeline directory no run empties.    *)
(* The agents are external.  The script passes them no schema, so any      *)
(* field of an answer may be missing; of an agent that answers, only what  *)
(* its prompt tells it is assumed: it has written its file, a coder that   *)
(* finds OPEN QUESTIONS writes nothing and does not deny them, though it   *)
(* may forget to say so, and allPassed is not said of a suite that was not *)
(* seen to pass.                                                           *)
(***************************************************************************)
EXTENDS Integers

CONSTANTS
  MaxRuns,     \* bound: invocations of the script
  NoAnswer,    \* agent() returned nothing
  Missing      \* undefined: the answer has no such field

ASSUME WorkflowAssumption == MaxRuns \in Nat

HandoffFiles == {"spec", "changes", "test-results", "review"}

VARIABLES
  runs,       \* invocations so far
  phase,      \* the stage under way, "none" between two invocations
  ending,     \* how the last invocation ended: the stage it stopped at,
              \* "input", "raised" or "verdict"; "none" while one is under way
  handoff,    \* by which invocation each file of .pipeline was last written
  asks,       \* spec.md has OPEN QUESTIONS
  green,      \* the suite passed when a tester last ran it
  mute        \* history: the last coder's answer had no blockedOnOpenQuestions

workflowVars == <<runs, phase, ending, handoff, asks, green, mute>>

WorkflowTypeOK ==
  /\ runs \in 0..MaxRuns
  /\ phase \in {"none", "Plan", "Build", "Test", "Review"}
  /\ ending \in {"none", "input", "Plan", "Build", "Test", "Review", "raised", "verdict"}
  /\ handoff \in [HandoffFiles -> 0..MaxRuns]
  /\ {asks, green, mute} \subseteq BOOLEAN

\* 0: the file is not there.
WorkflowInit ==
  /\ runs = 0 /\ phase = "none" /\ ending = "none"
  /\ handoff = [f \in HandoffFiles |-> 0]
  /\ asks = FALSE /\ green = FALSE /\ mute = FALSE

Goes(next) == phase' = next /\ UNCHANGED ending
Ends(how) == phase' = "none" /\ ending' = how

\* An agent that need not have written its file, because it gave no answer, may
\* have written it all the same.
Writes(file, must) ==
  \/ handoff' = [handoff EXCEPT ![file] = runs]
  \/ ~must /\ UNCHANGED handoff

-----------------------------------------------------------------------------
(* Answers: of a list it only matters whether it is there, or empty.        *)

PlanAnswers == [openQuestions: {Missing, "none", "some"}, filesPlanned: {Missing, "list"}]
BuildAnswers == [blocked: {Missing, TRUE, FALSE}, filesChanged: {Missing, "list"}]
TestAnswers == [allPassed: {Missing, TRUE, FALSE}, failures: {Missing, "list"},
                testFiles: {Missing, "list"}]

\* What a coder may answer that finds OPEN QUESTIONS.
BlockedAnswers == {answer \in BuildAnswers : answer.blocked # FALSE}

-----------------------------------------------------------------------------
Invoke(request) ==
  /\ phase = "none" /\ runs < MaxRuns
  /\ runs' = runs + 1
  /\ IF request = "empty" THEN Ends("input") ELSE phase' = "Plan" /\ ending' = "none"
  /\ UNCHANGED <<handoff, asks, green, mute>>

\* The planner reports no question that is not in its specification; it may
\* leave one out.
Plan(answer) ==
  /\ phase = "Plan"
  /\ \/ handoff' = [handoff EXCEPT !["spec"] = runs] /\ asks' \in BOOLEAN
     \/ answer = NoAnswer /\ UNCHANGED <<handoff, asks>>
  /\ CASE answer = NoAnswer -> Ends("Plan")
       [] answer # NoAnswer /\ answer.openQuestions = Missing -> Ends("raised")
       [] answer # NoAnswer /\ answer.openQuestions = "some" -> asks' /\ Ends("Plan")
       [] answer # NoAnswer /\ answer.openQuestions = "none" ->
            IF answer.filesPlanned = Missing THEN Ends("raised") ELSE Goes("Build")
  /\ UNCHANGED <<runs, green, mute>>

\* What the coder does, before its answer is looked at.
Codes(answer) ==
  /\ answer \in (IF asks THEN BlockedAnswers ELSE BuildAnswers) \cup {NoAnswer}
  /\ IF asks /\ answer # NoAnswer THEN UNCHANGED handoff
     ELSE Writes("changes", answer # NoAnswer /\ answer.blocked # TRUE)
  /\ mute' = (answer # NoAnswer /\ answer.blocked = Missing)

BuildStopsOnNothing(answer) ==   \* mutant: blockedOnOpenQuestions is not looked at
  /\ phase = "Build" /\ Codes(answer)
  /\ CASE answer = NoAnswer -> Ends("Build")
       [] answer # NoAnswer ->
            IF answer.filesChanged = Missing THEN Ends("raised") ELSE Goes("Test")
  /\ UNCHANGED <<runs, asks, green>>

Build(answer) ==
  /\ phase = "Build" /\ Codes(answer)
  /\ CASE answer = NoAnswer -> Ends("Build")
       [] answer # NoAnswer /\ answer.blocked = TRUE -> Ends("Build")
       [] answer # NoAnswer /\ answer.blocked # TRUE ->
            IF answer.filesChanged = Missing THEN Ends("raised") ELSE Goes("Test")
  /\ UNCHANGED <<runs, asks, green>>

\* A list of failures is read where the tests did not pass, the list of test
\* files where they did.
Test(answer) ==
  /\ phase = "Test"
  /\ Writes("test-results", answer # NoAnswer)
  /\ green' \in BOOLEAN
  /\ CASE answer = NoAnswer -> Ends("Test")
       [] answer # NoAnswer /\ answer.allPassed # TRUE ->
            IF answer.failures = Missing THEN Ends("raised") ELSE Ends("Test")
       [] answer # NoAnswer /\ answer.allPassed = TRUE ->
            green' /\ IF answer.testFiles = Missing THEN Ends("raised") ELSE Goes("Review")
  /\ UNCHANGED <<runs, asks, mute>>

\* The verdict is handed on as it is, an undefined one too.
Review(answered) ==
  /\ phase = "Review"
  /\ Writes("review", answered)
  /\ IF answered THEN Ends("verdict") ELSE Ends("Review")
  /\ UNCHANGED <<runs, asks, green, mute>>

WorkflowNext ==
  \/ \E request \in {"empty", "request"} : Invoke(request)
  \/ \E answer \in PlanAnswers \cup {NoAnswer} : Plan(answer)
  \/ \E answer \in BuildAnswers \cup {NoAnswer} : Build(answer)
  \/ \E answer \in TestAnswers \cup {NoAnswer} : Test(answer)
  \/ \E answered \in BOOLEAN : Review(answered)

-----------------------------------------------------------------------------
(* Properties.                                                              *)

\* A verdict is returned only on green tests, and on a specification, test results
\* and a review written by the same invocation.  OPEN QUESTIONS, even those the
\* planner did not report, and a changes.md of an earlier request get that far in
\* one way only: the coder that should have stopped left blockedOnOpenQuestions
\* out of its answer, a field the gate takes for false (ship-workflow.js:147) and
\* even the schema that is not passed does not require (line 54).  "OPEN QUESTIONS
\* and failing tests hard-stop here" (line 23) holds but for that.
VerdictOnlyAfterGates ==
  ending = "verdict" => /\ green
                        /\ \A f \in HandoffFiles \ {"changes"} : handoff[f] = runs
                        /\ asks \/ handoff["changes"] # runs => mute
=============================================================================
