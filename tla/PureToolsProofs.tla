--------------------------- MODULE PureToolsProofs ---------------------------
(***************************************************************************)
(* Theorems about the tools that compute a result from their input alone.  *)
(* What a run can reach is an input and its result, PureInv; the rest is   *)
(* a lemma on the operator of each tool, for every input of its type.      *)
(***************************************************************************)
EXTENDS Scripts, RecursionLemmas, FiniteSetTheorems, TLAPS

-----------------------------------------------------------------------------
(* What a run of such a tool can reach.                                    *)

PureInv ==
  tool \in PureTools =>
    input \in InputsOf[tool] /\ (output = Pending \/ Computes(tool, input, output))

LEMMA PureInductive == ScriptsSpec => []PureInv
<1>1. ScriptsInit => PureInv
  BY DEF ScriptsInit, PureInv, PureTools
<1>2. PureInv /\ [ScriptsNext]_scriptsVars => PureInv'
  <2> SUFFICES ASSUME PureInv, [ScriptsNext]_scriptsVars, tool' \in PureTools
               PROVE  /\ input' \in InputsOf[tool']
                      /\ output' = Pending \/ Computes(tool', input', output')
    BY DEF PureInv
  <2>1. tool' = tool /\ input' = input
    BY DEF ScriptsNext, RunPure, toolVars, scriptsVars
  <2>2. output' = output \/ Computes(tool, input, output')
    BY DEF ScriptsNext, RunPure, toolVars, scriptsVars
  <2> QED
    BY <2>1, <2>2 DEF PureInv
<1> QED
  BY <1>1, <1>2, PTL DEF ScriptsSpec

LEMMA RanComputes ==
  ASSUME PureInv, NEW t \in PureTools, Ran(t)
  PROVE  input \in InputsOf[t] /\ Computes(t, input, output)
BY DEF PureInv, Ran

-----------------------------------------------------------------------------
(* create_instrumentation.                                                 *)

CreateInput(in) ==
  \A a \in {"file", "unit", "class", "method", "line", "args", "locals"} : in[a] # Absent

LEMMA CreatedRequest ==
  ASSUME PureInv, Ran("create"), output # None
  PROVE  CreateInput(input) /\ ~CreateRefused(input) /\ output = CreateRequest(input)
<1>1. input \in InputsOf["create"] /\ Computes("create", input, output)
  BY RanComputes DEF PureTools
<1>2. ~CreateRefused(input) /\ output = CreateRequest(input)
  BY <1>1 DEF Computes
<1> QED
  BY <1>1, <1>2, NothingAssumption DEF CreateInput

\* A language create accepts, and its casing in the API: it is not normalised twice.
LEMMA LanguageNormal ==
  ASSUME NEW language, CanonicalLanguage(language) # None
  PROVE  /\ CanonicalLanguage(language) \in {"Python", "Java", "Javascript"}
         /\ ~Falsy(language)
         /\ \A lang \in {"Python", "Java", "Javascript"} :
              ~Falsy(lang) /\ CanonicalLanguage(lang) \in {lang, None}
<1>1. language \in DOMAIN Spellings
  BY DEF CanonicalLanguage
<1>2. language \in {"Python", "python", "Java", "java", "JavaScript", "javascript"}
  BY <1>1 DEF Spellings
<1>3. CanonicalLanguage(language) = Spellings[language]
  BY <1>1 DEF CanonicalLanguage
<1>4. Spellings[language] \in {"Python", "Java", "Javascript"}
  BY <1>2 DEF Spellings
<1>5. ~Falsy(language)
  BY <1>1, <1>2, NothingAssumption DEF Falsy
<1>6. \A lang \in {"Python", "Java", "Javascript"} :
        ~Falsy(lang) /\ CanonicalLanguage(lang) \in {lang, None}
  <2>1. /\ DOMAIN Spellings = {"Python", "python", "Java", "java", "JavaScript", "javascript"}
        /\ Spellings["Python"] = "Python" /\ Spellings["Java"] = "Java"
    BY DEF Spellings
  <2>2. /\ CanonicalLanguage("Python") = "Python" /\ CanonicalLanguage("Java") = "Java"
        /\ CanonicalLanguage("Javascript") = None
    BY <2>1 DEF CanonicalLanguage
  <2>3. ~Falsy("Python") /\ ~Falsy("Java") /\ ~Falsy("Javascript")
    BY NothingAssumption DEF Falsy
  <2> QED
    BY <2>2, <2>3
<1> QED
  BY <1>3, <1>4, <1>5, <1>6

LEMMA CreatedFires ==
  ASSUME NEW in, CreateInput(in), ~CreateRefused(in)
  PROVE  Bindable(CreateRequest(in))
<1> DEFINE request == CreateRequest(in)
           location == CodeLocation(in)
           capture == CodeCapture(in)
           lang == CanonicalLanguage(in.language)
<1>1. Absent \notin {in.unit, in.class, in.method, in.line, in.args, in.locals, None, {}}
  BY NothingAssumption DEF CreateInput
<1>2. ~LocationInvalid(in) /\ ~ProbeConstraintsBroken(in) /\ ~LineLevelWithoutLocals(in)
      /\ ~CaptureNamesInvalid(in.args) /\ ~CaptureNamesInvalid(in.locals)
  BY DEF CreateRefused
<1>3. lang # None /\ lang \in {"Python", "Java", "Javascript"}
  BY <1>2, LanguageNormal DEF LocationInvalid
<1>4. /\ request.Location = location /\ request.CaptureConfiguration = capture
      /\ request.InstrumentationType = NormalType(in.type)
  BY DEF CreateRequest
<1>5. \A value : value # Absent /\ ~Falsy(value) => OrAbsent(value) # Absent
  BY DEF OrAbsent
<1>6. /\ location.Language = lang
      /\ location.CodeUnit = OrAbsent(in.unit) /\ location.ClassName = OrAbsent(in.class)
      /\ location.MethodName = OrAbsent(in.method)
  BY <1>3 DEF CodeLocation
<1>7. location.LineNumber # Absent <=> in.line # None
  BY <1>1 DEF CodeLocation
<1>8. lang = "Java" => /\ location.CodeUnit # Absent /\ location.ClassName # Absent
                       /\ location.MethodName # Absent
  BY <1>1, <1>2, <1>5, <1>6 DEF LocationInvalid
<1>9. lang = "Python" => location.CodeUnit # Absent /\ location.MethodName # Absent
  BY <1>1, <1>2, <1>5, <1>6 DEF LocationInvalid
<1>10. lang = "Javascript" => location.LineNumber # Absent
  BY <1>2, <1>7 DEF LocationInvalid
<1>11. request.InstrumentationType = "PROBE" =>
         location.LineNumber = Absent /\ location.Language # "Javascript"
  BY <1>2, <1>4, <1>6, <1>7 DEF ProbeConstraintsBroken
<1>12. /\ capture.CaptureArguments = IF in.args = None THEN Absent ELSE in.args
       /\ capture.CaptureLocals = IF in.locals = None THEN Absent ELSE in.locals
  BY DEF CodeCapture
<1>13. in.line # None => capture.CaptureLocals \notin {Absent, {}}
  BY <1>1, <1>2, <1>12 DEF LineLevelWithoutLocals
<1>14. {} \notin {capture.CaptureArguments, capture.CaptureLocals}
  BY <1>1, <1>2, <1>12 DEF CaptureNamesInvalid
<1> HIDE DEF request, location, capture, lang
<1>15. /\ CASE location.Language = "Java" ->
                 /\ location.CodeUnit # Absent /\ location.ClassName # Absent
                 /\ location.MethodName # Absent
            [] location.Language = "Python" ->
                 location.CodeUnit # Absent /\ location.MethodName # Absent
            [] location.Language = "Javascript" -> location.LineNumber # Absent
       /\ location.LineNumber # Absent => capture.CaptureLocals \notin {Absent, {}}
  BY <1>3, <1>6, <1>7, <1>8, <1>9, <1>10, <1>13
<1>16. Bindable(request)
  BY <1>4, <1>11, <1>14, <1>15 DEF Bindable
<1> QED
  BY <1>16 DEF request

\* What a request identifies is what a lookup with the same arguments identifies,
\* and one with the arguments read back.
LEMMA CreatedFound ==
  ASSUME NEW in, CreateInput(in), ~CreateRefused(in)
  PROVE  FoundAgain(in, CreateRequest(in))
<1> DEFINE request == CreateRequest(in)
           location == CodeLocation(in)
           back == LocationFromResponse(location)
           lang == CanonicalLanguage(in.language)
<1>1. Absent \notin {in.file, in.unit, in.class, in.method, in.line, None}
  BY NothingAssumption DEF CreateInput
<1>2. ~Falsy(in.language) /\ ~Falsy(in.file) /\ ~LocationInvalid(in)
  BY DEF CreateRefused
<1>3. /\ lang # None /\ lang \in {"Python", "Java", "Javascript"}
      /\ ~Falsy(lang) /\ CanonicalLanguage(lang) \in {lang, None}
  BY <1>2, LanguageNormal DEF LocationInvalid
<1>4. location = [Language |-> lang, FilePath |-> in.file, CodeUnit |-> OrAbsent(in.unit),
                  ClassName |-> OrAbsent(in.class), MethodName |-> OrAbsent(in.method),
                  LineNumber |-> IF in.line = None THEN Absent ELSE in.line]
  BY <1>3 DEF CodeLocation
<1>5. lang # Absent
  BY <1>3, NothingAssumption
<1>6. /\ back.language = lang /\ back.file = in.file
      /\ back.unit = PresentOr(OrAbsent(in.unit), None)
      /\ back.class = PresentOr(OrAbsent(in.class), None)
      /\ back.method = PresentOr(OrAbsent(in.method), None)
      /\ back.line = in.line
  <2>1. /\ location.Language = lang /\ location.FilePath = in.file
        /\ location.CodeUnit = OrAbsent(in.unit) /\ location.ClassName = OrAbsent(in.class)
        /\ location.MethodName = OrAbsent(in.method)
        /\ location.LineNumber = IF in.line = None THEN Absent ELSE in.line
    BY <1>4
  <2>2. /\ back.language = PresentOr(location.Language, "")
        /\ back.file = PresentOr(location.FilePath, "")
        /\ back.unit = PresentOr(location.CodeUnit, None)
        /\ back.class = PresentOr(location.ClassName, None)
        /\ back.method = PresentOr(location.MethodName, None)
        /\ back.line = PresentOr(location.LineNumber, None)
    BY DEF LocationFromResponse
  <2> HIDE DEF back, location, lang
  <2>3. back.language = lang /\ back.file = in.file /\ back.line = in.line
    BY <1>1, <1>5, <2>1, <2>2 DEF PresentOr
  <2> QED
    BY <2>1, <2>2, <2>3
<1>7. \A value : value # Absent => OrAbsent(PresentOr(OrAbsent(value), None)) = OrAbsent(value)
  BY DEF OrAbsent, PresentOr, Falsy
<1>8. LookupIdentifier(in, None) = [CodeLocation |-> location]
  BY <1>2 DEF LookupIdentifier, Falsy
<1>9. CodeLocation(back) = location
  <2> DEFINE again == CodeLocation(back)
  <2>1. /\ OrAbsent(back.unit) = OrAbsent(in.unit) /\ OrAbsent(back.class) = OrAbsent(in.class)
        /\ OrAbsent(back.method) = OrAbsent(in.method)
    BY <1>1, <1>6, <1>7
  <2>2. (IF CanonicalLanguage(back.language) = None THEN back.language
         ELSE CanonicalLanguage(back.language)) = lang
    BY <1>3, <1>6
  <2> HIDE DEF back, lang, location
  <2> QED
    BY <1>4, <1>6, <2>1, <2>2 DEF CodeLocation
<1>10. LookupIdentifier(back, None) = [CodeLocation |-> location]
  <2>1. ~Falsy(back.language) /\ ~Falsy(back.file) /\ Falsy(None)
    BY <1>2, <1>3, <1>6 DEF Falsy
  <2> HIDE DEF back, location
  <2> QED
    BY <1>9, <2>1 DEF LookupIdentifier
<1>11. request.Location = location
  BY DEF CreateRequest
<1> QED
  BY <1>8, <1>10, <1>11 DEF FoundAgain

LEMMA CreatedShown ==
  ASSUME NEW in, CreateInput(in), ~CreateRefused(in)
  PROVE  ShownAsAsked(in, CreateRequest(in))
<1> DEFINE capture == CodeCapture(in)
           told == CaptureFromResponse(capture)
<1>1. Absent # in.args /\ Absent # in.locals
  BY DEF CreateInput
<1>2. /\ capture.CaptureLimits = in.limits
      /\ capture.CaptureArguments = IF in.args = None THEN Absent ELSE in.args
      /\ capture.CaptureLocals = IF in.locals = None THEN Absent ELSE in.locals
  BY DEF CodeCapture
<1>3. /\ in.return # None => capture.CaptureReturn = in.return
      /\ in.stack # None => capture.CaptureStackTrace = in.stack
  BY DEF CodeCapture
<1>4. /\ told.return = capture.CaptureReturn /\ told.stack = capture.CaptureStackTrace
      /\ told.limits = capture.CaptureLimits
      /\ told.args = PresentOr(capture.CaptureArguments, None)
      /\ told.locals = PresentOr(capture.CaptureLocals, None)
  BY DEF CaptureFromResponse
<1>5. CreateRequest(in).CaptureConfiguration = capture
  BY DEF CreateRequest
<1> HIDE DEF capture
<1>6. told.args = in.args /\ told.locals = in.locals
  BY <1>1, <1>2, <1>4 DEF PresentOr
<1> QED
  BY <1>2, <1>3, <1>4, <1>5, <1>6 DEF ShownAsAsked, ShownByGet

-----------------------------------------------------------------------------
(* _preview_captured_value.                                                *)

\* Of several forms the first a value has is taken.
LEMMA FirstOfForms ==
  ASSUME NEW n \in 1..6, NEW forms, DOMAIN forms = 1..n, NEW keys
  PROVE  \/ /\ \A i \in 1..n : forms[i] \notin keys
            /\ FirstOf(forms, keys) = "none"
         \/ \E i \in 1..n : /\ forms[i] \in keys /\ FirstOf(forms, keys) = forms[i]
                           /\ \A j \in 1 .. i - 1 : forms[j] \notin keys
<1> DEFINE found == {i \in DOMAIN forms : forms[i] \in keys}
<1>1. CASE found = {}
  <2>1. FirstOf(forms, keys) = "none"
    BY <1>1 DEF FirstOf
  <2> QED
    BY <1>1, <2>1
<1>2. CASE found # {}
  <2>1. Min(found) \in found /\ \A j \in found : Min(found) <= j
    <3>1. found \in SUBSET Nat
      OBVIOUS
    <3> HIDE DEF found
    <3> QED
      BY <1>2, <3>1, MinOfNumbers
  <2>2. FirstOf(forms, keys) = forms[Min(found)]
    BY <1>2 DEF FirstOf
  <2>3. Min(found) \in 1..n /\ forms[Min(found)] \in keys
    BY <2>1
  <2>4. ASSUME NEW j \in 1 .. Min(found) - 1 PROVE forms[j] \notin keys
    <3>1. j \in 1..n /\ ~(Min(found) <= j)
      BY <2>3
    <3>2. j \notin found
      BY <2>1, <3>1
    <3> QED
      BY <3>1, <3>2
  <2> QED
    BY <2>2, <2>3, <2>4
<1> QED
  BY <1>1, <1>2

LEMMA FormOfValue ==
  ASSUME NEW keys
  PROVE  /\ "is_null" \in keys => Form(keys) = "is_null"
         /\ "is_null" \notin keys /\ "not_captured_reason" \in keys =>
              Form(keys) = "not_captured_reason"
         /\ "is_null" \notin keys /\ "not_captured_reason" \notin keys /\ "value" \in keys =>
              Form(keys) = "value"
         /\ Form(keys) \in (keys \intersect ValueKeys) \cup {"none"}
         /\ Form(keys) \notin {"type", "truncated", "size"}
         /\ Form(keys) = "none" => keys \intersect {"is_null", "not_captured_reason", "value"} = {}
<1>1. /\ DOMAIN ValueForms = 1..6
      /\ ValueForms[1] = "is_null" /\ ValueForms[2] = "not_captured_reason"
      /\ ValueForms[3] = "value" /\ ValueForms[4] = "fields"
      /\ ValueForms[5] = "elements" /\ ValueForms[6] = "entries"
  BY DEF ValueForms
<1>2. \/ /\ \A i \in 1..6 : ValueForms[i] \notin keys
         /\ Form(keys) = "none"
      \/ \E i \in 1..6 : /\ ValueForms[i] \in keys /\ Form(keys) = ValueForms[i]
                        /\ \A j \in 1 .. i - 1 : ValueForms[j] \notin keys
  BY <1>1, FirstOfForms DEF Form
<1> QED
  BY <1>1, <1>2 DEF ValueKeys

LEMMA FieldFaithful ==
  ASSUME NEW field \in FieldValues
  PROVE  OnlyCaptured(field, {FieldShown(field)})
<1> DEFINE forms == <<"plain", "is_null", "not_captured_reason", "value">>
<1>1. /\ DOMAIN forms = 1..4 /\ forms[1] = "plain" /\ forms[2] = "is_null"
      /\ forms[3] = "not_captured_reason" /\ forms[4] = "value"
  OBVIOUS
<1>2. FieldShown(field) = FirstOf(forms, field)
  BY DEF FieldShown
<1>3. "plain" \in field => field = {"plain"}
  BY DEF FieldValues, ValueKeys
<1> HIDE DEF forms
<1>4. \/ /\ \A i \in 1..4 : forms[i] \notin field
         /\ FirstOf(forms, field) = "none"
      \/ \E i \in 1..4 : /\ forms[i] \in field /\ FirstOf(forms, field) = forms[i]
                        /\ \A j \in 1 .. i - 1 : forms[j] \notin field
  BY <1>1, FirstOfForms
<1> QED
  BY <1>1, <1>2, <1>3, <1>4 DEF OnlyCaptured

LEMMA KeysFaithful ==
  ASSUME NEW keys \in SUBSET ValueKeys
  PROVE  LET printed == KeysShown(keys)
         IN  /\ printed \subseteq keys
             /\ keys # {} => printed # {}
             /\ OnlyCaptured(keys, printed)
             /\ {"value", "truncated"} \subseteq keys /\ "value" \in printed => "truncated" \in printed
             /\ Form(keys) = "fields" => "fields" \in printed
             /\ Form(keys) = "elements" => "elements" \in printed
<1> DEFINE form == Form(keys)
<1>1. /\ "is_null" \in keys => form = "is_null"
      /\ "is_null" \notin keys /\ "not_captured_reason" \in keys => form = "not_captured_reason"
      /\ "is_null" \notin keys /\ "not_captured_reason" \notin keys /\ "value" \in keys =>
           form = "value"
      /\ form \in (keys \intersect ValueKeys) \cup {"none"}
      /\ form \notin {"type", "truncated", "size"}
      /\ form = "none" => keys \intersect {"is_null", "not_captured_reason", "value"} = {}
  BY FormOfValue
<1>2. KeysShown(keys) = (keys \intersect {"type"}) \cup KeptWith(form, keys)
  BY DEF KeysShown
<1> HIDE DEF form
<1>3. CASE form = "value"
  <2>1. KeptWith(form, keys) = {"value"} \cup (keys \intersect {"truncated", "size"})
    BY <1>3 DEF KeptWith
  <2> QED
    BY <1>1, <1>2, <1>3, <2>1 DEF OnlyCaptured, form
<1>4. CASE form = "fields"
  <2>1. KeptWith(form, keys) = {"fields"} \cup (keys \intersect {"size"})
    BY <1>4 DEF KeptWith
  <2> QED
    BY <1>1, <1>2, <1>4, <2>1 DEF OnlyCaptured, form
<1>5. CASE form = "none"
  <2>1. KeptWith(form, keys) = IF "type" \in keys THEN {} ELSE keys
    BY <1>5 DEF KeptWith
  <2> QED
    BY <1>1, <1>2, <1>5, <2>1 DEF OnlyCaptured, form
<1>6. CASE form \notin {"value", "fields", "none"}
  <2>1. KeptWith(form, keys) = {form}
    BY <1>6 DEF KeptWith
  <2> QED
    BY <1>1, <1>2, <1>6, <2>1 DEF OnlyCaptured, form
<1> QED
  BY <1>3, <1>4, <1>5, <1>6

LEMMA PreviewFaithful ==
  ASSUME NEW captured \in Seq(CapturedLayer)
  PROVE  PreviewIsFaithful(captured)
<1> DEFINE preview == Preview(captured)
<1> SUFFICES ASSUME NEW i \in DOMAIN preview
             PROVE  LET keys  == captured[i].keys
                        printed == preview[i].keys
                    IN  /\ printed \subseteq keys
                        /\ keys # {} => printed # {}
                        /\ OnlyCaptured(keys, printed)
                        /\ {"value", "truncated"} \subseteq keys /\ "value" \in printed
                             => "truncated" \in printed
                        /\ \A field \in DOMAIN preview[i].fields :
                             /\ "fields" \in printed
                             /\ OnlyCaptured(field, {preview[i].fields[field]})
                        /\ i > 1 => "elements" \in preview[i - 1].keys
  BY DEF PreviewIsFaithful
<1>1. DOMAIN captured = 1..Len(captured) /\ Len(captured) \in Nat
  OBVIOUS
<1>2. DOMAIN preview = Opened(captured) /\ Opened(captured) \subseteq DOMAIN captured
  BY DEF Preview, Opened
<1>3. \A j \in DOMAIN preview : /\ preview[j].keys = KeysShown(captured[j].keys)
                               /\ preview[j].fields = FieldsShown(captured[j])
  BY DEF Preview
<1>4. \A j \in DOMAIN captured : /\ captured[j].keys \in SUBSET ValueKeys
                                /\ captured[j].fields \in SUBSET FieldValues
  <2>1. \A j \in DOMAIN captured : captured[j] \in CapturedLayer
    OBVIOUS
  <2>2. \A layer \in CapturedLayer : /\ layer.keys \in SUBSET ValueKeys
                                   /\ layer.fields \in SUBSET FieldValues
    BY DEF CapturedLayer
  <2> QED
    BY <2>1, <2>2
<1>5. \A j \in 1 .. i - 1 : j \in Opened(captured) /\ Form(captured[j].keys) = "elements"
  BY <1>1, <1>2 DEF Opened
<1> HIDE DEF preview
<1>6. ASSUME i > 1 PROVE "elements" \in preview[i - 1].keys
  <2>1. i - 1 \in 1 .. i - 1
    BY <1>1, <1>2, <1>6
  <2>2. i - 1 \in DOMAIN preview /\ Form(captured[i - 1].keys) = "elements"
    BY <1>2, <1>5, <2>1
  <2> QED
    BY <1>2, <1>3, <1>4, <2>2, KeysFaithful
<1>7. ASSUME NEW field \in DOMAIN preview[i].fields
      PROVE  /\ "fields" \in preview[i].keys
             /\ OnlyCaptured(field, {preview[i].fields[field]})
  <2>1. /\ field \in captured[i].fields /\ Form(captured[i].keys) = "fields"
        /\ preview[i].fields[field] = FieldShown(field)
    BY <1>3, <1>7 DEF FieldsShown
  <2> QED
    BY <1>2, <1>3, <1>4, <2>1, KeysFaithful, FieldFaithful
<1> QED
  BY <1>2, <1>3, <1>4, <1>6, <1>7, KeysFaithful

-----------------------------------------------------------------------------
(* fetch_bedrock_agent.py.                                                 *)

LEMMA Paths ==
  /\ Path("policy") = {"policyNames"} /\ Path("alias") = {"aliasList"}
  /\ Path("group") = {"groupList"} /\ Path("schema") = {"groupList", "group"}
  /\ \A c \in {"association", "knowledgeBase", "dataSourceList"} : Path(c) = {"kbList"}
  /\ Path("dataSource") = {"kbList", "dataSourceList"}
  /\ Path("collaborator") = {"collaboratorList"}
  /\ \A c \in (Lists \ {"dataSourceList"}) \cup {"identity", "agent", "role", "attachedPolicies"} :
       Path(c) = {}
BY DEF Path, Lists

\* A call that was made and failed has its error in the manifest, or all that its
\* list was to hold has.
LEMMA FailureIsRecorded ==
  ASSUME NEW in, NEW c \in AwsCalls \ {"policyNames"}, CallMade(in, c), ~Ok(in, c)
  PROVE  ErrorsIn(in) \intersect ({c} \cup Path(c)) # {}
<1>1. CASE in.outcome[c] = "other" /\ c \in (Items \cap Recorded) \ {"schema"}
  <2>1. Path(c) \ {"kbList"} \subseteq ErrorsIn(in)
    BY <1>1 DEF ErrorsIn, Dropped
  <2>2. c \in {"alias", "dataSource", "collaborator"}
    BY <1>1 DEF Items, Recorded
  <2>3. Path(c) \ {"kbList"} # {}
    BY <2>2, Paths
  <2> QED
    BY <2>1, <2>3
<1>2. CASE ~(in.outcome[c] = "other" /\ c \in (Items \cap Recorded) \ {"schema"})
  <2>1. c \in ErrorsIn(in)
    BY <1>2 DEF ErrorsIn, Dropped
  <2> QED
    BY <2>1
<1> QED
  BY <1>1, <1>2

\* Where a call is not made for want of what it is a part of, that is a list or a
\* group whose own call was made and failed.
LEMMA MissingPartIsRecorded ==
  ASSUME NEW in, NEW c \in AwsCalls \ {"policyNames", "policy"}, Wanted(in, c),
         c \in {"collaboratorList", "collaborator"} => in.newSdk,
         NEW d \in Path(c), ~Ok(in, d)
  PROVE  ErrorsIn(in) \intersect Path(c) # {}
<1>1. c \in {"alias", "group", "schema", "association", "knowledgeBase", "dataSourceList",
             "dataSource", "collaborator"}
  BY Paths DEF AwsCalls, Lists, Items
<1>2. ASSUME NEW e \in Path(c) \ {"group", "dataSourceList"}, ~Ok(in, e)
      PROVE  ErrorsIn(in) \intersect Path(c) # {}
  <2>1. e \in {"aliasList", "groupList", "kbList", "collaboratorList"}
    BY <1>1, <1>2, Paths
  <2>2. Path(e) = {} /\ e \in AwsCalls \ {"policyNames"}
    BY <2>1, Paths DEF Lists, AwsCalls
  <2>3. e = "collaboratorList" => c = "collaborator"
    BY <1>1, <1>2, Paths
  <2>4. CallMade(in, e)
    BY <2>1, <2>2, <2>3 DEF CallMade, Wanted
  <2>5. e \in ErrorsIn(in)
    BY <1>2, <2>2, <2>4, FailureIsRecorded
  <2> QED
    BY <1>2, <2>5
<1>3. CASE d \in {"group", "dataSourceList"} /\ \A e \in Path(c) \ {d} : Ok(in, e)
  <2>1. d \in AwsCalls \ {"policyNames"}
    BY <1>3 DEF AwsCalls, Lists, Items
  <2>2. Path(d) = Path(c) \ {d}
    BY <1>1, <1>3, Paths
  <2>3. CallMade(in, d)
    BY <1>3, <2>2 DEF CallMade, Wanted
  <2>4. ErrorsIn(in) \intersect ({d} \cup Path(d)) # {}
    BY <2>1, <2>3, FailureIsRecorded
  <2> QED
    BY <2>2, <2>4
<1>4. \A e, f \in Path(c) \intersect {"group", "dataSourceList"} : e = f
  BY <1>1, Paths
<1> QED
  BY <1>2, <1>3, <1>4

LEMMA ManifestGaps ==
  ASSUME NEW in
  PROVE  GapsAreTold(in, Manifest(in)) /\ DraftIsTold(in, Manifest(in))
<1>1. Manifest(in).errors = ErrorsIn(in) /\ Manifest(in).warned = Warned(in)
  BY DEF Manifest
<1>2. ASSUME NEW c \in AwsCalls \ {"policyNames"}, Wanted(in, c), ~Fetched(in, c),
             c = "policy" => Ok(in, "policyNames"),
             c \in {"collaboratorList", "collaborator"} => in.newSdk
      PROVE  ErrorsIn(in) \intersect ({c} \cup Path(c)) # {}
  <2>1. CASE CallMade(in, c)
    BY <1>2, <2>1, FailureIsRecorded DEF Fetched
  <2>2. CASE ~CallMade(in, c)
    <3>1. PICK d \in Path(c) : ~Ok(in, d)
      BY <1>2, <2>2 DEF CallMade
    <3>2. c # "policy"
      BY <1>2, <3>1, Paths
    <3>3. ErrorsIn(in) \intersect Path(c) # {}
      BY <1>2, <3>1, <3>2, MissingPartIsRecorded
    <3> QED
      BY <3>3
  <2> QED
    BY <2>1, <2>2
<1>3. GapsAreTold(in, Manifest(in))
  BY <1>1, <1>2 DEF GapsAreTold
<1>4. ASSUME in.draft, in.production, ~Warned(in)
      PROVE  ErrorsIn(in) \intersect {"aliasList", "alias"} # {}
  <2>1. ~Fetched(in, "alias") /\ Wanted(in, "alias")
    BY <1>4 DEF Warned, Wanted
  <2>2. "alias" \in AwsCalls \ {"policyNames"}
    BY DEF AwsCalls, Items
  <2>3. ErrorsIn(in) \intersect ({"alias"} \cup Path("alias")) # {}
    BY <1>2, <2>1, <2>2
  <2> QED
    BY <2>3, Paths
<1>5. DraftIsTold(in, Manifest(in))
  BY <1>1, <1>4 DEF DraftIsTold
<1> QED
  BY <1>3, <1>5

-----------------------------------------------------------------------------
(* zip_local_repo.                                                         *)

\* A finite set as a sequence has elements of the set only.
LEMMA SetToSeqElements ==
  ASSUME NEW S, IsFiniteSet(S), NEW i \in DOMAIN SetToSeq(S)
  PROVE  SetToSeq(S)[i] \in S
<1>1. \E f \in [1..Cardinality(S) -> S] : IsInjective(f)
  BY FS_CardinalityType DEF ExistsBijection, Bijection, Injection
<1>2. SetToSeq(S) \in [1..Cardinality(S) -> S]
  BY <1>1 DEF SetToSeq
<1> QED
  BY <1>2

LEMMA ZippedFilesWanted ==
  ASSUME NEW d \in SourceDir, GitIncludedFiles(d) # Refused, NEW f \in ZippedFiles(d)
  PROVE  /\ f \in d.files /\ ~IsSecretFile(f) /\ ~f.link /\ ~f.pruned
         /\ d.repo \/ HasGitignore(d) => f.status \in {"tracked", "untracked"}
<1>1. f \in GitIncludedFiles(d) /\ ~IsSecretFile(f) /\ ~f.link /\ ~f.pruned
  BY DEF ZippedFiles
<1>2. CASE d.git = "lists"
  BY <1>1, <1>2 DEF GitIncludedFiles, WithStatus
<1>3. CASE d.git = "refuses"
  BY <1>1, <1>3 DEF GitIncludedFiles, GitignoreFilesWithoutRepo, WithStatus
<1>4. CASE d.git = "missing"
  BY <1>1, <1>4 DEF GitIncludedFiles
<1>5. d.git \in {"lists", "refuses", "hangs", "missing"}
  BY DEF SourceDir
<1>6. d.git # "hangs"
  BY DEF GitIncludedFiles
<1> QED
  BY <1>1, <1>2, <1>3, <1>4, <1>5, <1>6

LEMMA ZipFiltered ==
  ASSUME NEW d \in SourceDir, IsFiniteSet(d.files), ZipLocalRepo(d) # Refused
  PROVE  NothingUnwantedIsZipped(d, ZipLocalRepo(d))
<1> DEFINE Z == ZippedFiles(d)
           entries == SetToSeq({ZipEntry(f) : f \in Z})
<1>1. GitIncludedFiles(d) # Refused /\ ZipLocalRepo(d) = entries
  BY Zenon DEF ZipLocalRepo
<1>2. IsFiniteSet({ZipEntry(f) : f \in Z})
  <2> DEFINE zip == [f \in Z |-> ZipEntry(f)]
  <2>1. IsFiniteSet(Z)
    <3>1. Z \subseteq d.files
      BY <1>1, ZippedFilesWanted
    <3> QED
      BY <3>1, FS_Subset
  <2>2. zip \in Surjection(Z, {ZipEntry(f) : f \in Z})
    BY DEF Surjection
  <2> QED
    BY <2>1, <2>2, FS_Surjection
<1>3. ASSUME NEW i \in DOMAIN entries
      PROVE  \E f \in d.files :
               /\ f.id = entries[i].file
               /\ ~IsSecretFile(f) /\ ~f.link /\ ~f.pruned
               /\ d.repo \/ HasGitignore(d) => f.status \in {"tracked", "untracked"}
  <2>1. entries[i] \in {ZipEntry(f) : f \in Z}
    BY <1>2, <1>3, SetToSeqElements
  <2>2. PICK f \in Z : entries[i] = ZipEntry(f)
    BY <2>1
  <2>3. f.id = entries[i].file
    BY <2>2 DEF ZipEntry
  <2> QED
    BY <1>1, <2>3, ZippedFilesWanted
<1> QED
  BY <1>1, <1>3 DEF NothingUnwantedIsZipped

-----------------------------------------------------------------------------
(* validate_archive_bytes.                                                 *)

LEMMA EntrySizes ==
  ASSUME NEW entries \in Seq(ArchiveEntry)
  PROVE  /\ Len(entries) \in Nat /\ DOMAIN entries = 1..Len(entries)
         /\ \A i \in 1..Len(entries) : entries[i] \in ArchiveEntry /\ entries[i].size \in Nat
<1>1. \A e \in ArchiveEntry : e.size \in Nat
  BY DEF ArchiveEntry
<1> QED
  BY <1>1

\* total_uncompressed adds up the sizes, entry by entry.
LEMMA TotalAddsUp ==
  ASSUME NEW entries \in Seq(ArchiveEntry)
  PROVE  LET sum == TotalAfter(entries)
         IN  /\ sum[0] = 0
             /\ \A i \in 1..Len(entries) : sum[i] = sum[i - 1] + entries[i].size
             /\ \A i \in 0..Len(entries) : sum[i] \in Nat
<1> DEFINE n == Len(entries)
           sum == TotalAfter(entries)
           adds == [i \in 1..n |-> [x \in Nat |-> x + entries[i].size]]
<1>1. n \in Nat /\ \A i \in 1..n : entries[i].size \in Nat
  BY EntrySizes
<1>2. adds \in Steps(n, Nat)
  BY <1>1 DEF Steps
<1>3. PICK f \in [0..n -> Nat] : Follows(f, 0, adds, n)
  <2> HIDE DEF n, adds
  <2> QED
    BY <1>1, <1>2, RecursionExists
<1>4. f = [i \in 0..n |-> IF i = 0 THEN 0 ELSE f[i - 1] + entries[i].size]
  <2>1. ASSUME NEW i \in 1..n PROVE f[i] = f[i - 1] + entries[i].size
    <3>1. f[i] = adds[i][f[i - 1]]
      BY <1>3 DEF Follows
    <3>2. i - 1 \in 0..n
      BY <1>1
    <3>3. f[i - 1] \in Nat
      BY <1>3, <3>2
    <3>4. adds[i][f[i - 1]] = f[i - 1] + entries[i].size
      BY <3>3
    <3> QED
      BY <3>1, <3>4
  <2>2. f[0] = 0
    BY <1>3 DEF Follows
  <2> HIDE DEF n
  <2>3. \A i \in 0..n : f[i] = IF i = 0 THEN 0 ELSE f[i - 1] + entries[i].size
    BY <1>1, <2>1, <2>2
  <2> QED
    BY <2>3
<1>5. sum = [i \in 0..n |-> IF i = 0 THEN 0 ELSE sum[i - 1] + entries[i].size]
  BY <1>4, Zenon DEF TotalAfter
<1> HIDE DEF sum, n
<1>6. sum[0] = 0
  <2>1. 0 \in 0..n
    BY <1>1
  <2> QED
    BY <1>5, <2>1
<1>7. ASSUME NEW i \in 1..n PROVE sum[i] = sum[i - 1] + entries[i].size
  <2>1. i \in 0..n /\ i # 0
    BY <1>1
  <2> QED
    BY <1>5, <2>1
<1>8. \A i \in 0..n : sum[i] \in Nat
  <2> DEFINE T == {i \in 0..n : sum[i] \in Nat}
  <2>1. 0 \in T
    BY <1>1, <1>6
  <2>2. ASSUME NEW k \in 0 .. n - 1, k \in T PROVE k + 1 \in T
    <3>1. k + 1 \in 1..n /\ (k + 1) - 1 = k
      BY <1>1
    <3>2. sum[k + 1] = sum[(k + 1) - 1] + entries[k + 1].size
      BY <1>7, <3>1
    <3> QED
      BY <1>1, <2>2, <3>1, <3>2
  <2>3. \A k \in 0..n : k \in T
    <3> HIDE DEF T
    <3> QED
      BY <1>1, <2>1, <2>2, IntervalInduction
  <2> QED
    BY <2>3
<1> QED
  BY <1>6, <1>7, <1>8 DEF sum, n

Unpacked(entries) == FoldLeft(LAMBDA n, e : n + e.size, 0, entries)

\* What an archive unpacks to is the running sum at its end.
LEMMA UnpackedIsTotal ==
  ASSUME NEW entries \in Seq(ArchiveEntry)
  PROVE  Unpacked(entries) = TotalAfter(entries)[Len(entries)]
<1> DEFINE n == Len(entries)
           sum == TotalAfter(entries)
           adds == [i \in 1..n |-> [x \in Nat |-> x + entries[i].size]]
           Sums(iter) == iter = [s \in SUBSET (DOMAIN entries) |->
                                   IF s = {} THEN 0 ELSE iter[s \ {Max(s)}] + entries[Max(s)].size]
           fold == CHOOSE iter : Sums(iter)
<1>1. n \in Nat /\ DOMAIN entries = 1..n /\ \A i \in 1..n : entries[i].size \in Nat
  BY EntrySizes
<1>2. Unpacked(entries) = fold[DOMAIN entries]
  BY Zenon DEF Unpacked, FoldLeft, MapThenFoldSet
<1>3. adds \in Steps(n, Nat)
  BY <1>1 DEF Steps
<1>4. PICK f \in [SUBSET (1..n) -> Nat] : Folds(f, 0, adds, n)
  <2> HIDE DEF n, adds
  <2> QED
    BY <1>1, <1>3, FoldExists
<1>5. Sums(f)
  <2>1. ASSUME NEW s \in SUBSET (1..n), s # {}
        PROVE  f[s] = f[s \ {Max(s)}] + entries[Max(s)].size
    <3>1. f[s] = adds[Max(s)][f[s \ {Max(s)}]]
      BY <1>4, <2>1 DEF Folds
    <3>2. Max(s) \in 1..n
      BY <1>1, <2>1, RestIsBelow
    <3>3. f[s \ {Max(s)}] \in Nat
      OBVIOUS
    <3> QED
      BY <3>1, <3>2, <3>3
  <2>2. f[{}] = 0
    BY <1>4 DEF Folds
  <2> HIDE DEF n
  <2>3. \A s \in SUBSET (1..n) :
          f[s] = IF s = {} THEN 0 ELSE f[s \ {Max(s)}] + entries[Max(s)].size
    BY <2>1, <2>2
  <2> QED
    BY <1>1, <2>3
<1>6. Sums(fold)
  <2> HIDE DEF Sums
  <2> QED
    BY <1>5
<1>7. ASSUME NEW s \in SUBSET (1..n)
      PROVE  fold[s] = IF s = {} THEN 0 ELSE fold[s \ {Max(s)}] + entries[Max(s)].size
  <2> HIDE DEF fold, n
  <2> QED
    BY <1>1, <1>6
<1>8. /\ sum[0] = 0
      /\ \A i \in 1..n : sum[i] = sum[i - 1] + entries[i].size
  BY TotalAddsUp
<1> HIDE DEF fold, sum, n
<1> DEFINE T == {k \in 0..n : fold[1..k] = sum[k]}
<1>9. 0 \in T
  <2>1. 1..0 = {} /\ {} \in SUBSET (1..n) /\ 0 \in 0..n
    BY <1>1
  <2>2. fold[{}] = 0
    BY <1>7, <2>1
  <2> QED
    BY <1>8, <2>1, <2>2
<1>10. ASSUME NEW k \in 0 .. n - 1, k \in T PROVE k + 1 \in T
  <2>1. k + 1 \in 1..n /\ k + 1 \in Nat /\ k + 1 > 0 /\ (k + 1) - 1 = k
    BY <1>1
  <2>2. 1 .. k + 1 \in SUBSET (1..n) /\ k + 1 \in 1 .. k + 1
    BY <1>1, <2>1
  <2>3. Max(1 .. k + 1) = k + 1 /\ (1 .. k + 1) \ {Max(1 .. k + 1)} = 1 .. (k + 1) - 1
    BY <2>1, MaxOfInterval
  <2>4. fold[1 .. k + 1] = fold[1..k] + entries[k + 1].size
    BY <1>7, <2>1, <2>2, <2>3
  <2>5. sum[k + 1] = sum[(k + 1) - 1] + entries[k + 1].size
    BY <1>8, <2>1
  <2> QED
    BY <1>1, <1>10, <2>1, <2>4, <2>5
<1>11. n \in T
  <2> HIDE DEF T
  <2>1. \A k \in 0..n : k \in T
    BY <1>1, <1>9, <1>10, IntervalInduction
  <2> QED
    BY <1>1, <2>1
<1> QED
  BY <1>1, <1>2, <1>11 DEF sum, n

\* The running total never falls: it is within a limit when the last one is.
LEMMA TotalWithin ==
  ASSUME NEW entries \in Seq(ArchiveEntry), NEW limit \in Nat
  PROVE  (\A i \in DOMAIN entries : TotalAfter(entries)[i] <= limit)
           <=> TotalAfter(entries)[Len(entries)] <= limit
<1> DEFINE n == Len(entries)
           sum == TotalAfter(entries)
           T == {k \in 0..n : \A i \in 0..k : sum[i] <= sum[k]}
<1>1. n \in Nat /\ DOMAIN entries = 1..n /\ \A i \in 1..n : entries[i].size \in Nat
  BY EntrySizes
<1>2. /\ sum[0] = 0
      /\ \A i \in 1..n : sum[i] = sum[i - 1] + entries[i].size
      /\ \A i \in 0..n : sum[i] \in Nat
  BY TotalAddsUp
<1> HIDE DEF n, sum
<1>3. 0 \in T
  BY <1>1, <1>2
<1>4. ASSUME NEW k \in 0 .. n - 1, k \in T PROVE k + 1 \in T
  <2>1. k + 1 \in 1..n /\ k + 1 \in 0..n /\ k \in 0..n /\ (k + 1) - 1 = k
    BY <1>1
  <2>2. sum[k + 1] = sum[(k + 1) - 1] + entries[k + 1].size
    BY <1>2, <2>1
  <2>3. sum[k] <= sum[k + 1] /\ sum[k] \in Nat /\ sum[k + 1] \in Nat
    BY <1>1, <1>2, <2>1, <2>2
  <2>4. ASSUME NEW i \in 0 .. k + 1 PROVE sum[i] <= sum[k + 1]
    <3>1. CASE i = k + 1
      BY <2>3, <3>1
    <3>2. CASE i \in 0..k
      <4>1. sum[i] \in Nat /\ sum[i] <= sum[k]
        BY <1>1, <1>2, <1>4, <3>2
      <4> QED
        BY <2>3, <4>1
    <3> QED
      BY <3>1, <3>2
  <2> QED
    BY <2>1, <2>4
<1>5. \A k \in 0..n : k \in T
  <2> HIDE DEF T
  <2> QED
    BY <1>1, <1>3, <1>4, IntervalInduction
<1>6. \A i \in 1..n : sum[i] <= sum[n] /\ sum[i] \in Nat
  <2>1. n \in T
    <3> HIDE DEF T
    <3> QED
      BY <1>1, <1>5
  <2>2. \A i \in 0..n : sum[i] <= sum[n]
    BY <2>1
  <2> QED
    BY <1>1, <1>2, <2>2
<1>7. sum[n] \in Nat
  BY <1>1, <1>2
<1>8. CASE n = 0
  BY <1>1, <1>2, <1>8 DEF n, sum
<1>9. CASE n \in 1..n
  <2>1. (\A i \in 1..n : sum[i] <= limit) <=> sum[n] <= limit
    BY <1>6, <1>7, <1>9
  <2> QED
    BY <1>1, <2>1 DEF n, sum
<1> QED
  BY <1>1, <1>8, <1>9

LEMMA OneTop ==
  ASSUME NEW entries \in Seq(ArchiveEntry)
  PROVE  (\A i, j \in DOMAIN entries : entries[i].top = entries[j].top)
           <=> Cardinality({entries[i].top : i \in DOMAIN entries}) <= 1
<1> DEFINE tops == {entries[i].top : i \in DOMAIN entries}
           top == [i \in DOMAIN entries |-> entries[i].top]
<1>1. IsFiniteSet(tops) /\ Cardinality(tops) \in Nat
  <2>1. IsFiniteSet(DOMAIN entries)
    BY EntrySizes, FS_Interval
  <2>2. top \in Surjection(DOMAIN entries, tops)
    BY DEF Surjection
  <2> HIDE DEF tops, top
  <2>3. IsFiniteSet(tops)
    BY <2>1, <2>2, FS_Surjection
  <2> QED
    BY <2>3, FS_CardinalityType
<1>2. ASSUME \A a, b \in tops : a = b PROVE Cardinality(tops) <= 1
  <2> HIDE DEF tops
  <2>1. CASE tops = {}
    BY <2>1, FS_EmptySet
  <2>2. CASE tops # {}
    <3>1. PICK a \in tops : TRUE
      BY <2>2
    <3>2. tops = {a}
      BY <1>2, <3>1
    <3>3. Cardinality({a}) = 1
      BY FS_Singleton, Zenon
    <3> QED
      BY <3>2, <3>3
  <2> QED
    BY <2>1, <2>2
<1>3. ASSUME NEW a \in tops, NEW b \in tops, a # b PROVE ~(Cardinality(tops) <= 1)
  <2> HIDE DEF tops
  <2>1. IsFiniteSet({a}) /\ Cardinality({a}) = 1
    BY FS_Singleton
  <2>2. Cardinality({a} \cup {b}) = 2
    <3>1. b \notin {a}
      BY <1>3
    <3>2. Cardinality({a} \cup {b}) = IF b \in {a} THEN Cardinality({a}) ELSE Cardinality({a}) + 1
      BY <2>1, FS_AddElement, Zenon
    <3> QED
      BY <2>1, <3>1, <3>2
  <2>3. {a} \cup {b} \subseteq tops
    BY <1>3
  <2>4. Cardinality({a} \cup {b}) <= Cardinality(tops)
    BY <1>1, <2>3, FS_Subset
  <2>5. 2 <= Cardinality(tops)
    BY <2>2, <2>4, Zenon
  <2>6. \A k \in Nat : 2 <= k => ~(k <= 1)
    OBVIOUS
  <2> QED
    BY <1>1, <2>5, <2>6, Zenon
<1>4. (\A i, j \in DOMAIN entries : entries[i].top = entries[j].top)
        <=> \A a, b \in tops : a = b
  OBVIOUS
<1> QED
  BY <1>2, <1>3, <1>4

LEMMA LimitsExact ==
  ASSUME NEW entries \in Seq(ArchiveEntry)
  PROVE  LimitsAreExact(entries)
<1> DEFINE Fits(e) == /\ e.safe /\ ~e.link /\ e.size <= MaxEntryBytes
                      /\ e.packed = 0 \/ e.size <= MaxCompressionRatio * e.packed
<1>1. ASSUME NEW e \in ArchiveEntry
      PROVE  /\ e.size > MaxEntryBytes <=> ~(e.size <= MaxEntryBytes)
             /\ CompressionTooHigh(e)
                  <=> ~(e.packed = 0 \/ e.size <= MaxCompressionRatio * e.packed)
  <2>1. e.size \in Nat /\ e.packed \in Nat /\ MaxEntryBytes \in Nat
    BY LimitsAssumption DEF ArchiveEntry
  <2>2. MaxCompressionRatio * e.packed \in Nat
    BY <2>1, LimitsAssumption
  <2> QED
    BY <2>1, <2>2 DEF CompressionTooHigh
<1>2. ASSUME NEW i \in DOMAIN entries
      PROVE  ~EntryRefused(entries, i)
               <=> Fits(entries[i]) /\ TotalAfter(entries)[i] <= MaxUncompressedBytes
  <2>1. entries[i] \in ArchiveEntry /\ TotalAfter(entries)[i] \in Nat
    BY EntrySizes, TotalAddsUp
  <2>2. MaxUncompressedBytes \in Nat
    BY LimitsAssumption
  <2>3. TotalAfter(entries)[i] > MaxUncompressedBytes
          <=> ~(TotalAfter(entries)[i] <= MaxUncompressedBytes)
    BY <2>1, <2>2
  <2> QED
    BY <1>1, <2>1, <2>3 DEF EntryRefused
<1>3. (\A i \in DOMAIN entries : TotalAfter(entries)[i] <= MaxUncompressedBytes)
        <=> Unpacked(entries) <= MaxUncompressedBytes
  BY TotalWithin, UnpackedIsTotal, LimitsAssumption
<1>4. Accepted(entries) <=>
        /\ Len(entries) <= MaxArchiveEntries
        /\ \A i \in DOMAIN entries : Fits(entries[i])
        /\ Unpacked(entries) <= MaxUncompressedBytes
        /\ Cardinality({entries[i].top : i \in DOMAIN entries}) <= 1
  <2> HIDE DEF Fits
  <2> QED
    BY <1>2, <1>3, OneTop DEF Accepted
<1> QED
  BY <1>4, Zenon DEF LimitsAreExact, Unpacked

-----------------------------------------------------------------------------
(* Reading a text character by character.                                  *)

ReadStates == {"in", "out", "escape"}

LEMMA ReadTyped ==
  ASSUME NEW state \in ReadStates, NEW c
  PROVE  ReadCharacter(state, c) \in ReadStates
BY DEF ReadStates, ReadCharacter

LEMMA ReadRecursion ==
  ASSUME NEW start \in ReadStates, NEW t \in Seq(Characters)
  PROVE  LET n == Len(t)
         IN  \E r \in [0..n -> ReadStates] :
               /\ r[0] = start /\ \A i \in 1..n : r[i] = ReadCharacter(r[i - 1], t[i])
               /\ ReadText(start, t) = r[n]
<1> DEFINE n == Len(t)
           reads == [i \in 1..n |-> [x \in ReadStates |-> ReadCharacter(x, t[i])]]
           Reads(iter) == iter = [s \in SUBSET (DOMAIN t) |->
                                    IF s = {} THEN start
                                    ELSE ReadCharacter(iter[s \ {Max(s)}], t[Max(s)])]
           fold == CHOOSE iter : Reads(iter)
<1>1. n \in Nat /\ DOMAIN t = 1..n
  OBVIOUS
<1>2. ReadText(start, t) = fold[DOMAIN t]
  BY Zenon DEF ReadText, FoldLeft, MapThenFoldSet
<1>3. reads \in Steps(n, ReadStates)
  BY ReadTyped DEF Steps
<1>4. PICK f \in [SUBSET (1..n) -> ReadStates] : Folds(f, start, reads, n)
  <2> HIDE DEF n, reads
  <2> QED
    BY <1>1, <1>3, FoldExists
<1>5. PICK r \in [0..n -> ReadStates] : Follows(r, start, reads, n)
  <2> HIDE DEF n, reads
  <2> QED
    BY <1>1, <1>3, RecursionExists
<1>6. r[0] = start /\ \A i \in 1..n : r[i] = ReadCharacter(r[i - 1], t[i])
  <2>1. ASSUME NEW i \in 1..n PROVE r[i] = ReadCharacter(r[i - 1], t[i])
    <3>1. i - 1 \in 0..n
      BY <1>1
    <3>2. reads[i] = [x \in ReadStates |-> ReadCharacter(x, t[i])]
      OBVIOUS
    <3> HIDE DEF reads, n
    <3>3. r[i] = reads[i][r[i - 1]] /\ r[i - 1] \in ReadStates
      BY <1>5, <3>1 DEF Follows
    <3> QED
      BY <3>2, <3>3
  <2> QED
    BY <1>5, <2>1 DEF Follows
<1>7. Reads(f)
  <2>1. ASSUME NEW s \in SUBSET (1..n), s # {}
        PROVE  f[s] = ReadCharacter(f[s \ {Max(s)}], t[Max(s)])
    <3>1. f[s] = reads[Max(s)][f[s \ {Max(s)}]]
      BY <1>4, <2>1 DEF Folds
    <3>2. Max(s) \in 1..n
      BY <1>1, <2>1, RestIsBelow
    <3>3. f[s \ {Max(s)}] \in ReadStates
      OBVIOUS
    <3>4. reads[Max(s)] = [x \in ReadStates |-> ReadCharacter(x, t[Max(s)])]
      BY <3>2
    <3> HIDE DEF reads
    <3> QED
      BY <3>1, <3>3, <3>4
  <2>2. f[{}] = start
    BY <1>4 DEF Folds
  <2> HIDE DEF n
  <2>3. \A s \in SUBSET (1..n) :
          f[s] = IF s = {} THEN start ELSE ReadCharacter(f[s \ {Max(s)}], t[Max(s)])
    BY <2>1, <2>2
  <2> QED
    BY <1>1, <2>3
<1>8. Reads(fold)
  <2> HIDE DEF Reads
  <2> QED
    BY <1>7
<1>9. ASSUME NEW s \in SUBSET (1..n)
      PROVE  fold[s] = IF s = {} THEN start ELSE ReadCharacter(fold[s \ {Max(s)}], t[Max(s)])
  <2> HIDE DEF fold, n
  <2> QED
    BY <1>1, <1>8
<1> HIDE DEF fold, n
<1> DEFINE T == {k \in 0..n : fold[1..k] = r[k]}
<1>10. 0 \in T
  <2>1. 1..0 = {} /\ {} \in SUBSET (1..n) /\ 0 \in 0..n
    BY <1>1
  <2>2. fold[{}] = start
    BY <1>9, <2>1
  <2> QED
    BY <1>6, <2>1, <2>2
<1>11. ASSUME NEW k \in 0 .. n - 1, k \in T PROVE k + 1 \in T
  <2>1. k + 1 \in 1..n /\ k + 1 \in 0..n /\ k + 1 \in Nat /\ k + 1 > 0 /\ (k + 1) - 1 = k
    BY <1>1
  <2>2. 1 .. k + 1 \in SUBSET (1..n) /\ k + 1 \in 1 .. k + 1
    BY <1>1, <2>1
  <2>3. Max(1 .. k + 1) = k + 1 /\ (1 .. k + 1) \ {Max(1 .. k + 1)} = 1 .. (k + 1) - 1
    BY <2>1, MaxOfInterval
  <2>4. fold[1 .. k + 1] = ReadCharacter(fold[1..k], t[k + 1])
    BY <1>9, <2>1, <2>2, <2>3
  <2>5. r[k + 1] = ReadCharacter(r[(k + 1) - 1], t[k + 1])
    BY <1>6, <2>1
  <2> QED
    BY <1>11, <2>1, <2>4, <2>5
<1>12. fold[1..n] = r[n]
  <2> HIDE DEF T
  <2>1. \A k \in 0..n : k \in T
    BY <1>1, <1>10, <1>11, IntervalInduction
  <2>2. n \in T
    BY <1>1, <2>1
  <2> QED
    BY <2>2 DEF T
<1> QED
  BY <1>1, <1>2, <1>6, <1>12 DEF n

LEMMA ReadEmpty ==
  ASSUME NEW start \in ReadStates
  PROVE  ReadText(start, <<>>) = start
<1> DEFINE t == <<>>
<1>1. t \in Seq(Characters) /\ Len(t) = 0
  OBVIOUS
<1> HIDE DEF t
<1>2. PICK r \in [0..Len(t) -> ReadStates] :
        /\ r[0] = start /\ \A i \in 1..Len(t) : r[i] = ReadCharacter(r[i - 1], t[i])
        /\ ReadText(start, t) = r[Len(t)]
  BY <1>1, ReadRecursion, Zenon
<1>3. ReadText(start, t) = start
  BY <1>1, <1>2
<1> QED
  BY <1>3 DEF t

\* A text is read a character after the other.
LEMMA ReadAppend ==
  ASSUME NEW start \in ReadStates, NEW t \in Seq(Characters), NEW c \in Characters
  PROVE  /\ ReadText(start, t) \in ReadStates
         /\ ReadText(start, Append(t, c)) = ReadCharacter(ReadText(start, t), c)
<1> DEFINE n == Len(t)
           more == Append(t, c)
<1>1. /\ n \in Nat /\ more \in Seq(Characters) /\ Len(more) = n + 1
      /\ more[n + 1] = c /\ \A i \in 1..n : more[i] = t[i]
  OBVIOUS
<1>2. PICK r \in [0..n -> ReadStates] :
        /\ r[0] = start /\ \A i \in 1..n : r[i] = ReadCharacter(r[i - 1], t[i])
        /\ ReadText(start, t) = r[n]
  BY ReadRecursion
<1>3. PICK q \in [0 .. n + 1 -> ReadStates] :
        /\ q[0] = start /\ \A i \in 1 .. n + 1 : q[i] = ReadCharacter(q[i - 1], more[i])
        /\ ReadText(start, more) = q[n + 1]
  <2> HIDE DEF more, n
  <2>1. LET m == Len(more)
        IN  \E f \in [0..m -> ReadStates] :
              /\ f[0] = start /\ \A i \in 1..m : f[i] = ReadCharacter(f[i - 1], more[i])
              /\ ReadText(start, more) = f[m]
    BY <1>1, ReadRecursion
  <2> QED
    BY <1>1, <2>1
<1> HIDE DEF n, more
<1> DEFINE T == {k \in 0..n : q[k] = r[k]}
<1>4. 0 \in T
  BY <1>1, <1>2, <1>3
<1>5. ASSUME NEW k \in 0 .. n - 1, k \in T PROVE k + 1 \in T
  <2>1. k + 1 \in 1..n /\ k + 1 \in 1 .. n + 1 /\ k + 1 \in 0..n /\ (k + 1) - 1 = k
    BY <1>1
  <2>2. q[k + 1] = ReadCharacter(q[(k + 1) - 1], more[k + 1])
    BY <1>3, <2>1
  <2>3. r[k + 1] = ReadCharacter(r[(k + 1) - 1], t[k + 1])
    BY <1>2, <2>1
  <2>4. more[k + 1] = t[k + 1]
    BY <1>1, <2>1
  <2> QED
    BY <1>5, <2>1, <2>2, <2>3, <2>4
<1>6. q[n] = r[n] /\ r[n] \in ReadStates
  <2> HIDE DEF T
  <2>1. \A k \in 0..n : k \in T
    BY <1>1, <1>4, <1>5, IntervalInduction
  <2>2. n \in T /\ n \in 0..n
    BY <1>1, <2>1
  <2> QED
    BY <2>2 DEF T
<1>7. q[n + 1] = ReadCharacter(q[n], c)
  <2>1. n + 1 \in 1 .. n + 1 /\ (n + 1) - 1 = n
    BY <1>1
  <2>2. q[n + 1] = ReadCharacter(q[(n + 1) - 1], more[n + 1])
    BY <1>3, <2>1
  <2> QED
    BY <1>1, <2>1, <2>2
<1> QED
  BY <1>2, <1>3, <1>6, <1>7 DEF more

-----------------------------------------------------------------------------
(* _escape_logs_insights_string.                                           *)

LEMMA ReplacedEmpty ==
  ASSUME NEW from, NEW to
  PROVE  Replaced(from, to, <<>>) = <<>>
BY DEF Replaced, FlattenSeq

\* What str.replace puts where c stood.
Block(from, to, c) == IF c = from THEN to ELSE <<c>>

\* str.replace of single characters works from left to right.
LEMMA ReplacedAppend ==
  ASSUME NEW from, NEW to \in Seq(Characters), NEW t \in Seq(Characters), NEW c \in Characters
  PROVE  /\ Replaced(from, to, t) \in Seq(Characters)
         /\ Replaced(from, to, Append(t, c)) = Replaced(from, to, t) \o Block(from, to, c)
<1> DEFINE Blocks(u) == [i \in DOMAIN u |-> IF u[i] = from THEN to ELSE <<u[i]>>]
<1>1. \A d \in Characters : Block(from, to, d) \in Seq(Characters)
  BY DEF Block
<1>2. Blocks(t) \in Seq(Seq(Characters))
  <2>1. \A i \in 1..Len(t) : t[i] \in Characters
    OBVIOUS
  <2>2. DOMAIN t = 1..Len(t) /\ Len(t) \in Nat
    OBVIOUS
  <2>3. Blocks(t) \in [1..Len(t) -> Seq(Characters)]
    BY <1>1, <2>1, <2>2 DEF Block
  <2> QED
    BY <2>2, <2>3
<1>3. Blocks(Append(t, c)) = Append(Blocks(t), Block(from, to, c))
  BY DEF Block
<1>4. /\ FlattenSeq(Blocks(t)) \in Seq(Characters)
      /\ FlattenSeq(Append(Blocks(t), Block(from, to, c)))
           = FlattenSeq(Blocks(t)) \o Block(from, to, c)
  <2>1. Block(from, to, c) \in Seq(Characters)
    BY <1>1
  <2> HIDE DEF Blocks
  <2> QED
    BY <1>2, <2>1, FlattenAppend
<1> QED
  BY <1>3, <1>4, Zenon DEF Replaced

\* Each character of a text is escaped for itself.
LEMMA EscapeAppend ==
  ASSUME NEW t \in Seq(Characters), NEW c \in Characters
  PROVE  LET escaped == EscapeLogsInsightsString(t)
             more == EscapeLogsInsightsString(Append(t, c))
         IN  /\ escaped \in Seq(Characters)
             /\ c = "other" => more = Append(escaped, c)
             /\ c # "other" => more = Append(Append(escaped, "backslash"), c)
<1> DEFINE twice == <<"backslash", "backslash">>
           masked == <<"backslash", "quote">>
           First(u) == Replaced("backslash", twice, u)
           Second(u) == Replaced("quote", masked, u)
<1>1. twice \in Seq(Characters) /\ masked \in Seq(Characters) /\ "backslash" \in Characters
  BY DEF Characters
<1>2. /\ First(t) \in Seq(Characters)
      /\ First(Append(t, c)) = First(t) \o Block("backslash", twice, c)
  <2> HIDE DEF twice
  <2> QED
    BY <1>1, ReplacedAppend
<1>3. ASSUME NEW u \in Seq(Characters), NEW d \in Characters
      PROVE  /\ Second(u) \in Seq(Characters)
             /\ Second(Append(u, d)) = Second(u) \o Block("quote", masked, d)
  <2> HIDE DEF masked
  <2> QED
    BY <1>1, ReplacedAppend
<1>4. EscapeLogsInsightsString(t) = Second(First(t))
      /\ EscapeLogsInsightsString(Append(t, c)) = Second(First(Append(t, c)))
  BY DEF EscapeLogsInsightsString
<1> HIDE DEF First, Second
<1>5. Second(First(t)) \in Seq(Characters)
  BY <1>2, <1>3
<1>6. CASE c = "backslash"
  <2> DEFINE u == Append(First(t), "backslash")
  <2>1. First(Append(t, c)) = Append(u, "backslash") /\ u \in Seq(Characters)
    BY <1>1, <1>2, <1>6 DEF Block
  <2>2. Second(u) = Second(First(t)) \o <<"backslash">> /\ Second(u) \in Seq(Characters)
    BY <1>1, <1>2, <1>3, <2>1 DEF Block
  <2> HIDE DEF u
  <2>3. Second(Append(u, "backslash")) = Second(u) \o <<"backslash">>
    BY <1>1, <1>3, <2>1 DEF Block
  <2>4. Second(Append(u, "backslash")) = Append(Append(Second(First(t)), "backslash"), "backslash")
    <3>1. \A v \in Seq(Characters) : v \o <<"backslash">> = Append(v, "backslash")
      BY <1>1
    <3> QED
      BY <1>5, <2>2, <2>3, <3>1
  <2> QED
    BY <1>4, <1>5, <1>6, <2>1, <2>4
<1>7. CASE c # "backslash"
  <2>1. First(Append(t, c)) = Append(First(t), c)
    BY <1>2, <1>7 DEF Block
  <2>2. Second(Append(First(t), c))
          = Second(First(t)) \o (IF c = "quote" THEN <<"backslash", "quote">> ELSE <<c>>)
    BY <1>2, <1>3 DEF Block
  <2>3. CASE c = "quote"
    BY <1>4, <1>5, <2>1, <2>2, <2>3
  <2>4. CASE c = "other"
    BY <1>4, <1>5, <2>1, <2>2, <2>4
  <2> QED
    BY <1>7, <2>3, <2>4 DEF Characters
<1> QED
  BY <1>6, <1>7

LEMMA EscapeEmpty == EscapeLogsInsightsString(<<>>) = <<>>
BY ReplacedEmpty DEF EscapeLogsInsightsString

\* Reading from within a literal does not get out of it.
StaysIn(t) == \A n \in 0..Len(t) : ReadText("in", SubSeq(t, 1, n)) # "out"

LEMMA StaysInAppend ==
  ASSUME NEW t \in Seq(Characters), NEW c \in Characters, StaysIn(t),
         ReadText("in", Append(t, c)) # "out"
  PROVE  StaysIn(Append(t, c))
<1> SUFFICES ASSUME NEW n \in 0..Len(Append(t, c))
             PROVE  ReadText("in", SubSeq(Append(t, c), 1, n)) # "out"
  BY DEF StaysIn
<1>1. CASE n \in 0..Len(t)
  <2>1. SubSeq(Append(t, c), 1, n) = SubSeq(t, 1, n)
    BY <1>1
  <2> QED
    BY <1>1, <2>1 DEF StaysIn
<1>2. CASE n = Len(t) + 1
  <2>1. SubSeq(Append(t, c), 1, n) = Append(t, c)
    BY <1>2
  <2> QED
    BY <2>1
<1> QED
  BY <1>1, <1>2

LEMMA EscapedStaysIn ==
  ASSUME NEW text \in Seq(Characters)
  PROVE  LiteralHolds(text)
<1> DEFINE Esc(t) == EscapeLogsInsightsString(t)
           S == {t \in Seq(Characters) : ReadText("in", Esc(t)) = "in" /\ StaysIn(Esc(t))}
<1>1. "in" \in ReadStates /\ "backslash" \in Characters
  BY DEF ReadStates, Characters
<1>2. <<>> \in S
  <2>1. Esc(<<>>) = <<>> /\ ReadText("in", <<>>) = "in"
    BY <1>1, EscapeEmpty, ReadEmpty
  <2>2. StaysIn(<<>>)
    <3>1. \A n \in 0..Len(<<>>) : SubSeq(<<>>, 1, n) = <<>>
      OBVIOUS
    <3> QED
      BY <2>1, <3>1 DEF StaysIn
  <2> QED
    BY <2>1, <2>2
<1>3. ASSUME NEW t \in Seq(Characters), NEW c \in Characters, t \in S
      PROVE  Append(t, c) \in S
  <2> DEFINE e == Esc(t)
             b == Append(e, "backslash")
  <2>1. /\ e \in Seq(Characters) /\ ReadText("in", e) = "in" /\ StaysIn(e)
    BY <1>3, EscapeAppend
  <2>2. /\ c = "other" => Esc(Append(t, c)) = Append(e, c)
        /\ c # "other" => Esc(Append(t, c)) = Append(b, c)
    BY EscapeAppend
  <2>3. Append(t, c) \in Seq(Characters)
    OBVIOUS
  <2> HIDE DEF e, Esc
  <2>4. CASE c = "other"
    <3>1. ReadText("in", Append(e, c)) = "in"
      BY <1>1, <2>1, <2>4, ReadAppend DEF ReadCharacter
    <3>2. StaysIn(Append(e, c))
      BY <2>1, <3>1, StaysInAppend
    <3> QED
      BY <2>2, <2>3, <2>4, <3>1, <3>2
  <2>5. CASE c # "other"
    <3>1. b \in Seq(Characters) /\ ReadText("in", b) = "escape"
      BY <1>1, <2>1, ReadAppend DEF ReadCharacter
    <3>2. StaysIn(b)
      BY <1>1, <2>1, <3>1, StaysInAppend
    <3> HIDE DEF b
    <3>3. ReadText("in", Append(b, c)) = "in"
      BY <1>1, <3>1, ReadAppend DEF ReadCharacter
    <3>4. StaysIn(Append(b, c))
      BY <3>1, <3>2, <3>3, StaysInAppend
    <3> QED
      BY <2>2, <2>3, <2>5, <3>3, <3>4
  <2> QED
    BY <2>4, <2>5
<1>4. text \in S
  <2> HIDE DEF S
  <2> QED
    BY <1>2, <1>3, SeqSetInduction
<1> QED
  BY <1>4 DEF LiteralHolds, StaysIn

-----------------------------------------------------------------------------
(* The quote check on a custom filter.                                     *)

\* The quotes among the first k characters, and the backslashes before one of them.
QuotesTo(text, k) == {i \in 1..k : text[i] = "quote"}
MaskedTo(text, k) == {i \in 1 .. k - 1 : text[i] = "backslash" /\ text[i + 1] = "quote"}

\* Of two numbers, one more of the one changes whether they are both odd or both even.
LEMMA Parity ==
  ASSUME NEW a \in Nat, NEW b \in Nat
  PROVE  /\ (a + 1) % 2 = (b + 1) % 2 <=> a % 2 = b % 2
         /\ (a + 1) % 2 = b % 2 <=> ~(a % 2 = b % 2)
OBVIOUS

LEMMA QuotesCounted ==
  ASSUME NEW text, NEW k \in Nat
  PROVE  /\ Cardinality(QuotesTo(text, k)) \in Nat /\ Cardinality(MaskedTo(text, k)) \in Nat
         /\ Cardinality(QuotesTo(text, k + 1))
              = Cardinality(QuotesTo(text, k)) + (IF text[k + 1] = "quote" THEN 1 ELSE 0)
         /\ k = 0 => Cardinality(MaskedTo(text, k + 1)) = Cardinality(MaskedTo(text, k))
         /\ k # 0 => Cardinality(MaskedTo(text, k + 1))
              = Cardinality(MaskedTo(text, k))
                + (IF text[k] = "backslash" /\ text[k + 1] = "quote" THEN 1 ELSE 0)
<1> DEFINE Q == QuotesTo(text, k)
           M == MaskedTo(text, k)
<1>1. IsFiniteSet(Q) /\ k + 1 \notin Q
  <2>1. IsFiniteSet(1..k) /\ Q \in SUBSET (1..k)
    BY FS_Interval DEF QuotesTo
  <2> QED
    BY <2>1, FS_Subset DEF QuotesTo
<1>2. IsFiniteSet(M) /\ k \notin M
  <2>1. IsFiniteSet(1 .. k - 1) /\ M \in SUBSET (1 .. k - 1)
    BY FS_Interval DEF MaskedTo
  <2> QED
    BY <2>1, FS_Subset DEF MaskedTo
<1>3. Cardinality(Q) \in Nat /\ Cardinality(M) \in Nat
  BY <1>1, <1>2, FS_CardinalityType
<1>4. QuotesTo(text, k + 1) = IF text[k + 1] = "quote" THEN Q \cup {k + 1} ELSE Q
  BY DEF QuotesTo
<1>5. k = 0 => MaskedTo(text, k + 1) = M
  BY DEF MaskedTo
<1>6. k # 0 => MaskedTo(text, k + 1)
                 = IF text[k] = "backslash" /\ text[k + 1] = "quote" THEN M \cup {k} ELSE M
  BY DEF MaskedTo
<1>7. /\ Cardinality(Q \cup {k + 1}) = Cardinality(Q) + 1
      /\ Cardinality(M \cup {k}) = Cardinality(M) + 1
  <2> HIDE DEF Q, M
  <2> QED
    BY <1>1, <1>2, FS_AddElement
<1> QED
  BY <1>3, <1>4, <1>5, <1>6, <1>7

\* After a prefix of a filter whose backslashes all escape something, the reader
\* is outside a literal exactly when the check's two counts agree.
LEMMA FilterChecked ==
  ASSUME NEW text \in Seq(Characters)
  PROVE  FilterQuotesChecked(text)
<1> DEFINE n == Len(text)
           read == [k \in 0..n |-> ReadText("out", SubSeq(text, 1, k))]
           q == [k \in 0..n |-> Cardinality(QuotesTo(text, k))]
           m == [k \in 0..n |-> Cardinality(MaskedTo(text, k))]
           T == {k \in 0..n : /\ read[k] \in ReadStates
                              /\ read[k] = "escape" <=> k # 0 /\ text[k] = "backslash"
                              /\ read[k] = "out" <=> q[k] % 2 = m[k] % 2}
<1> SUFFICES ASSUME \A i \in DOMAIN text : text[i] = "backslash" =>
                      ReadText("out", SubSeq(text, 1, i)) = "escape"
             PROVE  QuotesBalanced(text) <=> ReadText("out", text) = "out"
  BY DEF FilterQuotesChecked
<1>1. n \in Nat /\ DOMAIN text = 1..n /\ \A i \in 1..n : text[i] \in Characters
  OBVIOUS
<1>2. "out" \in ReadStates
  BY DEF ReadStates
<1>3. 0 \in T
  <2>1. SubSeq(text, 1, 0) = <<>>
    OBVIOUS
  <2>2. read[0] = "out"
    <3>1. ReadText("out", <<>>) = "out"
      BY <1>2, ReadEmpty
    <3>2. read[0] = ReadText("out", SubSeq(text, 1, 0))
      BY <1>1
    <3> QED
      BY <2>1, <3>1, <3>2, Zenon
  <2>3. QuotesTo(text, 0) = {} /\ MaskedTo(text, 0) = {}
    BY DEF QuotesTo, MaskedTo
  <2>4. q[0] = m[0]
    <3>1. q[0] = Cardinality(QuotesTo(text, 0)) /\ m[0] = Cardinality(MaskedTo(text, 0))
      BY <1>1
    <3> QED
      BY <2>3, <3>1, Zenon
  <2> QED
    BY <1>1, <1>2, <2>2, <2>4
<1>4. ASSUME NEW k \in 0 .. n - 1 PROVE read[k + 1] = ReadCharacter(read[k], text[k + 1])
  <2>1. /\ k \in 0..n /\ k + 1 \in 0..n /\ text[k + 1] \in Characters
        /\ SubSeq(text, 1, k) \in Seq(Characters)
        /\ SubSeq(text, 1, k + 1) = Append(SubSeq(text, 1, k), text[k + 1])
    BY <1>1
  <2>2. read[k] = ReadText("out", SubSeq(text, 1, k))
        /\ read[k + 1] = ReadText("out", SubSeq(text, 1, k + 1))
    BY <2>1
  <2>3. ReadText("out", Append(SubSeq(text, 1, k), text[k + 1]))
          = ReadCharacter(ReadText("out", SubSeq(text, 1, k)), text[k + 1])
    BY <1>2, <2>1, ReadAppend
  <2> QED
    BY <2>1, <2>2, <2>3
<1>5. ASSUME NEW k \in 0 .. n - 1
      PROVE  /\ q[k] \in Nat /\ m[k] \in Nat
             /\ q[k + 1] = q[k] + (IF text[k + 1] = "quote" THEN 1 ELSE 0)
             /\ k = 0 => m[k + 1] = m[k]
             /\ k # 0 => m[k + 1] = m[k] + (IF text[k] = "backslash" /\ text[k + 1] = "quote"
                                            THEN 1 ELSE 0)
  <2>1. k \in 0..n /\ k + 1 \in 0..n /\ k \in Nat
    BY <1>1
  <2> QED
    BY <2>1, QuotesCounted
<1>6. \A i \in 1..n : text[i] = "backslash" => read[i] = "escape"
  BY <1>1
<1>7. /\ QuotesBalanced(text) <=> q[n] % 2 = m[n] % 2
      /\ ReadText("out", text) = read[n]
  <2>1. SubSeq(text, 1, n) = text
    BY <1>1
  <2>2. /\ read[n] = ReadText("out", SubSeq(text, 1, n))
        /\ q[n] = Cardinality(QuotesTo(text, n)) /\ m[n] = Cardinality(MaskedTo(text, n))
    BY <1>1
  <2>3. /\ QuotesTo(text, n) = {i \in DOMAIN text : text[i] = "quote"}
        /\ MaskedTo(text, n) = {i \in 1 .. Len(text) - 1 :
                                  text[i] = "backslash" /\ text[i + 1] = "quote"}
    BY <1>1 DEF QuotesTo, MaskedTo
  <2>4. QuotesBalanced(text) <=> q[n] % 2 = m[n] % 2
    <3> HIDE DEF q, m, n
    <3> QED
      BY <2>2, <2>3, Zenon DEF QuotesBalanced
  <2>5. ReadText("out", text) = read[n]
    <3> HIDE DEF read, n
    <3> QED
      BY <2>1, <2>2, Zenon
  <2> QED
    BY <2>4, <2>5
<1> HIDE DEF n, read, q, m
<1>8. ASSUME NEW k \in 0 .. n - 1, k \in T PROVE k + 1 \in T
  <2> DEFINE c == text[k + 1]
  <2>1. k \in 0..n /\ k + 1 \in 0..n /\ k + 1 \in 1..n /\ k + 1 # 0 /\ c \in Characters
    BY <1>1
  <2>2. /\ read[k] \in ReadStates /\ q[k] \in Nat /\ m[k] \in Nat
        /\ read[k] = "escape" <=> k # 0 /\ text[k] = "backslash"
        /\ read[k] = "out" <=> q[k] % 2 = m[k] % 2
    BY <1>5, <1>8
  <2>3. read[k + 1] = ReadCharacter(read[k], c)
    BY <1>4
  <2>4. /\ read[k + 1] \in ReadStates
        /\ read[k + 1] = "escape" <=> c = "backslash"
        /\ read[k + 1] = "out" <=> q[k + 1] % 2 = m[k + 1] % 2
    <3>1. CASE c = "backslash"
      <4>1. read[k + 1] = "escape"
        BY <1>6, <2>1, <3>1
      <4>2. read[k] = "in"
        BY <2>2, <2>3, <3>1, <4>1 DEF ReadCharacter, ReadStates
      <4>3. q[k + 1] = q[k] /\ m[k + 1] = m[k]
        BY <1>5, <2>2, <3>1
      <4> QED
        BY <2>2, <3>1, <4>1, <4>2, <4>3 DEF ReadStates
    <3>2. CASE c = "other"
      <4>1. q[k + 1] = q[k] /\ m[k + 1] = m[k]
        BY <1>5, <2>2, <3>2
      <4>2. read[k + 1] = IF read[k] = "escape" THEN "in" ELSE read[k]
        BY <2>2, <2>3, <3>2 DEF ReadCharacter, ReadStates
      <4> QED
        BY <2>2, <3>2, <4>1, <4>2 DEF ReadStates
    <3>3. CASE c = "quote" /\ read[k] = "escape"
      <4>1. q[k + 1] = q[k] + 1 /\ m[k + 1] = m[k] + 1
        BY <1>5, <2>2, <3>3
      <4>2. read[k + 1] = "in"
        BY <2>3, <3>3 DEF ReadCharacter
      <4>3. ~(q[k + 1] % 2 = m[k + 1] % 2)
        <5>1. (q[k] + 1) % 2 = (m[k] + 1) % 2 <=> q[k] % 2 = m[k] % 2
          BY <2>2, Parity, Zenon
        <5>2. ~(q[k] % 2 = m[k] % 2)
          BY <2>2, <3>3
        <5>3. ~((q[k] + 1) % 2 = (m[k] + 1) % 2)
          BY <5>1, <5>2, Zenon
        <5> QED
          BY <4>1, <5>3, Zenon
      <4> QED
        BY <3>3, <4>2, <4>3 DEF ReadStates
    <3>4. CASE c = "quote" /\ read[k] # "escape"
      <4>1. q[k + 1] = q[k] + 1 /\ m[k + 1] = m[k]
        BY <1>5, <2>2, <3>4
      <4>2. read[k + 1] = IF read[k] = "in" THEN "out" ELSE "in"
        BY <2>2, <2>3, <3>4 DEF ReadCharacter, ReadStates
      <4>3. q[k + 1] % 2 = m[k + 1] % 2 <=> ~(q[k] % 2 = m[k] % 2)
        <5>1. (q[k] + 1) % 2 = m[k] % 2 <=> ~(q[k] % 2 = m[k] % 2)
          BY <2>2, Parity, Zenon
        <5> QED
          BY <4>1, <5>1, Zenon
      <4> QED
        BY <2>2, <3>4, <4>2, <4>3 DEF ReadStates
    <3> QED
      BY <2>1, <3>1, <3>2, <3>3, <3>4 DEF Characters
  <2> QED
    BY <2>1, <2>4
<1>9. n \in T
  <2> HIDE DEF T
  <2>1. \A k \in 0..n : k \in T
    BY <1>1, <1>3, <1>8, IntervalInduction
  <2> QED
    BY <1>1, <2>1
<1> QED
  BY <1>7, <1>9

\* Where it is wrong: a literal that ends behind an escaped backslash, and what
\* follows it.
LEMMA EscapedBackslashes ==
  LET ended == <<"quote", "backslash", "backslash", "quote">>
      open  == Append(ended, "quote")
  IN  /\ ended \in Seq(Characters) /\ open \in Seq(Characters)
      /\ ReadText("out", ended) = "out" /\ ~QuotesBalanced(ended)
      /\ ReadText("out", open) = "in" /\ QuotesBalanced(open)
<1> DEFINE t1 == <<"quote">>
           t2 == <<"quote", "backslash">>
           t3 == <<"quote", "backslash", "backslash">>
           ended == <<"quote", "backslash", "backslash", "quote">>
           open == Append(ended, "quote")
<1>1. "quote" \in Characters /\ "backslash" \in Characters /\ "out" \in ReadStates
  BY DEF Characters, ReadStates
<1>2. /\ <<>> \in Seq(Characters) /\ t1 \in Seq(Characters) /\ t2 \in Seq(Characters)
      /\ t3 \in Seq(Characters) /\ ended \in Seq(Characters) /\ open \in Seq(Characters)
  BY <1>1
<1>3. /\ t1 = Append(<<>>, "quote") /\ t2 = Append(t1, "backslash")
      /\ t3 = Append(t2, "backslash") /\ ended = Append(t3, "quote")
  OBVIOUS
<1>4. /\ Len(ended) = 4 /\ Len(open) = 5 /\ DOMAIN ended = 1..4 /\ DOMAIN open = 1..5
      /\ \A t \in {ended, open} : /\ t[1] = "quote" /\ t[2] = "backslash"
                                 /\ t[3] = "backslash" /\ t[4] = "quote"
      /\ open[5] = "quote"
  OBVIOUS
<1> HIDE DEF t1, t2, t3, ended, open
<1>5. ReadText("out", ended) = "out" /\ ReadText("out", open) = "in"
  <2>1. ReadText("out", <<>>) = "out"
    BY <1>1, ReadEmpty
  <2>2. ReadText("out", t1) = "in"
    <3>1. ReadText("out", Append(<<>>, "quote")) = ReadCharacter(ReadText("out", <<>>), "quote")
      BY <1>1, <1>2, ReadAppend
    <3>2. ReadCharacter("out", "quote") = "in"
      BY DEF ReadCharacter
    <3> QED
      BY <3>1, <3>2, <2>1, <1>3
  <2>3. ReadText("out", t2) = "escape"
    <3>1. ReadText("out", Append(t1, "backslash")) = ReadCharacter(ReadText("out", t1), "backslash")
      BY <1>1, <1>2, ReadAppend
    <3>2. ReadCharacter("in", "backslash") = "escape"
      BY DEF ReadCharacter
    <3> QED
      BY <3>1, <3>2, <2>2, <1>3
  <2>4. ReadText("out", t3) = "in"
    <3>1. ReadText("out", Append(t2, "backslash")) = ReadCharacter(ReadText("out", t2), "backslash")
      BY <1>1, <1>2, ReadAppend
    <3>2. ReadCharacter("escape", "backslash") = "in"
      BY DEF ReadCharacter
    <3> QED
      BY <3>1, <3>2, <2>3, <1>3
  <2>5. ReadText("out", ended) = "out"
    <3>1. ReadText("out", Append(t3, "quote")) = ReadCharacter(ReadText("out", t3), "quote")
      BY <1>1, <1>2, ReadAppend
    <3>2. ReadCharacter("in", "quote") = "out"
      BY DEF ReadCharacter
    <3> QED
      BY <3>1, <3>2, <2>4, <1>3
  <2>6. ReadText("out", open) = "in"
    <3>1. ReadText("out", Append(ended, "quote")) = ReadCharacter(ReadText("out", ended), "quote")
      BY <1>1, <1>2, ReadAppend
    <3>2. ReadCharacter("out", "quote") = "in"
      BY DEF ReadCharacter
    <3> QED
      BY <3>1, <3>2, <2>5 DEF open
  <2> QED
    BY <2>5, <2>6
<1>6. /\ {i \in DOMAIN ended : ended[i] = "quote"} = {1, 4}
      /\ {i \in DOMAIN open : open[i] = "quote"} = {1, 4} \cup {5}
  BY <1>4
<1>7. \A t \in {ended, open} :
        {i \in 1 .. Len(t) - 1 : t[i] = "backslash" /\ t[i + 1] = "quote"} = {3}
  <2>1. {i \in 1..3 : ended[i] = "backslash" /\ ended[i + 1] = "quote"} = {3}
    BY <1>4
  <2>2. {i \in 1..4 : open[i] = "backslash" /\ open[i + 1] = "quote"} = {3}
    BY <1>4
  <2>3. 1 .. Len(ended) - 1 = 1..3 /\ 1 .. Len(open) - 1 = 1..4
    BY <1>4
  <2> QED
    BY <2>1, <2>2, <2>3
<1>8. Cardinality({3}) = 1 /\ Cardinality({1, 4}) = 2 /\ Cardinality({1, 4} \cup {5}) = 3
  <2>1. IsFiniteSet({1}) /\ Cardinality({1}) = 1 /\ Cardinality({3}) = 1
    BY FS_Singleton
  <2>2. {1, 4} = {1} \cup {4} /\ 4 \notin {1} /\ 5 \notin {1, 4}
    OBVIOUS
  <2>3. IsFiniteSet({1, 4}) /\ Cardinality({1, 4}) = 2
    BY <2>1, <2>2, FS_AddElement
  <2> QED
    BY <2>1, <2>2, <2>3, FS_AddElement
<1>9. ~QuotesBalanced(ended)
  <2>1. QuotesBalanced(ended) <=> 2 % 2 = 1 % 2
    BY <1>6, <1>7, <1>8 DEF QuotesBalanced
  <2> QED
    BY <2>1
<1>10. QuotesBalanced(open)
  <2>1. QuotesBalanced(open) <=> 3 % 2 = 1 % 2
    BY <1>6, <1>7, <1>8 DEF QuotesBalanced
  <2> QED
    BY <2>1
<1> QED
  BY <1>2, <1>5, <1>9, <1>10 DEF ended, open

-----------------------------------------------------------------------------
(* The theorems.                                                           *)

LEMMA PureProperty ==
  ASSUME PureInv
  PROVE  /\ CreatedCanFire /\ CreatedIsFound /\ CreatedIsShown
         /\ SummaryIsFaithful /\ QueryTextIsSafe
         /\ ArchiveIsFiltered /\ ArchiveLimitsHold /\ ManifestIsHonest
<1>1. CreatedCanFire
  BY CreatedRequest, CreatedFires DEF CreatedCanFire
<1>2. CreatedIsFound
  BY CreatedRequest, CreatedFound DEF CreatedIsFound
<1>3. CreatedIsShown
  BY CreatedRequest, CreatedShown DEF CreatedIsShown
<1>4. ASSUME NEW t \in PureTools, Ran(t) PROVE input \in InputsOf[t] /\ Computes(t, input, output)
  BY <1>4, RanComputes
<1>5. SummaryIsFaithful
  <2>1. ASSUME Ran("preview") PROVE input \in Seq(CapturedLayer)
    BY <1>4, <2>1, InputsAssumption DEF PureTools
  <2> QED
    BY <2>1, PreviewFaithful DEF SummaryIsFaithful
<1>6. QueryTextIsSafe
  <2>1. ASSUME Ran("escape") \/ Ran("filter") PROVE input \in Seq(Characters)
    BY <1>4, <2>1, InputsAssumption DEF PureTools
  <2> QED
    BY <2>1, EscapedStaysIn, FilterChecked DEF QueryTextIsSafe
<1>7. ArchiveIsFiltered
  <2> SUFFICES ASSUME Ran("zip"), output # Refused
               PROVE  NothingUnwantedIsZipped(input, output)
    BY DEF ArchiveIsFiltered
  <2>1. input \in InputsOf["zip"] /\ Computes("zip", input, output)
    BY <1>4 DEF PureTools
  <2>2. output = ZipLocalRepo(input)
    BY <2>1 DEF Computes
  <2>3. input \in SourceDir /\ IsFiniteSet(input.files)
    BY <2>1, InputsAssumption
  <2> QED
    BY <2>2, <2>3, ZipFiltered
<1>8. ArchiveLimitsHold
  <2> SUFFICES ASSUME Ran("validate") PROVE LimitsAreExact(input)
    BY DEF ArchiveLimitsHold
  <2>1. input \in Seq(ArchiveEntry)
    BY <1>4, InputsAssumption DEF PureTools
  <2> QED
    BY <2>1, LimitsExact
<1>9. ManifestIsHonest
  <2> SUFFICES ASSUME Ran("manifest")
               PROVE  GapsAreTold(input, output) /\ DraftIsTold(input, output)
    BY DEF ManifestIsHonest
  <2>1. Computes("manifest", input, output)
    BY <1>4 DEF PureTools
  <2>2. output = Manifest(input)
    BY <2>1 DEF Computes
  <2> QED
    BY <2>2, ManifestGaps
<1> QED
  BY <1>1, <1>2, <1>3, <1>5, <1>6, <1>7, <1>8, <1>9

\* What create_instrumentation sends, whatever its arguments, can fire: its location
\* names what its language needs, and a line comes with locals to capture.
THEOREM CreatedRequestsFire == ScriptsSpec => []CreatedCanFire
BY PureInductive, PureProperty, PTL

\* The arguments that created an instrumentation find it again, and so does the location
\* read back from the service: both are normalised to what create sent.
THEOREM CreatedRequestsFound == ScriptsSpec => []CreatedIsFound
BY PureInductive, PureProperty, PTL

\* get_instrumentation reads back the capture create asked for, a list that was not
\* given told apart from one that captures everything.
THEOREM CreatedRequestsShown == ScriptsSpec => []CreatedIsShown
BY PureInductive, PureProperty, PTL

\* Whatever keys a captured value, its fields and its first elements have, at any depth
\* of nesting, its preview shows what was captured and nothing else, and a value that
\* was cut as such; what it drops is said at PreviewIsFaithful.
THEOREM SummariesFaithful == ScriptsSpec => []SummaryIsFaithful
BY PureInductive, PureProperty, PTL

\* A text of any length stays within the literal it is escaped for; and if the quote check
\* is wrong about a custom filter, one of its backslashes is escaped or outside a literal.
THEOREM QueryTextsSafe == ScriptsSpec => []QueryTextIsSafe
BY PureInductive, PureProperty, PTL

\* The quote check on a custom filter (di_snapshot_tools.py:154) is wrong both ways: it
\* lets a filter through whose last literal does not end, although the comment above it
\* and snapshot-parsing.md:43 say that an unbalanced quote is rejected, and it refuses
\* one whose literals all end.
THEOREM QuoteCheckErrs ==
  /\ \E text \in Seq(Characters) : QuotesBalanced(text) /\ ReadText("out", text) = "in"
  /\ \E text \in Seq(Characters) : ~QuotesBalanced(text) /\ ReadText("out", text) = "out"
BY EscapedBackslashes

\* Of any directory, whatever git says of it, zip_local_repo packs no secret, no link,
\* nothing below a skipped directory and, where there are ignore rules, no ignored file.
THEOREM ArchivesFiltered == ScriptsSpec => []ArchiveIsFiltered
BY PureInductive, PureProperty, PTL

\* validate_archive_bytes accepts an archive of any number of entries exactly when its
\* entries, their total and their common top directory are within the limits.
THEOREM ArchiveLimitsExact == ScriptsSpec => []ArchiveLimitsHold
BY PureInductive, PureProperty, PTL

\* Whatever calls of the AWS API fail, a manifest that is written records an error for
\* every part it lacks or for what that is part of (but for the two gaps GapsAreTold
\* names), and tells that it describes a draft.
THEOREM ManifestsHonest == ScriptsSpec => []ManifestIsHonest
BY PureInductive, PureProperty, PTL
=============================================================================
