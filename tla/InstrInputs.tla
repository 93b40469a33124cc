----------------------------- MODULE InstrInputs -----------------------------
(***************************************************************************)
(* The inputs of the dynamic instrumentation tools: di_validation.py,      *)
(* di_location.py, di_capture.py and the part of create_instrumentation    *)
(* before and after its one request.  A text is the class of texts the     *)
(* code tells apart ("" and " " are the empty and the blank one); a        *)
(* request is the record of the fields it carries.  Wording is left out.   *)
(***************************************************************************)
EXTENDS Integers, FiniteSets

CONSTANTS
  None,      \* Python's None: the argument was not given
  Absent     \* the field is not in the request

\* CaptureLimits, by the name of the field.
LimitNames == {"MaxHits", "MaxStringLength", "MaxCollectionWidth", "MaxCollectionDepth",
               "MaxStackFrames", "MaxStackTraceSize", "MaxObjectDepth", "MaxFieldsPerObject"}

Spellings == [Python |-> "Python", python |-> "Python", Java |-> "Java", java |-> "Java",
              JavaScript |-> "Javascript", javascript |-> "Javascript"]

TypeSpellings == [BREAKPOINT |-> "BREAKPOINT", breakpoint |-> "BREAKPOINT",
                  PROBE |-> "PROBE", probe |-> "PROBE"]

\* The API's casing of a language, or None.
CanonicalLanguage(language) ==
  IF language \in DOMAIN Spellings THEN Spellings[language] ELSE None

NormalType(type) == IF type \in DOMAIN TypeSpellings THEN TypeSpellings[type] ELSE None

\* `not value`
Falsy(value) == value \in {None, ""}

-----------------------------------------------------------------------------
(* What create refuses.  in: the keyword arguments of the call.             *)

ProbeConstraintsBroken(in) ==
  /\ NormalType(in.type) = "PROBE"
  /\ CanonicalLanguage(in.language) = "Javascript" \/ in.line # None

\* The per-language rules without which an SDK drops the configuration.
LocationInvalid(in) ==
  LET lang == CanonicalLanguage(in.language)
  IN  \/ in.file = " "
      \/ in.line # None /\ in.line < 1
      \/ lang = None
      \/ lang = "Java" /\ (\E v \in {in.unit, in.class, in.method} : Falsy(v))
      \/ lang = "Java" /\ in.class = "qualified.Name"
      \/ lang = "Python" /\ (Falsy(in.unit) \/ Falsy(in.method))
      \/ lang = "Javascript" /\ in.line = None

CaptureNamesInvalid(names) == names # None /\ (names = {} \/ "*" \in names)

\* A line fires between call and return: only locals carry data there.
LineLevelWithoutLocalsList(in) == in.line # None /\ in.locals = {}   \* mutant: None passes

LineLevelWithoutLocals(in) == in.line # None /\ in.locals \in {None, {}}

CreateRefused(in) ==
  \/ NormalType(in.type) = None
  \/ ProbeConstraintsBroken(in)
  \/ Falsy(in.language) \/ Falsy(in.file)
  \/ LocationInvalid(in)
  \/ CaptureNamesInvalid(in.args)
  \/ CaptureNamesInvalid(in.locals)
  \/ LineLevelWithoutLocals(in)

-----------------------------------------------------------------------------
(* What create sends.                                                       *)

OrAbsent(value) == IF Falsy(value) THEN Absent ELSE value

\* CodeLocation._to_code_location_dict, for a request and for a lookup; a
\* language that is not known is sent as it is.
CodeLocation(in) ==
  [Language   |-> IF CanonicalLanguage(in.language) = None THEN in.language
                  ELSE CanonicalLanguage(in.language),
   FilePath   |-> in.file,
   CodeUnit   |-> OrAbsent(in.unit),
   ClassName  |-> OrAbsent(in.class),
   MethodName |-> OrAbsent(in.method),
   LineNumber |-> IF in.line = None THEN Absent ELSE in.line]

\* The defaults, and CodeCapture.to_api_payload.  An omitted list is not sent.
CodeCaptureFalseIsUnset(in) ==   \* mutant: `capture_return or default`
  [CaptureReturn     |-> in.return = TRUE \/ in.line = None,
   CaptureStackTrace |-> TRUE,
   CaptureLimits     |-> in.limits,
   CaptureArguments  |-> IF in.args = None THEN Absent ELSE in.args,
   CaptureLocals     |-> IF in.locals = None THEN Absent ELSE in.locals]

CodeCapture(in) ==
  [CaptureReturn     |-> IF in.return = None THEN in.line = None ELSE in.return,
   CaptureStackTrace |-> IF in.stack = None THEN TRUE ELSE in.stack,
   CaptureLimits     |-> in.limits,
   CaptureArguments  |-> IF in.args = None THEN Absent ELSE in.args,
   CaptureLocals     |-> IF in.locals = None THEN Absent ELSE in.locals]

CreateRequest(in) ==
  [InstrumentationType |-> NormalType(in.type), Location |-> CodeLocation(in),
   CaptureConfiguration |-> CodeCapture(in),
   ExpiresAt |-> IF in.ttl = None THEN Absent ELSE in.ttl,
   AttributeFilters |-> IF in.filters \in {None, {}} THEN Absent ELSE in.filters]

-----------------------------------------------------------------------------
(* How the other operations name a configuration.                           *)

\* parse_lookup_inputs: the hash comes first; the location is not validated.
LookupIdentifierVerbatim(in, hash) ==   \* mutant: the language as the caller spells it
  CASE ~Falsy(hash) -> [LocationHash |-> hash]
    [] Falsy(hash) /\ ~Falsy(in.language) /\ ~Falsy(in.file) ->
         [CodeLocation |-> [CodeLocation(in) EXCEPT !.Language = in.language]]
    [] OTHER -> None

LookupIdentifier(in, hash) ==
  CASE ~Falsy(hash) -> [LocationHash |-> hash]
    [] Falsy(hash) /\ ~Falsy(in.language) /\ ~Falsy(in.file) ->
         [CodeLocation |-> CodeLocation(in)]
    [] OTHER -> None

\* is_valid_location_hash: what check-status and the snapshot tools accept.
IsValidLocationHash(hash) == hash = "16 hex digits"

-----------------------------------------------------------------------------
(* What is read back.                                                       *)

PresentOr(value, otherwise) == IF value = Absent THEN otherwise ELSE value

\* location_from_response: an identifying field the response lacks is None.
LocationFromResponse(location) ==
  [language |-> PresentOr(location.Language, ""),
   file     |-> PresentOr(location.FilePath, ""),
   unit     |-> PresentOr(location.CodeUnit, None),
   class    |-> PresentOr(location.ClassName, None),
   method   |-> PresentOr(location.MethodName, None),
   line     |-> PresentOr(location.LineNumber, None)]

\* capture_from_response: an omitted list stays apart from an empty one.
CaptureFromResponse(capture) ==
  [return |-> capture.CaptureReturn, stack |-> capture.CaptureStackTrace,
   limits |-> capture.CaptureLimits,
   args   |-> PresentOr(capture.CaptureArguments, None),
   locals |-> PresentOr(capture.CaptureLocals, None)]

\* render_get_instrumentation_output prints every limit, the list only three;
\* both print which of the capture lists are set, empty or not set.
ShownByGet(capture) == CaptureFromResponse(capture)

ShownByList(capture) ==
  [CaptureFromResponse(capture) EXCEPT
     !.limits = @ \intersect {"MaxHits", "MaxStringLength", "MaxCollectionWidth"}]

\* render_create_success_message: at a line, arguments and returns are not shown.
ShownByCreate(in) ==
  [args   |-> IF in.line # None \/ in.args = None THEN {} ELSE in.args,
   locals |-> IF in.locals = None THEN {} ELSE in.locals,
   return |-> in.line = None /\ CodeCapture(in).CaptureReturn,
   stack  |-> CodeCapture(in).CaptureStackTrace,
   limits |-> in.limits]

-----------------------------------------------------------------------------
(* Properties.  in: the arguments of a create, request: what it sent.       *)

\* Without these fields an SDK drops a configuration and nothing ever fires
\* (the docstring of _validate_location_inputs), and a line captures nothing
\* but locals: no such request may be sent, nor one that the API refuses for
\* the casing of its language.
Bindable(request) ==
  LET location == request.Location
      capture == request.CaptureConfiguration
      Has(field) == location[field] # Absent
  IN  /\ CASE location.Language = "Java" ->
                Has("CodeUnit") /\ Has("ClassName") /\ Has("MethodName")
           [] location.Language = "Python" -> Has("CodeUnit") /\ Has("MethodName")
           [] location.Language = "Javascript" -> Has("LineNumber")
      /\ request.InstrumentationType = "PROBE" =>
           ~Has("LineNumber") /\ location.Language # "Javascript"
      /\ Has("LineNumber") => capture.CaptureLocals \notin {Absent, {}}
      /\ {} \notin {capture.CaptureArguments, capture.CaptureLocals}

\* The same arguments, or the location read back from the service, name the
\* configuration that was created: get, delete and get-status find it again.
FoundAgain(in, request) ==
  LET readBack == LocationFromResponse(request.Location)
  IN  /\ LookupIdentifier(in, None) = [CodeLocation |-> request.Location]
      /\ LookupIdentifier(readBack, None) = [CodeLocation |-> request.Location]

\* What get shows is what the caller asked for, FALSE and empty included; only
\* what was left out has the defaults of create_instrumentation.
ShownAsAsked(in, request) ==
  LET shown == ShownByGet(request.CaptureConfiguration)
  IN  /\ shown.args = in.args /\ shown.locals = in.locals /\ shown.limits = in.limits
      /\ in.return # None => shown.return = in.return
      /\ in.stack # None => shown.stack = in.stack
=============================================================================
