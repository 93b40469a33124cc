------------------------------ MODULE MCScripts ------------------------------
(* Inputs for the short scripts: every class of value the code tells apart,  *)
(* in combinations that leave the other arguments at one value or two.       *)
EXTENDS Scripts, TLC

(* create: locations with one capture, then captures at three locations.     *)
SomeCapture == [args |-> None, locals |-> {"total"}, return |-> None, stack |-> None,
                limits |-> {"MaxHits"}, ttl |-> None, filters |-> None]

SomeLocation == [type |-> "probe", language |-> "python", file |-> "path", unit |-> "unit",
                 class |-> None, method |-> "method", line |-> None]

Locations ==
  [type: {"breakpoint", "PROBE", "other"}, language: {None, "", "python", "Java", "JavaScript", "ruby"},
   file: {None, " ", "path"}, unit: {None, "", "unit"}, class: {None, "Name", "qualified.Name"},
   method: {None, "method"}, line: {None, 0, 7}]

Captures ==
  [args: {None, {}, {"*"}, {"id"}}, locals: {None, {}, {"id", "*"}, {"total"}},
   return: {None, TRUE, FALSE}, stack: {None, TRUE, FALSE},
   limits: {{}, {"MaxHits"}, LimitNames}, ttl: {None}, filters: {None, {}, {"group"}}]

CreateInputs ==
  {l @@ SomeCapture : l \in Locations}
  \cup {c @@ l : c \in Captures,
                 l \in {SomeLocation, [SomeLocation EXCEPT !.type = "BREAKPOINT", !.line = 7]}}

(* Texts of up to six characters.                                            *)
Texts == UNION {[1..n -> Characters] : n \in 0..6}

(* Captured values: any keys, objects with a field of any kind, and either of *)
(* them as first element, of a list or of a list in a list.                  *)
Layer(keys, fields) == [keys |-> keys, fields |-> fields]

Scalars == {Layer(keys, {}) : keys \in SUBSET ValueKeys}

Objects ==
  {Layer({"type", "fields", "size"}, {field}) :
     field \in {{"plain"}} \cup SUBSET {"type", "is_null", "not_captured_reason", "value", "fields"}}

Collections ==
  {Layer({"elements"} \cup more, {}) :
     more \in SUBSET {"type", "is_null", "not_captured_reason", "value"}}

CapturedValues ==
  {<<x>> : x \in Scalars \cup Objects}
  \cup {<<c, x>> : c \in Collections, x \in Scalars \cup Objects}
  \cup {<<c, d, x>> : c, d \in Collections, x \in Objects}

(* Directories: two files, the second perhaps a .gitignore.                  *)
File(id, name, st) ==
  [id |-> id, name |-> name, status |-> st, pruned |-> FALSE, link |-> FALSE,
   size |-> 1, packed |-> 1]

FirstFiles ==
  {[File(1, name, st) EXCEPT !.pruned = p, !.link = l] :
     name \in {"plain", "listed", "dotenv", "suffix", "prefix", "climbing"},
     st \in GitStatuses, p, l \in BOOLEAN}
  \cup {[File(1, "plain", "tracked") EXCEPT !.size = s, !.packed = s] : s \in {0, 3, 4}}

SecondFiles ==
  {{}, {File(2, "plain", "untracked")}, {File(2, "gitignore", "tracked")},
   {[File(2, "gitignore", "untracked") EXCEPT !.pruned = TRUE]}}

Dirs == [files: {{f} \cup second : f \in FirstFiles, second \in SecondFiles}, repo: BOOLEAN,
         git: {"lists", "refuses", "hangs", "missing"}, again: {"lists", "refuses", "hangs"}]

(* Archives of up to three entries, sized around every limit.                *)
Entries == {[file |-> 1, top |-> t, safe |-> TRUE, link |-> FALSE, size |-> s, packed |-> p] :
              t \in {1, 2}, s \in {0, 2, 3, 4}, p \in {0, 1, 2}}
           \cup {[file |-> 1, top |-> 1, safe |-> s, link |-> ~s, size |-> 1, packed |-> 1] :
                   s \in BOOLEAN}

Archives == UNION {[1..n -> Entries] : n \in 0..2}
            \cup {<<e, e, e>> : e \in Entries} \cup {<<e, e, e, e>> : e \in Entries}

(* Manifests: two calls that fail, or one under every combination of flags.   *)
CallEnds == {"ok", "tolerated", "other"}

Outcomes(A, B) ==
  {[c \in AwsCalls |-> IF c = a THEN x ELSE IF c = b THEN y ELSE "ok"] :
     a \in A, b \in B, x, y \in CallEnds}

MCManifests ==
  [region: BOOLEAN, draft: BOOLEAN, hasRole: BOOLEAN, inline: BOOLEAN, production: BOOLEAN,
   newSdk: BOOLEAN, outcome: Outcomes(AwsCalls, {"agent"})]
  \cup [region: {TRUE}, draft: {TRUE}, hasRole: {TRUE}, inline: {TRUE}, production: {TRUE},
        newSdk: {TRUE}, outcome: Outcomes(AwsCalls, AwsCalls)]

MCInputsOf ==
  [create |-> CreateInputs, preview |-> CapturedValues, escape |-> Texts, filter |-> Texts,
   zip |-> Dirs, validate |-> Archives, manifest |-> MCManifests]

(* Searches: the window, then everything else.                               *)
SomeArgs == [op |-> "search", hash |-> "16 hex digits", limit |-> 2, filter |-> "balanced",
             at |-> 200, start |-> None, end |-> None, timeout |-> 2, raw |-> FALSE,
             out |-> "stdout"]

MCSnapshotArgs ==
  {[SomeArgs EXCEPT !.op = o, !.at = t, !.start = s, !.end = e] :
     o \in {"search", "sample"}, t \in {NoTime, 200, 201},
     s, e \in {None, NoTime, 100, 101, 300}}
  \cup {[SomeArgs EXCEPT !.op = o, !.hash = h, !.limit = l, !.filter = f, !.timeout = n,
                         !.raw = r, !.out = w] :
     o \in {"search", "sample"}, h \in {"16 hex digits", "other"}, l \in {1, 2, NotANumber},
     f \in {"balanced", "unbalanced"}, n \in {0, 2, 3, NotANumber}, r \in BOOLEAN,
     w \in {"stdout", "link"}}

MCLogs == {<<>>} \cup {<<row>> : row \in RowKinds}
          \cup {<<[json |-> "object", large |-> FALSE], row>> : row \in RowKinds}
          \cup {<<[json |-> "no JSON", large |-> FALSE], [json |-> "object", large |-> TRUE]>>}
=============================================================================
