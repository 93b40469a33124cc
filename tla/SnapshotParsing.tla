--------------------------- MODULE SnapshotParsing ---------------------------
(***************************************************************************)
(* di_snapshot_parsing.py: what the compact summary of a large snapshot    *)
(* shows of a captured value, and the escaping of a text that goes into a  *)
(* query.  A text is a sequence of the characters that matter: a quote, a  *)
(* backslash, another one.                                                 *)
(*                                                                         *)
(* A JSON object is the set of its keys that have a value of the kind the  *)
(* code looks for; what is no object has none.  A captured value is the    *)
(* sequence of that value, its first element, the first element of that    *)
(* and so on: the only way the preview goes further down.                  *)
(***************************************************************************)
EXTENDS Integers, Sequences, FiniteSets, SequencesExt

-----------------------------------------------------------------------------
(* _preview_captured_value.                                                 *)

ValueKeys == {"type", "is_null", "not_captured_reason", "value", "truncated", "size",
              "fields", "elements", "entries"}

\* What a field of an object holds: no object, or a captured value of its own.
FieldValues == {{"plain"}} \cup SUBSET ValueKeys

\* Fields of the same kind are shown the same way.
CapturedLayer == [keys : SUBSET ValueKeys, fields : SUBSET FieldValues]

\* The first of these that a value has says what it is.
ValueFormsValueFirst ==   \* mutant: a value before the reason it was not captured
  <<"value", "is_null", "not_captured_reason", "fields", "elements", "entries">>

ValueForms == <<"is_null", "not_captured_reason", "value", "fields", "elements", "entries">>

FirstOf(forms, keys) ==
  LET found == {i \in DOMAIN forms : forms[i] \in keys}
  IN  IF found = {} THEN "none" ELSE forms[Min(found)]

Form(keys) == FirstOf(ValueForms, keys)

\* What is printed besides the type; "elements" and "entries" stand for their
\* number.  A value with nothing to say, not even its type, is printed as it is.
KeptWith(form, keys) ==
  CASE form = "value"  -> {"value"} \cup (keys \intersect {"truncated", "size"})
    [] form = "fields" -> {"fields"} \cup (keys \intersect {"size"})
    [] form = "none"   -> IF "type" \in keys THEN {} ELSE keys
    [] OTHER           -> {form}

KeysShown(keys) == (keys \intersect {"type"}) \cup KeptWith(Form(keys), keys)

\* One level of fields is expanded: a field that is no object, its value, its
\* reason or a null; the type of anything else ("none").
FieldShown(field) == FirstOf(<<"plain", "is_null", "not_captured_reason", "value">>, field)

FieldsShown(layer) ==
  [field \in {f \in layer.fields : Form(layer.keys) = "fields"} |-> FieldShown(field)]

\* The preview goes on to the first element where elements are what it shows.
Opened(captured) ==
  {i \in DOMAIN captured : \A j \in 1 .. i - 1 : Form(captured[j].keys) = "elements"}

Preview(captured) ==
  [i \in Opened(captured) |->
     [keys |-> KeysShown(captured[i].keys), fields |-> FieldsShown(captured[i])]]

-----------------------------------------------------------------------------
(* Escaping.                                                                *)

Characters == {"quote", "backslash", "other"}

Replaced(from, to, t) ==
  FlattenSeq([i \in DOMAIN t |-> IF t[i] = from THEN to ELSE <<t[i]>>])

EscapeQuotesFirst(text) ==   \* mutant: the escapes are escaped
  Replaced("backslash", <<"backslash", "backslash">>,
           Replaced("quote", <<"backslash", "quote">>, text))

\* _escape_logs_insights_string
EscapeLogsInsightsString(text) ==
  Replaced("quote", <<"backslash", "quote">>,
           Replaced("backslash", <<"backslash", "backslash">>, text))

\* The quote check on a custom filter: quotes that follow no backslash are even.
QuotesBalanced(text) ==
  Cardinality({i \in DOMAIN text : text[i] = "quote"}) % 2
    = Cardinality({i \in 1 .. Len(text) - 1 :
                     text[i] = "backslash" /\ text[i + 1] = "quote"}) % 2

\* How a Logs Insights parser reads a text, character by character: "in" and
\* "out" of a literal, "escape" after a backslash in one.
ReadCharacter(state, c) ==
  CASE state = "escape" -> "in"
    [] state = "in"  /\ c = "backslash" -> "escape"
    [] state = "in"  /\ c = "quote" -> "out"
    [] state = "out" /\ c = "quote" -> "in"
    [] OTHER -> state

ReadText(start, text) == FoldLeft(ReadCharacter, start, text)
-----------------------------------------------------------------------------
(* Properties.                                                              *)

\* Of a value, keys, the summary shows no more than shown: of a null nothing, of a
\* value that was not captured its reason, and a value that was captured.
OnlyCaptured(keys, shown) ==
  LET null == "is_null" \in keys
      why  == "not_captured_reason" \in keys
  IN  /\ null => shown \subseteq {"type", "is_null"}
      /\ why /\ ~null => /\ "not_captured_reason" \in shown
                         /\ shown \subseteq {"type", "not_captured_reason"}
      /\ "value" \in keys /\ ~null /\ ~why => "value" \in shown

\* The summary of a snapshot shows nothing the SDK did not capture, at any depth:
\* not of the value, not of a field, not of the first element of what was not
\* captured itself; what was captured is shown, and a value that says anything is
\* never shown as nothing.  A text that was cut says so, but for one that is a
\* field.  The summary drops "truncated" of elements, entries and fields, and the
\* size of the first two, although the documentation printed with it names them as
\* the sign of an oversize collection (di_snapshot_rendering.py:304): of a large
\* snapshot they are only in the raw text.
PreviewIsFaithful(captured) ==
  LET preview == Preview(captured)
  IN  \A i \in DOMAIN preview :
        LET keys  == captured[i].keys
            shown == preview[i].keys
        IN  /\ shown \subseteq keys
            /\ keys # {} => shown # {}
            /\ OnlyCaptured(keys, shown)
            /\ {"value", "truncated"} \subseteq keys /\ "value" \in shown => "truncated" \in shown
            /\ \A field \in DOMAIN preview[i].fields :
                 /\ "fields" \in shown
                 /\ OnlyCaptured(field, {preview[i].fields[field]})
            /\ i > 1 => "elements" \in preview[i - 1].keys

\* A text put between quotes after escaping stays a text: it neither ends the
\* literal early nor keeps it from ending.
LiteralHolds(text) ==
  LET escaped == EscapeLogsInsightsString(text)
  IN  /\ ReadText("in", escaped) = "in"
      /\ \A n \in 0..Len(escaped) : ReadText("in", SubSeq(escaped, 1, n)) # "out"

\* A custom filter is not escaped but checked for "an unbalanced double-quote that
\* would leak into (or truncate) the rest of the query" (di_snapshot_tools.py:152).
\* The check is no reader, and is wrong both ways (QuoteCheckErrs): it takes the
\* quote behind an escaped backslash for an escaped quote, so a filter whose last
\* literal does not end may pass and one whose literals end may be refused.  It is
\* wrong for no other reason than such a backslash or one outside the literals.
FilterQuotesChecked(text) ==
  \/ QuotesBalanced(text) <=> ReadText("out", text) = "out"
  \/ \E i \in DOMAIN text :
       text[i] = "backslash" /\ ReadText("out", SubSeq(text, 1, i)) # "escape"

=============================================================================
