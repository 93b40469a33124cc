---------------------------- MODULE AgentManifest ----------------------------
(***************************************************************************)
(* fetch_bedrock_agent.py: one run that reads an agent from AWS into a     *)
(* manifest.  A call is named for what it asks for; a call made for every  *)
(* item of a list stands for that of one item.  What it may end in:        *)
(* "ok", one of the errors _safe tolerates, or another ClientError.        *)
(***************************************************************************)
EXTENDS Integers

Lists == {"policyNames", "aliasList", "versionList", "groupList", "kbList", "dataSourceList",
          "collaboratorList"}
Items == {"policy", "alias", "group", "schema", "association", "knowledgeBase", "dataSource",
          "collaborator"}
AwsCalls == Lists \cup Items \cup {"identity", "agent", "role", "attachedPolicies"}

\* region, hasRole: the session has a region, the agent a role; production: an
\* alias besides the test alias exists; newSdk: boto3 knows collaborators.
ManifestInput == [region: BOOLEAN, draft: BOOLEAN, hasRole: BOOLEAN, inline: BOOLEAN,
                  production: BOOLEAN, newSdk: BOOLEAN,
                  outcome: [AwsCalls -> {"ok", "tolerated", "other"}]]

Ok(in, c) == in.outcome[c] = "ok"

\* The calls that name the item a call is made for.
Path(c) ==
  CASE c = "policy"        -> {"policyNames"}
    [] c = "alias"         -> {"aliasList"}
    [] c = "group"         -> {"groupList"}
    [] c = "schema"        -> {"groupList", "group"}
    [] c \in {"association", "knowledgeBase", "dataSourceList"} -> {"kbList"}
    [] c = "dataSource"    -> {"kbList", "dataSourceList"}
    [] c = "collaborator"  -> {"collaboratorList"}
    [] OTHER               -> {}

\* What a run is to fetch: the role's parts of an agent that has one, schemas
\* when asked to.
Wanted(in, c) ==
  /\ c \in {"role", "attachedPolicies", "policyNames", "policy"} => in.hasRole
  /\ c = "schema" => in.inline

CallMade(in, c) ==
  /\ Wanted(in, c)
  /\ c \in {"collaboratorList", "collaborator"} => in.newSdk
  /\ \A d \in Path(c) : Ok(in, d)

Fetched(in, c) == CallMade(in, c) /\ Ok(in, c)

\* Errors an except clause of the script records, whichever they are: in a list
\* or for one of its items, or for a schema.
Recorded == {"aliasList", "alias", "versionList", "dataSourceList", "dataSource",
             "collaboratorList", "collaborator", "schema"}

Raises(in, c) ==
  /\ CallMade(in, c)
  /\ \/ in.outcome[c] = "other" /\ c \notin Recorded
     \/ in.outcome[c] = "tolerated" /\ c \in {"identity", "agent", "groupList", "kbList"}

\* fetch_iam_role looks at the error of list_role_policies and goes on.
DroppedWithDataSources == {"policyNames", "dataSourceList"}   \* mutant: except: pass

Dropped == {"policyNames"}

\* Where the manifest holds an _error: for the item, or behind those of its list.
ErrorsIn(in) ==
  LET failed == {c \in AwsCalls : CallMade(in, c) /\ ~Ok(in, c)} \ Dropped
      whole(c) == in.outcome[c] = "other" /\ c \in (Items \cap Recorded) \ {"schema"}
  IN  {c \in failed : ~whole(c)}
      \cup UNION {Path(c) \ {"kbList"} : c \in {d \in failed : whole(d)}}

\* DRAFT was fetched and an alias that was read is not the test alias.
Warned(in) == in.draft /\ in.production /\ Fetched(in, "alias")

\* The exit code; the manifest is written only with 0.
Manifest(in) ==
  [exit |-> IF Ok(in, "identity") /\ ~in.region THEN 2
            ELSE IF \E c \in AwsCalls : Raises(in, c) THEN 1 ELSE 0,
   errors |-> ErrorsIn(in),
   warned |-> Warned(in)]

-----------------------------------------------------------------------------
(* What a reader of the manifest may conclude.                              *)

\* What is not in a manifest although it was to be fetched is missing with an
\* error recorded for it or for what it is part of ("record but don't crash",
\* fetch_bedrock_agent.py:61); but the names of inline policies are lost without
\* one, and the collaborators when boto3 is too old.
GapsAreTold(in, out) ==
  \A c \in AwsCalls \ {"policyNames"} :
    (/\ Wanted(in, c) /\ ~Fetched(in, c)
     /\ c = "policy" => Ok(in, "policyNames")
     /\ c \in {"collaboratorList", "collaborator"} => in.newSdk)
    => out.errors \cap ({c} \cup Path(c)) # {}

\* A manifest of the DRAFT of an agent in production says so, or that the aliases
\* could not be read.
DraftIsTold(in, out) ==
  in.draft /\ in.production => out.warned \/ out.errors \cap {"aliasList", "alias"} # {}
=============================================================================
