-------------------------- MODULE MCInstrumentation --------------------------
(* Commands on the first of two locations; windows that begin before, at and *)
(* after a creation, end before and after one, are reversed, or are no time.  *)
EXTENDS Instrumentation

MCWindows == {<<0, 3>>, <<2, 3>>, <<0, 1>>, <<2, 1>>, <<NoTime, 3>>}

MCCommands ==
  {[Command(name) EXCEPT !.loc = 1] : name \in {"create", "get", "delete"}}
  \cup {Command("list"), Command("scope")}
  \cup {[Command("arns") EXCEPT !.arns = A] : A \in {{}, {1}, {1, 2}, {1, BlankArn}}}
  \cup {[Command("get-status") EXCEPT !.loc = 1, !.status = s] : s \in {"ACTIVE", ""}}
  \cup {[Command("check-status") EXCEPT !.loc = 1, !.start = w[1], !.end = w[2]] :
          w \in MCWindows}
=============================================================================
