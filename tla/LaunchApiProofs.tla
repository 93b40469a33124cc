--------------------------- MODULE LaunchApiProofs ---------------------------
(***************************************************************************)
(* Theorems about LaunchApi, for every value of its constants.             *)
(*                                                                         *)
(* One inductive invariant carries them.  CallsInv says how far each       *)
(* invocation can be, UploadsInv that uploads are not shared and hold the  *)
(* archive before a request can be on the wire, LaunchesInv that every     *)
(* launch goes back to one invocation.                                     *)
(***************************************************************************)
EXTENDS LaunchApi, TLAPS

\* A request of c may still be executed, or will be sent.
Sent(c) == pc[c] \in {"send", "await"} \/ \E r \in wire : r.call = c

CallsInv ==
  \A c \in Calls :
    /\ source[c] # NoSource <=> cmd[c] = "create"
    /\ pc[c] = "ready" <=> cmd[c] = "none"
    /\ pc[c] = "done" <=> result[c] # "none"
    /\ pc[c] \notin {"await", "done"} => tries[c] < MaxAttempts
    /\ pc[c] \in {"url", "put"} => source[c] \in Directories /\ ContentOf[source[c]] # Refused
    /\ Sent(c) => /\ pc[c] \in {"send", "await", "done"}
                  /\ cmd[c] = "create" => /\ source[c] \in Directories \cup Repositories
                                          /\ ContentOf[source[c]] # Refused

UploadsInv ==
  \A c \in Calls :
    /\ pc[c] = "put" => upload[c] # NoUpload
    /\ upload[c] # NoUpload => upload[c] \in issued
    /\ upload[c] # NoUpload => \A d \in Calls \ {c} : upload[d] # upload[c]
    /\ Sent(c) /\ source[c] \in Directories =>
         upload[c] # NoUpload /\ uploads[upload[c]] = ContentOf[source[c]]

\* The launch x is of an earlier session, or was made for its invocation.
Owned(x) ==
  /\ x.token = ClientToken(x.by, 1)
  /\ x.by # Nobody => cmd[x.by] = "create" /\ x.content = ContentOf[source[x.by]]

LaunchesInv ==
  /\ \A l \in LaunchIds : launches[l] # NoLaunch => Owned(launches[l])
  /\ \A k, l \in LaunchIds :
       launches[k] # NoLaunch /\ launches[l] # NoLaunch /\ launches[k].by = launches[l].by
         => k = l \/ launches[l].by = Nobody

IInv == TypeOK /\ CallsInv /\ UploadsInv /\ LaunchesInv

-----------------------------------------------------------------------------
LEMMA FreshUploadIsFresh ==
  ASSUME UploadIds \ issued # {}
  PROVE  FreshUpload \in UploadIds \ issued
BY Zenon DEF FreshUpload

\* Every content is the archive of a directory or a repository.
LEMMA ContentIsContent ==
  ASSUME NEW s \in Directories \cup Repositories, ContentOf[s] # Refused
  PROVE  ContentOf[s] \in Contents
BY DEF Contents

LEMMA InitIInv == Init => IInv
<1> SUFFICES ASSUME Init PROVE IInv
  OBVIOUS
<1> USE LaunchAssumption DEF Init
<1>1. PICK s \in Repositories :
        launches = [l \in LaunchIds |->
          IF l \in Earlier
          THEN [status |-> "planned", content |-> ContentOf[s], by |-> Nobody,
                token |-> ClientToken(Nobody, 1)]
          ELSE NoLaunch]
  OBVIOUS
<1>2. ContentOf[s] \in Contents
  BY ContentIsContent
<1>3. launches \in [LaunchIds -> Launch \cup {NoLaunch}]
  BY <1>1, <1>2 DEF Launch, Statuses, ClientToken
<1>4. TypeOK
  BY <1>3 DEF TypeOK, PCs, Commands, Sources, Request
<1>5. CallsInv
  BY DEF CallsInv, Sent
<1>6. UploadsInv
  BY DEF UploadsInv, Sent
<1>7. LaunchesInv
  BY <1>1 DEF LaunchesInv, Owned
<1> QED BY <1>4, <1>5, <1>6, <1>7 DEF IInv
-----------------------------------------------------------------------------
(* Every step preserves the invariant.                                      *)

LEMMA CreateLaunchKeeps ==
  ASSUME IInv, NEW c \in Calls, NEW s \in Sources, CreateLaunch(c, s)
  PROVE  IInv'
<1> USE LaunchAssumption DEF IInv, CreateLaunch, Go, serviceVars
<1>1. TypeOK'
  BY DEF TypeOK, PCs, Commands
<1>2. ~Sent(c)
  BY DEF CallsInv
<1>3. \A d \in Calls \ {c} : Sent(d)' = Sent(d)
  BY DEF TypeOK, Sent
<1>4. CallsInv'
  BY <1>2, <1>3 DEF TypeOK, CallsInv, Sent, Sources
<1>5. UploadsInv'
  BY <1>2, <1>3 DEF TypeOK, UploadsInv, Sent, Sources
<1>6. \A l \in LaunchIds : launches[l] # NoLaunch => launches[l].by # c
  BY DEF TypeOK, CallsInv, LaunchesInv, Owned
<1>7. LaunchesInv'
  BY <1>6 DEF TypeOK, LaunchesInv, Owned, ClientToken, Launch
<1> QED BY <1>1, <1>4, <1>5, <1>7

LEMMA CreateUploadUrlKeeps ==
  ASSUME IInv, NEW c \in Calls, CreateUploadUrl(c)
  PROVE  IInv'
<1> USE LaunchAssumption DEF IInv, CreateUploadUrl, Go
<1>1. FreshUpload \in UploadIds \ issued
  BY FreshUploadIsFresh
<1>2. TypeOK'
  BY <1>1 DEF TypeOK, PCs
<1>3. ~Sent(c)
  BY DEF CallsInv
<1>4. \A d \in Calls : Sent(d)' = Sent(d)
  BY <1>3 DEF TypeOK, Sent
<1>5. CallsInv'
  BY <1>4 DEF TypeOK, CallsInv
<1>6. UploadsInv'
  BY <1>1, <1>3, <1>4 DEF TypeOK, UploadsInv
<1>7. LaunchesInv'
  BY DEF LaunchesInv, Owned
<1> QED BY <1>2, <1>5, <1>6, <1>7

LEMMA PutArchiveKeeps ==
  ASSUME IInv, NEW c \in Calls, PutArchive(c)
  PROVE  IInv'
<1> USE LaunchAssumption DEF IInv, PutArchive, Store, Go
<1>1. /\ source[c] \in Directories
      /\ ContentOf[source[c]] \in Contents
      /\ ContentOf[source[c]] # Refused
      /\ upload[c] \in UploadIds
  BY ContentIsContent DEF CallsInv, UploadsInv, TypeOK
<1>2. TypeOK'
  BY <1>1 DEF TypeOK, PCs
<1>3. \A d \in Calls \ {c} : Sent(d)' = Sent(d)
  BY DEF TypeOK, Sent
<1>4. CallsInv'
  BY <1>1, <1>3 DEF TypeOK, CallsInv, Sent
<1>5. UploadsInv'
  BY <1>1, <1>3 DEF TypeOK, UploadsInv
<1>6. LaunchesInv'
  BY DEF LaunchesInv, Owned
<1> QED BY <1>2, <1>4, <1>5, <1>6

LEMMA CommandOnLaunchKeeps ==
  ASSUME IInv, NEW c \in Calls, NEW what \in Commands, NEW l \in LaunchIds,
         CommandOnLaunch(c, what, l)
  PROVE  IInv'
<1> USE LaunchAssumption DEF IInv, CommandOnLaunch, Go, serviceVars
<1>1. TypeOK'
  BY DEF TypeOK, PCs, Commands
<1>2. ~Sent(c) /\ source[c] = NoSource /\ what # "create" /\ what # "none"
  BY DEF CallsInv, Commands
<1>3. \A d \in Calls \ {c} : Sent(d)' = Sent(d)
  BY DEF TypeOK, Sent
<1>4. CallsInv'
  BY <1>2, <1>3 DEF TypeOK, CallsInv
<1>5. NoSource \notin Directories
  BY DEF Sources
<1>6. UploadsInv'
  BY <1>2, <1>3, <1>5 DEF TypeOK, UploadsInv
<1>7. \A k \in LaunchIds : launches[k] # NoLaunch => launches[k].by # c
  BY <1>2 DEF TypeOK, CallsInv, LaunchesInv, Owned
<1>8. LaunchesInv'
  BY <1>7 DEF TypeOK, LaunchesInv, Owned, ClientToken, Launch
<1> QED BY <1>1, <1>4, <1>6, <1>8

\* What the steps do to an invocation d that neither begins a command nor sends.
Moves(d) ==
  \/ UNCHANGED <<pc[d], result[d]>>
  \/ pc[d] \notin {"ready", "done"} /\ pc'[d] = "done" /\ result'[d] # "none"
  \/ /\ pc[d] = "await" /\ tries[d] < MaxAttempts
     /\ pc'[d] = "send" /\ UNCHANGED result[d]

LEMMA MovesKeep ==
  ASSUME IInv, TypeOK', LaunchesInv',
         \A d \in Calls : Moves(d),
         wire' \subseteq wire,
         UNCHANGED <<cmd, source, upload, tries, uploads, issued>>
  PROVE  IInv'
<1> USE DEF IInv
<1>1. \A d \in Calls : Sent(d)' => Sent(d)
  BY DEF Sent, Moves
<1>2. CallsInv'
  BY <1>1 DEF CallsInv, TypeOK, Moves
<1>3. UploadsInv'
  BY <1>1 DEF UploadsInv, Moves
<1> QED BY <1>2, <1>3

LEMMA CommandFailsKeeps ==
  ASSUME IInv, NEW c \in Calls, CommandFails(c)
  PROVE  IInv'
<1> USE DEF CommandFails, Exit, Go, serviceVars, IInv
<1>1. TypeOK'
  BY DEF TypeOK, PCs
<1>2. LaunchesInv'
  BY DEF LaunchesInv, Owned
<1>3. \A d \in Calls : Moves(d)
  BY DEF Moves, TypeOK
<1> QED BY <1>1, <1>2, <1>3, MovesKeep

LEMMA AttemptFailsKeeps ==
  ASSUME IInv, NEW c \in Calls, AttemptFails(c)
  PROVE  IInv'
<1> USE DEF AttemptFails, Exit, Go, serviceVars, IInv
<1>1. TypeOK'
  BY DEF TypeOK, PCs
<1>2. LaunchesInv'
  BY DEF LaunchesInv, Owned
<1>3. \A d \in Calls : Moves(d)
  BY LaunchAssumption DEF Moves, TypeOK
<1> QED BY <1>1, <1>2, <1>3, MovesKeep

LEMMA RefuseKeeps ==
  ASSUME IInv, NEW r \in wire, Refuse(r)
  PROVE  IInv'
<1> USE DEF Refuse, Exit, Go, serviceVars, IInv
<1>1. r.call \in Calls
  BY DEF TypeOK, Request
<1>2. TypeOK'
  BY <1>1 DEF TypeOK, PCs
<1>3. LaunchesInv'
  BY DEF LaunchesInv, Owned
<1>4. \A d \in Calls : Moves(d)
  BY <1>1 DEF Moves, TypeOK
<1> QED BY <1>2, <1>3, <1>4, MovesKeep

LEMMA SendKeeps ==
  ASSUME IInv, NEW c \in Calls, Send(c)
  PROVE  IInv'
<1> USE LaunchAssumption DEF Send, Go, serviceVars, IInv
<1>1. tries[c] < MaxAttempts /\ Sent(c)
  BY DEF CallsInv, Sent
<1>2. TypeOK'
  BY <1>1 DEF TypeOK, PCs, Request
<1>3. \A d \in Calls : Sent(d)' = Sent(d)
  BY <1>1 DEF Sent, TypeOK
<1>4. CallsInv'
  BY <1>3 DEF CallsInv, TypeOK
<1>5. UploadsInv'
  BY <1>3 DEF UploadsInv, TypeOK
<1>6. LaunchesInv'
  BY DEF LaunchesInv, Owned
<1> QED BY <1>2, <1>4, <1>5, <1>6

LEMMA SameLaunches ==
  ASSUME \A k \in LaunchIds : /\ launches'[k] = NoLaunch <=> launches[k] = NoLaunch
                              /\ launches[k] # NoLaunch =>
                                   /\ launches'[k].by = launches[k].by
                                   /\ launches'[k].content = launches[k].content
  PROVE  \A c : LaunchesOf(c)' = LaunchesOf(c)
<1> TAKE c
<1>1. \A x : x \in LaunchesOf(c) <=>
             \E l \in LaunchIds : /\ launches[l] # NoLaunch /\ launches[l].by = c
                                  /\ x = [id |-> l, content |-> launches[l].content]
  BY DEF LaunchesOf
<1>2. \A x : x \in LaunchesOf(c)' <=>
             \E l \in LaunchIds : /\ launches'[l] # NoLaunch /\ launches'[l].by = c
                                  /\ x = [id |-> l, content |-> launches'[l].content]
  BY DEF LaunchesOf
<1>3. \A l \in LaunchIds :
         launches[l] # NoLaunch => [id |-> l, content |-> launches'[l].content]
                                    = [id |-> l, content |-> launches[l].content]
  OBVIOUS
<1>4. \A x : x \in LaunchesOf(c)' => x \in LaunchesOf(c)
  <2> SUFFICES ASSUME NEW x \in LaunchesOf(c)' PROVE x \in LaunchesOf(c)
    OBVIOUS
  <2>1. PICK l \in LaunchIds : /\ launches'[l] # NoLaunch /\ launches'[l].by = c
                               /\ x = [id |-> l, content |-> launches'[l].content]
    BY <1>2
  <2> QED BY <2>1, <1>1, <1>3
<1>5. \A x : x \in LaunchesOf(c) => x \in LaunchesOf(c)'
  <2> SUFFICES ASSUME NEW x \in LaunchesOf(c) PROVE x \in LaunchesOf(c)'
    OBVIOUS
  <2>1. PICK l \in LaunchIds : /\ launches[l] # NoLaunch /\ launches[l].by = c
                               /\ x = [id |-> l, content |-> launches[l].content]
    BY <1>1
  <2> QED BY <2>1, <1>2, <1>3
<1> QED BY <1>4, <1>5, Zenon

\* A change of the status of launch l.
LEMMA StatusKeeps ==
  ASSUME IInv, NEW l \in LaunchIds, NEW s \in Statuses,
         launches[l] # NoLaunch, SetStatus(l, s), UNCHANGED <<cmd, source>>
  PROVE  /\ launches' \in [LaunchIds -> Launch \cup {NoLaunch}]
         /\ LaunchesInv'
         /\ \A c : LaunchesOf(c)' = LaunchesOf(c)
<1> USE DEF IInv, SetStatus
<1>1. launches[l] \in Launch
  BY DEF TypeOK
<1>2. launches'[l] \in Launch /\ launches'[l] = [launches[l] EXCEPT !.status = s]
  <2> DEFINE Tokens == {ClientToken(c, n) : c \in Calls \cup {Nobody}, n \in 1..MaxAttempts}
             By == Calls \cup {Nobody}
  <2>1. Launch = [status: Statuses, content: Contents, by: By, token: Tokens]
    BY DEF Launch
  <2>2. launches'[l] = [launches[l] EXCEPT !.status = s]
    BY DEF TypeOK
  <2> HIDE DEF Tokens, By
  <2>3. [launches[l] EXCEPT !.status = s] \in Launch
    BY <1>1, <2>1
  <2> QED BY <2>2, <2>3
<1>3. launches' \in [LaunchIds -> Launch \cup {NoLaunch}]
  BY <1>2 DEF TypeOK
<1>4. \A k \in LaunchIds : /\ launches'[k] = NoLaunch <=> launches[k] = NoLaunch
                           /\ launches[k] # NoLaunch =>
                                /\ launches'[k].by = launches[k].by
                                /\ launches'[k].content = launches[k].content
                                /\ launches'[k].token = launches[k].token
  BY <1>1, <1>2, NoLaunchAssumption DEF TypeOK, Launch
<1>5. LaunchesInv'
  BY <1>4 DEF LaunchesInv, Owned, ClientToken
<1>6. \A c : LaunchesOf(c)' = LaunchesOf(c)
  BY <1>4, SameLaunches
<1> QED BY <1>3, <1>5, <1>6

LEMMA GetLaunchStatusKeeps ==
  ASSUME IInv, NEW l \in LaunchIds, GetLaunchStatus(l)
  PROVE  IInv'
<1> USE DEF GetLaunchStatus, callVars, serviceVars, IInv
<1>1. TypeOK'
  BY DEF TypeOK
<1>2. LaunchesInv'
  BY DEF LaunchesInv, Owned
<1>3. \A d \in Calls : Moves(d)
  BY DEF Moves
<1> QED BY <1>1, <1>2, <1>3, MovesKeep

LEMMA ServiceStepKeeps ==
  ASSUME IInv, NEW l \in LaunchIds, ServiceStep(l)
  PROVE  IInv' /\ \A c : LaunchesOf(c)' = LaunchesOf(c)
<1> USE DEF ServiceStep, callVars, IInv
<1>1. PICK s \in Statuses : SetStatus(l, s)
  OBVIOUS
<1>2. /\ launches' \in [LaunchIds -> Launch \cup {NoLaunch}]
      /\ LaunchesInv'
      /\ \A c : LaunchesOf(c)' = LaunchesOf(c)
  BY <1>1, StatusKeeps
<1>3. TypeOK'
  BY <1>2 DEF TypeOK
<1>4. \A d \in Calls : Moves(d)
  BY DEF Moves
<1> QED BY <1>2, <1>3, <1>4, MovesKeep

\* A new launch for invocation c, which has none.
NewLaunch(c, l, n) ==
  /\ launches[l] = NoLaunch
  /\ launches' = [launches EXCEPT ![l] =
       [status |-> "analyzing", content |-> ContentOf[source[c]], by |-> c,
        token |-> ClientToken(c, n)]]
  /\ \A k \in LaunchIds : launches[k] # NoLaunch => launches[k].by # c

\* A request to create finds the launch made for it or makes one.
LEMMA CreateServed ==
  ASSUME IInv, NEW r \in wire, NEW l \in LaunchIds,
         cmd[r.call] = "create", ServeCreate(r, l)
  PROVE  \/ /\ UNCHANGED launches
            /\ launches[l] # NoLaunch /\ launches[l].by = r.call
         \/ NewLaunch(r.call, l, r.n)
<1> DEFINE c == r.call
<1> USE LaunchAssumption DEF IInv
<1>1. c \in Calls /\ r.n \in 1..MaxAttempts /\ Sent(c)
  BY DEF TypeOK, Request, Sent
<1>2. SourceOf(c) = ContentOf[source[c]]
  BY <1>1 DEF SourceOf, UploadsInv
<1>3. \A k \in LaunchIds :
        launches[k] # NoLaunch => launches[k].token = <<launches[k].by, 1>>
  BY DEF LaunchesInv, Owned, ClientToken
<1>4. \A k \in LaunchIds :
        k \in Made(ClientToken(c, r.n)) <=> launches[k] # NoLaunch /\ launches[k].by = c
  BY <1>3 DEF Made, ClientToken
<1>5. CASE l \in Made(ClientToken(c, r.n)) /\ UNCHANGED launches
  BY <1>4, <1>5
<1>6. CASE /\ Made(ClientToken(c, r.n)) = {} /\ launches[l] = NoLaunch
           /\ launches' = [launches EXCEPT ![l] =
                [status |-> "analyzing", content |-> SourceOf(c), by |-> c,
                 token |-> ClientToken(c, r.n)]]
  BY <1>2, <1>4, <1>6 DEF NewLaunch
<1> QED BY <1>5, <1>6 DEF ServeCreate

LEMMA NewLaunchKeeps ==
  ASSUME IInv, NEW c \in Calls, NEW l \in LaunchIds, NEW n \in 1..MaxAttempts,
         cmd[c] = "create", Sent(c), NewLaunch(c, l, n), UNCHANGED <<cmd, source>>
  PROVE  /\ launches' \in [LaunchIds -> Launch \cup {NoLaunch}]
         /\ LaunchesInv'
<1> USE LaunchAssumption DEF IInv, NewLaunch
<1> DEFINE new == [status |-> "analyzing", content |-> ContentOf[source[c]], by |-> c,
                   token |-> ClientToken(c, n)]
<1>1. ContentOf[source[c]] \in Contents
  BY ContentIsContent DEF CallsInv
<1>2. new \in Launch
  BY <1>1 DEF Launch, Statuses
<1>3. launches' \in [LaunchIds -> Launch \cup {NoLaunch}]
  BY <1>2 DEF TypeOK
<1>4. \A k \in LaunchIds : launches'[k] = IF k = l THEN new ELSE launches[k]
  BY DEF TypeOK
<1>5. Owned(new)'
  BY DEF Owned, ClientToken
<1>6. (\A k \in LaunchIds : launches[k] # NoLaunch => Owned(launches[k]))'
  BY <1>4, <1>5 DEF LaunchesInv, Owned
<1>7. \A k \in LaunchIds : launches'[k] # NoLaunch /\ launches'[k].by = c => k = l
  BY <1>4
<1>8. \A j, k \in LaunchIds :
        launches'[j] # NoLaunch /\ launches'[k] # NoLaunch /\ launches'[j].by = launches'[k].by
          => j = k \/ launches'[k].by = Nobody
  BY <1>4, <1>7 DEF LaunchesInv
<1> QED BY <1>3, <1>6, <1>8 DEF LaunchesInv

\* Whatever is executed keeps the launches in order.
LEMMA LaunchesServed ==
  ASSUME IInv, NEW r \in wire, NEW l \in LaunchIds, Serve(r, l)
  PROVE  /\ launches' \in [LaunchIds -> Launch \cup {NoLaunch}]
         /\ LaunchesInv'
         /\ cmd[r.call] # "create" => \A c : LaunchesOf(c)' = LaunchesOf(c)
<1> USE DEF IInv
<1>1. r.call \in Calls /\ r.n \in 1..MaxAttempts /\ Sent(r.call)
  BY DEF TypeOK, Request, Sent
<1>2. UNCHANGED <<cmd, source>>
  BY DEF Serve
<1>3. ASSUME UNCHANGED launches
      PROVE  /\ launches' \in [LaunchIds -> Launch \cup {NoLaunch}]
             /\ LaunchesInv'
             /\ \A c : LaunchesOf(c)' = LaunchesOf(c)
  BY <1>2, <1>3 DEF TypeOK, LaunchesInv, Owned, LaunchesOf
<1>4. CASE cmd[r.call] = "create" /\ ServeCreate(r, l)
  BY <1>1, <1>2, <1>3, <1>4, CreateServed, NewLaunchKeeps
<1>5. CASE cmd[r.call] # "create" /\ ServeChange(r, l)
  <2>1. launches[l] # NoLaunch
    BY <1>5 DEF ServeChange
  <2>2. \/ UNCHANGED launches
        \/ \E s \in Statuses : SetStatus(l, s)
    BY <1>5 DEF ServeChange, Statuses
  <2> QED BY <1>2, <1>3, <2>1, <2>2, StatusKeeps
<1> QED BY <1>4, <1>5 DEF Serve

LEMMA ServeKeeps ==
  ASSUME IInv, NEW r \in wire, NEW l \in LaunchIds, Serve(r, l)
  PROVE  IInv'
<1> USE DEF IInv
<1>1. r.call \in Calls
  BY DEF TypeOK, Request
<1>2. applied' \subseteq Calls
  BY <1>1 DEF Serve, ServeChange, TypeOK
<1>3. TypeOK'
  BY <1>1, <1>2, LaunchesServed DEF Serve, Exit, Go, TypeOK, PCs
<1>4. \A d \in Calls : Moves(d)
  BY <1>1 DEF Serve, Exit, Go, Moves, TypeOK
<1> QED BY <1>3, <1>4, LaunchesServed, MovesKeep DEF Serve

LEMMA NextKeeps == IInv /\ [Next]_vars => IInv'
<1> SUFFICES ASSUME IInv, [Next]_vars PROVE IInv'
  OBVIOUS
<1>1. CASE UNCHANGED vars
  BY <1>1 DEF vars, callVars, serviceVars, IInv, TypeOK, CallsInv, UploadsInv, LaunchesInv,
              Sent, Owned
<1>2. CASE Next
  BY <1>2, CreateLaunchKeeps, CreateUploadUrlKeeps, PutArchiveKeeps, CommandOnLaunchKeeps,
     CommandFailsKeeps, SendKeeps, AttemptFailsKeeps, ServeKeeps, RefuseKeeps,
     GetLaunchStatusKeeps, ServiceStepKeeps DEF Next
<1> QED BY <1>1, <1>2

LEMMA Inductive == Spec => []IInv
BY InitIInv, NextKeeps, PTL DEF Spec

-----------------------------------------------------------------------------
\* Types, whatever the number of invocations, attempts, uploads and launches.
THEOREM TypeCorrect == Spec => []TypeOK
BY Inductive, PTL DEF IInv

\* No create request is on its way before its own archive has been stored:
\* cmd_create_launch uploads first and stops when that failed.
THEOREM UploadedBeforeCreated == Spec => []UploadComesFirst
<1>1. IInv => UploadComesFirst
  BY DEF IInv, UploadsInv, UploadComesFirst, Sent
<1> QED BY <1>1, Inductive, PTL

-----------------------------------------------------------------------------
(* Every step is one of the ledger, or none.                                *)

LEMMA InitLedger == Init => Ledger!LedgerInit
<1> SUFFICES ASSUME Init PROVE Ledger!LedgerInit
  OBVIOUS
<1> USE LaunchAssumption DEF Init
<1>1. \A c \in Calls : LaunchesOf(c) = {}
  BY DEF LaunchesOf
<1>2. \A c \in Calls : Told(c) = "nothing"
  BY DEF Told
<1> QED BY <1>1, <1>2 DEF Ledger!LedgerInit

\* A step that makes no launch and ends at most invocation c.
LEMMA AtMostTells ==
  ASSUME IInv, IInv', NEW c \in Calls,
         UNCHANGED source, \A d : LaunchesOf(d)' = LaunchesOf(d),
         \A d \in Calls \ {c} : Told(d)' = Told(d),
         \/ Told(c)' = Told(c)
         \/ /\ Told(c) = "nothing" /\ source[c] # NoSource
            /\ \/ Told(c)' = "failed"
               \/ Told(c)' = "ok" /\ LaunchesOf(c) # {}
  PROVE  [Ledger!LedgerNext]_(Ledger!ledgerVars)
<1>1. CASE Told(c)' = Told(c)
  BY <1>1 DEF Ledger!ledgerVars
<1>2. ASSUME Told(c) = "nothing", source[c] # NoSource, NEW outcome \in {"ok", "failed"},
             Told(c)' = outcome, outcome = "ok" => LaunchesOf(c) # {}
      PROVE  Ledger!Tell(c, outcome)
             /\ UNCHANGED <<source, [d \in Calls |-> LaunchesOf(d)]>>
  BY <1>2 DEF Ledger!Tell
<1> QED BY <1>1, <1>2 DEF Ledger!LedgerNext

LEMMA NewLaunchMakes ==
  ASSUME IInv, NEW c \in Calls, NEW l \in LaunchIds, NEW n \in 1..MaxAttempts,
         cmd[c] = "create", Sent(c), NewLaunch(c, l, n)
  PROVE  Ledger!Make(c, l) /\ LaunchesOf(c)' # {}
<1> USE LaunchAssumption DEF IInv
<1> DEFINE new == [status |-> "analyzing", content |-> ContentOf[source[c]], by |-> c,
                   token |-> ClientToken(c, n)]
<1>1. new \in Launch
  BY ContentIsContent DEF CallsInv, Launch, Statuses
<1>2. new # NoLaunch
  BY <1>1, NoLaunchAssumption
<1>3. \A k \in LaunchIds : launches'[k] = IF k = l THEN new ELSE launches[k]
  BY DEF NewLaunch, TypeOK
<1>4. launches[l] = NoLaunch
  BY DEF NewLaunch
<1>5. \A d, m : m \in LaunchesOf(d) <=>
        \E k \in LaunchIds : /\ launches[k] # NoLaunch /\ launches[k].by = d
                             /\ m = [id |-> k, content |-> launches[k].content]
  BY DEF LaunchesOf
<1>6. \A d, m : m \in LaunchesOf(d)' <=>
        \E k \in LaunchIds : /\ launches'[k] # NoLaunch /\ launches'[k].by = d
                             /\ m = [id |-> k, content |-> launches'[k].content]
  BY DEF LaunchesOf
<1>7. LaunchesOf(c) = {}
  BY <1>5 DEF NewLaunch
<1>8. \A d : \A m \in LaunchesOf(d) : m.id # l
  BY <1>4, <1>5
<1> HIDE DEF new
<1>9. new.by = c /\ new.content = ContentOf[source[c]]
  BY DEF new
<1>10. LaunchesOf(c)' = {[id |-> l, content |-> ContentOf[source[c]]]}
  <2>1. \A k \in LaunchIds : launches'[k] # NoLaunch /\ launches'[k].by = c <=> k = l
    BY <1>2, <1>3, <1>9 DEF NewLaunch
  <2>2. launches'[l].content = ContentOf[source[c]]
    BY <1>3, <1>9
  <2>3. ASSUME NEW m \in LaunchesOf(c)' PROVE m = [id |-> l, content |-> ContentOf[source[c]]]
    <3>1. PICK k \in LaunchIds : /\ launches'[k] # NoLaunch /\ launches'[k].by = c
                                 /\ m = [id |-> k, content |-> launches'[k].content]
      BY <1>6
    <3> QED BY <3>1, <2>1, <2>2
  <2>4. [id |-> l, content |-> ContentOf[source[c]]] \in LaunchesOf(c)'
    BY <1>6, <2>1, <2>2
  <2> QED BY <2>3, <2>4, Zenon
<1>11. \A d \in Calls \ {c} : LaunchesOf(d)' = LaunchesOf(d)
  <2> TAKE d \in Calls \ {c}
  <2>1. \A k \in LaunchIds : launches'[k] # NoLaunch /\ launches'[k].by = d
                           <=> launches[k] # NoLaunch /\ launches[k].by = d
    BY <1>3, <1>4, <1>9
  <2>2. \A k \in LaunchIds : launches'[k] # NoLaunch /\ launches'[k].by = d
                           => launches'[k] = launches[k]
    BY <1>3, <1>4, <1>9
  <2>3. ASSUME NEW m \in LaunchesOf(d)' PROVE m \in LaunchesOf(d)
    <3>1. PICK k \in LaunchIds : /\ launches'[k] # NoLaunch /\ launches'[k].by = d
                                 /\ m = [id |-> k, content |-> launches'[k].content]
      BY <1>6
    <3> QED BY <3>1, <1>5, <2>1, <2>2
  <2>4. ASSUME NEW m \in LaunchesOf(d) PROVE m \in LaunchesOf(d)'
    <3>1. PICK k \in LaunchIds : /\ launches[k] # NoLaunch /\ launches[k].by = d
                                 /\ m = [id |-> k, content |-> launches[k].content]
      BY <1>5
    <3> QED BY <3>1, <1>6, <2>1, <2>2
  <2> QED BY <2>3, <2>4, Zenon
<1>12. source[c] # NoSource /\ ContentOf[source[c]] # Refused
  BY DEF CallsInv
<1>13. [d \in Calls |-> LaunchesOf(d)]'
        = [[d \in Calls |-> LaunchesOf(d)] EXCEPT ![c] = {[id |-> l, content |-> ContentOf[source[c]]]}]
  BY <1>10, <1>11
<1> QED BY <1>7, <1>8, <1>10, <1>12, <1>13 DEF Ledger!Make

LEMMA NextLedger ==
  ASSUME IInv, IInv', [Next]_vars
  PROVE  [Ledger!LedgerNext]_(Ledger!ledgerVars)
<1> USE DEF IInv, Exit, Go, callVars, serviceVars
<1>1. ASSUME UNCHANGED launches PROVE \A d : LaunchesOf(d)' = LaunchesOf(d)
  BY <1>1 DEF LaunchesOf
<1>2. ASSUME UNCHANGED <<source, launches, cmd, result>>
      PROVE  [Ledger!LedgerNext]_(Ledger!ledgerVars)
  BY <1>1, <1>2 DEF Ledger!ledgerVars, Told
\* What an invocation reports, if it is the one that moves.
<1>3. ASSUME NEW c \in Calls, NEW r \in {"ok", "failed"}, pc[c] # "done",
             result' = [result EXCEPT ![c] = r], UNCHANGED cmd
      PROVE  /\ \A d \in Calls \ {c} : Told(d)' = Told(d)
             /\ Told(c) = "nothing"
             /\ Told(c)' = IF cmd[c] = "create" THEN r ELSE "nothing"
             /\ cmd[c] = "create" => source[c] # NoSource
  BY <1>3 DEF Told, TypeOK, CallsInv
<1>4. ASSUME NEW c \in Calls, NEW s \in Sources, CreateLaunch(c, s)
      PROVE  Ledger!LedgerNext
  <2>1. source[c] = NoSource /\ result[c] = "none"
    BY <1>4 DEF CreateLaunch, CallsInv, TypeOK
  <2>2. \A d \in Calls : Told(d)' = Told(d)
    BY <1>4, <2>1 DEF CreateLaunch, Told, TypeOK
  <2>3. Ledger!Ask(c, s)
    BY <1>1, <1>4, <2>1, <2>2 DEF Ledger!Ask, CreateLaunch
  <2> QED BY <2>3 DEF Ledger!LedgerNext
<1>5. ASSUME NEW c \in Calls, NEW what \in Commands, NEW l \in LaunchIds,
             CommandOnLaunch(c, what, l)
      PROVE  [Ledger!LedgerNext]_(Ledger!ledgerVars)
  <2>1. \A d \in Calls : Told(d)' = Told(d)
    BY <1>5 DEF CommandOnLaunch, Told, TypeOK, CallsInv
  <2> QED BY <1>1, <1>5, <2>1 DEF CommandOnLaunch, Ledger!ledgerVars
<1>6. ASSUME NEW c \in Calls, CommandFails(c) \/ AttemptFails(c)
      PROVE  [Ledger!LedgerNext]_(Ledger!ledgerVars)
  <2>1. UNCHANGED <<source, launches, cmd>> /\ pc[c] # "done"
    BY <1>6 DEF CommandFails, AttemptFails
  <2>2. UNCHANGED result \/ result' = [result EXCEPT ![c] = "failed"]
    BY <1>6 DEF CommandFails, AttemptFails
  <2> QED BY <1>1, <1>2, <1>3, <2>1, <2>2, AtMostTells
<1>7. ASSUME NEW r \in wire, Refuse(r)
      PROVE  [Ledger!LedgerNext]_(Ledger!ledgerVars)
  <2>1. r.call \in Calls
    BY DEF TypeOK, Request
  <2>2. UNCHANGED <<source, launches, cmd>>
    BY <1>7 DEF Refuse
  <2>3. \/ UNCHANGED result
        \/ pc[r.call] # "done" /\ result' = [result EXCEPT ![r.call] = "failed"]
    BY <1>7 DEF Refuse
  <2> QED BY <1>1, <1>2, <1>3, <2>1, <2>2, <2>3, AtMostTells
<1>8. ASSUME NEW l \in LaunchIds, ServiceStep(l)
      PROVE  [Ledger!LedgerNext]_(Ledger!ledgerVars)
  BY <1>8, ServiceStepKeeps DEF ServiceStep, Told, Ledger!ledgerVars
<1>9. ASSUME NEW r \in wire, NEW l \in LaunchIds, Serve(r, l)
      PROVE  [Ledger!LedgerNext]_(Ledger!ledgerVars)
  <2> DEFINE c == r.call
  <2>1. c \in Calls /\ r.n \in 1..MaxAttempts /\ Sent(c)
    BY DEF TypeOK, Request, Sent
  <2>2. UNCHANGED <<source, cmd>>
    BY <1>9 DEF Serve
  <2>3. \/ UNCHANGED result
        \/ pc[c] # "done" /\ result' = [result EXCEPT ![c] = "ok"]
    BY <1>9 DEF Serve
  <2>4. \/ \A d \in Calls : Told(d)' = Told(d)
        \/ /\ \A d \in Calls \ {c} : Told(d)' = Told(d)
           /\ Told(c) = "nothing" /\ source[c] # NoSource
           /\ Told(c)' = "ok" /\ cmd[c] = "create"
    <3>1. CASE UNCHANGED result
      BY <3>1, <2>2 DEF Told
    <3>2. CASE pc[c] # "done" /\ result' = [result EXCEPT ![c] = "ok"]
      BY <3>2, <1>3, <2>1, <2>2
    <3> QED BY <2>3, <3>1, <3>2
  <2>5. CASE cmd[c] # "create"
    BY <1>9, <2>1, <2>2, <2>4, <2>5, LaunchesServed, AtMostTells
  <2>6. CASE cmd[c] = "create" /\ UNCHANGED launches /\ launches[l] # NoLaunch /\ launches[l].by = c
    <3>1. LaunchesOf(c) # {}
      BY <2>6 DEF LaunchesOf
    <3> QED BY <1>1, <2>1, <2>2, <2>4, <2>6, <3>1, AtMostTells
  <2>7. CASE cmd[c] = "create" /\ NewLaunch(c, l, r.n)
    <3>1. Ledger!Make(c, l) /\ LaunchesOf(c)' # {}
      BY <2>1, <2>7, NewLaunchMakes
    <3>2. CASE \A d \in Calls : Told(d)' = Told(d)
      BY <2>1, <2>2, <3>1, <3>2 DEF Ledger!LedgerNext
    <3>3. CASE /\ \A d \in Calls \ {c} : Told(d)' = Told(d)
               /\ Told(c) = "nothing" /\ source[c] # NoSource /\ Told(c)' = "ok"
      <4>1. Ledger!Tell(c, "ok")
        BY <2>1, <3>1, <3>3 DEF Ledger!Tell
      <4> QED BY <2>1, <2>2, <3>1, <4>1 DEF Ledger!LedgerNext
    <3> QED BY <2>4, <3>2, <3>3
  <2> QED BY <1>9, <2>5, <2>6, <2>7, CreateServed DEF Serve
<1>10. CASE UNCHANGED vars
  BY <1>2, <1>10 DEF vars
<1>11. CASE Next
  <2>1. ASSUME NEW c \in Calls, CreateUploadUrl(c) \/ PutArchive(c) \/ Send(c)
        PROVE  UNCHANGED <<source, launches, cmd, result>>
    BY <2>1 DEF CreateUploadUrl, PutArchive, Send
  <2>2. ASSUME NEW l \in LaunchIds, GetLaunchStatus(l)
        PROVE  UNCHANGED <<source, launches, cmd, result>>
    BY <2>2 DEF GetLaunchStatus
  <2> QED BY <1>2, <1>4, <1>5, <1>6, <1>7, <1>8, <1>9, <1>11, <2>1, <2>2 DEF Next
<1> QED BY <1>10, <1>11

\* Every behaviour of the launch commands, under any losses and repetitions, is
\* one of the ledger: at most one launch for an invocation, of its own source,
\* and success is reported only of a launch that exists.
THEOREM ImplementsLedger == Spec => LedgerImplemented
<1>1. Init => Ledger!LedgerInit
  BY InitLedger
<1>2. IInv /\ IInv' /\ [Next]_vars => [Ledger!LedgerNext]_(Ledger!ledgerVars)
  BY NextLedger
<1> QED BY <1>1, <1>2, Inductive, PTL DEF Spec, LedgerImplemented, Ledger!LedgerSpec
=============================================================================
