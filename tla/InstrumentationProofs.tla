------------------------ MODULE InstrumentationProofs ------------------------
(***************************************************************************)
(* What the instrumentation commands say is so, for any number of          *)
(* locations, events, commands and attempts.  IInv adds to the properties  *)
(* of Instrumentation what the service keeps, what is known of an answer   *)
(* on its way, and how far a listing or an assessment has come.  Grows is  *)
(* all that the arguments need of a step of the service: whoever takes it. *)
(***************************************************************************)
EXTENDS Instrumentation, TLAPS

-----------------------------------------------------------------------------
(* The inductive invariant.                                                 *)

TypeInv ==
  /\ InstrTypeOK
  /\ stage # "idle" => exit = None
  /\ stage # "idle" \/ exit = 0 => op \in Commands /\ ~Refused(op)
  /\ stage = "idle" => asking = None
  /\ asking # None <=> stage # "idle" /\ op.name = "check-status"
  /\ checks \in [created: Config \cup {None}, verdict: Statuses \cup {"PENDING", None},
                 found: SUBSET Event, failed: SUBSET Statuses,
                 cut: SUBSET Statuses]
  /\ listing \in [token: 0..LastLocation, seen: SUBSET [loc: Locations, gen: Nat],
                  cut: BOOLEAN, more: BOOLEAN]
  /\ before \in [configs: [Locations -> Config \cup {None}], created: [Locations -> Nat],
                 events: SUBSET Event]

\* A configuration is the latest generation of its location, and the service
\* has no event from the future.
ServiceInv ==
  /\ \A l \in Locations : configs[l] # None =>
       configs[l].gen = created[l] /\ configs[l].at <= clock
  /\ \A e \in events : e.at <= clock /\ e.gen <= created[e.loc]

\* What is so of every configuration that anybody has seen at a location.
Seen(l, c) ==
  /\ c \in Config
  /\ c.gen <= created[l]
  /\ \A e \in events : e.loc = l /\ c.at <= e.at => c.gen <= e.gen

BeforeInv ==
  /\ before.events \subseteq events
  /\ \A l \in Locations :
       /\ before.created[l] <= created[l]
       /\ before.configs[l] # None => before.configs[l].gen <= created[l]

\* The assessment has the creation time before it asks for events.
SeenInv ==
  /\ \A l \in Locations : configs[l] # None => Seen(l, configs[l])
  /\ stage = "answered" /\ asking = "get" => reply = Failure \/ Seen(op.loc, reply)
  /\ asking \in {"ACTIVE", "READY", "ERROR"} =>
       op.start \in Int /\ op.end \in Int /\ Seen(op.loc, checks.created)

NoneOf(status, from) ==
  \/ status \in checks.failed \cup checks.cut
  \/ EventsOf(before.events, op.loc, status, from, op.end) = {}

\* How far the assessment has come, and what an answer to it holds.
CheckInv ==
  /\ asking # None => checks.verdict = None
  /\ asking \in {"READY", "ERROR"} => NoneOf("ACTIVE", ActiveStart(op, checks.created.at))
  /\ asking = "ERROR" => NoneOf("READY", op.start)
  /\ stage = "answered" /\ asking \in {"ACTIVE", "READY", "ERROR"} =>
       \/ reply = Failure
       \/ /\ reply.found \subseteq EventsOf(events, op.loc, asking, CheckStart(asking), op.end)
          /\ asking = "ACTIVE" => \A e \in reply.found : e.gen >= checks.created.gen
          /\ \/ reply.more
             \/ EventsOf(before.events, op.loc, asking, CheckStart(asking), op.end)
                  \subseteq reply.found

Achieved ==
  /\ op.name = "create" => created[op.loc] > before.created[op.loc]
  /\ op.name = "delete" => Gone(op.loc)
  /\ op.name = "scope" => \A l \in Scope : Gone(l)
  /\ op.name = "arns" => \A l \in op.arns : Gone(l)

\* A command that is answered with success has achieved what it was for.
AchievedInv ==
  /\ exit = 0 => Achieved
  /\ stage = "answered" /\ ReplyOk(reply) => Achieved

\* The configurations from one location to another that were there all the time.
Kept(l) == before.configs[l] # None /\ configs[l] = before.configs[l]

Covered(from, to, S) ==
  \A l \in Scope : from < l /\ l <= to /\ Kept(l) => [loc |-> l, gen |-> configs[l].gen] \in S

ListInv ==
  op.name = "list" =>
    /\ stage # "idle" \/ (exit = 0 /\ listing.more) => Covered(0, listing.token, listing.seen)
    /\ exit = 0 /\ ~listing.more /\ ~listing.cut => Covered(0, LastLocation, listing.seen)
    /\ stage = "answered" =>
         \/ reply = Failure
         \/ /\ reply.page \subseteq [loc: Locations, gen: Nat]
            /\ reply.next \in 0..LastLocation
            /\ Covered(listing.token, IF reply.next = 0 THEN LastLocation ELSE reply.next,
                       reply.page)

IInv ==
  /\ TypeInv /\ ServiceInv /\ BeforeInv /\ SeenInv /\ CheckInv /\ AchievedInv /\ ListInv
  /\ ActiveIsOfThisGeneration /\ VerdictFollowsEvents
-----------------------------------------------------------------------------
(* Facts about the constants and about windows.                             *)

LEMMA ConstantTypes ==
  /\ LastLocation \in Nat \ {0} /\ MaxAttempts \in Nat \ {0}
  /\ Scope \subseteq Locations
  /\ None \notin Int /\ None \notin Config /\ NoTime \notin Int
  /\ None \notin {"get", "PENDING"} \cup Statuses
BY InstrumentationAssumption DEF Statuses

LEMMA CommandTypes ==
  ASSUME NEW o \in Commands
  PROVE  /\ o.name \in {"create", "list", "scope", "arns", "delete", "get", "get-status",
                        "check-status"}
         /\ o.name \in {"create", "delete", "get", "get-status", "check-status"} =>
              o.loc \in Locations
         /\ o.name = "arns" /\ ~Refused(o) => o.arns \subseteq Locations
         /\ o.name = "check-status" => {o.start, o.end} \subseteq Int \cup {NoTime}
BY CommandsAssumption DEF Refused

LEMMA ActiveStartBounds ==
  ASSUME NEW o, o.start \in Int, NEW t \in Nat
  PROVE  ActiveStart(o, t) \in Int /\ t <= ActiveStart(o, t)
BY DEF ActiveStart, Larger

-----------------------------------------------------------------------------
(* What any step does to the service.                                       *)

ServiceTypes ==
  /\ clock \in Nat
  /\ configs \in [Locations -> Config \cup {None}]
  /\ created \in [Locations -> Nat]
  /\ events \subseteq Event

ServiceOK ==
  ServiceTypes /\ ServiceInv /\ \A l \in Locations : configs[l] # None => Seen(l, configs[l])

\* Generations are numbered upwards, events are kept, a configuration that is
\* new is of a new generation, an event that is new of the latest.
Grows ==
  /\ \A l \in Locations : created[l] <= created'[l]
  /\ events \subseteq events'
  /\ \A l \in Locations : configs'[l] # None =>
       configs'[l] = configs[l] \/ configs'[l].gen > created[l]
  /\ \A e \in events' \ events : e.gen >= created[e.loc]

LEMMA ServiceQuiet ==
  ASSUME ServiceOK, UNCHANGED serviceVars
  PROVE  ServiceOK' /\ Grows
<1>1. Grows
  BY DEF ServiceOK, ServiceTypes, Grows, serviceVars
<1>2. ServiceTypes' /\ ServiceInv'
  BY DEF ServiceOK, ServiceTypes, ServiceInv, serviceVars
<1>3. (\A l \in Locations : configs[l] # None => Seen(l, configs[l]))'
  BY DEF ServiceOK, Seen, serviceVars
<1> QED
  BY <1>1, <1>2, <1>3 DEF ServiceOK

LEMMA ServiceAdds ==
  ASSUME ServiceOK, NEW k \in Locations, configs[k] = None, AddConfig(k)
  PROVE  ServiceOK' /\ Grows
<1> USE ConstantTypes
<1> DEFINE c == [gen |-> created[k] + 1, at |-> clock + 1]
<1>1. c \in Config /\ c.gen = created[k] + 1 /\ c.at = clock + 1
  BY DEF ServiceOK, ServiceTypes, Config
<1> HIDE DEF c
<1>2. /\ clock' = clock + 1 /\ events' = events
      /\ created' = [created EXCEPT ![k] = @ + 1]
      /\ configs' = [configs EXCEPT ![k] = c]
  BY DEF AddConfig, c
<1>3. Grows
  BY <1>1, <1>2 DEF Grows, ServiceOK, ServiceTypes, ServiceInv, Event
<1>4. ServiceTypes'
  BY <1>1, <1>2 DEF ServiceOK, ServiceTypes
<1>5. ServiceInv'
  BY <1>1, <1>2 DEF ServiceOK, ServiceTypes, ServiceInv, Event, Config
<1>6. ASSUME NEW l \in Locations, configs'[l] # None
      PROVE  /\ configs'[l] \in Config /\ configs'[l].gen <= created'[l]
             /\ \A e \in events' : e.loc = l /\ configs'[l].at <= e.at =>
                                     configs'[l].gen <= e.gen
  <2>1. CASE l = k
    BY <1>1, <1>2, <1>5, <2>1 DEF ServiceOK, ServiceTypes, ServiceInv, Event
  <2>2. CASE l # k
    BY <1>2, <1>6, <2>2 DEF ServiceOK, ServiceTypes, Seen
  <2> QED
    BY <2>1, <2>2
<1> QED
  BY <1>3, <1>4, <1>5, <1>6 DEF ServiceOK, Seen

LEMMA ServiceDrops ==
  ASSUME ServiceOK, NEW L, DropConfigs(L)
  PROVE  ServiceOK' /\ Grows
<1>1. /\ UNCHANGED <<clock, created, events>>
      /\ \A l \in Locations : configs'[l] = None \/ configs'[l] = configs[l]
  BY DEF DropConfigs
<1>2. ServiceTypes'
  BY <1>1 DEF DropConfigs, ServiceOK, ServiceTypes
<1>3. Grows
  BY <1>1 DEF Grows, ServiceOK, ServiceTypes
<1>4. ServiceInv'
  BY <1>1 DEF ServiceOK, ServiceInv
<1>5. (\A l \in Locations : configs[l] # None => Seen(l, configs[l]))'
  BY <1>1 DEF ServiceOK, Seen
<1> QED
  BY <1>2, <1>3, <1>4, <1>5 DEF ServiceOK

LEMMA ServiceReports ==
  ASSUME ServiceOK, NEW l \in Locations, NEW status \in Reported, SdkReports(l, status)
  PROVE  ServiceOK' /\ Grows
<1> DEFINE n == [loc |-> l, gen |-> configs[l].gen, status |-> status, at |-> clock]
<1>1. configs[l] \in Config /\ configs[l].gen = created[l]
  BY DEF SdkReports, Existing, ServiceOK, ServiceTypes, ServiceInv
<1>2. n \in Event /\ n.loc = l /\ n.gen = created[l] /\ n.at = clock
  BY <1>1, InstrumentationAssumption DEF ServiceOK, ServiceTypes, Event, Config
<1> HIDE DEF n
<1>3. UNCHANGED <<clock, created, configs>> /\ events' = events \cup {n}
  BY DEF SdkReports, n
<1>4. ServiceTypes'
  BY <1>2, <1>3 DEF ServiceOK, ServiceTypes
<1>5. ServiceInv'
  BY <1>2, <1>3 DEF ServiceOK, ServiceTypes, ServiceInv
<1>6. Grows
  BY <1>2, <1>3 DEF ServiceOK, ServiceTypes, Grows
<1>7. (\A k \in Locations : configs[k] # None => Seen(k, configs[k]))'
  BY <1>2, <1>3 DEF ServiceOK, Seen
<1> QED
  BY <1>4, <1>5, <1>6, <1>7 DEF ServiceOK

LEMMA IInvServiceOK == IInv => ServiceOK
BY DEF IInv, TypeInv, InstrTypeOK, SeenInv, ServiceOK, ServiceTypes

-----------------------------------------------------------------------------
(* What a command has learnt stays so while the service goes on.            *)

LEMMA SeenStays ==
  ASSUME ServiceOK, Grows, ServiceTypes', NEW l \in Locations
  PROVE  \A c : Seen(l, c) =>
           /\ c \in Config /\ c.gen <= created'[l]
           /\ \A e \in events' : e.loc = l /\ c.at <= e.at => c.gen <= e.gen
<1> SUFFICES ASSUME NEW c, Seen(l, c)
             PROVE  /\ c \in Config /\ c.gen <= created'[l]
                    /\ \A e \in events' : e.loc = l /\ c.at <= e.at => c.gen <= e.gen
  OBVIOUS
<1>1. c \in Config /\ c.gen \in Nat /\ c.gen <= created[l]
  BY DEF Seen, Config
<1>2. c.gen <= created'[l]
  BY <1>1 DEF Grows, ServiceOK, ServiceTypes
<1>3. ASSUME NEW e \in events', e.loc = l, c.at <= e.at
      PROVE  c.gen <= e.gen
  <2>1. CASE e \in events
    BY <1>3, <2>1 DEF Seen
  <2>2. CASE e \notin events
    BY <1>1, <1>3, <2>2 DEF Grows, ServiceOK, ServiceTypes, Event
  <2> QED
    BY <2>1, <2>2
<1> QED
  BY <1>1, <1>2, <1>3

LEMMA BeforeStays ==
  ASSUME IInv, ServiceOK', Grows, before' = before
  PROVE  BeforeInv'
<1>1. \A l \in Locations : before.configs[l] \in Config \cup {None} /\ before.created[l] \in Nat
  BY DEF IInv, TypeInv
<1>2. \A l \in Locations : created[l] \in Nat /\ created'[l] \in Nat
  BY IInvServiceOK DEF ServiceOK, ServiceTypes
<1> QED
  BY <1>1, <1>2 DEF IInv, BeforeInv, Grows, Config

LEMMA GoneStays ==
  ASSUME IInv, Grows, before' = before, NEW l \in Locations, Gone(l)
  PROVE  Gone(l)'
<1>1. CASE before.configs[l] = None
  BY <1>1 DEF Gone
<1>2. CASE before.configs[l] # None
  <2>1. /\ before.configs[l] \in Config /\ before.configs[l].gen <= created[l]
        /\ configs[l] # before.configs[l] /\ created[l] \in Nat
    BY <1>2 DEF IInv, TypeInv, InstrTypeOK, BeforeInv, Gone
  <2>2. configs'[l] # before.configs[l]
    BY <1>2, <2>1 DEF Grows, Config
  <2> QED
    BY <2>2 DEF Gone
<1> QED
  BY <1>1, <1>2

LEMMA KeptWas ==
  ASSUME IInv, Grows, before' = before, NEW l \in Locations, Kept(l)'
  PROVE  Kept(l) /\ configs'[l] = configs[l]
<1>1. /\ before.configs[l] # None /\ configs'[l] = before.configs[l]
  BY DEF Kept
<1>2. ~Gone(l)'
  BY <1>1 DEF Gone
<1>3. ~Gone(l)
  BY <1>2, GoneStays
<1> QED
  BY <1>1, <1>3 DEF Gone, Kept

LEMMA CoveredStays ==
  ASSUME IInv, Grows, before' = before
  PROVE  \A from, to, S : Covered(from, to, S) =>
           \A l \in Scope : from < l /\ l <= to /\ Kept(l)' =>
             [loc |-> l, gen |-> configs'[l].gen] \in S
BY KeptWas, ConstantTypes DEF Covered

LEMMA AchievedStays ==
  ASSUME IInv, ServiceOK', Grows, before' = before, op' = op, op \in Commands, ~Refused(op),
         Achieved
  PROVE  Achieved'
<1>1. op.name = "create" => created'[op.loc] > before.created[op.loc]
  <2> SUFFICES ASSUME op.name = "create" PROVE created'[op.loc] > before.created[op.loc]
    OBVIOUS
  <2>1. op.loc \in Locations
    BY CommandTypes
  <2>2. /\ created[op.loc] \in Nat /\ created'[op.loc] \in Nat
        /\ before.created[op.loc] \in Nat /\ created[op.loc] <= created'[op.loc]
    BY <2>1, IInvServiceOK DEF ServiceOK, ServiceTypes, IInv, TypeInv, Grows
  <2> QED
    BY <2>1, <2>2 DEF Achieved
<1>2. op.name = "delete" => Gone(op.loc)'
  <2> SUFFICES ASSUME op.name = "delete" PROVE Gone(op.loc)'
    OBVIOUS
  <2>1. op.loc \in Locations /\ Gone(op.loc)
    BY CommandTypes DEF Achieved
  <2>2. \A l \in Locations : Gone(l) => Gone(l)'
    BY GoneStays
  <2> QED
    BY <2>1, <2>2 DEF Gone
<1>3. op.name = "scope" => \A l \in Scope : Gone(l)'
  BY ConstantTypes, GoneStays DEF Achieved
<1>4. op.name = "arns" => \A l \in op.arns : Gone(l)'
  BY CommandTypes, GoneStays DEF Achieved
<1> QED
  BY <1>1, <1>2, <1>3, <1>4 DEF Achieved

-----------------------------------------------------------------------------
(* Steps of others, and the command's own steps that leave the service.     *)

LEMMA AskingTypes ==
  ASSUME IInv, asking # None
  PROVE  /\ op \in Commands /\ op.name = "check-status" /\ op.loc \in Locations
         /\ stage # "idle" /\ exit = None
BY CommandTypes DEF IInv, TypeInv

\* The service keeps the events a verdict rests on.
LEMMA VerdictStays ==
  ASSUME IInv, Grows, UNCHANGED <<op, checks, before>>
  PROVE  VerdictFollowsEvents'
<1>1. ASSUME checks.verdict \in Statuses
      PROVE  EventsOf(events', op.loc, checks.verdict, CheckStart(checks.verdict), op.end) # {}
  BY <1>1 DEF IInv, VerdictFollowsEvents, EventsOf, Grows
<1>2. CheckStart(checks.verdict)' = CheckStart(checks.verdict)
  BY DEF CheckStart, ActiveStart, Larger
<1>3. (checks.verdict \in Statuses =>
         EventsOf(events, op.loc, checks.verdict, CheckStart(checks.verdict), op.end) # {})'
  BY <1>1, <1>2 DEF EventsOf
<1> QED
  BY <1>3 DEF IInv, VerdictFollowsEvents, EventsOf, ActiveStart, Larger

LEMMA QuietStep ==
  ASSUME IInv, ServiceOK', Grows, UNCHANGED commandVars
  PROVE  IInv'
<1> USE DEF commandVars
<1>1. ServiceOK
  BY IInvServiceOK
<1>2. TypeInv'
  BY DEF IInv, TypeInv, InstrTypeOK, ServiceOK, ServiceTypes, Refused
<1>3. ServiceInv'
  BY DEF ServiceOK
<1>4. BeforeInv'
  BY BeforeStays
<1>5. SeenInv'
  <2>1. (\A l \in Locations : configs[l] # None => Seen(l, configs[l]))'
    BY DEF ServiceOK
  <2>2. ASSUME asking # None PROVE \A c : Seen(op.loc, c) =>
           /\ c \in Config /\ c.gen <= created'[op.loc]
           /\ \A e \in events' : e.loc = op.loc /\ c.at <= e.at => c.gen <= e.gen
    BY <1>1, <2>2, AskingTypes, SeenStays DEF ServiceOK
  <2>3. asking = "get" /\ Seen(op.loc, reply) => Seen(op.loc, reply)'
    <3> SUFFICES ASSUME asking = "get", Seen(op.loc, reply) PROVE Seen(op.loc, reply)'
      OBVIOUS
    <3>0. asking # None
      BY ConstantTypes DEF Statuses
    <3>1. /\ reply \in Config /\ reply.gen <= created'[op.loc]
          /\ \A e \in events' : e.loc = op.loc /\ reply.at <= e.at => reply.gen <= e.gen
      BY <2>2, <3>0
    <3> QED
      BY <3>1 DEF Seen
  <2>4. asking \in {"ACTIVE", "READY", "ERROR"} /\ Seen(op.loc, checks.created) =>
          Seen(op.loc, checks.created)'
    <3> SUFFICES ASSUME asking \in {"ACTIVE", "READY", "ERROR"},
                        Seen(op.loc, checks.created)
                 PROVE  Seen(op.loc, checks.created)'
      OBVIOUS
    <3>0. asking # None
      BY ConstantTypes DEF Statuses
    <3>1. /\ checks.created \in Config /\ checks.created.gen <= created'[op.loc]
          /\ \A e \in events' : e.loc = op.loc /\ checks.created.at <= e.at =>
                                 checks.created.gen <= e.gen
      BY <2>2, <3>0
    <3> QED
      BY <3>1 DEF Seen
  <2> QED
    BY <2>1, <2>3, <2>4 DEF IInv, SeenInv, Failure
<1>6. CheckInv'
  <2>1. EventsOf(events, op.loc, asking, CheckStart(asking), op.end)
          \subseteq EventsOf(events', op.loc, asking, CheckStart(asking), op.end)
    BY DEF EventsOf, Grows
  <2> QED
    BY <2>1 DEF IInv, CheckInv, NoneOf, Failure, EventsOf, ActiveStart, Larger, CheckStart
<1>7. AchievedInv'
  <2>1. ASSUME exit = 0 PROVE Achieved'
    BY <2>1, AchievedStays DEF IInv, AchievedInv, TypeInv
  <2>2. ASSUME stage = "answered", ReplyOk(reply) PROVE Achieved'
    BY <2>2, AchievedStays DEF IInv, AchievedInv, TypeInv
  <2> QED
    BY <2>1, <2>2 DEF AchievedInv, ReplyOk, Failure
<1>8. ListInv'
  BY CoveredStays DEF IInv, ListInv, Covered, Failure
<1>9. ActiveIsOfThisGeneration' /\ VerdictFollowsEvents'
  BY VerdictStays DEF IInv, ActiveIsOfThisGeneration
<1> QED
  BY <1>2, <1>3, <1>4, <1>5, <1>6, <1>7, <1>8, <1>9 DEF IInv

LEMMA StartedTypes ==
  ASSUME IInv, NEW o \in Commands, Started(o)
  PROVE  /\ ServiceOK' /\ Grows /\ UNCHANGED serviceVars
         /\ op' = o /\ attempts' = 0 /\ reply' = None /\ checks' = NoChecks
         /\ listing' \in [token: 0..LastLocation, seen: SUBSET [loc: Locations, gen: Nat],
                          cut: BOOLEAN, more: BOOLEAN]
         /\ before' \in [configs: [Locations -> Config \cup {None}],
                         created: [Locations -> Nat], events: SUBSET Event]
         /\ BeforeInv'
         /\ o.name = "list" => Covered(0, listing.token, listing.seen)'
<1> USE ConstantTypes
<1>1. ServiceOK' /\ Grows /\ UNCHANGED serviceVars
  BY IInvServiceOK, ServiceQuiet DEF Started
<1>2. op' = o /\ attempts' = 0 /\ reply' = None /\ checks' = NoChecks
  BY DEF Started
<1>3. CASE Continues(o)
  <2>1. listing' = listing /\ before' = before
    BY <1>3 DEF Started
  <2>2. BeforeInv'
    BY <1>1, <2>1, BeforeStays
  <2>3. o.name = "list" => Covered(0, listing.token, listing.seen)'
    BY <1>1, <1>3, <2>1 DEF IInv, ListInv, Continues, Covered, Kept, serviceVars
  <2> QED
    BY <1>1, <1>2, <2>1, <2>2, <2>3 DEF IInv, TypeInv
<1>4. CASE ~Continues(o)
  <2>1. listing' = NoListing /\ before' = Now(o)
    BY <1>4 DEF Started
  <2>2. listing' \in [token: 0..LastLocation, seen: SUBSET [loc: Locations, gen: Nat],
                      cut: BOOLEAN, more: BOOLEAN]
    BY <2>1 DEF NoListing
  <2>3. /\ before' \in [configs: [Locations -> Config \cup {None}],
                        created: [Locations -> Nat], events: SUBSET Event]
        /\ before'.configs = configs /\ before'.created = created
        /\ before'.events \subseteq events
    BY <2>1 DEF Now, IInv, TypeInv, InstrTypeOK
  <2>4. BeforeInv'
    BY <1>1, <2>3, IInvServiceOK DEF BeforeInv, ServiceOK, ServiceTypes, ServiceInv, serviceVars
  <2>5. Covered(0, listing.token, listing.seen)'
    BY <2>1 DEF NoListing, Covered, Locations
  <2> QED
    BY <1>1, <1>2, <2>2, <2>3, <2>4, <2>5
<1> QED
  BY <1>3, <1>4

LEMMA StartStep ==
  ASSUME IInv, NEW o \in Commands, Start(o)
  PROVE  IInv'
<1> USE ConstantTypes
<1>1. Started(o) /\ ~Refused(o)
  BY DEF Start
<1>2. /\ stage' = "calling" /\ exit' = None
      /\ asking' = IF o.name = "check-status" THEN "get" ELSE None
  BY DEF Start
<1>3. NoChecks \in [created: Config \cup {None}, verdict: Statuses \cup {"PENDING", None},
                    found: SUBSET Event, failed: SUBSET Statuses,
                    cut: SUBSET Statuses]
      /\ NoChecks.verdict = None
  BY DEF NoChecks
<1>4. TypeInv'
  BY <1>1, <1>2, <1>3, StartedTypes
  DEF TypeInv, InstrTypeOK, ServiceOK, ServiceTypes, Refused
<1>5. SeenInv'
  BY <1>1, <1>2, StartedTypes DEF SeenInv, ServiceOK, Statuses
<1>6. CheckInv'
  BY <1>1, <1>2, <1>3, StartedTypes DEF CheckInv, Statuses
<1>7. AchievedInv'
  BY <1>1, <1>2 DEF AchievedInv
<1>8. ListInv'
  BY <1>1, <1>2, StartedTypes DEF ListInv
<1>9. ActiveIsOfThisGeneration' /\ VerdictFollowsEvents'
  BY <1>1, <1>3, StartedTypes DEF ActiveIsOfThisGeneration, VerdictFollowsEvents, Statuses
<1> QED
  BY <1>1, <1>4, <1>5, <1>6, <1>7, <1>8, <1>9, StartedTypes DEF IInv, ServiceOK

LEMMA ExitStep ==
  ASSUME IInv, NEW o \in Commands, NEW code \in {1, 2}, ExitAtOnce(o, code)
  PROVE  IInv'
<1> USE ConstantTypes
<1>1. Started(o) /\ stage = "idle" /\ stage' = "idle" /\ exit' = code /\ asking' = None
  BY DEF ExitAtOnce, Started
<1>2. NoChecks \in [created: Config \cup {None}, verdict: Statuses \cup {"PENDING", None},
                    found: SUBSET Event, failed: SUBSET Statuses,
                    cut: SUBSET Statuses]
      /\ NoChecks.verdict = None
  BY DEF NoChecks
<1>3. TypeInv'
  BY <1>1, <1>2, StartedTypes DEF TypeInv, InstrTypeOK, ServiceOK, ServiceTypes, Refused
<1>4. SeenInv'
  BY <1>1, StartedTypes DEF SeenInv, ServiceOK, Statuses
<1>5. CheckInv'
  BY <1>1, StartedTypes DEF CheckInv, Statuses
<1>6. AchievedInv' /\ ListInv'
  BY <1>1 DEF AchievedInv, ListInv
<1>7. ActiveIsOfThisGeneration' /\ VerdictFollowsEvents'
  BY <1>1, <1>2, StartedTypes DEF ActiveIsOfThisGeneration, VerdictFollowsEvents, Statuses
<1> QED
  BY <1>1, <1>3, <1>4, <1>5, <1>6, <1>7, StartedTypes DEF IInv, ServiceOK

LEMMA ResendStep ==
  ASSUME IInv, Resend
  PROVE  IInv'
<1> USE ConstantTypes
<1>1. /\ stage # "idle" /\ stage' = "calling" /\ attempts' = attempts + 1
      /\ attempts < MaxAttempts - 1
      /\ UNCHANGED <<op, asking, checks, exit, listing, before>> /\ UNCHANGED serviceVars
  BY DEF Resend
<1>2. ServiceOK' /\ Grows
  BY <1>1, IInvServiceOK, ServiceQuiet
<1>3. TypeInv'
  BY <1>1, <1>2 DEF IInv, TypeInv, InstrTypeOK, ServiceOK, ServiceTypes, Refused
<1>4. BeforeInv'
  BY <1>1, <1>2, BeforeStays
<1>5. SeenInv'
  BY <1>1, <1>2 DEF IInv, SeenInv, ServiceOK, Seen, serviceVars
<1>6. CheckInv'
  BY <1>1 DEF IInv, CheckInv, NoneOf, EventsOf, ActiveStart, Larger
<1>7. AchievedInv' /\ ListInv'
  BY <1>1 DEF IInv, TypeInv, AchievedInv, ListInv, Covered, Kept, serviceVars
<1>8. ActiveIsOfThisGeneration' /\ VerdictFollowsEvents'
  BY <1>1, <1>2, VerdictStays DEF IInv, ActiveIsOfThisGeneration
<1> QED
  BY <1>2, <1>3, <1>4, <1>5, <1>6, <1>7, <1>8 DEF IInv, ServiceOK

-----------------------------------------------------------------------------
(* The service answers.                                                     *)

\* What an answer on its way is worth, in terms of the state it is read in.
AnswerOK ==
  /\ asking = "get" => reply = Failure \/ Seen(op.loc, reply)
  /\ asking \in {"ACTIVE", "READY", "ERROR"} =>
       \/ reply = Failure
       \/ /\ reply.found \subseteq EventsOf(events, op.loc, asking, CheckStart(asking), op.end)
          /\ asking = "ACTIVE" => \A e \in reply.found : e.gen >= checks.created.gen
          /\ \/ reply.more
             \/ EventsOf(before.events, op.loc, asking, CheckStart(asking), op.end)
                  \subseteq reply.found
  /\ ReplyOk(reply) => Achieved
  /\ op.name = "list" =>
       \/ reply = Failure
       \/ /\ reply.page \subseteq [loc: Locations, gen: Nat]
          /\ reply.next \in 0..LastLocation
          /\ Covered(listing.token, IF reply.next = 0 THEN LastLocation ELSE reply.next,
                     reply.page)

LEMMA AnsweredStep ==
  ASSUME IInv, stage = "calling", stage' = "answered", ServiceOK', Grows, AnswerOK',
         UNCHANGED <<op, asking, attempts, checks, exit, listing, before>>
  PROVE  IInv'
<1> USE ConstantTypes
<1>1. TypeInv'
  BY DEF IInv, TypeInv, InstrTypeOK, ServiceOK, ServiceTypes, Refused
<1>2. BeforeInv'
  BY BeforeStays
<1>3. SeenInv'
  <2>1. (\A l \in Locations : configs[l] # None => Seen(l, configs[l]))'
    BY DEF ServiceOK
  <2>2. (stage = "answered" /\ asking = "get" => reply = Failure \/ Seen(op.loc, reply))'
    BY DEF AnswerOK
  <2>3. ASSUME asking \in {"ACTIVE", "READY", "ERROR"}
        PROVE  op.start \in Int /\ op.end \in Int /\ Seen(op.loc, checks.created)'
    <3>1. asking # None
      BY <2>3 DEF Statuses
    <3>2. op.loc \in Locations /\ Seen(op.loc, checks.created)
      BY <2>3, <3>1, AskingTypes DEF IInv, SeenInv
    <3>3. /\ checks.created \in Config /\ checks.created.gen <= created'[op.loc]
          /\ \A e \in events' : e.loc = op.loc /\ checks.created.at <= e.at =>
                                 checks.created.gen <= e.gen
      BY <3>2, IInvServiceOK, SeenStays DEF ServiceOK
    <3> QED
      BY <2>3, <3>3 DEF IInv, SeenInv, Seen
  <2> QED
    BY <2>1, <2>2, <2>3 DEF SeenInv
<1>4. CheckInv'
  <2>1. (asking # None => checks.verdict = None)'
    BY DEF IInv, CheckInv
  <2>2. (asking \in {"READY", "ERROR"} =>
           NoneOf("ACTIVE", ActiveStart(op, checks.created.at)))'
    BY DEF IInv, CheckInv, NoneOf, EventsOf, ActiveStart, Larger
  <2>3. (asking = "ERROR" => NoneOf("READY", op.start))'
    BY DEF IInv, CheckInv, NoneOf, EventsOf
  <2> QED
    BY <2>1, <2>2, <2>3 DEF CheckInv, AnswerOK
<1>5. AchievedInv'
  BY DEF AchievedInv, AnswerOK, IInv, TypeInv
<1>6. ListInv'
  <2> SUFFICES ASSUME op.name = "list" PROVE ListInv'
    BY DEF ListInv
  <2>1. Covered(0, listing.token, listing.seen)'
    BY CoveredStays DEF IInv, ListInv, Covered
  <2> QED
    BY <2>1 DEF AnswerOK, ListInv, IInv, TypeInv
<1>7. ActiveIsOfThisGeneration' /\ VerdictFollowsEvents'
  BY VerdictStays DEF IInv, ActiveIsOfThisGeneration
<1> QED
  BY <1>1, <1>2, <1>3, <1>4, <1>5, <1>6, <1>7 DEF IInv, ServiceOK

LEMMA ServeStep ==
  ASSUME IInv, Serve
  PROVE  IInv'
<1> USE ConstantTypes
<1> DEFINE SameCommand == UNCHANGED <<op, asking, attempts, checks, exit, listing, before>>
<1>1. /\ stage = "calling" /\ stage' = "answered" /\ SameCommand
      /\ op \in Commands /\ ~Refused(op) /\ ServiceOK
  BY IInvServiceOK DEF Serve, IInv, TypeInv
<1>2. \A l \in Locations : configs[l] \in Config \cup {None} /\ created[l] \in Nat
                           /\ before.configs[l] \in Config \cup {None}
                           /\ before.created[l] \in Nat /\ before.created[l] <= created[l]
                           /\ (configs[l] # None => configs[l].gen = created[l])
  BY <1>1 DEF ServiceOK, ServiceTypes, ServiceInv, IInv, TypeInv, BeforeInv
<1>3. SUFFICES ServiceOK' /\ Grows /\ AnswerOK'
  BY <1>1, AnsweredStep
<1>4. op.name # "check-status" => asking = None /\ asking' = None
  BY <1>1 DEF IInv, TypeInv
<1>5. ASSUME NEW L, DropConfigs(L), NEW l \in Locations, l \in L, configs[l] # None
      PROVE  Gone(l)'
  BY <1>1, <1>2, <1>5 DEF DropConfigs, Gone
<1>6. CASE CreateInstrumentation
  <2>1. op.name = "create" /\ op.loc \in Locations
    BY <1>1, <1>6, CommandTypes DEF CreateInstrumentation
  <2>2. CASE op.loc \in Existing
    BY <1>1, <1>4, <1>6, <2>1, <2>2, ServiceQuiet
    DEF CreateInstrumentation, ServeCreate, Answer, AnswerOK, ReplyOk, Statuses
  <2>3. CASE op.loc \notin Existing
    <3>1. configs[op.loc] = None /\ AddConfig(op.loc)
      BY <1>6, <2>1, <2>3 DEF CreateInstrumentation, ServeCreate, Existing
    <3>2. ServiceOK' /\ Grows
      BY <1>1, <2>1, <3>1, ServiceAdds
    <3>3. created'[op.loc] > before.created[op.loc]
      BY <1>1, <1>2, <2>1, <3>1 DEF AddConfig, ServiceOK, ServiceTypes
    <3> QED
      BY <1>1, <1>4, <2>1, <3>2, <3>3 DEF AnswerOK, Achieved, Statuses
  <2> QED
    BY <2>2, <2>3
<1>7. CASE ListInstrumentations
  <2>1. op.name = "list"
    BY <1>7 DEF ListInstrumentations
  <2>2. PICK last \in Locations : ServeList(last)
    BY <1>7 DEF ListInstrumentations
  <2> DEFINE page == {[loc |-> l, gen |-> configs[l].gen] :
                        l \in {k \in Scope \cap Existing : k > listing.token /\ k <= last}}
  <2>3. /\ reply'.page = page
        /\ reply'.next = IF last < LastLocation THEN last ELSE 0
        /\ UNCHANGED serviceVars
    BY <2>2 DEF ServeList, Answer
  <2>4. ServiceOK' /\ Grows
    BY <1>1, <2>3, ServiceQuiet
  <2>5. page \subseteq [loc: Locations, gen: Nat]
    BY <1>2 DEF Existing
  <2>6. reply'.next \in 0..LastLocation
    BY <2>3 DEF Locations
  <2>7. \A l \in Scope : listing.token < l /\ Kept(l)
            /\ l <= (IF reply'.next = 0 THEN LastLocation ELSE reply'.next) =>
          [loc |-> l, gen |-> configs[l].gen] \in page
    <3> SUFFICES ASSUME NEW l \in Scope, listing.token < l, Kept(l),
                        l <= IF reply'.next = 0 THEN LastLocation ELSE reply'.next
                 PROVE  l \in Scope \cap Existing /\ l > listing.token /\ l <= last
      OBVIOUS
    <3>1. l \in Existing
      BY DEF Kept, Existing
    <3>2. l <= last
      BY <2>3 DEF Locations
    <3>3. listing.token \in Int
      BY DEF IInv, TypeInv
    <3> QED
      BY <3>1, <3>2, <3>3 DEF Locations
  <2>8. Covered(listing.token, IF reply.next = 0 THEN LastLocation ELSE reply.next, reply.page)'
    BY <1>1, <2>3, <2>7 DEF Covered, Kept, serviceVars
  <2> QED
    BY <1>1, <1>4, <2>1, <2>3, <2>4, <2>5, <2>6, <2>8
    DEF AnswerOK, Achieved, Statuses
<1>8. CASE BatchDeleteByScope
  <2>1. PICK failing \in SUBSET (Scope \cap Existing) : ServeBatch(Scope \cap Existing, failing)
    BY <1>8 DEF BatchDeleteByScope
  <2>2. op.name = "scope" /\ DropConfigs((Scope \cap Existing) \ failing)
        /\ reply'.errors = failing
    BY <1>8, <2>1 DEF BatchDeleteByScope, ServeBatch, Answer
  <2>3. ServiceOK' /\ Grows
    BY <1>1, <2>2, ServiceDrops
  <2>4. ASSUME failing = {}, NEW l \in Scope PROVE Gone(l)'
    <3>1. CASE configs[l] # None
      BY <1>5, <2>2, <2>4, <3>1 DEF Existing
    <3>2. CASE configs[l] = None
      BY <1>1, <2>2, <3>2 DEF DropConfigs, Gone
    <3> QED
      BY <3>1, <3>2
  <2> QED
    BY <1>1, <1>4, <2>2, <2>3, <2>4 DEF AnswerOK, ReplyOk, Achieved, Statuses
<1>9. CASE BatchDeleteByArns
  <2>1. PICK failing \in SUBSET (op.arns \cap Existing) : ServeBatch(op.arns, failing)
    BY <1>9 DEF BatchDeleteByArns
  <2>2. op.name = "arns" /\ DropConfigs(op.arns \ failing)
        /\ reply'.errors = failing \cup (op.arns \ Existing) /\ op.arns \subseteq Locations
    BY <1>1, <1>9, <2>1, CommandTypes DEF BatchDeleteByArns, ServeBatch, Answer
  <2>3. ServiceOK' /\ Grows
    BY <1>1, <2>2, ServiceDrops
  <2>4. ASSUME reply'.errors = {}, NEW l \in op.arns PROVE Gone(l)'
    BY <1>5, <2>2, <2>4 DEF Existing
  <2> QED
    BY <1>1, <1>4, <2>2, <2>3, <2>4 DEF AnswerOK, ReplyOk, Achieved, Statuses
<1>10. CASE DeleteInstrumentation
  <2>1. op.name = "delete" /\ op.loc \in Locations
    BY <1>1, <1>10, CommandTypes DEF DeleteInstrumentation
  <2>2. CASE op.loc \in Existing
    <3>1. configs[op.loc] # None /\ DropConfigs({op.loc})
      BY <1>10, <2>1, <2>2 DEF DeleteInstrumentation, ServeDelete, Existing
    <3>2. ServiceOK' /\ Grows
      BY <1>1, <3>1, ServiceDrops
    <3>3. configs'[op.loc] = None /\ before' = before /\ op' = op
      BY <1>1, <2>1, <3>1 DEF DropConfigs
    <3>4. Gone(op.loc)'
      BY <1>2, <2>1, <3>3 DEF Gone
    <3> QED
      BY <1>1, <1>4, <2>1, <3>2, <3>4 DEF AnswerOK, Achieved, Statuses
  <2>3. CASE op.loc \notin Existing
    BY <1>1, <1>4, <1>10, <2>1, <2>3, ServiceQuiet
    DEF DeleteInstrumentation, ServeDelete, Answer, AnswerOK, ReplyOk, Statuses
  <2> QED
    BY <2>2, <2>3
<1>11. CASE GetInstrumentation \/ GetStatus
  BY <1>1, <1>4, <1>11, ServiceQuiet
  DEF GetInstrumentation, GetStatus, ServeGet, ServeStatus, AnswerOK, Achieved, Statuses
<1>12. CASE CheckCreatedAt
  <2>1. /\ asking = "get" /\ UNCHANGED serviceVars
        /\ reply' = IF op.loc \in Existing THEN configs[op.loc] ELSE Failure
    BY <1>12 DEF CheckCreatedAt, ServeGet, Answer
  <2>2. op.name = "check-status" /\ op.loc \in Locations
    BY <2>1, AskingTypes DEF Statuses
  <2>3. ServiceOK' /\ Grows
    BY <1>1, <2>1, ServiceQuiet
  <2>4. op.loc \in Existing => Seen(op.loc, configs[op.loc])
    BY <1>1, <2>2 DEF Existing, ServiceOK
  <2>5. (reply = Failure \/ Seen(op.loc, reply))'
    BY <1>1, <2>1, <2>4 DEF Seen, serviceVars, Failure
  <2> QED
    BY <1>1, <2>1, <2>2, <2>3, <2>5 DEF AnswerOK, Achieved
<1>13. CASE CheckStatus
  <2> DEFINE found == EventsOf(events, op.loc, asking, CheckStart(asking), op.end)
  <2>1. /\ asking \in {"ACTIVE", "READY", "ERROR"} /\ UNCHANGED serviceVars
        /\ \/ reply' = Failure
           \/ reply'.found \subseteq found /\ reply'.more = (reply'.found # found)
    BY <1>13 DEF CheckStatus, ServeStatus, Answer
  <2>2. op.name = "check-status" /\ op.loc \in Locations
    BY <2>1, AskingTypes DEF Statuses
  <2>3. ServiceOK' /\ Grows
    BY <1>1, <2>1, ServiceQuiet
  <2>5. EventsOf(before.events, op.loc, asking, CheckStart(asking), op.end) \subseteq found
    BY DEF EventsOf, IInv, BeforeInv
  <2>6. ASSUME asking = "ACTIVE", NEW e \in found PROVE e.gen >= checks.created.gen
    <3>1. op.start \in Int /\ Seen(op.loc, checks.created)
      BY <2>1 DEF IInv, SeenInv
    <3>2. checks.created.at \in Nat /\ checks.created.gen \in Nat /\ checks.created \in Config
      BY <3>1 DEF Seen, Config
    <3>3. /\ e \in events /\ e \in Event /\ e.loc = op.loc
          /\ ActiveStart(op, checks.created.at) <= e.at
      BY <1>1, <2>6 DEF EventsOf, CheckStart, ServiceOK, ServiceTypes
    <3>4. checks.created.at <= e.at
      BY <3>1, <3>2, <3>3, ActiveStartBounds DEF Event
    <3> QED
      BY <3>1, <3>2, <3>3, <3>4 DEF Seen, Event
  <2>7. CheckStart(asking)' = CheckStart(asking)
    BY <1>1 DEF CheckStart, ActiveStart, Larger
  <2> HIDE DEF found
  <2>8. /\ (EventsOf(before.events, op.loc, asking, CheckStart(asking), op.end))' =
             EventsOf(before.events, op.loc, asking, CheckStart(asking), op.end)
        /\ (EventsOf(events, op.loc, asking, CheckStart(asking), op.end))' = found
    BY <1>1, <2>1, <2>7 DEF EventsOf, serviceVars, found
  <2>9. \/ reply' = Failure
        \/ /\ reply'.found \subseteq found
           /\ asking = "ACTIVE" => \A e \in reply'.found : e.gen >= checks.created.gen
           /\ \/ reply'.more
              \/ EventsOf(before.events, op.loc, asking, CheckStart(asking), op.end)
                   \subseteq reply'.found
    BY <2>1, <2>5, <2>6
  <2> QED
    BY <1>1, <2>1, <2>2, <2>3, <2>8, <2>9 DEF AnswerOK, Achieved, Failure
<1> QED
  BY <1>6, <1>7, <1>8, <1>9, <1>10, <1>11, <1>12, <1>13 DEF Serve

-----------------------------------------------------------------------------
(* The command reads an answer, or learns that there is none.               *)

\* r is what a command goes on with: an answer that came, or a failure.
Heard(r) == stage \in {"calling", "answered"} /\ (r = Failure \/ (stage = "answered" /\ r = reply))

LEMMA ConcludeStep ==
  ASSUME IInv, NEW r, Heard(r), Conclude(r)
  PROVE  IInv'
<1> USE ConstantTypes
<1>1. /\ stage # "idle" /\ stage' = "idle" /\ asking' = None /\ op.name # "check-status"
      /\ exit' = IF ReplyOk(r) THEN 0 ELSE 1
      /\ UNCHANGED <<op, attempts, checks, before>> /\ UNCHANGED serviceVars
  BY DEF Conclude, Exits
<1>2. ServiceOK' /\ Grows /\ op \in Commands /\ ~Refused(op)
  BY <1>1, IInvServiceOK, ServiceQuiet DEF IInv, TypeInv
<1>3. ReplyOk(r) => stage = "answered" /\ r = reply /\ r # Failure
  BY DEF Heard, ReplyOk
<1>4. ASSUME op.name # "list" \/ ~ReplyOk(r) PROVE TypeInv' /\ ListInv'
  <2>1. listing' = listing
    BY <1>4 DEF Conclude
  <2>2. TypeInv'
    BY <1>1, <1>2, <2>1 DEF IInv, TypeInv, InstrTypeOK, ServiceOK, ServiceTypes, Refused
  <2>3. ListInv'
    BY <1>1, <1>4 DEF ListInv
  <2> QED
    BY <2>2, <2>3
<1>5. ASSUME op.name = "list", ReplyOk(r) PROVE TypeInv' /\ ListInv'
  <2>1. /\ r.page \subseteq [loc: Locations, gen: Nat] /\ r.next \in 0..LastLocation
        /\ Covered(listing.token, IF r.next = 0 THEN LastLocation ELSE r.next, r.page)
        /\ Covered(0, listing.token, listing.seen)
    BY <1>1, <1>3, <1>5 DEF IInv, ListInv
  <2>2. listing' = [token |-> r.next, seen |-> listing.seen \cup r.page,
                    cut |-> r.page = {} /\ r.next # 0, more |-> PrintsToken(r)]
    BY <1>5 DEF Conclude
  <2>3. listing.seen \subseteq [loc: Locations, gen: Nat] /\ listing.token \in Int
    BY DEF IInv, TypeInv
  <2>4. listing' \in [token: 0..LastLocation, seen: SUBSET [loc: Locations, gen: Nat],
                      cut: BOOLEAN, more: BOOLEAN]
    BY <2>1, <2>2, <2>3 DEF PrintsToken
  <2>5. TypeInv'
    BY <1>1, <1>2, <2>4 DEF IInv, TypeInv, InstrTypeOK, ServiceOK, ServiceTypes, Refused
  <2>6. Covered(0, IF r.next = 0 THEN LastLocation ELSE r.next, listing.seen \cup r.page)
    <3> SUFFICES ASSUME NEW l \in Scope, 0 < l, Kept(l),
                        l <= IF r.next = 0 THEN LastLocation ELSE r.next
                 PROVE  [loc |-> l, gen |-> configs[l].gen] \in listing.seen \cup r.page
      BY DEF Covered
    <3>1. l \in Int
      BY DEF Locations
    <3>2. CASE l <= listing.token
      BY <2>1, <3>2 DEF Covered
    <3>3. CASE listing.token < l
      BY <2>1, <3>3 DEF Covered
    <3> QED
      BY <2>3, <3>1, <3>2, <3>3
  <2>7. Covered(0, IF r.next = 0 THEN LastLocation ELSE r.next, listing.seen)'
        <=> Covered(0, IF r.next = 0 THEN LastLocation ELSE r.next, listing.seen \cup r.page)
    BY <1>1, <2>2 DEF Covered, Kept, serviceVars
  <2>8. ListInv'
    <3>1. listing'.more => Covered(0, listing.token, listing.seen)'
      BY <2>2, <2>6, <1>1 DEF PrintsToken, Covered, Kept, serviceVars
    <3>2. ~listing'.more /\ ~listing'.cut => Covered(0, LastLocation, listing.seen)'
      BY <2>2, <2>6, <1>1 DEF PrintsToken, Covered, Kept, serviceVars
    <3> QED
      BY <1>1, <3>1, <3>2 DEF ListInv
  <2> QED
    BY <2>5, <2>8
<1>6. BeforeInv'
  BY <1>1, <1>2, BeforeStays
<1>7. SeenInv' /\ CheckInv'
  BY <1>1, <1>2 DEF SeenInv, CheckInv, ServiceOK, Statuses
<1>8. AchievedInv'
  <2>1. ReplyOk(r) => Achieved
    BY <1>3 DEF IInv, AchievedInv
  <2>2. Achieved <=> Achieved'
    BY <1>1 DEF Achieved, Gone, serviceVars
  <2> QED
    BY <1>1, <2>1, <2>2 DEF AchievedInv
<1>9. ActiveIsOfThisGeneration' /\ VerdictFollowsEvents'
  BY <1>1, <1>2, VerdictStays DEF IInv, ActiveIsOfThisGeneration
<1> QED
  BY <1>2, <1>4, <1>5, <1>6, <1>7, <1>8, <1>9 DEF IInv, ServiceOK

LEMMA ConcludeGetStep ==
  ASSUME IInv, NEW r, Heard(r), ConcludeGet(r)
  PROVE  IInv'
<1> USE ConstantTypes
<1>1. /\ asking = "get" /\ reply' = None
      /\ UNCHANGED <<op, listing, before>> /\ UNCHANGED serviceVars
  BY DEF ConcludeGet
<1>2. /\ op \in Commands /\ op.name = "check-status" /\ op.loc \in Locations
      /\ stage # "idle" /\ exit = None /\ ~Refused(op) /\ checks.verdict = None
      /\ {op.start, op.end} \subseteq Int \cup {NoTime}
  BY <1>1, AskingTypes, CommandTypes DEF IInv, TypeInv, CheckInv, Statuses
<1>3. ServiceOK' /\ Grows
  BY <1>1, IInvServiceOK, ServiceQuiet
<1>4. BeforeInv'
  BY <1>1, <1>3, BeforeStays
<1>5. ListInv'
  BY <1>1, <1>2 DEF ListInv
<1>6. ServiceInv' /\ (\A l \in Locations : configs[l] # None => Seen(l, configs[l]))'
  BY <1>3 DEF ServiceOK
<1>7. CASE r = Failure \/ AfterGet(r) = None
  <2>1. stage' = "idle" /\ exit' = 1 /\ asking' = None /\ UNCHANGED <<attempts, checks>>
    BY <1>7 DEF ConcludeGet, Exits
  <2>2. TypeInv'
    BY <1>1, <1>2, <1>3, <2>1 DEF IInv, TypeInv, InstrTypeOK, ServiceOK, ServiceTypes, Refused
  <2>3. SeenInv' /\ CheckInv' /\ AchievedInv'
    BY <1>6, <2>1 DEF SeenInv, CheckInv, AchievedInv, Statuses
  <2>4. ActiveIsOfThisGeneration' /\ VerdictFollowsEvents'
    BY <1>1, <1>3, <2>1, VerdictStays DEF IInv, ActiveIsOfThisGeneration
  <2> QED
    BY <1>4, <1>5, <1>6, <2>2, <2>3, <2>4 DEF IInv
<1>8. CASE ~(r = Failure \/ AfterGet(r) = None)
  <2>1. Seen(op.loc, r)
    BY <1>1, <1>8 DEF Heard, IInv, SeenInv
  <2>2. op.start \in Int /\ op.end \in Int /\ AfterGet(r) \in {"ACTIVE", "READY"}
    <3>1. ~(NoTime \in {op.start, op.end} \/ op.end <= op.start)
      BY <1>8 DEF AfterGet
    <3>2. op.start \in Int /\ op.end \in Int
      BY <1>2, <3>1
    <3> QED
      BY <3>1, <3>2 DEF AfterGet
  <2>3. /\ checks' = [checks EXCEPT !.created = r,
                        !.failed = IF AfterGet(r) = "ACTIVE" THEN {} ELSE {"ACTIVE"}]
        /\ asking' = AfterGet(r) /\ stage' = "calling" /\ attempts' = 0 /\ exit' = exit
    BY <1>8 DEF ConcludeGet
  <2>4. /\ checks' \in [created: Config \cup {None}, verdict: Statuses \cup {"PENDING", None},
                        found: SUBSET Event, failed: SUBSET Statuses,
                        cut: SUBSET Statuses]
        /\ checks'.verdict = None /\ checks'.created = r
        /\ AfterGet(r) # "ACTIVE" => "ACTIVE" \in checks'.failed
    BY <1>2, <2>1, <2>3 DEF IInv, TypeInv, Seen, Statuses
  <2>5. TypeInv'
    BY <1>1, <1>2, <1>3, <2>2, <2>3, <2>4
    DEF IInv, TypeInv, InstrTypeOK, ServiceOK, ServiceTypes, Refused, Statuses
  <2>6. SeenInv'
    BY <1>1, <1>6, <2>1, <2>2, <2>3, <2>4 DEF SeenInv, Seen, serviceVars
  <2>7. CheckInv'
    BY <1>1, <2>2, <2>3, <2>4 DEF CheckInv, NoneOf
  <2>8. AchievedInv'
    BY <1>2, <2>3 DEF AchievedInv
  <2>9. ActiveIsOfThisGeneration' /\ VerdictFollowsEvents'
    BY <2>4 DEF ActiveIsOfThisGeneration, VerdictFollowsEvents, Statuses
  <2> QED
    BY <1>4, <1>5, <1>6, <2>5, <2>6, <2>7, <2>8, <2>9 DEF IInv
<1> QED
  BY <1>7, <1>8

LEMMA ConcludeCheckStep ==
  ASSUME IInv, NEW r, Heard(r), ConcludeCheck(r)
  PROVE  IInv'
<1> USE ConstantTypes
<1> DEFINE found == IF r = Failure THEN {} ELSE r.found
           over == found # {} \/ asking = "ERROR"
           verdict == IF found # {} THEN asking ELSE IF over THEN "PENDING" ELSE None
           failed == IF r = Failure THEN checks.failed \cup {asking} ELSE checks.failed
           cut == IF r # Failure /\ found = {} /\ r.more
                  THEN checks.cut \cup {asking} ELSE checks.cut
<1>1. /\ asking \in {"ACTIVE", "READY", "ERROR"} /\ reply' = None
      /\ checks' = [checks EXCEPT !.verdict = verdict, !.found = found, !.failed = failed,
                                    !.cut = cut]
      /\ UNCHANGED <<op, listing, before>> /\ UNCHANGED serviceVars
  BY DEF ConcludeCheck
<1>2. /\ op \in Commands /\ op.name = "check-status" /\ op.loc \in Locations
      /\ stage # "idle" /\ exit = None /\ ~Refused(op)
      /\ op.start \in Int /\ op.end \in Int /\ Seen(op.loc, checks.created)
  BY <1>1, AskingTypes DEF IInv, TypeInv, SeenInv, Statuses
<1>3. ServiceOK' /\ Grows
  BY <1>1, IInvServiceOK, ServiceQuiet
<1>4. BeforeInv' /\ ListInv'
  BY <1>1, <1>2, <1>3, BeforeStays DEF ListInv
<1>5. ServiceInv' /\ (\A l \in Locations : configs[l] # None => Seen(l, configs[l]))'
  BY <1>3 DEF ServiceOK
<1>6. /\ found \subseteq EventsOf(events, op.loc, asking, CheckStart(asking), op.end)
      /\ found \subseteq Event
      /\ asking = "ACTIVE" => \A e \in found : e.gen >= checks.created.gen
      /\ \/ r = Failure \/ r.more
         \/ EventsOf(before.events, op.loc, asking, CheckStart(asking), op.end) \subseteq found
  <2>1. \A T : EventsOf(events, op.loc, asking, T, op.end) \subseteq Event
    BY DEF EventsOf, IInv, TypeInv, InstrTypeOK
  <2> QED
    BY <1>1, <2>1 DEF Heard, IInv, CheckInv
<1>7. /\ checks' \in [created: Config \cup {None}, verdict: Statuses \cup {"PENDING", None},
                      found: SUBSET Event, failed: SUBSET Statuses,
                      cut: SUBSET Statuses]
      /\ checks'.created = checks.created /\ checks'.verdict = verdict
      /\ checks'.found = found /\ checks'.failed = failed /\ checks'.cut = cut
  <2>1. checks \in [created: Config \cup {None}, verdict: Statuses \cup {"PENDING", None},
                    found: SUBSET Event, failed: SUBSET Statuses,
                    cut: SUBSET Statuses]
    BY DEF IInv, TypeInv
  <2>2. /\ verdict \in Statuses \cup {"PENDING", None} /\ found \in SUBSET Event
        /\ failed \in SUBSET Statuses /\ cut \in SUBSET Statuses
    BY <1>1, <1>6, <2>1 DEF Statuses
  <2> HIDE DEF found, over, verdict, failed, cut
  <2> QED
    BY <1>1, <2>1, <2>2
<1> HIDE DEF found, over, verdict, failed, cut
\* What has been asked so far and found nothing.
<1>8. /\ asking \in {"READY", "ERROR"} => NoneOf("ACTIVE", ActiveStart(op, checks.created.at))'
      /\ asking = "ERROR" => NoneOf("READY", op.start)'
  <2>1. \A status, from : NoneOf(status, from) =>
          \/ status \in failed \cup cut
          \/ EventsOf(before.events, op.loc, status, from, op.end) = {}
    BY DEF NoneOf, failed, cut
  <2>2. asking \in {"READY", "ERROR"} =>
          \/ "ACTIVE" \in failed \cup cut
          \/ EventsOf(before.events, op.loc, "ACTIVE", ActiveStart(op, checks.created.at),
                      op.end) = {}
    BY <2>1 DEF IInv, CheckInv
  <2>3. asking = "ERROR" =>
          \/ "READY" \in failed \cup cut
          \/ EventsOf(before.events, op.loc, "READY", op.start, op.end) = {}
    BY <2>1 DEF IInv, CheckInv
  <2>4. asking \in {"READY", "ERROR"} => NoneOf("ACTIVE", ActiveStart(op, checks.created.at))'
    BY <1>1, <1>7, <2>2 DEF NoneOf, EventsOf, ActiveStart, Larger
  <2>5. asking = "ERROR" => NoneOf("READY", op.start)'
    BY <1>1, <1>7, <2>3 DEF NoneOf, EventsOf
  <2> QED
    BY <2>4, <2>5
<1>9. ASSUME found = {}
      PROVE  /\ asking = "ACTIVE" => NoneOf("ACTIVE", ActiveStart(op, checks.created.at))'
             /\ asking = "READY" => NoneOf("READY", op.start)'
             /\ asking = "ERROR" => NoneOf("ERROR", op.start)'
  <2>1. \/ asking \in failed \cup cut
        \/ EventsOf(before.events, op.loc, asking, CheckStart(asking), op.end) = {}
    BY <1>6, <1>9 DEF failed, cut
  <2>2. asking = "ACTIVE" => NoneOf("ACTIVE", ActiveStart(op, checks.created.at))'
    BY <1>1, <1>7, <2>1 DEF NoneOf, EventsOf, CheckStart, ActiveStart, Larger
  <2>3. asking = "READY" => NoneOf("READY", op.start)'
    BY <1>1, <1>7, <2>1 DEF NoneOf, EventsOf, CheckStart
  <2>4. asking = "ERROR" => NoneOf("ERROR", op.start)'
    BY <1>1, <1>7, <2>1 DEF NoneOf, EventsOf, CheckStart
  <2> QED
    BY <2>2, <2>3, <2>4
<1>10. ActiveIsOfThisGeneration'
  BY <1>1, <1>6, <1>7 DEF ActiveIsOfThisGeneration, verdict, over, Statuses
<1>11. VerdictFollowsEvents'
  <2>1. verdict \in {"READY", "ERROR", "PENDING"} =>
          NoneOf("ACTIVE", ActiveStart(op, checks.created.at))'
    BY <1>1, <1>8, <1>9 DEF verdict, over, Statuses
  <2>2. verdict \in {"ERROR", "PENDING"} => NoneOf("READY", op.start)'
    BY <1>1, <1>8, <1>9 DEF verdict, over, Statuses
  <2>3. verdict = "PENDING" => NoneOf("ERROR", op.start)'
    BY <1>1, <1>9 DEF verdict, over, Statuses
  <2>4. verdict \in Statuses =>
          EventsOf(events, op.loc, verdict, CheckStart(verdict), op.end) # {}
    BY <1>6 DEF verdict, over, Statuses
  <2>5. (checks.verdict \in Statuses =>
           EventsOf(events, op.loc, checks.verdict, CheckStart(checks.verdict), op.end) # {})'
    <3>1. /\ CheckStart(checks.verdict)' = CheckStart(verdict)
          /\ events' = events /\ op' = op
      BY <1>1, <1>7 DEF CheckStart, ActiveStart, Larger, serviceVars
    <3> QED
      BY <1>7, <2>4, <3>1 DEF EventsOf
  <2> QED
    BY <1>7, <2>1, <2>2, <2>3, <2>5 DEF VerdictFollowsEvents, NoneOf
<1>12. CASE over
  <2>1. stage' = "idle" /\ exit' = 0 /\ asking' = None /\ attempts' = attempts
    BY <1>12 DEF ConcludeCheck, Exits, over, found
  <2>2. TypeInv'
    BY <1>1, <1>2, <1>3, <1>7, <2>1
    DEF IInv, TypeInv, InstrTypeOK, ServiceOK, ServiceTypes, Refused
  <2>3. SeenInv' /\ CheckInv'
    BY <1>5, <2>1 DEF SeenInv, CheckInv, Statuses
  <2>4. AchievedInv'
    BY <1>1, <1>2, <2>1 DEF AchievedInv, Achieved
  <2> QED
    BY <1>4, <1>5, <1>10, <1>11, <2>2, <2>3, <2>4 DEF IInv
<1>13. CASE ~over
  <2>1. /\ asking' = AfterCheck[asking] /\ stage' = "calling" /\ attempts' = 0
        /\ exit' = exit
    BY <1>13 DEF ConcludeCheck, over, found
  <2>2. /\ found = {} /\ verdict = None
        /\ \/ asking = "ACTIVE" /\ asking' = "READY"
           \/ asking = "READY" /\ asking' = "ERROR"
    <3>1. found = {} /\ asking # "ERROR"
      BY <1>13 DEF over
    <3>2. asking = "ACTIVE" \/ asking = "READY"
      BY <1>1, <3>1
    <3>3. AfterCheck["ACTIVE"] = "READY" /\ AfterCheck["READY"] = "ERROR"
      BY DEF AfterCheck
    <3> QED
      BY <1>13, <2>1, <3>1, <3>2, <3>3 DEF verdict
  <2>3. TypeInv'
    BY <1>1, <1>2, <1>3, <1>7, <2>1, <2>2
    DEF IInv, TypeInv, InstrTypeOK, ServiceOK, ServiceTypes, Refused, Statuses
  <2>4. SeenInv'
    BY <1>1, <1>2, <1>5, <1>7, <2>1, <2>2 DEF SeenInv, Seen, serviceVars
  <2>5. CheckInv'
    BY <1>7, <1>8, <1>9, <2>1, <2>2 DEF CheckInv
  <2>6. AchievedInv'
    BY <1>2, <2>1 DEF AchievedInv
  <2> QED
    BY <1>4, <1>5, <1>10, <1>11, <2>3, <2>4, <2>5, <2>6 DEF IInv
<1> QED
  BY <1>12, <1>13

-----------------------------------------------------------------------------
(* The theorems.                                                            *)

LEMMA InitIInv == Init => IInv
<1> USE ConstantTypes
<1> SUFFICES ASSUME Init PROVE IInv
  OBVIOUS
<1>1. /\ NoChecks \in [created: Config \cup {None}, verdict: Statuses \cup {"PENDING", None},
                       found: SUBSET Event, failed: SUBSET Statuses,
                       cut: SUBSET Statuses]
      /\ NoChecks.verdict = None
  BY DEF NoChecks
<1>2. NoListing \in [token: 0..LastLocation, seen: SUBSET [loc: Locations, gen: Nat],
                     cut: BOOLEAN, more: BOOLEAN]
  BY DEF NoListing
<1>3. before = [configs |-> configs, created |-> created, events |-> {}]
  BY DEF Init, Now, Command
<1>4. op \in Commands \cup {Command("list")} /\ asking = None /\ exit = None
      /\ stage = "idle" /\ op.name = "list"
  BY DEF Init, Command
<1>5. TypeInv
  BY <1>1, <1>2, <1>3, <1>4 DEF Init, TypeInv, InstrTypeOK
<1>6. ServiceInv /\ BeforeInv
  BY <1>3 DEF Init, ServiceInv, BeforeInv
<1>7. SeenInv /\ CheckInv
  BY <1>4 DEF Init, SeenInv, CheckInv, Statuses
<1>8. AchievedInv /\ ListInv
  BY <1>4 DEF AchievedInv, ListInv
<1>9. ActiveIsOfThisGeneration /\ VerdictFollowsEvents
  BY <1>1 DEF Init, ActiveIsOfThisGeneration, VerdictFollowsEvents, Statuses
<1> QED
  BY <1>5, <1>6, <1>7, <1>8, <1>9 DEF IInv

LEMMA NextIInv == IInv /\ [Next]_vars => IInv'
<1> SUFFICES ASSUME IInv, [Next]_vars PROVE IInv'
  OBVIOUS
<1>1. ServiceOK
  BY IInvServiceOK
<1>2. ASSUME NEW o \in Commands, Start(o) PROVE IInv'
  BY <1>2, StartStep
<1>3. ASSUME NEW o \in Commands, NEW code \in {1, 2}, ExitAtOnce(o, code) PROVE IInv'
  BY <1>3, ExitStep
<1>4. CASE Serve
  BY <1>4, ServeStep
<1>5. CASE Resend
  BY <1>5, ResendStep
<1>6. CASE Receive
  <2>1. stage = "answered" /\ (Conclude(reply) \/ ConcludeGet(reply) \/ ConcludeCheck(reply))
    BY <1>6 DEF Receive
  <2>2. Heard(reply)
    BY <2>1 DEF Heard
  <2> QED
    BY <2>1, <2>2, ConcludeStep, ConcludeGetStep, ConcludeCheckStep
<1>7. CASE CallFails
  <2>1. stage \in {"calling", "answered"}
    <3>1. CASE Conclude(Failure)
      BY <3>1 DEF Conclude
    <3>2. CASE ConcludeGet(Failure)
      BY <3>2 DEF ConcludeGet
    <3>3. CASE ConcludeCheck(Failure)
      BY <3>3 DEF ConcludeCheck
    <3> QED
      BY <1>7, <3>1, <3>2, <3>3 DEF CallFails
  <2>2. Heard(Failure)
    BY <2>1 DEF Heard
  <2> QED
    BY <1>7, <2>2, ConcludeStep, ConcludeGetStep, ConcludeCheckStep DEF CallFails
<1>8. ASSUME NEW l \in Locations, OtherCreates(l) PROVE IInv'
  <2>1. configs[l] = None /\ AddConfig(l) /\ UNCHANGED commandVars
    BY <1>8 DEF OtherCreates, Existing
  <2> QED
    BY <1>1, <2>1, ServiceAdds, QuietStep
<1>9. ASSUME NEW l \in Locations, OtherDeletes(l) PROVE IInv'
  BY <1>1, <1>9, ServiceDrops, QuietStep DEF OtherDeletes
<1>10. ASSUME NEW l \in Locations, NEW status \in Reported, SdkReports(l, status) PROVE IInv'
  <2>1. UNCHANGED commandVars
    BY <1>10 DEF SdkReports
  <2> QED
    BY <1>1, <1>10, <2>1, ServiceReports, QuietStep
<1>11. CASE UNCHANGED vars
  <2>1. UNCHANGED serviceVars /\ UNCHANGED commandVars
    BY <1>11 DEF vars, serviceVars, commandVars
  <2> QED
    BY <1>1, <2>1, ServiceQuiet, QuietStep
<1> QED
  BY <1>2, <1>3, <1>4, <1>5, <1>6, <1>7, <1>8, <1>9, <1>10, <1>11 DEF Next, CommandStep

LEMMA AlwaysIInv == Spec => []IInv
BY InitIInv, NextIInv, PTL DEF Spec

\* The types of the variables, with the limit on the requests for one call, for
\* any commands, locations and events.
THEOREM InstrTypeCorrect == Spec => []InstrTypeOK
<1>1. IInv => InstrTypeOK
  BY DEF IInv, TypeInv
<1> QED
  BY <1>1, AlwaysIInv, PTL

\* A command of di_instrumentation.py that exits with 0 has done what it was for,
\* whatever was lost, sent twice, or done by others meanwhile.
THEOREM SuccessIsTrue == Spec => []ExitZeroMeansDone
<1>1. IInv => ExitZeroMeansDone
  BY DEF IInv, AchievedInv, Achieved, ExitZeroMeansDone, Succeeded
<1> QED
  BY <1>1, AlwaysIInv, PTL

\* check-status concludes ACTIVE from no event of an earlier configuration.
THEOREM ActiveIsCurrent == Spec => []ActiveIsOfThisGeneration
<1>1. IInv => ActiveIsOfThisGeneration
  BY DEF IInv
<1> QED
  BY <1>1, AlwaysIInv, PTL

\* The verdict of check-status rests on an event in the window of its status, and
\* the statuses before it had none in theirs or were not seen: a failed query, or
\* an empty first page of several.
THEOREM VerdictIsFirst == Spec => []VerdictFollowsEvents
<1>1. IInv => VerdictFollowsEvents
  BY DEF IInv
<1> QED
  BY <1>1, AlwaysIInv, PTL

\* Following the tokens that list prints shows every configuration that was
\* there all the time, unless a page without configurations hid its token.
THEOREM ListingsAreComplete == Spec => []ListingComplete
<1>1. IInv => ListingComplete
  <2> SUFFICES ASSUME IInv, Succeeded("list"), ~listing.more, ~listing.cut,
                      NEW l \in Scope, ~Gone(l), before.configs[l] # None
               PROVE  [loc |-> l, gen |-> configs[l].gen] \in listing.seen
    BY DEF ListingComplete
  <2>1. Covered(0, LastLocation, listing.seen)
    BY DEF IInv, ListInv, Succeeded
  <2>2. Kept(l) /\ 0 < l /\ l <= LastLocation
    BY ConstantTypes DEF Gone, Kept, Locations
  <2> QED
    BY <2>1, <2>2 DEF Covered
<1> QED
  BY <1>1, AlwaysIInv, PTL
=============================================================================
