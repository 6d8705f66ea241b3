---------------------------- MODULE CoordinatorProofs ----------------------------
(***************************************************************************)
(* What the coordinator keeps of the runs.  A call owns the run whose      *)
(* outcome it is to write: it is in `running`, it is one of this process,  *)
(* and it belongs to no other call and not to the list of orphans, whose   *)
(* runs are in `running` and of an earlier process.  Everything else       *)
(* follows from who owns what and from how far each call has come.         *)
(***************************************************************************)
EXTENDS Coordinator, FiniteSetTheorems, TLAPS

\* The stages of a call that has an agent's run, and those in which the run whose
\* outcome it writes is still open.
Active  == {"investigate", "fail", "attach", "link", "complete", "relink",
            "createFallback", "diagnose"}
Writing == Active \ {"relink", "createFallback"}

\* The runs of the table are numbered as they come, and a cause is one of them.
Table ==
  /\ \E k \in 0 .. MaxRuns : Recorded = 1 .. k
  /\ \A r \in Recorded : runs[r].cause \in Recorded

\* What a call works on.
FlowOK(x) ==
  LET f == flows[x] IN
    /\ f.pc \in Active =>
         /\ f.agentRun \in Recorded /\ f.run \in Recorded
         /\ runs[f.agentRun].actor = "agent"
         /\ x = Recovery <=> ~runs[f.agentRun].mine
         /\ f.run # f.agentRun => /\ runs[f.run].actor = "fallback"
                                  /\ runs[f.run].cause = f.agentRun
    /\ f.pc \in Writing => runs[f.run].status = "running" /\ runs[f.run].mine
    /\ f.pc \in {"investigate", "fail", "relink"} => f.run = f.agentRun
    /\ f.pc = "diagnose" => f.run # f.agentRun
    /\ f.pc \in {"attach", "link"} => f.toLink \subseteq {f.agentRun, f.run}
    /\ f.inTry => f.pc \in Active
    /\ f.pc = "create" => f.request \in IncidentIds
    /\ f.pc \in Active => f.request \in IncidentIds

\* Only the recovery lists and closes, and it investigates nothing.
Roles ==
  /\ ~flows[Recovery].inTry /\ flows[Recovery].pc \notin {"create", "investigate", "fail", "relink"}
  /\ \A c \in Calls : flows[c].pc \notin {"list", "close"}

\* No two calls work for the same agent's run.
Separate ==
  \A x, y \in Flows : flows[x].pc \in Active /\ flows[y].pc \in Active
    /\ flows[x].agentRun = flows[y].agentRun => x = y

\* A dead process has no memory, and one that has not listed its orphans yet has
\* done nothing else.
Memory ==
  /\ ~up => orphans = {} /\ investigated = {} /\ \A x \in Flows : flows[x].pc = "idle"
  /\ up /\ flows[Recovery].pc = "list" =>
       /\ \A r \in Recorded : ~runs[r].mine
       /\ \A c \in Calls : flows[c].pc = "idle"

\* The list of orphans.
Orphaned ==
  /\ \A r \in orphans : r \in Running /\ ~runs[r].mine
  /\ flows[Recovery].pc \in {"idle", "list"} => orphans = {}
  /\ up /\ flows[Recovery].pc # "list" => \A r \in Running : runs[r].mine \/ r \in orphans

Control == Table /\ (\A x \in Flows : FlowOK(x)) /\ Roles /\ Separate /\ Memory /\ Orphaned

\* How far a call has come in linking the run it writes.
Linked ==
  /\ CompletedIsLinked
  /\ \A x \in Flows :
       /\ flows[x].pc = "attach" => flows[x].run \in flows[x].toLink
       /\ flows[x].pc = "link" => flows[x].run \in flows[x].toLink \/ runs[flows[x].run].linked
       /\ flows[x].pc = "complete" => runs[flows[x].run].linked

\* The agent's runs of this process, by incident.
Mine(r) == runs[r].mine /\ runs[r].actor = "agent"
Taken ==
  /\ InvestigatedOnce
  /\ up => \A r \in Recorded : Mine(r) => runs[r].request \in investigated
  /\ \A x \in Flows : flows[x].pc = "create" =>
       /\ flows[x].request \in investigated
       /\ \A r \in Recorded : Mine(r) => runs[r].request # flows[x].request
       /\ \A y \in Flows : flows[y].pc = "create" /\ flows[y].request = flows[x].request => x = y

\* How many fallbacks stand in for a run.
Fallbacks(a)    == {s \in Recorded : runs[s].actor = "fallback" /\ runs[s].cause = a}
AtMostOne(S)    == \A s, t \in S : s = t
AtMostTwo(S)    == \A s, t, u \in S : s = t \/ t = u \/ s = u
Open(a)         == runs[a].status = "running"
RunCounted(a) ==
  /\ AtMostTwo(Fallbacks(a))
  /\ Open(a) => AtMostOne(Fallbacks(a))
  /\ Fallbacks(a) # {} => runs[a].actor = "agent"
CallCounted(x, a) ==
  LET f == flows[x] IN
    f.pc \in Active /\ f.agentRun = a =>
      /\ f.inTry /\ f.run = a => Fallbacks(a) = {}
      /\ f.inTry => AtMostOne(Fallbacks(a))
      /\ f.inTry /\ (f.run # a \/ f.pc = "createFallback") => ~Open(a)
      /\ f.pc = "createFallback" => /\ AtMostOne(Fallbacks(a))
                                    /\ Open(a) => Fallbacks(a) = {}
      /\ f.pc = "createFallback" /\ f.inTry => f.run = a
Counted ==
  /\ \A a \in Recorded : RunCounted(a)
  /\ \A x \in Flows, a \in RunIds : CallCounted(x, a)

Strong == TypeOK /\ Control /\ Linked /\ Taken /\ Counted

------------------------------------------------------------------------------
(* Records. *)

LEMMA IdleType ==
  /\ Idle \in Flow
  /\ Idle.pc = "idle" /\ Idle.request = 0 /\ Idle.agentRun = 0 /\ Idle.run = 0
  /\ Idle.toLink = {} /\ ~Idle.inTry
BY DEF Idle, Flow

LEMMA NoRunIsNoRun == NoRun \notin Run /\ NoRun.status = "none"
BY DEF NoRun, Run

LEMMA RecordedType ==
  ASSUME TypeOK, NEW r \in Recorded
  PROVE  r \in RunIds /\ runs[r] \in Run
BY DEF TypeOK, Recorded

\* The call has its request's mark and nothing else.
LEMMA FinishedType ==
  ASSUME NEW x \in Flows
  PROVE  /\ Finished(x) \in Flow /\ ~Finished(x).inTry
         /\ Finished(x).pc = IF x = Recovery THEN "close" ELSE "idle"
<1>1. [Idle EXCEPT !.pc = "close"] \in Flow /\ ~[Idle EXCEPT !.pc = "close"].inTry
      /\ [Idle EXCEPT !.pc = "close"].pc = "close"
  BY IdleType DEF Flow
<1> QED
  BY <1>1, IdleType DEF Finished

\* What a call in its try block does when something throws.
Retried(x) == [flows[x] EXCEPT !.inTry = FALSE, !.pc = "createFallback", !.toLink = {}]

LEMMA RetriedType ==
  ASSUME TypeOK, NEW x \in Flows
  PROVE  /\ Retried(x) \in Flow /\ Retried(x).pc = "createFallback" /\ ~Retried(x).inTry
         /\ Retried(x).run = flows[x].run /\ Retried(x).agentRun = flows[x].agentRun
         /\ Retried(x).request = flows[x].request
<1>1. flows[x] \in Flow
  BY DEF TypeOK
<1> QED
  BY <1>1 DEF Retried, Flow

\* An exception takes a call into its catch block or to its end; the recovery's
\* takes the process with it.
LEMMA ThrowCases ==
  ASSUME TypeOK, Roles, NEW x \in Flows, Throw(x)
  PROVE  \/ flows[x].inTry /\ Go(x, Retried(x))
         \/ Go(x, Finished(x))
         \/ x = Recovery /\ Exit
<1>1. flows[x] \in Flow
  BY DEF TypeOK
<1>2. CASE flows[x].inTry
  <2>1. Go(x, ExecuteFallback(x, [flows[x] EXCEPT !.inTry = FALSE]))
    BY <1>2 DEF Throw
  <2>2. CASE FallbackEnabled
    <3>1. ExecuteFallback(x, [flows[x] EXCEPT !.inTry = FALSE]) = Retried(x)
      BY <1>1, <2>2 DEF ExecuteFallback, Retried, Flow
    <3> QED
      BY <1>2, <2>1, <3>1
  <2>3. CASE ~FallbackEnabled
    BY <2>1, <2>3 DEF ExecuteFallback
  <2> QED
    BY <2>2, <2>3
<1>3. CASE ~flows[x].inTry /\ x # Recovery
  <2>1. Go(x, Idle)
    BY <1>3 DEF Throw
  <2> QED
    BY <1>3, <2>1 DEF Finished
<1>4. CASE ~flows[x].inTry /\ x = Recovery
  BY <1>4 DEF Throw
<1> QED
  BY <1>2, <1>3, <1>4

------------------------------------------------------------------------------
(* Types. *)

LEMMA TypeInit == Init => TypeOK
<1> HIDE DEF Idle
<1> QED
  BY IdleType DEF Init, TypeOK

LEMMA GoType ==
  ASSUME TypeOK, NEW x \in Flows, NEW f \in Flow, Go(x, f)
  PROVE  /\ flows' \in [Flows -> Flow]
         /\ up' \in BOOLEAN /\ investigated' \subseteq IncidentIds /\ orphans' \subseteq RunIds
BY DEF TypeOK, Go

LEMMA ExitType ==
  ASSUME Exit
  PROVE  /\ flows' \in [Flows -> Flow]
         /\ up' \in BOOLEAN /\ investigated' \subseteq IncidentIds /\ orphans' \subseteq RunIds
<1>1. flows' = [x \in Flows |-> Idle] /\ up' = FALSE /\ investigated' = {} /\ orphans' = {}
  BY DEF Exit
<1> QED
  BY <1>1, IdleType

LEMMA ThrowType ==
  ASSUME TypeOK, Roles, NEW x \in Flows, Throw(x)
  PROVE  /\ flows' \in [Flows -> Flow]
         /\ up' \in BOOLEAN /\ investigated' \subseteq IncidentIds /\ orphans' \subseteq RunIds
<1>1. Retried(x) \in Flow /\ Finished(x) \in Flow
  BY RetriedType, FinishedType
<1> QED
  BY <1>1, ThrowCases, GoType, ExitType

\* What is left to show of a statement: the table it writes and the call it leaves.
LEMMA StatementType ==
  ASSUME TypeOK, Roles, NEW x \in Flows, NEW f \in Flow,
         NEW written \in [RunIds -> Run \cup {NoRun}], Statement(x, written, f)
  PROVE  TypeOK'
<1>1. runs' \in [RunIds -> Run \cup {NoRun}] /\ source' = source
  BY DEF Statement, TypeOK
<1>2. Go(x, f) \/ Throw(x)
  BY DEF Statement
<1> QED
  BY <1>1, <1>2, GoType, ThrowType DEF TypeOK

LEMMA AwaitType ==
  ASSUME TypeOK, Roles, NEW x \in Flows, NEW f \in Flow, Await(x, f)
  PROVE  TypeOK'
BY GoType, ThrowType DEF Await, TypeOK

LEMMA ThrowAloneType ==
  ASSUME TypeOK, Roles, NEW x \in Flows, Throw(x), UNCHANGED <<runs, source>>
  PROVE  TypeOK'
BY ThrowType DEF TypeOK

LEMMA CreatedType ==
  ASSUME TypeOK, NEW actor \in {"agent", "fallback"}, NEW i \in IncidentIds, NEW cause \in RunIds
  PROVE  Created(actor, i, cause) \in [RunIds -> Run \cup {NoRun}]
<1>1. [actor |-> actor, status |-> "running", request |-> i, linked |-> FALSE,
       mine |-> TRUE, cause |-> cause] \in Run
  BY DEF Run
<1> QED
  BY <1>1 DEF TypeOK, Created

\* One field of a recorded run is set.
LEMMA SetType ==
  ASSUME TypeOK, NEW r \in Recorded, NEW status \in {"running", "completed", "failed"}
  PROVE  /\ [runs EXCEPT ![r].status = status] \in [RunIds -> Run \cup {NoRun}]
         /\ [runs EXCEPT ![r].linked = TRUE] \in [RunIds -> Run \cup {NoRun}]
<1>1. r \in RunIds /\ runs[r] \in Run
  BY RecordedType
<1>2. [runs[r] EXCEPT !.status = status] \in Run /\ [runs[r] EXCEPT !.linked = TRUE] \in Run
  BY <1>1 DEF Run
<1> QED
  BY <1>1, <1>2 DEF TypeOK

------------------------------------------------------------------------------
(* What a call's step does to the table. *)

\* The rows there were keep everything but status and link.
Kept ==
  \A r \in Recorded :
    /\ runs'[r].actor = runs[r].actor /\ runs'[r].cause = runs[r].cause
    /\ runs'[r].request = runs[r].request /\ runs'[r].mine = runs[r].mine
    /\ runs[r].linked => runs'[r].linked

\* No row is new, and of the statuses at most the one of the call's own run changes.
Updates(x) ==
  /\ Recorded' = Recorded /\ Kept
  /\ \A r \in Recorded :
       \/ runs'[r].status = runs[r].status
       \/ /\ flows[x].pc \in Writing /\ r = flows[x].run
          /\ \/ runs'[r].status = "failed"
             \/ flows[x].pc = "complete" /\ runs'[r].status = "completed"

\* A row is new and the others stay.
Adds(x, actor, cause) ==
  /\ NewRun \in RunIds \ Recorded /\ Recorded' = Recorded \cup {NewRun}
  /\ Table'
  /\ Kept /\ \A r \in Recorded : runs'[r].status = runs[r].status
  /\ runs'[NewRun].actor = actor /\ runs'[NewRun].cause = cause
  /\ runs'[NewRun].status = "running" /\ runs'[NewRun].mine
  /\ runs'[NewRun].request = flows[x].request

AddsFor(x) ==
  \/ flows[x].pc = "create" /\ Adds(x, "agent", NewRun)
  \/ flows[x].pc = "createFallback" /\ Adds(x, "fallback", flows[x].agentRun)

Changes(x) == Updates(x) \/ AddsFor(x)

\* Rows are numbered without gaps.
LEMMA NewRunIsNew ==
  ASSUME Table
  PROVE  /\ NewRun \in Nat /\ NewRun \notin Recorded
         /\ \E k \in 0 .. MaxRuns : Recorded = 1 .. k /\ NewRun = k + 1
<1>1. PICK k \in 0 .. MaxRuns : Recorded = 1 .. k
  BY DEF Table
<1>2. k \in Nat /\ MaxRuns \in Nat
  BY CoordinatorAssumption
<1>3. Cardinality(1 .. k) = k
  BY <1>2, FS_Interval
<1>4. NewRun = k + 1
  BY <1>1, <1>3 DEF NewRun
<1> QED
  BY <1>1, <1>2, <1>4

LEMMA SameIsUpdate ==
  ASSUME NEW x, runs' = runs
  PROVE  Updates(x)
BY DEF Updates, Kept, Recorded

LEMMA StatusIsUpdate ==
  ASSUME TypeOK, NEW x \in Flows, NEW status \in {"completed", "failed"},
         flows[x].run \in Recorded, flows[x].pc \in Writing,
         status = "completed" => flows[x].pc = "complete",
         runs' = [runs EXCEPT ![flows[x].run].status = status]
  PROVE  Updates(x)
<1> DEFINE k == flows[x].run
<1>1. k \in RunIds /\ runs[k] \in Run
  BY RecordedType
<1>2. \A r \in RunIds : r # k => runs'[r] = runs[r]
  BY DEF TypeOK
<1>3. runs'[k] = [runs[k] EXCEPT !.status = status]
  BY <1>1 DEF TypeOK
<1>4. /\ runs'[k].status = status /\ runs'[k].actor = runs[k].actor
      /\ runs'[k].cause = runs[k].cause /\ runs'[k].request = runs[k].request
      /\ runs'[k].mine = runs[k].mine /\ runs'[k].linked = runs[k].linked
  BY <1>1, <1>3 DEF Run
<1>5. runs'[k] # NoRun
  BY <1>4, NoRunIsNoRun
<1> HIDE DEF k
<1>6. Recorded' = Recorded
  BY <1>1, <1>2, <1>5, NoRunIsNoRun DEF Recorded
<1>7. Kept
  BY <1>2, <1>4 DEF Kept, Recorded
<1> QED
  BY <1>2, <1>4, <1>6, <1>7 DEF Updates, Recorded, k

LEMMA LinkIsUpdate ==
  ASSUME TypeOK, NEW x, NEW k \in Recorded, runs' = [runs EXCEPT ![k].linked = TRUE]
  PROVE  Updates(x) /\ runs'[k].linked
<1>1. k \in RunIds /\ runs[k] \in Run
  BY RecordedType
<1>2. \A r \in RunIds : r # k => runs'[r] = runs[r]
  BY DEF TypeOK
<1>3. runs'[k] = [runs[k] EXCEPT !.linked = TRUE]
  BY <1>1 DEF TypeOK
<1>4. /\ runs'[k].status = runs[k].status /\ runs'[k].actor = runs[k].actor
      /\ runs'[k].cause = runs[k].cause /\ runs'[k].request = runs[k].request
      /\ runs'[k].mine = runs[k].mine /\ runs'[k].linked
  BY <1>1, <1>3 DEF Run
<1>5. runs'[k] # NoRun
  BY <1>1, <1>4, NoRunIsNoRun DEF Run, NoRun
<1>6. Recorded' = Recorded
  BY <1>1, <1>2, <1>5, NoRunIsNoRun DEF Recorded
<1> QED
  BY <1>2, <1>4, <1>6 DEF Updates, Kept, Recorded

LEMMA CreatedIsAdd ==
  ASSUME TypeOK, Table, NEW x, NEW actor \in {"agent", "fallback"},
         NEW cause \in Recorded \cup {NewRun}, NewRun \in RunIds, flows[x].request \in IncidentIds,
         runs' = Created(actor, flows[x].request, cause)
  PROVE  Adds(x, actor, cause)
<1> DEFINE row == [actor |-> actor, status |-> "running", request |-> flows[x].request,
                   linked |-> FALSE, mine |-> TRUE, cause |-> cause]
<1>1. NewRun \notin Recorded /\ \A r \in Recorded : r # NewRun
  BY NewRunIsNew
<1>2. /\ runs'[NewRun] = row
      /\ \A r \in RunIds : r # NewRun => runs'[r] = runs[r]
  BY DEF Created, TypeOK
<1>3. row # NoRun
  BY DEF NoRun
<1>4. /\ runs'[NewRun].actor = actor /\ runs'[NewRun].cause = cause
      /\ runs'[NewRun].status = "running" /\ runs'[NewRun].mine
      /\ runs'[NewRun].request = flows[x].request
  BY <1>2
<1> HIDE DEF row
<1>5. Recorded' = Recorded \cup {NewRun}
  BY <1>1, <1>2, <1>3 DEF Recorded
<1>6. \A r \in Recorded : runs'[r] = runs[r]
  BY <1>1, <1>2 DEF Recorded
<1>7. Table'
  <2>1. PICK k \in 0 .. MaxRuns : Recorded = 1 .. k /\ NewRun = k + 1
    BY NewRunIsNew
  <2>2. k + 1 \in 0 .. MaxRuns /\ Recorded' = 1 .. (k + 1)
    BY <1>5, <2>1, CoordinatorAssumption DEF RunIds
  <2>3. \A r \in Recorded' : runs'[r].cause \in Recorded'
    BY <1>4, <1>5, <1>6 DEF Table
  <2> QED
    BY <2>2, <2>3 DEF Table
<1>8. Kept
  BY <1>6 DEF Kept
<1> QED
  BY <1>1, <1>4, <1>5, <1>6, <1>7, <1>8 DEF Adds

------------------------------------------------------------------------------
(* Whoever takes a step, what the others own stays theirs. *)

\* Two calls never write the outcome of the same run.
LEMMA OwnRunsDiffer ==
  ASSUME Control, NEW x \in Flows, NEW y \in Flows, x # y,
         flows[x].pc \in Active, flows[y].pc \in Active
  PROVE  flows[x].run # flows[y].run /\ flows[x].agentRun # flows[y].agentRun
<1>1. flows[x].agentRun # flows[y].agentRun
  BY DEF Control, Separate
<1>2. /\ runs[flows[x].agentRun].actor = "agent" /\ runs[flows[y].agentRun].actor = "agent"
      /\ flows[x].run # flows[x].agentRun =>
           runs[flows[x].run].actor = "fallback" /\ runs[flows[x].run].cause = flows[x].agentRun
      /\ flows[y].run # flows[y].agentRun =>
           runs[flows[y].run].actor = "fallback" /\ runs[flows[y].run].cause = flows[y].agentRun
  BY DEF Control, FlowOK
<1> QED
  BY <1>1, <1>2

LEMMA ChangesKeep ==
  ASSUME NEW x, Changes(x)
  PROVE  Kept /\ Recorded \subseteq Recorded'
BY DEF Changes, Updates, AddsFor, Adds

\* Of the rows there were, only the call's own open one changes its status.
LEMMA OthersStatus ==
  ASSUME NEW x, Changes(x), NEW r \in Recorded,
         ~(flows[x].pc \in Writing /\ r = flows[x].run)
  PROVE  runs'[r].status = runs[r].status
BY DEF Changes, Updates, AddsFor, Adds

\* No row is opened but a new one.
LEMMA NoneReopened ==
  ASSUME Control, NEW x \in Flows, Changes(x), NEW r \in Recorded, runs'[r].status = "running"
  PROVE  runs[r].status = "running"
BY DEF Changes, Updates, AddsFor, Adds

LEMMA OthersKeep ==
  ASSUME Control, NEW x \in Flows, Changes(x), NEW y \in Flows, y # x, flows'[y] = flows[y]
  PROVE  FlowOK(y)'
<1> DEFINE f == flows[y]
<1>1. Kept /\ Recorded \subseteq Recorded'
  BY ChangesKeep
<1>2. FlowOK(y)
  BY DEF Control
<1>3. CASE f.pc \in Active
  <2>1. /\ f.agentRun \in Recorded /\ f.run \in Recorded
        /\ runs[f.agentRun].actor = "agent"
        /\ y = Recovery <=> ~runs[f.agentRun].mine
        /\ f.run # f.agentRun => runs[f.run].actor = "fallback" /\ runs[f.run].cause = f.agentRun
    BY <1>2, <1>3 DEF FlowOK
  <2>2. /\ f.agentRun \in Recorded' /\ f.run \in Recorded'
        /\ runs'[f.agentRun].actor = "agent"
        /\ y = Recovery <=> ~runs'[f.agentRun].mine
        /\ f.run # f.agentRun => runs'[f.run].actor = "fallback" /\ runs'[f.run].cause = f.agentRun
        /\ runs'[f.run].mine = runs[f.run].mine
    BY <1>1, <2>1 DEF Kept
  <2>3. ~(flows[x].pc \in Writing /\ f.run = flows[x].run)
    BY <1>3, OwnRunsDiffer DEF Writing
  <2>4. runs'[f.run].status = runs[f.run].status
    BY <2>1, <2>3, OthersStatus
  <2> QED
    BY <1>2, <2>2, <2>4 DEF FlowOK
<1>4. CASE f.pc \notin Active
  BY <1>2, <1>4 DEF FlowOK, Active, Writing
<1> QED
  BY <1>3, <1>4

------------------------------------------------------------------------------
(* Control. *)

LEMMA ControlInit == Init => Control
<1> SUFFICES ASSUME Init
             PROVE  Control
  OBVIOUS
<1>1. Recorded = 1 .. 0
  BY DEF Init, Recorded
<1>2. 0 \in 0 .. MaxRuns
  BY CoordinatorAssumption
<1>3. Table
  BY <1>1, <1>2 DEF Table
<1>4. \A x \in Flows : flows[x].pc = "idle" /\ ~flows[x].inTry
  BY IdleType DEF Init
<1>5. Recovery \in Flows /\ Calls \subseteq Flows
  BY DEF Flows
<1> QED
  BY <1>1, <1>3, <1>4, <1>5
     DEF Init, Control, FlowOK, Roles, Separate, Memory, Orphaned, Active, Writing, Running

LEMMA ChangesTable ==
  ASSUME Control, NEW x, Changes(x)
  PROVE  Table'
<1>1. CASE Updates(x)
  <2>1. Recorded' = Recorded /\ \A r \in Recorded : runs'[r].cause = runs[r].cause
    BY <1>1 DEF Updates, Kept
  <2> QED
    BY <2>1 DEF Control, Table
<1>2. CASE AddsFor(x)
  BY <1>2 DEF AddsFor, Adds
<1> QED
  BY <1>1, <1>2 DEF Changes

\* The process is gone, whatever its last statement did.
LEMMA ExitControl ==
  ASSUME Exit, Table'
  PROVE  Control'
<1>1. ~up' /\ flows' = [x \in Flows |-> Idle] /\ investigated' = {} /\ orphans' = {}
  BY DEF Exit
<1>2. \A x \in Flows : flows'[x].pc = "idle" /\ ~flows'[x].inTry
  BY <1>1, IdleType
<1>3. Recovery \in Flows /\ Calls \subseteq Flows
  BY DEF Flows
<1>4. (\A x \in Flows : FlowOK(x))'
  BY <1>2 DEF FlowOK, Active, Writing
<1>5. Roles' /\ Separate'
  BY <1>2, <1>3 DEF Roles, Separate, Active
<1>6. Memory'
  BY <1>1, <1>2 DEF Memory
<1>7. Orphaned'
  BY <1>1 DEF Orphaned
<1> QED
  BY <1>4, <1>5, <1>6, <1>7 DEF Control

\* A step of a call leaves the orphans to the recovery.
LEMMA OrphansLeftAlone ==
  ASSUME Control, NEW x \in Flows, flows[x].pc \in Active \cup {"create"}, Changes(x),
         UNCHANGED <<up, orphans>>, flows'[Recovery].pc \in {"idle", "list"} => orphans = {},
         flows[Recovery].pc # "list"
  PROVE  Orphaned'
<1>1. Kept /\ Recorded \subseteq Recorded'
  BY ChangesKeep
<1>2. ASSUME NEW r \in orphans
      PROVE  r \in Recorded' /\ runs'[r].status = "running" /\ ~runs'[r].mine
  <2>1. r \in Recorded /\ runs[r].status = "running" /\ ~runs[r].mine
    BY <1>2 DEF Control, Orphaned, Running
  <2>2. ~(flows[x].pc \in Writing /\ r = flows[x].run)
    BY <2>1 DEF Control, FlowOK
  <2> QED
    BY <1>1, <2>1, <2>2, OthersStatus DEF Kept
<1>3. ASSUME up, NEW r \in Recorded', runs'[r].status = "running"
      PROVE  runs'[r].mine \/ r \in orphans
  <2>1. CASE r \in Recorded
    <3>1. runs[r].status = "running"
      BY <1>3, <2>1, NoneReopened
    <3>2. runs[r].mine \/ r \in orphans
      BY <1>3, <2>1, <3>1 DEF Control, Orphaned, Running
    <3> QED
      BY <1>1, <2>1, <3>2 DEF Kept
  <2>2. CASE r \notin Recorded
    <3>1. AddsFor(x)
      BY <1>3, <2>2 DEF Changes, Updates
    <3> QED
      BY <1>3, <2>2, <3>1 DEF AddsFor, Adds
  <2> QED
    BY <2>1, <2>2
<1> QED
  BY <1>2, <1>3 DEF Orphaned, Running

\* A call goes on: what has to be shown is that it fits what it now works on.
LEMMA GoControl ==
  ASSUME Control, NEW x \in Flows, flows[x].pc \in Active \cup {"create"}, Changes(x),
         flows \in [Flows -> Flow], NEW g \in Flow, Go(x, g), FlowOK(x)',
         g.pc \in Active => \/ flows[x].pc \in Active /\ g.agentRun = flows[x].agentRun
                            \/ g.agentRun \notin Recorded,
         x = Recovery => ~g.inTry /\ g.pc \notin {"idle", "list", "create", "investigate", "fail", "relink"},
         x # Recovery => g.pc \notin {"list", "close"}
  PROVE  Control'
<1>1. /\ flows'[x] = g /\ \A y \in Flows : y # x => flows'[y] = flows[y]
      /\ UNCHANGED <<up, investigated, orphans>>
  BY DEF Go
<1>2. Recovery \in Flows /\ Calls \subseteq Flows /\ \A c \in Calls : c # Recovery
  BY CoordinatorAssumption DEF Flows
<1>3. Table' /\ \A y \in Flows : FlowOK(y)'
  BY <1>1, ChangesTable, OthersKeep
<1>4. Roles'
  BY <1>1, <1>2 DEF Control, Roles
<1>5. Separate'
  <2>1. \A y \in Flows : flows[y].pc \in Active => flows[y].agentRun \in Recorded
    BY DEF Control, FlowOK
  <2> QED
    BY <1>1, <2>1 DEF Control, Separate
<1>6. up /\ flows[Recovery].pc # "list"
  <2>1. flows[x].pc \notin {"idle", "list"}
    BY DEF Active
  <2> QED
    BY <1>2, <2>1 DEF Control, Memory, Flows
<1>7. flows'[Recovery].pc # "list"
  BY <1>1, <1>2, <1>6
<1>8. Memory'
  BY <1>1, <1>6, <1>7 DEF Memory
<1>9. Orphaned'
  <2>1. CASE x = Recovery
    BY <1>1, <1>6, <2>1, OrphansLeftAlone
  <2>2. CASE x # Recovery
    <3>1. flows'[Recovery] = flows[Recovery]
      BY <1>1, <1>2, <2>2
    <3> QED
      BY <1>1, <1>6, <3>1, OrphansLeftAlone DEF Control, Orphaned
  <2> QED
    BY <2>1, <2>2
<1> QED
  BY <1>3, <1>4, <1>5, <1>8, <1>9 DEF Control

LEMMA RetriedControl ==
  ASSUME TypeOK, Control, NEW x \in Flows, flows[x].inTry, Changes(x), Go(x, Retried(x))
  PROVE  Control'
<1> DEFINE f == flows[x]
<1>1. f.pc \in Active /\ x # Recovery
  BY DEF Control, FlowOK, Roles
<1>2. /\ Retried(x) \in Flow /\ Retried(x).pc = "createFallback" /\ ~Retried(x).inTry
      /\ Retried(x).run = f.run /\ Retried(x).agentRun = f.agentRun
      /\ Retried(x).request = f.request
  BY RetriedType
<1>3. flows'[x] = Retried(x) /\ flows \in [Flows -> Flow]
  BY DEF Go, TypeOK
<1>4. /\ f.agentRun \in Recorded /\ f.run \in Recorded /\ f.request \in IncidentIds
      /\ runs[f.agentRun].actor = "agent"
      /\ x = Recovery <=> ~runs[f.agentRun].mine
      /\ f.run # f.agentRun => runs[f.run].actor = "fallback" /\ runs[f.run].cause = f.agentRun
  BY <1>1 DEF Control, FlowOK
<1>5. Kept /\ Recorded \subseteq Recorded'
  BY ChangesKeep
<1> HIDE DEF f, Retried
<1>6. /\ f.agentRun \in Recorded' /\ f.run \in Recorded'
      /\ runs'[f.agentRun].actor = "agent"
      /\ x = Recovery <=> ~runs'[f.agentRun].mine
      /\ f.run # f.agentRun => runs'[f.run].actor = "fallback" /\ runs'[f.run].cause = f.agentRun
  BY <1>4, <1>5 DEF Kept
<1>7. FlowOK(x)'
  BY <1>2, <1>3, <1>4, <1>6 DEF FlowOK, Active, Writing
<1> QED
  BY <1>1, <1>2, <1>3, <1>7, GoControl DEF f, Active

LEMMA FinishedControl ==
  ASSUME TypeOK, Control, NEW x \in Flows, flows[x].pc \in Active \cup {"create"}, Changes(x),
         Go(x, Finished(x))
  PROVE  Control'
<1>1. /\ Finished(x) \in Flow /\ ~Finished(x).inTry
      /\ Finished(x).pc = IF x = Recovery THEN "close" ELSE "idle"
  BY FinishedType
<1>2. flows'[x] = Finished(x) /\ flows \in [Flows -> Flow]
  BY DEF Go, TypeOK
<1>3. FlowOK(x)'
  BY <1>1, <1>2 DEF FlowOK, Active, Writing
<1> QED
  BY <1>1, <1>2, <1>3, GoControl DEF Active

LEMMA ThrowControl ==
  ASSUME TypeOK, Control, NEW x \in Flows, flows[x].pc \in Active \cup {"create"}, Changes(x),
         Throw(x)
  PROVE  Control'
<1>1. Roles
  BY DEF Control
<1> QED
  BY <1>1, ThrowCases, RetriedControl, FinishedControl, ExitControl, ChangesTable

------------------------------------------------------------------------------
(* Links. *)

LEMMA LinkedInit == Init => Linked
<1> SUFFICES ASSUME Init
             PROVE  Linked
  OBVIOUS
<1>1. Recorded = {} /\ \A x \in Flows : flows[x].pc = "idle"
  BY IdleType DEF Init, Recorded
<1> QED
  BY <1>1 DEF Linked, CompletedIsLinked

\* completeRun is reached only by a run that is linked.
LEMMA CompletedStaysLinked ==
  ASSUME Control, Linked, NEW x \in Flows, Changes(x)
  PROVE  CompletedIsLinked'
<1> SUFFICES ASSUME NEW r \in Recorded', runs'[r].status = "completed"
             PROVE  runs'[r].linked
  BY DEF CompletedIsLinked
<1>1. Kept
  BY ChangesKeep
<1>2. r \in Recorded
  BY DEF Changes, Updates, AddsFor, Adds
<1>3. runs[r].linked
  <2>1. CASE runs[r].status = "completed"
    BY <1>2, <2>1 DEF Linked, CompletedIsLinked
  <2>2. CASE runs[r].status # "completed"
    <3>1. flows[x].pc = "complete" /\ r = flows[x].run
      BY <1>2, <2>2 DEF Changes, Updates, AddsFor, Adds
    <3> QED
      BY <3>1 DEF Linked
  <2> QED
    BY <2>1, <2>2
<1> QED
  BY <1>1, <1>2, <1>3 DEF Kept

LEMMA GoLinked ==
  ASSUME Control, Linked, NEW x \in Flows, Changes(x),
         flows \in [Flows -> Flow], NEW g, Go(x, g),
         g.pc = "attach" => g.run \in g.toLink,
         g.pc = "link" => g.run \in g.toLink \/ runs'[g.run].linked,
         g.pc = "complete" => runs'[g.run].linked
  PROVE  Linked'
<1>1. flows'[x] = g /\ \A y \in Flows : y # x => flows'[y] = flows[y]
  BY DEF Go
<1>2. ASSUME NEW y \in Flows
      PROVE  /\ flows'[y].pc = "attach" => flows'[y].run \in flows'[y].toLink
             /\ flows'[y].pc = "link" =>
                  flows'[y].run \in flows'[y].toLink \/ runs'[flows'[y].run].linked
             /\ flows'[y].pc = "complete" => runs'[flows'[y].run].linked
  <2>1. CASE y = x
    BY <1>1, <2>1
  <2>2. CASE y # x
    <3>1. flows'[y] = flows[y]
      BY <1>1, <2>2
    <3>2. flows[y].pc \in {"link", "complete"} => flows[y].run \in Recorded
      BY DEF Control, FlowOK, Active
    <3>3. Kept
      BY ChangesKeep
    <3> QED
      BY <3>1, <3>2, <3>3 DEF Linked, Kept
  <2> QED
    BY <2>1, <2>2
<1> QED
  BY <1>2, CompletedStaysLinked DEF Linked

LEMMA ExitLinked ==
  ASSUME Exit, CompletedIsLinked'
  PROVE  Linked'
<1>1. \A x \in Flows : flows'[x].pc = "idle"
  BY IdleType DEF Exit
<1> QED
  BY <1>1 DEF Linked

LEMMA ThrowLinked ==
  ASSUME TypeOK, Control, Linked, NEW x \in Flows, Changes(x), Throw(x)
  PROVE  Linked'
<1>1. Roles /\ flows \in [Flows -> Flow]
  BY DEF Control, TypeOK
<1>2. Finished(x).pc \in {"close", "idle"} /\ Retried(x).pc = "createFallback"
  BY FinishedType, RetriedType
<1> HIDE DEF Retried
<1> QED
  BY <1>1, <1>2, ThrowCases, GoLinked, ExitLinked, CompletedStaysLinked

------------------------------------------------------------------------------
(* Who is investigated. *)

LEMMA TakenInit == Init => Taken
<1> SUFFICES ASSUME Init
             PROVE  Taken
  OBVIOUS
<1>1. Recorded = {} /\ \A x \in Flows : flows[x].pc = "idle"
  BY IdleType DEF Init, Recorded
<1> QED
  BY <1>1 DEF Taken, InvestigatedOnce

\* The agent's runs of this process, after a call's step: those there were, and
\* the one of a call that was to create it.
LEMMA NewMine ==
  ASSUME NEW x, Changes(x), NEW r \in Recorded', runs'[r].mine, runs'[r].actor = "agent"
  PROVE  \/ r \in Recorded /\ Mine(r) /\ runs'[r].request = runs[r].request
         \/ flows[x].pc = "create" /\ r = NewRun /\ runs'[r].request = flows[x].request
<1>1. Kept
  BY ChangesKeep
<1>2. CASE r \in Recorded
  BY <1>1, <1>2 DEF Kept, Mine
<1>3. CASE r \notin Recorded
  BY <1>3 DEF Changes, Updates, AddsFor, Adds
<1> QED
  BY <1>2, <1>3

LEMMA ChangesInvestigatedOnce ==
  ASSUME Taken, NEW x \in Flows, Changes(x)
  PROVE  InvestigatedOnce'
<1> SUFFICES ASSUME NEW r \in Recorded', NEW s \in Recorded',
                    runs'[r].mine, runs'[r].actor = "agent",
                    runs'[s].mine, runs'[s].actor = "agent",
                    runs'[r].request = runs'[s].request
             PROVE  r = s
  BY DEF InvestigatedOnce
<1>1. ASSUME NEW q \in Recorded, Mine(q), flows[x].pc = "create"
      PROVE  runs[q].request # flows[x].request
  BY <1>1 DEF Taken
<1>2. ASSUME NEW q \in Recorded, NEW p \in Recorded, Mine(q), Mine(p),
             runs[q].request = runs[p].request
      PROVE  q = p
  BY <1>2 DEF Taken, InvestigatedOnce, Mine
<1> QED
  BY <1>1, <1>2, NewMine

LEMMA GoTaken ==
  ASSUME Taken, NEW x \in Flows, Changes(x), flows \in [Flows -> Flow], NEW g, Go(x, g),
         g.pc # "create"
  PROVE  Taken'
<1>1. /\ flows'[x] = g /\ \A y \in Flows : y # x => flows'[y] = flows[y]
      /\ UNCHANGED <<up, investigated>>
  BY DEF Go
<1>2. ASSUME up, NEW r \in Recorded', Mine(r)'
      PROVE  runs'[r].request \in investigated
  BY <1>2, NewMine DEF Taken, Mine
<1>3. ASSUME NEW y \in Flows, flows'[y].pc = "create"
      PROVE  /\ flows'[y].request \in investigated
             /\ \A r \in Recorded' : Mine(r)' => runs'[r].request # flows'[y].request
             /\ \A z \in Flows : flows'[z].pc = "create" /\ flows'[z].request = flows'[y].request
                  => y = z
  <2>1. y # x /\ flows'[y] = flows[y]
    BY <1>1, <1>3
  <2>2. /\ flows[y].request \in investigated
        /\ \A r \in Recorded : Mine(r) => runs[r].request # flows[y].request
        /\ flows[x].pc = "create" => flows[x].request # flows[y].request
    BY <1>3, <2>1 DEF Taken
  <2>3. \A r \in Recorded' : Mine(r)' => runs'[r].request # flows'[y].request
    BY <2>1, <2>2, NewMine DEF Mine
  <2>4. \A z \in Flows : flows'[z].pc = "create" /\ flows'[z].request = flows'[y].request => y = z
    BY <1>1, <1>3, <2>1 DEF Taken
  <2> QED
    BY <2>1, <2>2, <2>3, <2>4
<1> QED
  BY <1>1, <1>2, <1>3, ChangesInvestigatedOnce DEF Taken

LEMMA ExitTaken ==
  ASSUME Exit, InvestigatedOnce'
  PROVE  Taken'
<1>1. ~up' /\ \A x \in Flows : flows'[x].pc = "idle"
  BY IdleType DEF Exit
<1> QED
  BY <1>1 DEF Taken

LEMMA ThrowTaken ==
  ASSUME TypeOK, Roles, Taken, NEW x \in Flows, Changes(x), Throw(x)
  PROVE  Taken'
<1>1. flows \in [Flows -> Flow]
  BY DEF TypeOK
<1>2. Finished(x).pc \in {"close", "idle"} /\ Retried(x).pc = "createFallback"
  BY FinishedType, RetriedType
<1> HIDE DEF Retried
<1> QED
  BY <1>1, <1>2, ThrowCases, GoTaken, ExitTaken, ChangesInvestigatedOnce

------------------------------------------------------------------------------
(* How many fallbacks. *)

LEMMA CountedInit == Init => Counted
<1> SUFFICES ASSUME Init
             PROVE  Counted
  OBVIOUS
<1>1. Recorded = {} /\ \A x \in Flows : flows[x].pc = "idle"
  BY IdleType DEF Init, Recorded
<1> QED
  BY <1>1 DEF Counted, CallCounted, Active

\* The fallbacks of a run after a call's step: the same, but for the one added.
LEMMA FallbacksAfter ==
  ASSUME NEW x, Changes(x), NEW a
  PROVE  \/ Fallbacks(a)' = Fallbacks(a)
         \/ /\ flows[x].pc = "createFallback" /\ a = flows[x].agentRun
            /\ AddsFor(x) /\ Fallbacks(a)' = Fallbacks(a) \cup {NewRun}
<1>1. Kept
  BY ChangesKeep
<1>2. CASE Updates(x)
  BY <1>1, <1>2 DEF Updates, Kept, Fallbacks
<1>3. CASE flows[x].pc = "create" /\ Adds(x, "agent", NewRun)
  BY <1>1, <1>3 DEF Adds, Kept, Fallbacks
<1>4. CASE flows[x].pc = "createFallback" /\ Adds(x, "fallback", flows[x].agentRun)
  <2>1. CASE a = flows[x].agentRun
    BY <1>1, <1>4, <2>1 DEF AddsFor, Adds, Kept, Fallbacks
  <2>2. CASE a # flows[x].agentRun
    BY <1>1, <1>4, <2>2 DEF Adds, Kept, Fallbacks
  <2> QED
    BY <2>1, <2>2
<1> QED
  BY <1>2, <1>3, <1>4 DEF Changes, AddsFor

\* A run that is not in the table has none.
LEMMA NewHasNoFallback ==
  ASSUME Table, NEW a \in RunIds, a \notin Recorded
  PROVE  Fallbacks(a) = {}
BY DEF Table, Fallbacks

LEMMA OneMore ==
  ASSUME NEW S, NEW e
  PROVE  /\ S = {} => AtMostOne(S \cup {e})
         /\ AtMostOne(S) => AtMostTwo(S \cup {e}) /\ AtMostTwo(S)
BY DEF AtMostOne, AtMostTwo

LEMMA ChangesCounted ==
  ASSUME TypeOK, Control, Counted, NEW x \in Flows, Changes(x), NEW a \in Recorded'
  PROVE  RunCounted(a)'
<1>1. Kept
  BY ChangesKeep
<1>2. CASE a \in Recorded
  <2>1. RunCounted(a) /\ (Open(a)' => Open(a))
    BY <1>2, NoneReopened DEF Counted, Open
  <2>2. CASE Fallbacks(a)' = Fallbacks(a)
    BY <1>1, <1>2, <2>1, <2>2 DEF RunCounted, AtMostOne, AtMostTwo, Kept
  <2>3. CASE /\ flows[x].pc = "createFallback" /\ a = flows[x].agentRun
             /\ Fallbacks(a)' = Fallbacks(a) \cup {NewRun}
    <3>1. /\ AtMostOne(Fallbacks(a))
          /\ Open(a) => Fallbacks(a) = {}
          /\ runs[a].actor = "agent"
      BY <1>2, <2>3, RecordedType DEF Counted, CallCounted, Active, Control, FlowOK
    <3>2. AtMostTwo(Fallbacks(a) \cup {NewRun}) /\ (Open(a) => AtMostOne(Fallbacks(a) \cup {NewRun}))
      BY <3>1, OneMore
    <3>3. runs'[a].actor = "agent"
      BY <1>1, <1>2, <3>1 DEF Kept
    <3> QED
      BY <2>1, <2>3, <3>2, <3>3 DEF RunCounted, AtMostOne, AtMostTwo
  <2> QED
    BY <2>2, <2>3, FallbacksAfter
<1>3. CASE a \notin Recorded
  <2>1. AddsFor(x) /\ a \in RunIds /\ Fallbacks(a) = {}
    BY <1>3, NewHasNoFallback DEF Changes, Updates, Recorded, Control
  <2>2. Fallbacks(a)' = {}
    <3>1. flows[x].pc = "createFallback" => flows[x].agentRun \in Recorded
      BY DEF Control, FlowOK, Active
    <3> QED
      BY <1>3, <2>1, <3>1, FallbacksAfter
  <2> QED
    BY <2>2 DEF RunCounted, AtMostOne, AtMostTwo
<1> QED
  BY <1>2, <1>3

LEMMA OthersCounted ==
  ASSUME TypeOK, Control, Counted, NEW x \in Flows, flows[x].pc \in Active \cup {"create"}, Changes(x),
         NEW y \in Flows, y # x, flows'[y] = flows[y], NEW a \in RunIds
  PROVE  CallCounted(y, a)'
<1> SUFFICES ASSUME flows[y].pc \in Active, flows[y].agentRun = a
             PROVE  CallCounted(y, a)'
  BY DEF CallCounted, Active
<1>1. CallCounted(y, a) /\ a \in Recorded
  BY DEF Counted, Control, FlowOK
<1>2. Fallbacks(a)' = Fallbacks(a)
  BY FallbacksAfter, OwnRunsDiffer DEF Active
<1>3. Open(a)' => Open(a)
  BY <1>1, NoneReopened DEF Open
<1> QED
  BY <1>1, <1>2, <1>3 DEF CallCounted, AtMostOne

LEMMA GoCounted ==
  ASSUME TypeOK, Control, Counted, NEW x \in Flows, flows[x].pc \in Active \cup {"create"}, Changes(x),
         NEW g, Go(x, g), \A a \in RunIds : CallCounted(x, a)'
  PROVE  Counted'
<1>1. \A y \in Flows : y # x => flows'[y] = flows[y]
  BY DEF Go, TypeOK
<1>2. \A y \in Flows, a \in RunIds : CallCounted(y, a)'
  BY <1>1, OthersCounted
<1> QED
  BY <1>2, ChangesCounted DEF Counted

LEMMA ExitCounted ==
  ASSUME Exit, \A a \in Recorded' : RunCounted(a)'
  PROVE  Counted'
<1>1. \A x \in Flows : flows'[x].pc = "idle"
  BY IdleType DEF Exit
<1> QED
  BY <1>1 DEF Counted, CallCounted, Active

\* A call that leaves its try block has one fallback to go: it had none for a run
\* still open, and at most the one that has just been recorded for another.
LEMMA RetriedCounted ==
  ASSUME TypeOK, Control, Counted, NEW x \in Flows, flows[x].inTry, Changes(x), Go(x, Retried(x)),
         NEW a \in RunIds
  PROVE  CallCounted(x, a)'
<1>1. flows[x].pc \in Active
  BY DEF Control, FlowOK
<1>2. flows'[x] = Retried(x)
  BY DEF Go, TypeOK
<1>3. /\ Retried(x).pc = "createFallback" /\ ~Retried(x).inTry
      /\ Retried(x).agentRun = flows[x].agentRun
  BY RetriedType
<1> HIDE DEF Retried
<1> SUFFICES ASSUME flows[x].agentRun = a
             PROVE  /\ AtMostOne(Fallbacks(a)')
                    /\ Open(a)' => Fallbacks(a)' = {}
  BY <1>2, <1>3 DEF CallCounted, AtMostOne
<1>4. a \in Recorded /\ (Open(a)' => Open(a))
  BY <1>1, NoneReopened DEF Control, FlowOK, Open
<1>5. CallCounted(x, a)
  BY DEF Counted
<1>6. CASE Fallbacks(a)' = Fallbacks(a)
  BY <1>1, <1>4, <1>5, <1>6 DEF CallCounted
<1>7. CASE flows[x].pc = "createFallback" /\ Fallbacks(a)' = Fallbacks(a) \cup {NewRun}
  <2>1. Fallbacks(a) = {} /\ ~Open(a)
    BY <1>1, <1>5, <1>7 DEF CallCounted
  <2> QED
    BY <1>4, <1>7, <2>1, OneMore
<1> QED
  BY <1>6, <1>7, FallbacksAfter

LEMMA ThrowCounted ==
  ASSUME TypeOK, Control, Counted, NEW x \in Flows, flows[x].pc \in Active \cup {"create"}, Changes(x),
         Throw(x)
  PROVE  Counted'
<1>1. Roles
  BY DEF Control
<1>2. CASE flows[x].inTry /\ Go(x, Retried(x))
  BY <1>2, RetriedCounted, GoCounted
<1>3. CASE Go(x, Finished(x))
  <2>1. flows'[x].pc \notin Active
    BY <1>3, FinishedType DEF Go, TypeOK, Active
  <2>2. \A a \in RunIds : CallCounted(x, a)'
    BY <2>1 DEF CallCounted
  <2> QED
    BY <1>3, <2>2, GoCounted
<1>4. CASE Exit
  BY <1>4, ExitCounted, ChangesCounted
<1> QED
  BY <1>1, <1>2, <1>3, <1>4, ThrowCases

------------------------------------------------------------------------------
(* The steps of a call, one by one. *)

LEMMA ThrowStrong ==
  ASSUME Strong, NEW x \in Flows, flows[x].pc \in Active \cup {"create"}, Changes(x), Throw(x),
         TypeOK'
  PROVE  Strong'
<1>1. Roles
  BY DEF Strong, Control
<1> QED
  BY <1>1, ThrowControl, ThrowLinked, ThrowTaken, ThrowCounted DEF Strong

LEMMA GoStrong ==
  ASSUME Strong, NEW x \in Flows, flows[x].pc \in Active \cup {"create"}, Changes(x), TypeOK',
         NEW g \in Flow, Go(x, g), FlowOK(x)', \A a \in RunIds : CallCounted(x, a)',
         g.pc \in Active, x = Recovery => ~g.inTry /\ g.pc \notin {"investigate", "fail", "relink"},
         \/ flows[x].pc \in Active /\ g.agentRun = flows[x].agentRun
         \/ g.agentRun \notin Recorded,
         g.pc = "attach" => g.run \in g.toLink,
         g.pc = "link" => g.run \in g.toLink \/ runs'[g.run].linked,
         g.pc = "complete" => runs'[g.run].linked
  PROVE  Strong'
<1>1. flows \in [Flows -> Flow]
  BY DEF Strong, TypeOK
<1>2. g.pc \notin {"idle", "list", "close", "create"}
  BY DEF Active
<1>3. Control'
  BY <1>1, <1>2, GoControl DEF Strong
<1>4. Linked'
  BY <1>1, GoLinked DEF Strong
<1>5. Taken'
  BY <1>1, <1>2, GoTaken DEF Strong
<1>6. Counted'
  BY GoCounted DEF Strong
<1> QED
  BY <1>3, <1>4, <1>5, <1>6 DEF Strong

LEMMA FinishedStrong ==
  ASSUME Strong, NEW x \in Flows, flows[x].pc \in Active, Changes(x), TypeOK',
         Go(x, Finished(x))
  PROVE  Strong'
<1>1. /\ Finished(x).pc \notin {"attach", "link", "complete", "create"}
      /\ Finished(x).pc \notin Active
  BY FinishedType DEF Active
<1>2. flows \in [Flows -> Flow] /\ flows'[x] = Finished(x)
  BY DEF Strong, TypeOK, Go
<1>3. \A a \in RunIds : CallCounted(x, a)'
  BY <1>1, <1>2 DEF CallCounted
<1> QED
  BY <1>1, <1>2, <1>3, FinishedControl, GoLinked, GoTaken, GoCounted DEF Strong

\* A statement with its two ends.
LEMMA StatementStrong ==
  ASSUME Strong, NEW x \in Flows, flows[x].pc \in Active \cup {"create"},
         NEW f \in Flow, NEW written \in [RunIds -> Run \cup {NoRun}],
         Statement(x, written, f), runs' = written => Changes(x),
         runs' = written /\ Go(x, f) /\ TypeOK' => Strong'
  PROVE  Strong'
<1>1. Changes(x)
  BY SameIsUpdate DEF Statement, Changes
<1>2. TypeOK'
  BY StatementType DEF Strong, Control
<1> QED
  BY <1>1, <1>2, ThrowStrong DEF Statement

LEMMA AwaitStrong ==
  ASSUME Strong, NEW x \in Flows, flows[x].pc \in Active, NEW f \in Flow, Await(x, f),
         Go(x, f) /\ TypeOK' => Strong'
  PROVE  Strong'
<1>1. Changes(x)
  BY SameIsUpdate DEF Await, Changes
<1>2. TypeOK'
  BY AwaitType DEF Strong, Control
<1> QED
  BY <1>1, <1>2, ThrowStrong DEF Await

\* What is known of a call at work.
LEMMA AtWork ==
  ASSUME Strong, NEW x \in Flows, flows[x].pc \in Active
  PROVE  /\ flows[x] \in Flow /\ flows[x].request \in IncidentIds
         /\ flows[x].agentRun \in Recorded /\ flows[x].run \in Recorded
         /\ flows[x].agentRun \in RunIds /\ flows[x].run \in RunIds
         /\ runs[flows[x].agentRun].actor = "agent"
         /\ x = Recovery <=> ~runs[flows[x].agentRun].mine
         /\ flows[x].run # flows[x].agentRun =>
              /\ runs[flows[x].run].actor = "fallback"
              /\ runs[flows[x].run].cause = flows[x].agentRun
         /\ x = Recovery => ~flows[x].inTry
<1>1. FlowOK(x) /\ Roles /\ TypeOK
  BY DEF Strong, Control
<1> QED
  BY <1>1, RecordedType DEF FlowOK, Roles, TypeOK

\* A call that keeps its runs keeps what is known of them.
LEMMA KeepsItsRuns ==
  ASSUME Strong, NEW x \in Flows, flows[x].pc \in Active, Changes(x),
         flows'[x].agentRun = flows[x].agentRun, flows'[x].run = flows[x].run,
         flows'[x].request = flows[x].request, flows'[x].pc \in Active,
         flows'[x].pc \in Writing => /\ flows[x].pc \in Writing
                                     /\ runs'[flows[x].run].status = "running",
         flows'[x].pc \in {"investigate", "fail", "relink"} => flows[x].run = flows[x].agentRun,
         flows'[x].pc \in {"attach", "link"} =>
           flows'[x].toLink \subseteq {flows[x].agentRun, flows[x].run},
         flows'[x].pc # "diagnose"
  PROVE  FlowOK(x)'
<1> DEFINE f == flows[x]
<1>1. Kept /\ Recorded \subseteq Recorded'
  BY ChangesKeep
<1>2. /\ f.agentRun \in Recorded /\ f.run \in Recorded /\ f.request \in IncidentIds
      /\ runs[f.agentRun].actor = "agent"
      /\ x = Recovery <=> ~runs[f.agentRun].mine
      /\ f.run # f.agentRun => runs[f.run].actor = "fallback" /\ runs[f.run].cause = f.agentRun
  BY AtWork
<1>3. f.pc \in Writing => runs[f.run].mine
  BY DEF Strong, Control, FlowOK
<1>4. /\ f.agentRun \in Recorded' /\ f.run \in Recorded'
      /\ runs'[f.agentRun].actor = "agent"
      /\ x = Recovery <=> ~runs'[f.agentRun].mine
      /\ f.run # f.agentRun => runs'[f.run].actor = "fallback" /\ runs'[f.run].cause = f.agentRun
      /\ f.pc \in Writing => runs'[f.run].mine
  BY <1>1, <1>2, <1>3 DEF Kept
<1> QED
  BY <1>2, <1>4 DEF FlowOK, Active

\* Nor does it need another count if its fallbacks are the same.
LEMMA KeepsItsCount ==
  ASSUME Strong, NEW x \in Flows, flows[x].pc \in Active, Changes(x),
         flows'[x].agentRun = flows[x].agentRun, flows'[x].run = flows[x].run,
         flows'[x].inTry = flows[x].inTry,
         flows[x].pc # "createFallback", flows'[x].pc # "createFallback",
         NEW a \in RunIds
  PROVE  CallCounted(x, a)'
<1> SUFFICES ASSUME flows[x].agentRun = a
             PROVE  CallCounted(x, a)'
  BY DEF CallCounted
<1>1. CallCounted(x, a) /\ a \in Recorded
  BY AtWork DEF Strong, Counted
<1>2. Fallbacks(a)' = Fallbacks(a)
  BY FallbacksAfter
<1>3. Open(a)' => Open(a)
  BY <1>1, NoneReopened DEF Strong, Open
<1> QED
  BY <1>1, <1>2, <1>3 DEF CallCounted, AtMostOne

LEMMA ThrowAlone ==
  ASSUME Strong, NEW x \in Flows, flows[x].pc \in Active \cup {"create"}, Throw(x),
         UNCHANGED <<runs, source>>
  PROVE  Strong'
<1>1. Changes(x)
  BY SameIsUpdate DEF Changes
<1>2. TypeOK'
  BY ThrowAloneType DEF Strong, Control
<1> QED
  BY <1>1, <1>2, ThrowStrong

LEMMA CreateRunStep ==
  ASSUME Strong, NEW x \in Flows, CreateRun(x)
  PROVE  Strong'
<1> DEFINE i == flows[x].request
           g == [flows[x] EXCEPT !.pc = "investigate", !.agentRun = NewRun, !.run = NewRun,
                                 !.inTry = TRUE]
           written == Created("agent", i, NewRun)
<1>1. TypeOK /\ Table /\ flows[x] \in Flow /\ i \in IncidentIds /\ x # Recovery
      /\ flows[x].pc = "create"
  BY DEF Strong, Control, Roles, FlowOK, CreateRun, TypeOK
<1>2. CASE NewRun \notin RunIds
  BY <1>1, <1>2, ThrowAlone DEF CreateRun
<1>3. CASE NewRun \in RunIds
  <2>1. Statement(x, written, g)
    BY <1>3 DEF CreateRun
  <2>2. /\ g \in Flow /\ g.pc = "investigate" /\ g.agentRun = NewRun /\ g.run = NewRun
        /\ g.inTry /\ g.request = i
    BY <1>1, <1>3 DEF Flow
  <2>3. written \in [RunIds -> Run \cup {NoRun}]
    BY <1>1, <1>3, CreatedType
  <2>4. runs' = written => Adds(x, "agent", NewRun)
    BY <1>1, <1>3, CreatedIsAdd
  <2>5. runs' = written => Changes(x)
    BY <1>1, <2>4 DEF Changes, AddsFor
  <2> HIDE DEF g, written
  <2>6. ASSUME runs' = written, Go(x, g), TypeOK'
        PROVE  Strong'
    <3>1. flows'[x] = g
      BY <1>1, <2>6 DEF Go, TypeOK
    <3>2. Adds(x, "agent", NewRun)
      BY <2>4, <2>6
    <3>3. FlowOK(x)'
      BY <1>1, <2>2, <3>1, <3>2 DEF FlowOK, Adds, Active, Writing
    <3>4. NewRun \notin Recorded
      BY <3>2 DEF Adds
    <3>5. ASSUME NEW a \in RunIds
          PROVE  CallCounted(x, a)'
      <4> SUFFICES ASSUME a = NewRun
                   PROVE  CallCounted(x, a)'
        BY <2>2, <3>1 DEF CallCounted
      <4>1. Fallbacks(a)' = Fallbacks(a) /\ Fallbacks(a) = {}
        BY <1>1, <2>5, <2>6, <3>4, FallbacksAfter, NewHasNoFallback
      <4> QED
        BY <2>2, <3>1, <4>1 DEF CallCounted, AtMostOne
    <3> QED
      BY <1>1, <2>2, <2>5, <2>6, <3>3, <3>4, <3>5, GoStrong DEF Active
  <2> QED
    BY <1>1, <2>1, <2>2, <2>3, <2>5, <2>6, StatementStrong
<1> QED
  BY <1>2, <1>3

LEMMA InvestigateStep ==
  ASSUME Strong, NEW x \in Flows, Investigate(x)
  PROVE  Strong'
<1> DEFINE g == [flows[x] EXCEPT !.pc = "fail"]
<1>1. flows[x].pc = "investigate" /\ flows[x].pc \in Active /\ flows[x].pc \in Writing
  BY DEF Investigate, Active, Writing
<1>2. /\ flows[x] \in Flow /\ flows[x].run = flows[x].agentRun /\ x # Recovery
      /\ runs[flows[x].run].status = "running"
  BY <1>1, AtWork DEF Strong, Control, FlowOK, Roles
<1>3. /\ g \in Flow /\ g.pc = "fail" /\ g.agentRun = flows[x].agentRun /\ g.run = flows[x].run
      /\ g.inTry = flows[x].inTry /\ g.request = flows[x].request
  BY <1>2 DEF Flow
<1>4. Await(x, g)
  BY DEF Investigate
<1> HIDE DEF g
<1>5. ASSUME Go(x, g), TypeOK'
      PROVE  Strong'
  <2>1. flows'[x] = g /\ runs' = runs
    BY <1>4, <1>5 DEF Go, Await, Strong, TypeOK
  <2>2. Changes(x)
    BY <2>1, SameIsUpdate DEF Changes
  <2>3. FlowOK(x)'
    BY <1>1, <1>2, <1>3, <2>1, <2>2, KeepsItsRuns DEF Active
  <2>4. \A a \in RunIds : CallCounted(x, a)'
    BY <1>1, <1>3, <2>1, <2>2, KeepsItsCount
  <2> QED
    BY <1>1, <1>2, <1>3, <1>5, <2>2, <2>3, <2>4, GoStrong DEF Active
<1> QED
  BY <1>1, <1>3, <1>4, <1>5, AwaitStrong

LEMMA FailRunStep ==
  ASSUME Strong, NEW x \in Flows, FailRun(x)
  PROVE  Strong'
<1> DEFINE k == flows[x].agentRun
           written == [runs EXCEPT ![k].status = "failed"]
           g == [flows[x] EXCEPT !.pc = "createFallback", !.toLink = {}]
           h == ExecuteFallback(x, flows[x])
<1>1. flows[x].pc = "fail" /\ flows[x].pc \in Active /\ flows[x].pc \in Writing
  BY DEF FailRun, Active, Writing
<1>2. /\ flows[x] \in Flow /\ flows[x].run = k /\ x # Recovery /\ k \in Recorded /\ k \in RunIds
      /\ TypeOK
  BY <1>1, AtWork DEF Strong, Control, FlowOK, Roles
<1>3. /\ g \in Flow /\ g.pc = "createFallback" /\ g.agentRun = k /\ g.run = k
      /\ g.inTry = flows[x].inTry /\ g.request = flows[x].request
  BY <1>2 DEF Flow
<1>4. h \in {g, Finished(x)} /\ h \in Flow
  BY <1>3, FinishedType DEF ExecuteFallback
<1>5. Statement(x, written, h) /\ written \in [RunIds -> Run \cup {NoRun}]
  BY <1>2, SetType DEF FailRun
<1>6. runs' = written => Changes(x) /\ runs'[k].status = "failed"
  <2>1. runs' = written => Updates(x)
    BY <1>1, <1>2, StatusIsUpdate
  <2>2. runs[k] \in Run
    BY <1>2, RecordedType
  <2> QED
    BY <1>2, <2>1, <2>2 DEF Changes, TypeOK, Run
<1> HIDE DEF g, h, written
<1>7. ASSUME runs' = written, Go(x, g), TypeOK'
      PROVE  Strong'
  <2>1. flows'[x] = g
    BY <1>2, <1>7 DEF Go, TypeOK
  <2>2. FlowOK(x)'
    BY <1>1, <1>2, <1>3, <1>6, <1>7, <2>1, KeepsItsRuns DEF Active, Writing
  <2>3. ASSUME NEW a \in RunIds
        PROVE  CallCounted(x, a)'
    <3> SUFFICES ASSUME a = k
                 PROVE  CallCounted(x, a)'
      BY <1>3, <2>1 DEF CallCounted
    <3>1. CallCounted(x, a) /\ runs[a].status = "running"
      BY <1>1, <1>2 DEF Strong, Counted, Control, FlowOK
    <3>2. AtMostOne(Fallbacks(a)) /\ RunCounted(a)
      BY <1>2, <3>1 DEF Strong, Counted, RunCounted, Open
    <3>3. Fallbacks(a)' = Fallbacks(a)
      BY <1>1, <1>6, <1>7, FallbacksAfter
    <3>4. ~Open(a)'
      BY <1>6, <1>7 DEF Open
    <3> QED
      BY <1>1, <1>2, <1>3, <2>1, <3>1, <3>2, <3>3, <3>4 DEF CallCounted, AtMostOne
  <2> QED
    BY <1>1, <1>2, <1>3, <1>6, <1>7, <2>2, <2>3, GoStrong DEF Active
<1>8. ASSUME runs' = written, Go(x, Finished(x)), TypeOK'
      PROVE  Strong'
  BY <1>1, <1>6, <1>8, FinishedStrong
<1> QED
  BY <1>1, <1>4, <1>5, <1>6, <1>7, <1>8, StatementStrong

LEMMA CreateFallbackStep ==
  ASSUME Strong, NEW x \in Flows, CreateFallback(x)
  PROVE  Strong'
<1> DEFINE i == flows[x].request
           c == flows[x].agentRun
           g == [flows[x] EXCEPT !.pc = "diagnose", !.run = NewRun]
           written == Created("fallback", i, c)
<1>1. flows[x].pc = "createFallback" /\ flows[x].pc \in Active
  BY DEF CreateFallback, Active
<1>2. /\ flows[x] \in Flow /\ i \in IncidentIds /\ c \in Recorded /\ c \in RunIds
      /\ runs[c].actor = "agent" /\ (x = Recovery <=> ~runs[c].mine)
      /\ (x = Recovery => ~flows[x].inTry)
      /\ TypeOK /\ Table
  BY <1>1, AtWork DEF Strong, Control
<1>3. CASE NewRun \notin RunIds
  BY <1>1, <1>3, ThrowAlone DEF CreateFallback
<1>4. CASE NewRun \in RunIds
  <2>1. Statement(x, written, g)
    BY <1>4 DEF CreateFallback
  <2>2. /\ g \in Flow /\ g.pc = "diagnose" /\ g.agentRun = c /\ g.run = NewRun
        /\ g.inTry = flows[x].inTry /\ g.request = i
    BY <1>2, <1>4 DEF Flow
  <2>3. written \in [RunIds -> Run \cup {NoRun}]
    BY <1>2, CreatedType
  <2>4. runs' = written => Adds(x, "fallback", c)
    BY <1>2, <1>4, CreatedIsAdd
  <2>5. runs' = written => Changes(x)
    BY <1>1, <2>4 DEF Changes, AddsFor
  <2> HIDE DEF g, written
  <2>6. ASSUME runs' = written, Go(x, g), TypeOK'
        PROVE  Strong'
    <3>1. flows'[x] = g
      BY <1>2, <2>6 DEF Go, TypeOK
    <3>2. Adds(x, "fallback", c)
      BY <2>4, <2>6
    <3>3. /\ c # NewRun /\ c \in Recorded' /\ NewRun \in Recorded'
          /\ runs'[c].actor = "agent" /\ (x = Recovery <=> ~runs'[c].mine)
      BY <1>2, <3>2 DEF Adds, Kept
    <3>4. FlowOK(x)'
      BY <1>2, <2>2, <3>1, <3>2, <3>3 DEF FlowOK, Adds, Active, Writing
    <3>5. ASSUME NEW a \in RunIds
          PROVE  CallCounted(x, a)'
      <4> SUFFICES ASSUME a = c, g.inTry
                   PROVE  /\ AtMostOne(Fallbacks(a)')
                          /\ ~Open(a)'
        BY <2>2, <3>1, <3>3 DEF CallCounted, AtMostOne
      <4>1. CallCounted(x, a)
        BY DEF Strong, Counted
      <4>2. Fallbacks(a) = {} /\ ~Open(a)
        BY <1>1, <2>2, <4>1 DEF CallCounted
      <4>3. Fallbacks(a)' \in {Fallbacks(a), Fallbacks(a) \cup {NewRun}}
        BY <2>5, <2>6, FallbacksAfter
      <4>4. AtMostOne(Fallbacks(a)')
        BY <4>2, <4>3, OneMore DEF AtMostOne
      <4>5. ~Open(a)'
        BY <1>2, <2>5, <2>6, <4>2, NoneReopened DEF Strong, Open
      <4> QED
        BY <4>4, <4>5
    <3> QED
      BY <1>1, <1>2, <2>2, <2>5, <2>6, <3>4, <3>5, GoStrong DEF Active
  <2> QED
    BY <1>1, <2>1, <2>2, <2>3, <2>5, <2>6, StatementStrong
<1> QED
  BY <1>3, <1>4

LEMMA PersistOutcomeStep ==
  ASSUME Strong, NEW x \in Flows, PersistOutcome(x)
  PROVE  Strong'
<1> DEFINE f == [flows[x] EXCEPT !.toLink = {flows[x].agentRun, flows[x].run}]
           g(pc) == [f EXCEPT !.pc = pc]
<1>1. flows[x].pc \in {"investigate", "diagnose"}
      /\ flows[x].pc \in Active /\ flows[x].pc \in Writing
  BY DEF PersistOutcome, Active, Writing
<1>2. /\ flows[x] \in Flow /\ flows[x].agentRun \in RunIds /\ flows[x].run \in RunIds
      /\ runs[flows[x].run].status = "running" /\ (x = Recovery => ~flows[x].inTry)
  BY <1>1, AtWork DEF Strong, Control, FlowOK
<1>3. \A pc \in {"link", "attach"} :
        /\ g(pc) \in Flow /\ g(pc).pc = pc /\ g(pc).agentRun = flows[x].agentRun
        /\ g(pc).run = flows[x].run /\ g(pc).inTry = flows[x].inTry
        /\ g(pc).request = flows[x].request
        /\ g(pc).toLink = {flows[x].agentRun, flows[x].run}
  <2>1. {flows[x].agentRun, flows[x].run} \in SUBSET RunIds
    BY <1>2
  <2> QED
    BY <1>2, <2>1 DEF Flow
<1>4. \E pc \in {"link", "attach"} : Await(x, g(pc))
  BY DEF PersistOutcome
<1> HIDE DEF g
<1>5. ASSUME NEW pc \in {"link", "attach"}, runs' = runs, Go(x, g(pc)), TypeOK'
      PROVE  Strong'
  <2>1. flows'[x] = g(pc)
    BY <1>5 DEF Go, Strong, TypeOK
  <2>2. Changes(x)
    BY <1>5, SameIsUpdate DEF Changes
  <2>3. FlowOK(x)'
    BY <1>1, <1>2, <1>3, <1>5, <2>1, <2>2, KeepsItsRuns DEF Active
  <2>4. \A a \in RunIds : CallCounted(x, a)'
    BY <1>1, <1>3, <2>1, <2>2, KeepsItsCount
  <2> QED
    BY <1>1, <1>2, <1>3, <1>5, <2>2, <2>3, <2>4, GoStrong DEF Active
<1> QED
  BY <1>1, <1>3, <1>4, <1>5, AwaitStrong DEF Await

LEMMA AttachNarrativeStep ==
  ASSUME Strong, NEW x \in Flows, AttachNarrative(x)
  PROVE  Strong'
<1> DEFINE g == [flows[x] EXCEPT !.pc = "link"]
<1>1. flows[x].pc = "attach" /\ flows[x].pc \in Active /\ flows[x].pc \in Writing
  BY DEF AttachNarrative, Active, Writing
<1>2. /\ flows[x] \in Flow /\ runs[flows[x].run].status = "running"
      /\ flows[x].run \in flows[x].toLink
      /\ flows[x].toLink \subseteq {flows[x].agentRun, flows[x].run}
      /\ (x = Recovery => ~flows[x].inTry)
  BY <1>1, AtWork DEF Strong, Control, FlowOK, Linked
<1>3. /\ g \in Flow /\ g.pc = "link" /\ g.agentRun = flows[x].agentRun
      /\ g.run = flows[x].run /\ g.inTry = flows[x].inTry
      /\ g.request = flows[x].request /\ g.toLink = flows[x].toLink
  BY <1>2 DEF Flow
<1>4. runs' = runs /\ Changes(x) /\ source' \in [IncidentIds -> {"agent", "beam_search"}]
  BY SameIsUpdate DEF AttachNarrative, Changes, Strong, TypeOK, SourceOf
<1>5. Throw(x) \/ Go(x, g)
  BY DEF AttachNarrative
<1> HIDE DEF g
<1>6. ASSUME Go(x, g)
      PROVE  Strong'
  <2>1. TypeOK'
    BY <1>3, <1>4, <1>6, GoType DEF Strong, TypeOK
  <2>2. flows'[x] = g
    BY <1>6 DEF Go, Strong, TypeOK
  <2>3. FlowOK(x)'
    BY <1>1, <1>2, <1>3, <1>4, <2>2, KeepsItsRuns DEF Active
  <2>4. \A a \in RunIds : CallCounted(x, a)'
    BY <1>1, <1>3, <1>4, <2>2, KeepsItsCount
  <2> QED
    BY <1>1, <1>2, <1>3, <1>4, <1>6, <2>1, <2>3, <2>4, GoStrong DEF Active
<1>7. ASSUME Throw(x)
      PROVE  Strong'
  <2>1. TypeOK'
    BY <1>4, <1>7, ThrowType DEF Strong, Control, TypeOK
  <2> QED
    BY <1>1, <1>4, <1>7, <2>1, ThrowStrong
<1> QED
  BY <1>5, <1>6, <1>7

LEMMA LinkRunStep ==
  ASSUME Strong, NEW x \in Flows, LinkRun(x)
  PROVE  Strong'
<1> DEFINE f == flows[x]
<1>1. f.pc = "link" /\ f.pc \in Active /\ f.pc \in Writing
  BY DEF LinkRun, Active, Writing
<1>2. /\ f \in Flow /\ f.agentRun \in Recorded /\ f.run \in Recorded
      /\ runs[f.run].status = "running"
      /\ f.toLink \subseteq {f.agentRun, f.run} /\ f.toLink \subseteq RunIds
      /\ f.run \in f.toLink \/ runs[f.run].linked
      /\ (x = Recovery => ~f.inTry) /\ TypeOK
  BY <1>1, AtWork DEF Strong, Control, FlowOK, Linked, Flow
<1>3. PICK r \in f.toLink :
        Statement(x, [runs EXCEPT ![r].linked = TRUE],
          [f EXCEPT !.toLink = @ \ {r}, !.pc = IF f.toLink = {r} THEN "complete" ELSE "link"])
  BY DEF LinkRun
<1> DEFINE pc == IF f.toLink = {r} THEN "complete" ELSE "link"
           left == f.toLink \ {r}
           g == [f EXCEPT !.toLink = left, !.pc = pc]
           written == [runs EXCEPT ![r].linked = TRUE]
<1>4. /\ g \in Flow /\ g.pc = pc /\ g.agentRun = f.agentRun /\ g.run = f.run
      /\ g.inTry = f.inTry /\ g.request = f.request /\ g.toLink = left
  <2>1. left \in SUBSET RunIds
    BY <1>2
  <2> QED
    BY <1>2, <2>1 DEF Flow
<1>5. Statement(x, written, g)
  BY <1>3
<1>6. r \in Recorded
  BY <1>2
<1>7. written \in [RunIds -> Run \cup {NoRun}]
  BY <1>2, <1>6, SetType
<1>8. runs' = written => Changes(x) /\ runs'[r].linked
  BY <1>2, <1>6, LinkIsUpdate DEF Changes
<1>9. runs' = written => runs'[f.run].status = "running"
  BY <1>2, <1>6, RecordedType DEF TypeOK, Run
<1> HIDE DEF g, written
<1>10. ASSUME runs' = written, Go(x, g), TypeOK'
       PROVE  Strong'
  <2>1. flows'[x] = g
    BY <1>2, <1>10 DEF Go, TypeOK
  <2>2. FlowOK(x)'
    BY <1>1, <1>2, <1>4, <1>8, <1>9, <1>10, <2>1, KeepsItsRuns DEF Active
  <2>3. \A a \in RunIds : CallCounted(x, a)'
    BY <1>1, <1>4, <1>8, <1>10, <2>1, KeepsItsCount
  <2>4. f.run \in left \/ runs'[f.run].linked
    BY <1>2, <1>8, <1>10, ChangesKeep DEF Kept
  <2>5. f.toLink = {r} => runs'[f.run].linked
    BY <2>4
  <2> QED
    BY <1>1, <1>2, <1>4, <1>8, <1>10, <2>2, <2>3, <2>4, <2>5, GoStrong DEF Active
<1> QED
  BY <1>1, <1>4, <1>5, <1>7, <1>8, <1>10, StatementStrong

LEMMA CompleteRunStep ==
  ASSUME Strong, NEW x \in Flows, CompleteRun(x)
  PROVE  Strong'
<1> DEFINE f == flows[x]
           g == [f EXCEPT !.pc = "relink"]
           h == IF IsFallback(f) THEN Finished(x) ELSE g
           written == [runs EXCEPT ![f.run].status = "completed"]
<1>1. f.pc = "complete" /\ f.pc \in Active /\ f.pc \in Writing
  BY DEF CompleteRun, Active, Writing
<1>2. /\ f \in Flow /\ f.agentRun \in Recorded /\ f.run \in Recorded /\ runs[f.run].mine
      /\ (x = Recovery <=> ~runs[f.agentRun].mine) /\ TypeOK
  BY <1>1, AtWork DEF Strong, Control, FlowOK
<1>3. /\ g \in Flow /\ g.pc = "relink" /\ g.agentRun = f.agentRun /\ g.run = f.run
      /\ g.inTry = f.inTry /\ g.request = f.request
  BY <1>2 DEF Flow
<1>4. h \in Flow /\ h = IF f.run # f.agentRun THEN Finished(x) ELSE g
  BY <1>3, FinishedType DEF IsFallback
<1>5. Statement(x, written, h)
  BY DEF CompleteRun
<1>6. written \in [RunIds -> Run \cup {NoRun}]
  BY <1>2, SetType
<1>7. runs' = written => Changes(x)
  BY <1>1, <1>2, StatusIsUpdate DEF Changes
<1> HIDE DEF g, h, written
<1>8. ASSUME runs' = written, Go(x, g), TypeOK', f.run = f.agentRun
      PROVE  Strong'
  <2>1. flows'[x] = g
    BY <1>2, <1>8 DEF Go, TypeOK
  <2>2. x # Recovery
    BY <1>2, <1>8
  <2>3. FlowOK(x)'
    BY <1>1, <1>3, <1>7, <1>8, <2>1, KeepsItsRuns DEF Active, Writing
  <2>4. \A a \in RunIds : CallCounted(x, a)'
    BY <1>1, <1>3, <1>7, <1>8, <2>1, KeepsItsCount
  <2> QED
    BY <1>1, <1>3, <1>7, <1>8, <2>2, <2>3, <2>4, GoStrong DEF Active
<1>9. ASSUME runs' = written, Go(x, Finished(x)), TypeOK'
      PROVE  Strong'
  BY <1>1, <1>7, <1>9, FinishedStrong
<1>10. ASSUME runs' = written, Go(x, h), TypeOK'
       PROVE  Strong'
  BY <1>4, <1>8, <1>9, <1>10
<1> QED
  BY <1>1, <1>4, <1>5, <1>6, <1>7, <1>10, StatementStrong

LEMMA RelinkRunStep ==
  ASSUME Strong, NEW x \in Flows, RelinkRun(x)
  PROVE  Strong'
<1> DEFINE k == flows[x].run
           written == [runs EXCEPT ![k].linked = TRUE]
<1>1. flows[x].pc = "relink" /\ flows[x].pc \in Active
  BY DEF RelinkRun, Active
<1>2. k \in Recorded /\ TypeOK
  BY <1>1, AtWork DEF Strong
<1>3. Statement(x, written, Finished(x)) /\ Finished(x) \in Flow
  BY FinishedType DEF RelinkRun
<1>4. written \in [RunIds -> Run \cup {NoRun}]
  BY <1>2, SetType
<1>5. runs' = written => Changes(x)
  BY <1>2, LinkIsUpdate DEF Changes
<1> HIDE DEF written
<1>6. ASSUME runs' = written, Go(x, Finished(x)), TypeOK'
      PROVE  Strong'
  BY <1>1, <1>5, <1>6, FinishedStrong
<1> QED
  BY <1>1, <1>3, <1>4, <1>5, <1>6, StatementStrong

LEMMA FlowStepStrong ==
  ASSUME Strong, NEW x \in Flows, FlowStep(x)
  PROVE  Strong'
BY CreateRunStep, InvestigateStep, FailRunStep, CreateFallbackStep, PersistOutcomeStep,
   AttachNarrativeStep, LinkRunStep, CompleteRunStep, RelinkRunStep DEF FlowStep

------------------------------------------------------------------------------
(* The process: its end, its start, its recovery, and a new signal. *)

\* Rows may be closed as failed, and nothing else.
Shuts ==
  /\ Recorded' = Recorded /\ Kept
  /\ \A r \in Recorded : runs'[r].status \in {runs[r].status, "failed"}

LEMMA SameShuts ==
  ASSUME runs' = runs
  PROVE  Shuts
BY DEF Shuts, Kept, Recorded

LEMMA FailedShuts ==
  ASSUME TypeOK, NEW k \in Recorded, runs' = [runs EXCEPT ![k].status = "failed"]
  PROVE  /\ Shuts /\ runs'[k].status = "failed"
         /\ \A r \in Recorded : r # k => runs'[r].status = runs[r].status
<1>1. k \in RunIds /\ runs[k] \in Run
  BY RecordedType
<1>2. \A r \in RunIds : r # k => runs'[r] = runs[r]
  BY DEF TypeOK
<1>3. runs'[k] = [runs[k] EXCEPT !.status = "failed"]
  BY <1>1 DEF TypeOK
<1>4. /\ runs'[k].status = "failed" /\ runs'[k].actor = runs[k].actor
      /\ runs'[k].cause = runs[k].cause /\ runs'[k].request = runs[k].request
      /\ runs'[k].mine = runs[k].mine /\ runs'[k].linked = runs[k].linked
  BY <1>1, <1>3 DEF Run
<1>5. runs'[k] # NoRun
  BY <1>4, NoRunIsNoRun
<1>6. Recorded' = Recorded
  BY <1>1, <1>2, <1>5, NoRunIsNoRun DEF Recorded
<1> QED
  BY <1>2, <1>4, <1>6 DEF Shuts, Kept, Recorded

LEMMA ShutFallbacks ==
  ASSUME Shuts, NEW a
  PROVE  Fallbacks(a)' = Fallbacks(a)
BY DEF Shuts, Kept, Fallbacks

LEMMA ShutRows ==
  ASSUME Strong, Shuts
  PROVE  /\ Table' /\ CompletedIsLinked' /\ InvestigatedOnce'
         /\ \A a \in Recorded' : RunCounted(a)'
<1>1. Table'
  <2>1. Recorded' = Recorded /\ \A r \in Recorded : runs'[r].cause = runs[r].cause
    BY DEF Shuts, Kept
  <2> QED
    BY <2>1 DEF Strong, Control, Table
<1>2. CompletedIsLinked'
  BY DEF Strong, Linked, CompletedIsLinked, Shuts, Kept
<1>3. InvestigatedOnce'
  <2>1. InvestigatedOnce /\ Recorded' = Recorded /\ Kept
    BY DEF Strong, Taken, Shuts
  <2> QED
    BY <2>1 DEF InvestigatedOnce, Kept
<1>4. ASSUME NEW a \in Recorded'
      PROVE  RunCounted(a)'
  <2>1. a \in Recorded /\ RunCounted(a) /\ Fallbacks(a)' = Fallbacks(a)
    BY <1>4, ShutFallbacks DEF Shuts, Strong, Counted
  <2>2. runs'[a].actor = runs[a].actor /\ (Open(a)' => Open(a))
    BY <2>1 DEF Shuts, Kept, Open
  <2> QED
    BY <2>1, <2>2 DEF RunCounted, AtMostOne, AtMostTwo
<1> QED
  BY <1>1, <1>2, <1>3, <1>4

LEMMA ExitStrong ==
  ASSUME Strong, Exit, source' = source, Shuts, runs' \in [RunIds -> Run \cup {NoRun}]
  PROVE  Strong'
<1>1. TypeOK'
  BY ExitType DEF Strong, TypeOK
<1> QED
  BY <1>1, ShutRows, ExitControl, ExitLinked, ExitTaken, ExitCounted DEF Strong

LEMMA FailToCloseStep ==
  ASSUME Strong, NEW r \in RunIds, FailToClose(r)
  PROVE  Strong'
<1>1. r \in Recorded /\ TypeOK
  BY DEF FailToClose, Strong, Control, Orphaned, Running
<1>2. /\ Exit /\ source' = source
      /\ runs' \in {runs, [runs EXCEPT ![r].status = "failed"]}
  BY DEF FailToClose
<1>3. Shuts
  BY <1>1, <1>2, SameShuts, FailedShuts
<1>4. runs' \in [RunIds -> Run \cup {NoRun}]
  BY <1>1, <1>2, SetType DEF TypeOK
<1> QED
  BY <1>2, <1>3, <1>4, ExitStrong

LEMMA CrashStep ==
  ASSUME Strong, Crash \/ FailToList
  PROVE  Strong'
BY SameShuts, ExitStrong DEF Crash, FailToList, Strong, TypeOK

\* Nothing but the calls' stages changes, and none of them becomes active.
LEMMA FreshProcess ==
  ASSUME Strong, ~up
  PROVE  \A x \in Flows : flows[x].pc = "idle" /\ ~flows[x].inTry
BY DEF Strong, Control, Memory, FlowOK, Active

LEMMA StartStep ==
  ASSUME Strong, Start
  PROVE  Strong'
<1> DEFINE g == [Idle EXCEPT !.pc = "list"]
<1>1. TypeOK /\ \A x \in Flows : flows[x].pc = "idle" /\ ~flows[x].inTry
  BY FreshProcess DEF Start, Strong
<1>2. g \in Flow /\ g.pc = "list" /\ ~g.inTry
  BY IdleType DEF Flow
<1>3. Recovery \in Flows /\ Calls \subseteq Flows /\ \A c \in Calls : c # Recovery
  BY CoordinatorAssumption DEF Flows
<1>4. /\ flows'[Recovery] = g
      /\ \A x \in Flows : x # Recovery => flows'[x] = flows[x]
      /\ flows' \in [Flows -> Flow]
  BY <1>1, <1>2, <1>3 DEF Start, TypeOK
<1> HIDE DEF g
<1>5. \A x \in Flows : flows'[x].pc \in {"idle", "list"} /\ ~flows'[x].inTry
  BY <1>1, <1>2, <1>4
<1>6. ASSUME NEW r \in Recorded
      PROVE  /\ runs'[r] \in Run
             /\ ~runs'[r].mine /\ runs'[r].actor = runs[r].actor /\ runs'[r].cause = runs[r].cause
             /\ runs'[r].status = runs[r].status /\ runs'[r].linked = runs[r].linked
  <2>1. r \in RunIds /\ runs[r] \in Run
    BY <1>1, RecordedType
  <2>2. runs'[r] = [runs[r] EXCEPT !.mine = FALSE]
    BY <2>1 DEF Start
  <2> QED
    BY <2>1, <2>2 DEF Run
<1>7. /\ \A r \in RunIds \ Recorded : runs'[r] = NoRun
      /\ runs' \in [RunIds -> Run \cup {NoRun}]
      /\ Recorded' = Recorded
  <2>1. \A r \in RunIds \ Recorded : runs'[r] = NoRun
    BY DEF Start, Recorded
  <2>2. Recorded' = Recorded
    BY <1>6, <2>1, NoRunIsNoRun DEF Recorded
  <2>3. runs' \in [RunIds -> Run \cup {NoRun}]
    BY <1>6, <2>1 DEF Start
  <2> QED
    BY <2>1, <2>2, <2>3
<1>8. TypeOK'
  BY <1>1, <1>4, <1>7 DEF Start, TypeOK
<1>9. Control'
  <2>1. Table'
    BY <1>6, <1>7 DEF Strong, Control, Table
  <2>2. (\A x \in Flows : FlowOK(x))' /\ Separate'
    BY <1>5 DEF FlowOK, Separate, Active, Writing
  <2>3. Roles'
    BY <1>1, <1>2, <1>3, <1>4, <1>5 DEF Roles
  <2>4. Memory'
    BY <1>1, <1>3, <1>4, <1>6, <1>7 DEF Memory, Start
  <2>5. Orphaned'
    BY <1>2, <1>4 DEF Orphaned, Start, Strong, Control, Memory
  <2> QED
    BY <2>1, <2>2, <2>3, <2>4, <2>5 DEF Control
<1>10. Linked'
  BY <1>5, <1>6, <1>7 DEF Strong, Linked, CompletedIsLinked
<1>11. Taken'
  BY <1>5, <1>6, <1>7 DEF Taken, InvestigatedOnce, Mine
<1>12. Counted'
  <2>1. \A a : Fallbacks(a)' = Fallbacks(a)
    BY <1>6, <1>7 DEF Fallbacks
  <2>2. ASSUME NEW a \in Recorded'
        PROVE  RunCounted(a)'
    <3>1. a \in Recorded /\ RunCounted(a)
      BY <1>7, <2>2 DEF Strong, Counted
    <3> QED
      BY <1>6, <2>1, <3>1 DEF RunCounted, Open, AtMostOne, AtMostTwo
  <2> QED
    BY <1>5, <2>2 DEF Counted, CallCounted, Active
<1> QED
  BY <1>8, <1>9, <1>10, <1>11, <1>12 DEF Strong

\* A call that works on no run goes over to a stage that works on none.
LEMMA PassiveStep ==
  ASSUME Strong, runs' = runs, NEW x \in Flows, NEW g \in Flow,
         flows' = [flows EXCEPT ![x] = g], g.pc \notin Active, ~g.inTry,
         g.pc = "create" => g.request \in IncidentIds /\ x # Recovery,
         x # Recovery => g.pc \notin {"list", "close"}
  PROVE  /\ flows' \in [Flows -> Flow] /\ flows'[x] = g
         /\ \A y \in Flows : y # x => flows'[y] = flows[y]
         /\ Recorded' = Recorded
         /\ Table' /\ (\A y \in Flows : FlowOK(y))' /\ Roles' /\ Separate'
         /\ Linked' /\ Counted' /\ InvestigatedOnce'
<1>1. TypeOK /\ Control /\ Linked /\ Counted
  BY DEF Strong
<1>2. /\ flows' \in [Flows -> Flow] /\ flows'[x] = g
      /\ \A y \in Flows : y # x => flows'[y] = flows[y]
  BY <1>1 DEF TypeOK
<1>3. Shuts /\ Recorded' = Recorded
  BY SameShuts DEF Shuts
<1>4. ASSUME NEW y \in Flows
      PROVE  FlowOK(y)'
  <2>1. CASE y = x
    BY <1>2, <2>1 DEF FlowOK, Active, Writing
  <2>2. CASE y # x
    <3>1. flows'[y] = flows[y] /\ FlowOK(y)
      BY <1>1, <1>2, <2>2 DEF Control
    <3> QED
      BY <1>3, <3>1 DEF FlowOK
  <2> QED
    BY <2>1, <2>2
<1>5. Roles'
  <2>1. Recovery \in Flows /\ Calls \subseteq Flows
    BY DEF Flows
  <2> QED
    BY <1>1, <1>2, <2>1, CoordinatorAssumption DEF Control, Roles, Active
<1>6. Separate'
  BY <1>1, <1>2 DEF Control, Separate
<1>7. Linked'
  <2>1. \A y \in Flows : flows'[y].pc \in {"attach", "link", "complete"} => flows'[y] = flows[y]
    BY <1>2 DEF Active
  <2> QED
    BY <1>1, <1>3, <2>1 DEF Linked, CompletedIsLinked
<1>8. Counted'
  <2>1. \A a : Fallbacks(a)' = Fallbacks(a)
    BY <1>3, ShutFallbacks
  <2>2. ASSUME NEW y \in Flows, NEW a \in RunIds
        PROVE  CallCounted(y, a)'
    <3>1. CASE y = x
      BY <1>2, <3>1 DEF CallCounted
    <3>2. CASE y # x
      BY <1>1, <1>2, <2>1, <3>2 DEF Counted, CallCounted, Open, AtMostOne
    <3> QED
      BY <3>1, <3>2
  <2> QED
    BY <1>3, <2>2, ShutRows DEF Counted
<1> QED
  BY <1>2, <1>3, <1>4, <1>5, <1>6, <1>7, <1>8, ShutRows

LEMMA ListOrphanRunsStep ==
  ASSUME Strong, ListOrphanRuns
  PROVE  Strong'
<1> DEFINE g == [flows[Recovery] EXCEPT !.pc = "close"]
<1>1. TypeOK /\ Recovery \in Flows /\ flows[Recovery] \in Flow /\ flows[Recovery].pc = "list" /\ up
  BY DEF Strong, TypeOK, Flows, ListOrphanRuns, Control, Memory
<1>2. ~flows[Recovery].inTry
  BY DEF Strong, Control, Roles
<1>3. g \in Flow /\ g.pc = "close" /\ ~g.inTry
  BY <1>1, <1>2 DEF Flow
<1>4. flows' = [flows EXCEPT ![Recovery] = g]
  BY <1>1 DEF ListOrphanRuns, TypeOK
<1> HIDE DEF g
<1>5. /\ flows' \in [Flows -> Flow] /\ flows'[Recovery] = g
      /\ \A y \in Flows : y # Recovery => flows'[y] = flows[y]
      /\ Recorded' = Recorded
      /\ Table' /\ (\A y \in Flows : FlowOK(y))' /\ Roles' /\ Separate'
      /\ Linked' /\ Counted' /\ InvestigatedOnce'
  BY <1>1, <1>3, <1>4, PassiveStep DEF ListOrphanRuns, Active
<1>6. TypeOK'
  BY <1>1, <1>5 DEF ListOrphanRuns, TypeOK, Running, Recorded
<1>7. Memory'
  BY <1>1, <1>3, <1>5 DEF Memory, ListOrphanRuns
<1>8. Orphaned'
  <2>1. \A r \in Running : ~runs[r].mine
    BY <1>1 DEF Strong, Control, Memory, Running
  <2> QED
    BY <1>3, <1>5, <2>1 DEF Orphaned, ListOrphanRuns, Running
<1>9. Taken'
  BY <1>3, <1>5 DEF Strong, Taken, Mine, ListOrphanRuns
<1> QED
  BY <1>5, <1>6, <1>7, <1>8, <1>9 DEF Strong, Control

LEMMA RecoveredStep ==
  ASSUME Strong, Recovered
  PROVE  Strong'
<1>1. TypeOK /\ Recovery \in Flows /\ up /\ flows[Recovery].pc = "close"
  BY DEF Strong, TypeOK, Flows, Recovered, Control, Memory
<1>2. flows' = [flows EXCEPT ![Recovery] = Idle] /\ UNCHANGED <<up, runs, source, investigated, orphans>>
  BY DEF Recovered, Go
<1>3. /\ flows' \in [Flows -> Flow] /\ flows'[Recovery] = Idle
      /\ \A y \in Flows : y # Recovery => flows'[y] = flows[y]
      /\ Recorded' = Recorded
      /\ Table' /\ (\A y \in Flows : FlowOK(y))' /\ Roles' /\ Separate'
      /\ Linked' /\ Counted' /\ InvestigatedOnce'
  BY <1>1, <1>2, IdleType, PassiveStep DEF Active
<1>4. TypeOK'
  BY <1>1, <1>2, <1>3 DEF TypeOK
<1>5. Memory'
  BY <1>1, <1>2, <1>3, IdleType DEF Memory
<1>6. Orphaned'
  BY <1>1, <1>2, <1>3, IdleType DEF Orphaned, Strong, Control, Recovered, Running
<1>7. Taken'
  BY <1>2, <1>3, IdleType DEF Strong, Taken, Mine
<1> QED
  BY <1>3, <1>4, <1>5, <1>6, <1>7 DEF Strong, Control

LEMMA HandleSignalStep ==
  ASSUME Strong, NEW c \in Calls, NEW i \in IncidentIds, HandleSignal(c, i)
  PROVE  Strong'
<1> DEFINE g == [Idle EXCEPT !.pc = "create", !.request = i]
<1>1. /\ TypeOK /\ c \in Flows /\ c # Recovery /\ Recovery \in Flows /\ Calls \subseteq Flows
      /\ up /\ flows[Recovery].pc # "list" /\ i \notin investigated
  BY CoordinatorAssumption DEF Strong, Flows, HandleSignal
<1>2. g \in Flow /\ g.pc = "create" /\ ~g.inTry /\ g.request = i
  BY IdleType DEF Flow
<1>3. /\ flows' = [flows EXCEPT ![c] = g] /\ investigated' = investigated \cup {i}
      /\ UNCHANGED <<up, runs, source, orphans>>
  BY DEF HandleSignal
<1> HIDE DEF g
<1>4. /\ flows' \in [Flows -> Flow] /\ flows'[c] = g
      /\ \A y \in Flows : y # c => flows'[y] = flows[y]
      /\ Recorded' = Recorded
      /\ Table' /\ (\A y \in Flows : FlowOK(y))' /\ Roles' /\ Separate'
      /\ Linked' /\ Counted' /\ InvestigatedOnce'
  BY <1>1, <1>2, <1>3, PassiveStep DEF Active
<1>5. TypeOK'
  BY <1>1, <1>3, <1>4 DEF TypeOK
<1>6. Memory'
  BY <1>1, <1>3, <1>4 DEF Memory
<1>7. Orphaned'
  BY <1>1, <1>3, <1>4 DEF Orphaned, Strong, Control, Running
<1>8. Taken'
  <2>1. \A r \in Recorded : Mine(r) => runs[r].request \in investigated
    BY <1>1 DEF Strong, Taken
  <2>2. \A x \in Flows : flows[x].pc = "create" => flows[x].request \in investigated
    BY DEF Strong, Taken
  <2>3. ASSUME NEW x \in Flows, flows'[x].pc = "create"
        PROVE  /\ flows'[x].request \in investigated'
               /\ \A r \in Recorded' : Mine(r)' => runs'[r].request # flows'[x].request
               /\ \A y \in Flows : flows'[y].pc = "create" /\ flows'[y].request = flows'[x].request
                    => x = y
    <3>1. CASE x = c
      BY <1>1, <1>2, <1>3, <1>4, <2>1, <2>2, <3>1 DEF Mine
    <3>2. CASE x # c
      <4>1. flows'[x] = flows[x] /\ flows[x].request # i
        BY <1>1, <1>4, <2>2, <2>3, <3>2
      <4> QED
        BY <1>2, <1>3, <1>4, <2>3, <4>1 DEF Strong, Taken, Mine
    <3> QED
      BY <3>1, <3>2
  <2> QED
    BY <1>3, <1>4, <2>1, <2>3 DEF Taken, Mine
<1> QED
  BY <1>4, <1>5, <1>6, <1>7, <1>8 DEF Strong, Control

\* What recovery does with an orphan it has closed: nothing, or a fallback in the
\* orphan's place.
LEMMA AfterClosingType ==
  ASSUME TypeOK, NEW r \in Recorded
  PROVE  /\ AfterClosing(r) \in Flow /\ ~AfterClosing(r).inTry
         /\ \/ AfterClosing(r).pc = "close"
            \/ /\ AfterClosing(r).pc = "createFallback" /\ runs[r].actor = "agent"
               /\ AfterClosing(r).agentRun = r /\ AfterClosing(r).run = r
               /\ AfterClosing(r).request \in IncidentIds
<1> DEFINE f == [Idle EXCEPT !.request = runs[r].request, !.agentRun = r, !.run = r]
           h == [f EXCEPT !.pc = "createFallback", !.toLink = {}]
<1>1. r \in RunIds /\ runs[r] \in Run /\ runs[r].request \in IncidentIds
      /\ runs[r].actor \in {"agent", "fallback"}
  BY RecordedType DEF Run
<1>2. /\ f \in Flow /\ ~f.inTry /\ f.agentRun = r /\ f.run = r /\ f.request = runs[r].request
  BY <1>1, IdleType DEF Flow
<1> HIDE DEF f
<1>3. /\ h \in Flow /\ ~h.inTry /\ h.pc = "createFallback" /\ h.agentRun = r /\ h.run = r
      /\ h.request = runs[r].request
  BY <1>2 DEF Flow
<1>4. /\ Finished(Recovery) \in Flow /\ ~Finished(Recovery).inTry
      /\ Finished(Recovery).pc = "close"
  BY FinishedType DEF Flows
<1>5. AfterClosing(r) \in {Finished(Recovery), h}
  BY DEF AfterClosing, ExecuteFallback, f
<1>6. AfterClosing(r) = h => runs[r].actor = "agent" \/ h = Finished(Recovery)
  BY <1>1 DEF AfterClosing
<1> HIDE DEF h
<1> QED
  BY <1>1, <1>3, <1>4, <1>5, <1>6

LEMMA CloseOrphanStep ==
  ASSUME Strong, NEW r \in RunIds, CloseOrphan(r)
  PROVE  Strong'
<1> DEFINE g == AfterClosing(r)
<1>1. /\ TypeOK /\ Control /\ up /\ flows[Recovery].pc = "close"
      /\ Recovery \in Flows /\ Calls \subseteq Flows /\ \A c \in Calls : c # Recovery
  BY CoordinatorAssumption DEF Strong, Control, Memory, CloseOrphan, Flows
<1>2. r \in orphans /\ r \in Recorded /\ runs[r].status = "running" /\ ~runs[r].mine
  BY <1>1 DEF CloseOrphan, Control, Orphaned, Running
<1>3. /\ g \in Flow /\ ~g.inTry
      /\ \/ g.pc = "close"
         \/ /\ g.pc = "createFallback" /\ runs[r].actor = "agent"
            /\ g.agentRun = r /\ g.run = r /\ g.request \in IncidentIds
  BY <1>1, <1>2, AfterClosingType
<1>4. /\ runs' = [runs EXCEPT ![r].status = "failed"]
      /\ flows' = [flows EXCEPT ![Recovery] = g]
      /\ orphans' = orphans \ {r} /\ UNCHANGED <<up, source, investigated>>
  BY DEF CloseOrphan
<1> HIDE DEF g
<1>5. /\ flows' \in [Flows -> Flow] /\ flows'[Recovery] = g
      /\ \A y \in Flows : y # Recovery => flows'[y] = flows[y]
  BY <1>1, <1>3, <1>4 DEF TypeOK
<1>6. /\ Shuts /\ Recorded' = Recorded /\ Kept /\ runs'[r].status = "failed"
      /\ \A q \in Recorded : q # r => runs'[q].status = runs[q].status
  BY <1>1, <1>2, <1>4, FailedShuts DEF Shuts
<1>7. TypeOK'
  BY <1>1, <1>2, <1>4, <1>5, SetType DEF TypeOK
<1>8. ASSUME NEW y \in Flows
      PROVE  FlowOK(y)'
  <2>1. CASE y = Recovery
    BY <1>2, <1>3, <1>5, <1>6, <2>1 DEF FlowOK, Kept, Active, Writing
  <2>2. CASE y # Recovery
    <3>1. flows'[y] = flows[y] /\ FlowOK(y)
      BY <1>1, <1>5, <2>2 DEF Control
    <3>2. flows[y].pc \in Writing => flows[y].run # r /\ flows[y].run \in Recorded
      BY <1>2, <3>1 DEF FlowOK, Writing
    <3>3. flows[y].pc \in Writing => /\ runs'[flows[y].run].status = "running"
                                     /\ runs'[flows[y].run].mine
      BY <1>6, <3>1, <3>2 DEF FlowOK, Kept
    <3> QED
      BY <1>6, <3>1, <3>3 DEF FlowOK, Kept
  <2> QED
    BY <2>1, <2>2
<1>9. Roles'
  BY <1>1, <1>3, <1>5 DEF Control, Roles
<1>10. Separate'
  <2>1. ASSUME NEW y \in Flows, y # Recovery, flows[y].pc \in Active
        PROVE  flows[y].agentRun # r
    BY <1>1, <1>2, <2>1 DEF Control, FlowOK
  <2> QED
    BY <1>1, <1>3, <1>5, <2>1 DEF Control, Separate, Active
<1>11. Memory'
  BY <1>1, <1>3, <1>4, <1>5 DEF Memory
<1>12. Orphaned'
  <2>1. \A q \in orphans : q \in Recorded /\ runs[q].status = "running" /\ ~runs[q].mine
    BY <1>1 DEF Control, Orphaned, Running
  <2>2. \A q \in Recorded : runs[q].status = "running" => runs[q].mine \/ q \in orphans
    BY <1>1 DEF Control, Orphaned, Running
  <2> QED
    BY <1>3, <1>4, <1>5, <1>6, <2>1, <2>2 DEF Orphaned, Running, Kept
<1>13. Linked'
  <2>1. \A y \in Flows : flows'[y].pc \in {"attach", "link", "complete"} => flows'[y] = flows[y]
    BY <1>3, <1>5
  <2>2. \A y \in Flows : flows[y].pc \in {"link", "complete"} => flows[y].run \in Recorded
    BY <1>1 DEF Control, FlowOK, Active
  <2> QED
    BY <1>6, <2>1, <2>2, ShutRows DEF Strong, Linked, Kept
<1>14. Taken'
  <2>1. \A y \in Flows : flows'[y].pc = "create" => flows'[y] = flows[y]
    BY <1>3, <1>5
  <2> QED
    BY <1>4, <1>6, <2>1, ShutRows DEF Strong, Taken, Kept, Mine
<1>15. Counted'
  <2>1. ASSUME NEW y \in Flows, NEW a \in RunIds
        PROVE  CallCounted(y, a)'
    <3>1. Fallbacks(a)' = Fallbacks(a)
      BY <1>6, ShutFallbacks
    <3>2. CASE y = Recovery
      <4>1. AtMostOne(Fallbacks(r))
        BY <1>2 DEF Strong, Counted, RunCounted, Open
      <4> QED
        BY <1>3, <1>5, <1>6, <3>1, <3>2, <4>1 DEF CallCounted, Open, AtMostOne, Active
    <3>3. CASE y # Recovery
      <4> SUFFICES ASSUME flows[y].pc \in Active, flows[y].agentRun = a
                   PROVE  CallCounted(y, a)'
        BY <1>5, <3>3 DEF CallCounted
      <4>1. CallCounted(y, a) /\ a \in Recorded
        BY <1>1 DEF Strong, Counted, Control, FlowOK
      <4>2. Open(a)' => Open(a)
        BY <1>6, <4>1 DEF Open
      <4> QED
        BY <1>5, <3>1, <3>3, <4>1, <4>2 DEF CallCounted, AtMostOne
    <3> QED
      BY <3>2, <3>3
  <2> QED
    BY <1>6, <2>1, ShutRows DEF Counted
<1>16. Table'
  BY <1>6, ShutRows
<1> QED
  BY <1>7, <1>8, <1>9, <1>10, <1>11, <1>12, <1>13, <1>14, <1>15, <1>16 DEF Strong, Control

------------------------------------------------------------------------------
(* The theorems. *)

LEMMA StrongInit == Init => Strong
BY TypeInit, ControlInit, LinkedInit, TakenInit, CountedInit DEF Strong

LEMMA StrongStep == Strong /\ [Next]_vars => Strong'
<1> SUFFICES ASSUME Strong, [Next]_vars
             PROVE  Strong'
  OBVIOUS
<1>1. CASE UNCHANGED vars
  BY <1>1 DEF vars, Strong, TypeOK, Control, Table, FlowOK, Roles, Separate, Memory, Orphaned,
       Linked, CompletedIsLinked, Taken, InvestigatedOnce, Mine, Counted, RunCounted, CallCounted,
       Fallbacks, Open, AtMostOne, AtMostTwo, Recorded, Running
<1> QED
  BY <1>1, StartStep, CrashStep, ListOrphanRunsStep, RecoveredStep, CloseOrphanStep,
     FailToCloseStep, HandleSignalStep, FlowStepStrong DEF Next

LEMMA StrongAlways == Spec => []Strong
BY StrongInit, StrongStep, PTL DEF Spec

\* Runs, calls and lists keep their types, for any incidents, calls and bound on runs.
THEOREM TypeSafety == Spec => []TypeOK
<1>1. Strong => TypeOK
  BY DEF Strong
<1> QED
  BY <1>1, StrongAlways, PTL

\* A completed run can be found from its incident.
THEOREM CompletedRunsAreLinked == Spec => []CompletedIsLinked
<1>1. Strong => CompletedIsLinked
  BY DEF Strong, Linked
<1> QED
  BY <1>1, StrongAlways, PTL

\* An incident is investigated once by each process.
THEOREM OneInvestigation == Spec => []InvestigatedOnce
<1>1. Strong => InvestigatedOnce
  BY DEF Strong, Taken
<1> QED
  BY <1>1, StrongAlways, PTL

\* Once recovery is through, every run in `running` is one of this process.
THEOREM NoOrphanIsLeft == Spec => []RecoveryLeavesNoOrphan
<1>1. Strong => RecoveryLeavesNoOrphan
  BY DEF Strong, Control, Orphaned, RecoveryLeavesNoOrphan
<1> QED
  BY <1>1, StrongAlways, PTL

LEMMA TwoAtMost ==
  ASSUME NEW S, AtMostTwo(S)
  PROVE  Cardinality(S) <= 2
<1>1. CASE S = {}
  BY <1>1, FS_EmptySet
<1>2. CASE S # {}
  <2>1. PICK s : s \in S
    BY <1>2
  <2>2. CASE S = {s}
    <3>1. Cardinality({s}) = 1
      BY FS_Singleton
    <3>2. Cardinality(S) = 1
      BY <2>2, <3>1, Zenon
    <3> QED
      BY <3>2
  <2>3. CASE S # {s}
    <3>1. PICK t : t \in S /\ t # s
      BY <2>1, <2>3
    <3>2. S = {s} \cup {t}
      BY <2>1, <3>1 DEF AtMostTwo
    <3>3. IsFiniteSet({s}) /\ Cardinality({s}) = 1 /\ t \notin {s}
      BY <3>1, FS_Singleton
    <3>4. Cardinality({s} \cup {t}) = Cardinality({s}) + 1
      BY <3>3, FS_AddElement
    <3> QED
      BY <3>2, <3>3, <3>4
  <2> QED
    BY <2>2, <2>3
<1> QED
  BY <1>1, <1>2

\* No fallback stands in for a fallback, and none of the agent's runs gets more
\* than two, across exceptions, crashes and restarts.
THEOREM FallbacksStayFew == Spec => []FallbacksDoNotChain
<1>1. ASSUME Strong
      PROVE  FallbacksDoNotChain
  <2>1. SUFFICES ASSUME NEW r \in Recorded,
                        {s \in Recorded : runs[s].actor = "fallback" /\ runs[s].cause = r} # {}
                 PROVE  /\ runs[r].actor = "agent"
                        /\ Cardinality({s \in Recorded : runs[s].actor = "fallback" /\ runs[s].cause = r}) <= 2
    BY Zenon DEF FallbacksDoNotChain
  <2>2. Fallbacks(r) = {s \in Recorded : runs[s].actor = "fallback" /\ runs[s].cause = r}
    BY Zenon DEF Fallbacks
  <2>3. RunCounted(r)
    BY <1>1 DEF Strong, Counted
  <2>4. Fallbacks(r) # {}
    BY <2>1, <2>2, Zenon
  <2>5. runs[r].actor = "agent" /\ AtMostTwo(Fallbacks(r))
    BY <2>3, <2>4, Zenon DEF RunCounted
  <2>6. Cardinality(Fallbacks(r)) <= 2
    BY <2>5, TwoAtMost, Zenon
  <2> QED
    BY <2>2, <2>5, <2>6, Zenon
<1> QED
  BY <1>1, StrongAlways, PTL

\* What a call's step does to the table, by the kind of the step.
LEMMA WriterChanges ==
  ASSUME Strong, NEW x \in Flows, FailRun(x) \/ LinkRun(x) \/ CompleteRun(x) \/ RelinkRun(x)
  PROVE  Changes(x)
<1>1. flows[x].pc \in Active /\ TypeOK
  BY DEF FailRun, LinkRun, CompleteRun, RelinkRun, Active, Strong
<1>2. flows[x].run \in Recorded /\ flows[x].agentRun \in Recorded
  BY <1>1, AtWork
<1>3. CASE FailRun(x)
  <2>1. flows[x].pc = "fail" /\ flows[x].run = flows[x].agentRun
    BY <1>3 DEF FailRun, Strong, Control, FlowOK
  <2>2. runs' \in {runs, [runs EXCEPT ![flows[x].run].status = "failed"]}
    BY <1>3, <2>1 DEF FailRun, Statement
  <2> QED
    BY <1>1, <1>2, <2>1, <2>2, SameIsUpdate, StatusIsUpdate DEF Changes, Writing
<1>4. CASE LinkRun(x)
  <2>1. flows[x].toLink \subseteq {flows[x].agentRun, flows[x].run}
    BY <1>4 DEF LinkRun, Strong, Control, FlowOK
  <2>2. PICK r \in flows[x].toLink : runs' \in {runs, [runs EXCEPT ![r].linked = TRUE]}
    BY <1>4 DEF LinkRun, Statement
  <2> QED
    BY <1>1, <1>2, <2>1, <2>2, SameIsUpdate, LinkIsUpdate DEF Changes
<1>5. CASE CompleteRun(x)
  <2>1. /\ flows[x].pc = "complete"
        /\ runs' \in {runs, [runs EXCEPT ![flows[x].run].status = "completed"]}
    BY <1>5 DEF CompleteRun, Statement
  <2> QED
    BY <1>1, <1>2, <2>1, SameIsUpdate, StatusIsUpdate DEF Changes, Writing
<1>6. CASE RelinkRun(x)
  <2>1. runs' \in {runs, [runs EXCEPT ![flows[x].run].linked = TRUE]}
    BY <1>6 DEF RelinkRun, Statement
  <2> QED
    BY <1>1, <1>2, <2>1, SameIsUpdate, LinkIsUpdate DEF Changes
<1> QED
  BY <1>3, <1>4, <1>5, <1>6

LEMMA CreatorChanges ==
  ASSUME Strong, NEW x \in Flows, CreateRun(x) \/ CreateFallback(x)
  PROVE  Changes(x)
<1>1. TypeOK /\ Table
  BY DEF Strong, Control
<1>2. CASE runs' = runs
  BY <1>2, SameIsUpdate DEF Changes
<1>3. CASE CreateRun(x) /\ runs' # runs
  <2>1. /\ flows[x].pc = "create" /\ NewRun \in RunIds
        /\ runs' = Created("agent", flows[x].request, NewRun)
    BY <1>3 DEF CreateRun, Statement
  <2>2. flows[x].request \in IncidentIds
    BY <2>1 DEF Strong, Control, FlowOK
  <2>3. Adds(x, "agent", NewRun)
    BY <1>1, <2>1, <2>2, CreatedIsAdd
  <2> QED
    BY <2>1, <2>3 DEF Changes, AddsFor
<1>4. CASE CreateFallback(x) /\ runs' # runs
  <2>1. /\ flows[x].pc = "createFallback" /\ NewRun \in RunIds
        /\ runs' = Created("fallback", flows[x].request, flows[x].agentRun)
    BY <1>4 DEF CreateFallback, Statement
  <2>2. flows[x].request \in IncidentIds /\ flows[x].agentRun \in Recorded
    BY <2>1 DEF Strong, Control, FlowOK, Active
  <2>3. Adds(x, "fallback", flows[x].agentRun)
    BY <1>1, <2>1, <2>2, CreatedIsAdd
  <2> QED
    BY <2>1, <2>3 DEF Changes, AddsFor
<1> QED
  BY <1>2, <1>3, <1>4

\* A run that is over stays as it ended: only the call that holds a run open, or
\* the recovery with the list it took, closes it.
THEOREM EndedRunsStay == Spec => TerminalIsFinal
<1> DEFINE Ends == \A r \in Recorded : runs[r].status # "running"
                     => runs'[r].status = runs[r].status
<1>1. ASSUME Strong, [Next]_vars
      PROVE  Ends
  <2>1. CASE runs' = runs
    BY <2>1
  <2>2. ASSUME NEW x \in Flows, Changes(x)
        PROVE  Ends
    <3>1. flows[x].pc \in Writing => runs[flows[x].run].status = "running"
      BY <1>1 DEF Strong, Control, FlowOK
    <3> QED
      BY <2>2, <3>1, OthersStatus
  <2>3. CASE \E x \in Flows : FlowStep(x)
    <3>1. PICK x \in Flows : FlowStep(x)
      BY <2>3
    <3>2. CASE Investigate(x) \/ PersistOutcome(x) \/ AttachNarrative(x)
      BY <2>1, <3>2 DEF Investigate, PersistOutcome, AttachNarrative, Await
    <3> QED
      BY <1>1, <2>2, <3>1, <3>2, WriterChanges, CreatorChanges DEF FlowStep
  <2>4. CASE Start
    <3>1. ASSUME NEW r \in Recorded
          PROVE  runs'[r].status = runs[r].status
      <4>1. r \in RunIds /\ runs[r] \in Run
        BY <1>1, RecordedType DEF Strong
      <4>2. runs'[r] = [runs[r] EXCEPT !.mine = FALSE]
        BY <2>4, <4>1 DEF Start
      <4> QED
        BY <4>1, <4>2 DEF Run
    <3> QED
      BY <3>1
  <2>5. CASE \E r \in RunIds : CloseOrphan(r) \/ FailToClose(r)
    <3>1. PICK r \in RunIds : CloseOrphan(r) \/ FailToClose(r)
      BY <2>5
    <3>2. r \in Recorded /\ runs[r].status = "running"
      BY <1>1, <3>1 DEF CloseOrphan, FailToClose, Strong, Control, Orphaned, Running
    <3>3. runs' = runs \/ runs' = [runs EXCEPT ![r].status = "failed"]
      BY <3>1 DEF CloseOrphan, FailToClose
    <3> QED
      BY <1>1, <2>1, <3>2, <3>3, FailedShuts DEF Strong
  <2> QED
    BY <1>1, <2>1, <2>3, <2>4, <2>5
    DEF Next, vars, Crash, ListOrphanRuns, FailToList, Recovered, HandleSignal
<1>2. Strong /\ [Next]_vars => [Ends]_vars
  BY <1>1
<1> QED
  BY <1>2, StrongAlways, PTL DEF Spec, TerminalIsFinal
==============================================================================
