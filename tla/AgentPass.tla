------------------------------- MODULE AgentPass ------------------------------
(***************************************************************************)
(* One pass of the agent over an incident: the run of Investigator, then   *)
(* what handleSignal makes of its result (agent/coordinator.ts): a         *)
(* diagnosis of the deterministic search, a playbook (agent/playbooks.ts)  *)
(* and prose from the narrator, its reserve or the template                *)
(* (agent/narrator.ts, agent/processors/evidence-numbers.ts).              *)
(*                                                                         *)
(* A number in a prose is told apart by its value and by how it is spoken. *)
(***************************************************************************)
EXTENDS Investigator, Sequences

CONSTANTS RateOf,           \* per cell: the observed rate, in tenths
          DimensionOf,      \* per cell: the diagnosis's causalDimension
          FallbackEnabled   \* AGENT_FALLBACK_ENABLED

ASSUME AgentPassAssumption ==
  /\ RateOf \in [Cells -> 0 .. 10]
  /\ DimensionOf \in [Cells -> {"merchant", "provider", "method", "issuer"}]
  /\ FallbackEnabled \in BOOLEAN

VARIABLES stage,       \* where handleSignal stands
          candidates,  \* loadDiagnoses, by cell
          diagnosis,   \* the cell of the diagnosis that is written
          author,      \* whose it is
          prose        \* what attachNarrative is given

passVars == <<stage, candidates, diagnosis, author, prose>>
allVars  == <<vars, passVars>>

------------------------------------------------------------------------------
(* Playbooks: one per file, in the order they are loaded. *)

Playbooks == <<[dimension |-> "provider",       family |-> "any"],
               [dimension |-> "issuer",         family |-> "issuer"],
               [dimension |-> "payment_method", family |-> "network"],
               [dimension |-> "merchant",       family |-> "merchant"]>>

NormalizeDimension(dimension) == IF dimension = "method" THEN "payment_method" ELSE dimension

\* find's answer: the first of the playbooks that qualify, 0 if none does.
First(S) == IF S = {} THEN 0 ELSE CHOOSE n \in S : \A k \in S : n <= k

\* matchRecommendation: a playbook of the family before any of the dimension.
MatchRecommendation(dimension, family) ==
  LET sameDimension == {n \in DOMAIN Playbooks :
                          Playbooks[n].dimension = NormalizeDimension(dimension)}
      sameFamily    == {n \in sameDimension : Playbooks[n].family \in {"any", family}}
  IN IF sameFamily # {} THEN First(sameFamily) ELSE First(sameDimension)

------------------------------------------------------------------------------
(* Numbers. *)

Forms   == {"rate", "percent"}
Numbers == Forms \X (0 .. 10)

\* collectAllowedNumbers: the evidence's own figure, also as a percentage.
AllowedNumbers(cell) == Forms \X {RateOf[cell]}

NoProse == [by |-> "none"]

Prose(by, numbers) ==
  [by |-> by, numbers |-> numbers,
   playbook |-> MatchRecommendation(DimensionOf[diagnosis], "other")]

\* Figures of the cells at hand: a model that makes one up takes another cell's.
Figures == Forms \X {RateOf[c] : c \in Cells}

------------------------------------------------------------------------------
(* handleSignal after the run. *)

\* loadDiagnoses reads anew: what it finds need not be what the agent looked at.
Findings == {s \in UNION {[1 .. n -> Cells] : n \in 0 .. 2} : \A i, j \in DOMAIN s :
               s[i] = s[j] => i = j}

\* The selected cell is taken at its word.
FaultMaterialized(found) ==
  CASE found = <<>> -> {}
    [] found # <<>> /\ answer.status = "INCONCLUSIVE" -> {found[1]}
    [] OTHER -> {answer.cell}

\* What materializeAgentDiagnosis returns for these, a set of at most one cell: an
\* inconclusive agent's is the first of the search; a conclusive agent's must be
\* one the search confirms.
Materialized(found) ==
  CASE found = <<>> -> {}
    [] found # <<>> /\ answer.status = "INCONCLUSIVE" -> {found[1]}
    [] OTHER -> {c \in {found[i] : i \in DOMAIN found} : c = answer.cell}

\* The search's diagnosis goes to the narrator, or there is none: then the stage is
\* what the code turns to.
Take(chosen, by, otherwise) ==
  \/ /\ chosen # {}
     /\ diagnosis' \in chosen
     /\ stage' = "primary" /\ author' = by
  \/ /\ chosen = {}
     /\ stage' = otherwise
     /\ UNCHANGED <<diagnosis, author>>

\* A completed run's diagnosis; what it throws, like a run that did not complete,
\* leads to executeFallback.
Materialize ==
  /\ stage = "investigating" /\ pc = "completed"
  /\ candidates' \in Findings
  /\ Take(Materialized(candidates'), "agent", "fallback")
  /\ UNCHANGED <<vars, prose>>

RunFailed ==
  /\ stage = "investigating" /\ pc \in {"failed", "rejected"}
  /\ stage' = "fallback"
  /\ UNCHANGED <<vars, candidates, diagnosis, author, prose>>

\* executeFallback: the first diagnosis of the search.
ExecuteFallback ==
  /\ stage = "fallback"
  /\ candidates' \in Findings
  /\ Take(IF FallbackEnabled /\ candidates' # <<>> THEN {candidates'[1]} ELSE {},
          "fallback", "refused")
  /\ UNCHANGED <<vars, prose>>

NextNarrator == IF stage = "primary" THEN "reserve" ELSE "template"

Narrating == stage \in {"primary", "reserve"}

\* Only the tripwire is looked at: a narrator built without the processor has none.
FaultNarrate(numbers, tripwire) ==
  /\ Narrating
  /\ tripwire => ~(numbers \subseteq AllowedNumbers(diagnosis))
  /\ IF ~tripwire
       THEN stage' = "written" /\ prose' = Prose(stage, numbers)
       ELSE stage' = NextNarrator /\ UNCHANGED prose
  /\ UNCHANGED <<vars, candidates, diagnosis, author>>

\* A narrator's object.  The processor trips only over a foreign number, if it runs
\* at all; the check after it does not depend on it.
Narrate(numbers, tripwire) ==
  /\ Narrating
  /\ tripwire => ~(numbers \subseteq AllowedNumbers(diagnosis))
  /\ IF ~tripwire /\ numbers \subseteq AllowedNumbers(diagnosis)
       THEN stage' = "written" /\ prose' = Prose(stage, numbers)
       ELSE stage' = NextNarrator /\ UNCHANGED prose
  /\ UNCHANGED <<vars, candidates, diagnosis, author>>

\* generate rejects, or its object is no NarrativeOutput.
NarratorFails ==
  /\ Narrating
  /\ stage' = NextNarrator
  /\ UNCHANGED <<vars, candidates, diagnosis, author, prose>>

\* renderNarrativeTemplate speaks the rate as it stands in the evidence, and is
\* checked like the others.
WriteTemplate ==
  LET numbers == {"rate"} \X {RateOf[diagnosis]} IN
  /\ stage = "template"
  /\ IF numbers \subseteq AllowedNumbers(diagnosis)
       THEN stage' = "written" /\ prose' = Prose(stage, numbers)
       ELSE stage' = "refused" /\ UNCHANGED prose
  /\ UNCHANGED <<vars, candidates, diagnosis, author>>

------------------------------------------------------------------------------
PassInit ==
  /\ Init
  /\ stage = "investigating" /\ candidates = <<>>
  /\ diagnosis = "none" /\ author = "none" /\ prose = NoProse

PassNext ==
  \/ Next /\ UNCHANGED passVars
  \/ Materialize \/ RunFailed \/ ExecuteFallback
  \/ \E numbers \in SUBSET Figures, tripwire \in BOOLEAN : Narrate(numbers, tripwire)
  \/ NarratorFails \/ WriteTemplate

\* The timer fires and a query settles; of the model, of the tools and of the
\* narrator, whose calls are under no deadline, nothing is assumed.
PassSpec ==
  /\ PassInit /\ [][PassNext]_allVars
  /\ WF_vars(Deadline) /\ WF_vars(Validate) /\ WF_vars(Fail) /\ WF_allVars(Materialize \/ RunFailed)

------------------------------------------------------------------------------
(* Properties. *)

\* What is written over the deterministic evidence was never the model's word
\* alone: the cell is one the search has confirmed on its own reading, a
\* conclusive agent's if it confirms that one and the search's first otherwise,
\* and every number in the prose is that cell's (narrator.ts:31,
\* coordinator.ts:97).
ProseIsFromTheEvidence ==
  stage = "written" =>
    /\ prose.numbers \subseteq AllowedNumbers(diagnosis)
    /\ IF author = "agent" /\ answer.status = "CONCLUSIVE"
         THEN diagnosis = answer.cell /\ \E i \in DOMAIN candidates : candidates[i] = diagnosis
         ELSE diagnosis = candidates[1]

\* A model that never answers, or a tool that hangs, does not hold up the pass
\* (investigator.ts:140).
PassMovesOn == <>(stage # "investigating")
==============================================================================
