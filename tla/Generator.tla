------------------------------- MODULE Generator -------------------------------
(***************************************************************************)
(* The traffic generator (packages/generator): the catalog's cells with    *)
(* their share of the traffic (catalog.ts), the incidents injected and     *)
(* removed through its API while it runs (inject-api.ts), what they do to  *)
(* a transaction (incident.ts, transaction.ts), and the emission loop with *)
(* its backlog (engine.ts).                                                *)
(*                                                                         *)
(* Volume is counted in parts of an event, Unit to the event, and latency  *)
(* in parts of a millisecond, Whole to the millisecond.  What a promise's  *)
(* callbacks do happens before the next timer or reply: Settle comes before*)
(* any other step.                                                         *)
(***************************************************************************)
EXTENDS Integers, FiniteSets, FiniteSetsExt

CONSTANTS Catalogs,        \* catalogs to try
          Injectable,      \* incidents the console may post
          Rates,           \* parts of an event due per tick, by hour
          Unit, Whole,
          MaxCarry,        \* MAX_CARRY_EVENTS
          MaxTicks,        \* bound: timer ticks
          MaxBatches       \* bound: batches with a sink call in flight

ASSUME GeneratorAssumption ==
  /\ Unit \in Nat \ {0} /\ Whole \in Nat \ {0} /\ MaxCarry \in Nat \ {0}
  /\ MaxTicks \in Nat /\ MaxBatches \in Nat \ {0}
  /\ Rates \subseteq 0 .. (MaxCarry - 1) * Unit    \* a tick's volume is below the cap

\* A route is a provider, a country and a method; a merchant's weight is a whole
\* number of parts.
ASSUME CatalogAssumption ==
  \A catalog \in Catalogs :
    /\ IsFiniteSet(catalog.routes) /\ IsFiniteSet(DOMAIN catalog.issuers)
    /\ \A r, s \in catalog.routes :
         r.provider = s.provider /\ r.country = s.country /\ r.method = s.method => r = s
    /\ \A m \in DOMAIN catalog.merchants : catalog.merchants[m].weight \in Nat

VARIABLES cells,       \* buildTransactionCells, computed once
          incidents,   \* the engine's map of injected incidents
          timer,       \* setInterval is armed
          clock,       \* ticks so far
          due,         \* parts of an event due so far
          carry,       \* the backlog, in parts of an event
          running,     \* a batch is awaited
          batches,     \* batches with a sink call in flight, or not settled
          attempted,   \* events generated so far, flawed ones included
          flawed       \* an event could not be made

vars == <<cells, incidents, timer, clock, due, carry, running, batches, attempted, flawed>>

\* Operators named Fault... are the definition that follows with
\* a plausible bug in it; they take no part in the specification.

------------------------------------------------------------------------------
(* The catalog. *)

MethodTrafficMultiplier(method) == IF method = "PIX" THEN 3 ELSE 1

IssuersOf(catalog, route) ==
  IF route.method = "PIX" THEN {"NA"}
  ELSE {i \in DOMAIN catalog.issuers : catalog.issuers[i] = route.country}

\* PIX counted once per issuer.
FaultWeightUnitsFor(catalog, routes) ==
  MapThenSumSet(LAMBDA r : MethodTrafficMultiplier(r.method)
                             * Cardinality(IssuersOf(catalog, [r EXCEPT !.method = "CARD"])), routes)

\* weightUnitsFor.
WeightUnitsFor(catalog, routes) ==
  MapThenSumSet(LAMBDA r : MethodTrafficMultiplier(r.method)
                             * Cardinality(IssuersOf(catalog, r)), routes)

\* validateCatalog; the numbers of merchants, routes and issuers are left out.
Valid(catalog) ==
  /\ \A route \in catalog.routes : route.method = "PIX" => route.country = "BR"
  /\ \A m \in DOMAIN catalog.merchants : catalog.merchants[m].weight > 0

\* buildTransactionCells; a weight is the fraction traffic / units.
BuildTransactionCells(catalog) ==
  UNION {LET merchant == catalog.merchants[m]
             routes   == {r \in catalog.routes : r.country = merchant.country}
         IN UNION {{[merchantId |-> m, providerId |-> r.provider, country |-> r.country,
                     paymentMethod |-> r.method, issuerId |-> i,
                     traffic |-> merchant.weight * MethodTrafficMultiplier(r.method),
                     units |-> WeightUnitsFor(catalog, routes)]
                    : i \in IssuersOf(catalog, r)} : r \in routes}
         : m \in DOMAIN catalog.merchants}

------------------------------------------------------------------------------
(* Incidents and transactions. *)

\* What the incident says of a dimension, if anything.
Says(incident, dimension) == {incident.dimensions[d] : d \in DOMAIN incident.dimensions \cap {dimension}}

\* incidentSchema: PIX goes with BR and with no issuer.
Accepted(incident) ==
  Says(incident, "paymentMethod") = {"PIX"} =>
    Says(incident, "country") \subseteq {"BR"} /\ Says(incident, "issuerId") \subseteq {"NA"}

IsActive(incident, at) == incident.startsAt <= at /\ at < incident.endsAt

MatchesDimensions(incident, cell) ==
  \A d \in DOMAIN incident.dimensions : cell[d] = incident.dimensions[d]

\* applyIncidents, for the one effect that can spoil an event: latency.
LatencyIncrease(cell, at) ==
  MapThenSumSet(LAMBDA i : i.latencyMsIncrease,
                {i \in incidents : IsActive(i, at) /\ MatchesDimensions(i, cell)})

\* generateTransaction makes an event, which its schema refuses unless the latency
\* is a whole number.
Makes(cell, at) == LatencyIncrease(cell, at) % Whole = 0

------------------------------------------------------------------------------
(* The emission loop. *)

Batch     == [left : 0 .. MaxCarry, failed : BOOLEAN]
InFlight  == MapThenSumSet(LAMBDA b : batches[b].left, DOMAIN batches)
Unsettled == {b \in DOMAIN batches : ~batches[b].settled /\ (batches[b].left = 0 \/ batches[b].failed)}

\* How many of n events generator.next may fail to make.
Failures(n) ==
  {k \in 0 .. n : /\ k > 0 => \E c \in cells : ~Makes(c, clock')
                  /\ k < n => \E c \in cells : Makes(c, clock')}

\* The fraction is thrown away with the events.
FaultRemainder(volume, n) == 0

\* carry -= eventsToEmit.
Remainder(volume, n) == volume - n * Unit

\* The backlog, capped.
Accumulated(rate) == Min({carry + rate, MaxCarry * Unit})

\* if (running) return is missing.
FaultBusy == FALSE

Busy == running

\* One interval callback up to its await: every event is generated, and its sink
\* call started, before any answer.
Tick ==
  /\ timer /\ Unsettled = {} /\ clock < MaxTicks
  /\ clock' = clock + 1
  /\ \E rate \in Rates :
       LET volume == Accumulated(rate)
           n      == volume \div Unit
       IN /\ due' = due + rate
          /\ \/ /\ Busy
                /\ carry' = volume
                /\ UNCHANGED <<running, batches, attempted, flawed>>
             \/ /\ ~Busy
                /\ running' = TRUE
                /\ carry' = Remainder(volume, n)
                /\ attempted' = attempted + n
                /\ \E k \in Failures(n), b \in (1 .. MaxBatches) \ DOMAIN batches :
                     /\ flawed' = (flawed \/ k > 0)
                     /\ batches' = [x \in DOMAIN batches \cup {b} |->
                          IF x = b THEN [left |-> n - k, failed |-> k > 0, settled |-> FALSE]
                                   ELSE batches[x]]
  /\ UNCHANGED <<cells, incidents, timer>>

\* Settled only when nothing failed.
FaultSettles(b) == running' = batches[b].failed

\* finally.
Settles(b) == running' = FALSE

\* Promise.all is done: with the last answer, or with the first event that could
\* not be made, when the sink calls of the others are still in flight.
Settle(b) ==
  /\ b \in Unsettled
  /\ Settles(b)
  /\ batches' = IF batches[b].left = 0
                  THEN [x \in DOMAIN batches \ {b} |-> batches[x]]
                  ELSE [batches EXCEPT ![b].settled = TRUE]
  /\ UNCHANGED <<cells, incidents, timer, clock, due, carry, attempted, flawed>>

\* The sink answers or fails; a failure is logged and dropped.
Answer(b) ==
  /\ Unsettled = {} /\ b \in DOMAIN batches
  /\ batches' = IF batches[b].left = 1 /\ batches[b].settled
                  THEN [x \in DOMAIN batches \ {b} |-> batches[x]]
                  ELSE [batches EXCEPT ![b].left = @ - 1]
  /\ UNCHANGED <<cells, incidents, timer, clock, due, carry, running, attempted, flawed>>

\* POST /incidents: an id already there is replaced.
Inject(incident) ==
  /\ Unsettled = {} /\ Accepted(incident)
  /\ incidents' = {i \in incidents : i.id # incident.id} \cup {incident}
  /\ UNCHANGED <<cells, timer, clock, due, carry, running, batches, attempted, flawed>>

\* DELETE /incidents/:id.
Remove(incident) ==
  /\ Unsettled = {} /\ incident \in incidents
  /\ incidents' = incidents \ {incident}
  /\ UNCHANGED <<cells, timer, clock, due, carry, running, batches, attempted, flawed>>

\* SIGTERM: no more ticks; redis.quit waits for what was sent.
Stop ==
  /\ Unsettled = {} /\ timer
  /\ timer' = FALSE
  /\ UNCHANGED <<cells, incidents, clock, due, carry, running, batches, attempted, flawed>>

\* createGenerator, startGenerator.
Init ==
  /\ \E catalog \in Catalogs : Valid(catalog) /\ cells = BuildTransactionCells(catalog)
  /\ incidents = {} /\ timer = TRUE
  /\ clock = 0 /\ due = 0 /\ carry = 0 /\ attempted = 0
  /\ running = FALSE /\ batches = [b \in {} |-> 0] /\ flawed = FALSE

Next ==
  \/ Tick \/ Stop
  \/ \E b \in 1 .. MaxBatches : Settle(b) \/ Answer(b)
  \/ \E incident \in Injectable : Inject(incident) \/ Remove(incident)

Spec == Init /\ [][Next]_vars

\* Callbacks run, and the sink answers each call in the end.
FairSpec ==
  Spec /\ \A b \in 1 .. MaxBatches : WF_vars(Settle(b)) /\ WF_vars(Answer(b))

------------------------------------------------------------------------------
(* Properties. *)

\* A merchant's share of the traffic is its weight, over however many routes and
\* issuers it is spread, and PIX gets three times what one issuer's cards get
\* (catalog.ts:164).
TrafficFollowsWeights ==
  \A c \in cells :
    LET own == {d \in cells : d.merchantId = c.merchantId}
    IN /\ MapThenSumSet(LAMBDA d : d.traffic, own) * MethodTrafficMultiplier(c.paymentMethod)
            = c.traffic * c.units
       /\ c.paymentMethod = "PIX" => c.country = "BR" /\ c.issuerId = "NA"

\* Volume due and neither emitted nor kept.
Lost == due - attempted * Unit - carry

\* Volume is shed only when whole events already wait behind a slow batch, and what
\* was shed is not emitted later (engine.ts:91).
VolumeIsKept == [][Lost' >= Lost /\ (Lost' > Lost => carry >= Unit)]_vars

\* However slow the sink is, it never has more than the capped backlog to answer at
\* once; unless an event cannot be made: that settles its batch at once, and the
\* next tick emits although the batch is in flight (engine.ts:115).
InFlightIsCapped == flawed \/ InFlight <= MaxCarry

\* No batch keeps the guard up for good, with whatever failures: emission goes on
\* (engine.ts:126).
EmissionGoesOn == []<>~running
==============================================================================
