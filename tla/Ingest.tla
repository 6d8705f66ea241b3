-------------------------------- MODULE Ingest -------------------------------
(***************************************************************************)
(* From the transaction stream to the rollups (ingest/consumer.ts,         *)
(* ingest/process-batch.ts, ingest/retention.ts).                          *)
(*                                                                         *)
(* The generator appends entries to a capped Redis stream.  The consumer   *)
(* is the one member of a group: at start it takes back what the group     *)
(* holds as pending, page by page, then reads new entries in batches.  A   *)
(* batch is written in one database transaction that counts only the rows  *)
(* its INSERT created, and is acknowledged afterwards.  The process may    *)
(* end at any point in between, and retention deletes old rows meanwhile.  *)
(***************************************************************************)
EXTENDS Naturals, Sequences, FiniteSets

CONSTANTS MaxEntries,       \* bound: entries the generator appends
          MaxClock,         \* bound: time units the model runs for
          StreamCap,        \* emit.ts: DEFAULT_STREAM_MAXLEN
          BatchSize,        \* consumer.ts: XREADGROUP COUNT, 1000
          Page,             \* consumer.ts: XAUTOCLAIM COUNT, 100
          MaxDbRetries,     \* consumer.ts: 5
          Retention,        \* retention.ts: age at which a row may be deleted
          RedeliveryWithin, \* the age by which an entry is settled
          Resends           \* the generator's client may repeat an XADD

ASSUME IngestAssumption ==
  /\ {MaxEntries, MaxClock, StreamCap, BatchSize, Page, MaxDbRetries} \subseteq Nat \ {0}
  /\ Retention \in Nat /\ RedeliveryWithin \in Nat
  /\ Resends \in BOOLEAN

\* "It has to dwarf any redelivery" (retention.ts:15).
ASSUME RetentionAssumption == RedeliveryWithin < Retention

Ids == 1 .. MaxEntries

\* Operators named Fault... are the definition that follows with
\* a plausible bug in it; they take no part in the specification.

VARIABLES clock,
          entries,       \* the stream, from its first entry on
          trimmed,       \* entries up to this id are gone from it
          lastDelivered, \* the group's cursor
          pending,       \* the group's pending entries list
          transactions,  \* the transactions table: ids
          rollup,        \* how often each transaction has been counted
          consumer,      \* the consumer's control state
          dropped        \* history: entries of batches given up as poison

vars == <<clock, entries, trimmed, lastDelivered, pending, transactions, rollup,
          consumer, dropped>>

------------------------------------------------------------------------------
(* The stream, and the generator that fills it. *)

\* A payload the schema rejects, one the database rejects, or neither.
Kinds == {"good", "malformed", "poison"}

\* The transaction an entry carries is named after the first entry to carry it.
Entry == [transaction : Ids, kind : Kinds, createdAt : 0 .. MaxClock]

\* What the generator may append: a new transaction; or the last one over again,
\* when the connection broke before the reply and the client repeats its XADD.
NewEntries == {[transaction |-> Len(entries) + 1, kind |-> kind, createdAt |-> clock] :
                 kind \in Kinds}
Repeats == IF Resends /\ entries # <<>> THEN {entries[Len(entries)]} ELSE {}

\* XADD with MAXLEN ~: the stream keeps at least its cap.
Emit ==
  /\ Len(entries) < MaxEntries
  /\ \E entry \in NewEntries \cup Repeats : entries' = Append(entries, entry)
  /\ \E t \in trimmed .. Len(entries) + 1 :
       /\ t = trimmed \/ Len(entries) + 1 - t >= StreamCap
       /\ trimmed' = t
  /\ UNCHANGED <<clock, lastDelivered, pending, transactions, rollup, consumer, dropped>>

\* The consumer group is done with the entry.
Acknowledged(i) == i <= lastDelivered /\ i \notin pending

Gone(i) == i <= trimmed

\* Nobody will write the entry's transaction again.
Settled(i) == Acknowledged(i) \/ (Gone(i) /\ i \notin consumer.batch)

\* Time passes, but no entry gets older than RedeliveryWithin unsettled.
Tick ==
  /\ clock < MaxClock
  /\ \A i \in DOMAIN entries :
       Settled(i) \/ clock < entries[i].createdAt + RedeliveryWithin
  /\ clock' = clock + 1
  /\ UNCHANGED <<entries, trimmed, lastDelivered, pending, transactions, rollup,
                 consumer, dropped>>

------------------------------------------------------------------------------
(* The consumer. *)

\* from: where XAUTOCLAIM goes on, 0 once reclaimPending is through.  began, a
\* history: the group's cursor when this process started.
Consumer == [pc : {"down", "reclaim", "read", "write", "ack"},
             from : 0 .. MaxEntries + 1, batch : SUBSET Ids,
             attempt : 0 .. MaxDbRetries - 1, began : 0 .. MaxEntries]

Down == [pc |-> "down", from |-> 1, batch |-> {}, attempt |-> 0, began |-> 0]

Lowest(ids, n) == {i \in ids : Cardinality({j \in ids : j < i}) < n}

\* ensureConsumerGroup, then reclaimPending.
Start ==
  /\ consumer.pc = "down"
  /\ consumer' = [Down EXCEPT !.pc = "reclaim", !.began = lastDelivered]
  /\ UNCHANGED <<clock, entries, trimmed, lastDelivered, pending, transactions, rollup,
                 dropped>>

\* The loop that goes on once a batch is handled.
Loop(from) == IF from = 0 THEN "read" ELSE "reclaim"

\* handleEntries: an empty batch needs neither a transaction nor an XACK.
Handle(batch, from) ==
  consumer' = [consumer EXCEPT !.pc = IF batch = {} THEN Loop(from) ELSE "write",
                               !.from = from, !.batch = batch, !.attempt = 0]

\* One page of pending entries is all that is taken back.
FaultReclaim ==
  /\ consumer.pc = "reclaim"
  /\ LET left == {i \in pending : i >= consumer.from}
         scan == Lowest(left, Page)
     IN /\ pending' = pending \ {i \in scan : Gone(i)}
        /\ Handle({i \in scan : ~Gone(i)}, 0)
  /\ UNCHANGED <<clock, entries, trimmed, lastDelivered, transactions, rollup, dropped>>

\* XAUTOCLAIM: the next page of pending entries; the ones the stream no longer
\* has leave the pending list.  The last page's cursor ends the loop.
Reclaim ==
  /\ consumer.pc = "reclaim"
  /\ LET left == {i \in pending : i >= consumer.from}
         scan == Lowest(left, Page)
     IN /\ pending' = pending \ {i \in scan : Gone(i)}
        /\ IF scan = left THEN Handle({i \in scan : ~Gone(i)}, 0)
           ELSE \E last \in scan :
                  /\ \A i \in scan : i <= last
                  /\ Handle({i \in scan : ~Gone(i)}, last + 1)
  /\ UNCHANGED <<clock, entries, trimmed, lastDelivered, transactions, rollup, dropped>>

Undelivered == {i \in DOMAIN entries : i > lastDelivered /\ ~Gone(i)}

\* XREADGROUP hands `batch` over: the cursor moves and the entries are pending.
DeliverNew(batch) ==
  /\ \E last \in batch :
       /\ \A i \in batch : i <= last
       /\ lastDelivered' = last
  /\ pending' = pending \cup batch
  /\ UNCHANGED <<clock, entries, trimmed, transactions, rollup, dropped>>

ReadNew ==
  /\ consumer.pc = "read"
  /\ DeliverNew(Lowest(Undelivered, BatchSize))
  /\ Handle(Lowest(Undelivered, BatchSize), 0)

\* The reply is lost with its connection, and the command is sent again.
LoseReply ==
  /\ consumer.pc = "read"
  /\ DeliverNew(Lowest(Undelivered, BatchSize))
  /\ UNCHANGED consumer

Valid == {i \in consumer.batch : entries[i].kind # "malformed"}

Poisoned == \E i \in Valid : entries[i].kind = "poison"

\* The rollups take every event of the batch.
FaultWriteBatch ==
  /\ transactions' = transactions \cup {entries[i].transaction : i \in Valid}
  /\ rollup' = [t \in Ids |-> rollup[t] +
       Cardinality({i \in Valid : entries[i].transaction = t})]

\* processBatch's transaction: INSERT .. ON CONFLICT DO NOTHING RETURNING, and the
\* rollups of every event whose transaction the INSERT returned.
WriteBatch ==
  LET inserted == {entries[i].transaction : i \in Valid} \ transactions IN
    /\ transactions' = transactions \cup inserted
    /\ rollup' = [t \in Ids |-> rollup[t] +
         IF t \in inserted THEN Cardinality({i \in Valid : entries[i].transaction = t})
         ELSE 0]

\* processBatchWithRetry's catch: another attempt, or process.exit.
Retry == consumer' = IF consumer.attempt + 1 >= MaxDbRetries THEN Down
                     ELSE [consumer EXCEPT !.attempt = @ + 1]

Commit ==
  /\ consumer.pc = "write" /\ ~Poisoned
  /\ WriteBatch
  /\ consumer' = [consumer EXCEPT !.pc = "ack"]
  /\ UNCHANGED <<clock, entries, trimmed, lastDelivered, pending, dropped>>

\* The transaction committed, but the connection broke before the answer.
CommitUnanswered ==
  /\ consumer.pc = "write" /\ ~Poisoned /\ Valid # {}
  /\ WriteBatch
  /\ Retry
  /\ UNCHANGED <<clock, entries, trimmed, lastDelivered, pending, dropped>>

\* A batch that could not be written is acknowledged all the same.
FaultFailCommit ==
  /\ consumer.pc = "write" /\ Valid # {}
  /\ consumer' = IF consumer.attempt + 1 >= MaxDbRetries THEN [consumer EXCEPT !.pc = "ack"]
                 ELSE [consumer EXCEPT !.attempt = @ + 1]
  /\ UNCHANGED <<clock, entries, trimmed, lastDelivered, pending, transactions, rollup,
                 dropped>>

\* The database was not there.
FailCommit ==
  /\ consumer.pc = "write" /\ Valid # {}
  /\ Retry
  /\ UNCHANGED <<clock, entries, trimmed, lastDelivered, pending, transactions, rollup,
                 dropped>>

\* The poison batch is retried like any other.
FaultDropPoison == FailCommit /\ Poisoned

\* An integrity violation rolls the transaction back; the batch counts as handled.
DropPoison ==
  /\ consumer.pc = "write" /\ Poisoned
  /\ dropped' = dropped \cup consumer.batch
  /\ consumer' = [consumer EXCEPT !.pc = "ack"]
  /\ UNCHANGED <<clock, entries, trimmed, lastDelivered, pending, transactions, rollup>>

\* XACK of the whole batch.
Ack ==
  /\ consumer.pc = "ack"
  /\ pending' = pending \ consumer.batch
  /\ consumer' = [consumer EXCEPT !.pc = Loop(consumer.from), !.batch = {}, !.attempt = 0]
  /\ UNCHANGED <<clock, entries, trimmed, lastDelivered, transactions, rollup, dropped>>

\* The process ends, by a crash or a deployment.
Crash ==
  /\ consumer.pc # "down"
  /\ consumer' = Down
  /\ UNCHANGED <<clock, entries, trimmed, lastDelivered, pending, transactions, rollup,
                 dropped>>

\* pruneOnce, one batch: some of the rows older than the cutoff.
Prune ==
  /\ consumer.pc # "down"
  /\ \E old \in (SUBSET {t \in transactions : entries[t].createdAt + Retention < clock}) \ {{}} :
       transactions' = transactions \ old
  /\ UNCHANGED <<clock, entries, trimmed, lastDelivered, pending, rollup, consumer, dropped>>

Init ==
  /\ clock = 0
  /\ entries = <<>>
  /\ trimmed = 0
  /\ lastDelivered = 0
  /\ pending = {}
  /\ transactions = {}
  /\ rollup = [t \in Ids |-> 0]
  /\ consumer = Down
  /\ dropped = {}

Next ==
  \/ Emit \/ Tick
  \/ Start \/ Reclaim \/ ReadNew \/ LoseReply
  \/ Commit \/ CommitUnanswered \/ FailCommit \/ DropPoison \/ Ack
  \/ Crash \/ Prune

Spec == Init /\ [][Next]_vars

\* The platform restarts the process, Redis answers, the database comes back: what
\* is tried again and again is eventually done, crashes notwithstanding.
FairSpec ==
  /\ Spec
  /\ WF_vars(Start)
  /\ SF_vars(Reclaim) /\ SF_vars(ReadNew)
  /\ SF_vars(Commit)  /\ SF_vars(DropPoison) /\ SF_vars(Ack)

------------------------------------------------------------------------------
(* Properties. *)

TypeOK ==
  /\ clock \in 0 .. MaxClock
  /\ entries \in Seq(Entry) /\ Len(entries) \in 0 .. MaxEntries
  /\ trimmed \in 0 .. MaxEntries
  /\ lastDelivered \in 0 .. MaxEntries
  /\ pending \subseteq Ids
  /\ transactions \subseteq Ids
  /\ rollup \in [Ids -> Nat]
  /\ consumer \in Consumer
  /\ dropped \subseteq Ids

\* However often a batch is delivered, retried after a commit whose answer was
\* lost, or reclaimed after a crash, no transaction is counted twice
\* (retention.ts:10).
CountedOnce == \A t \in Ids : rollup[t] <= 1

\* The XACK comes only after the commit: an entry the group is done with has been
\* counted, unless it was malformed, shared a batch with a poison event, or was
\* trimmed from the stream before it could be.
AcknowledgedIsCounted ==
  \A i \in DOMAIN entries :
    Acknowledged(i) /\ entries[i].kind = "good" /\ i \notin dropped /\ ~Gone(i)
      => rollup[entries[i].transaction] >= 1

\* A consumer that reads new entries has worked off all that was pending when it
\* started, however many pages that is (consumer.ts:151).
NothingStaysPending ==
  consumer.from = 0 => \A i \in pending \ consumer.batch : i > consumer.began

\* No entry waits for ever, be it poison or part of a batch whose commit failed:
\* the group gets done with it, the stream trims it, or its delivery was lost on
\* the way and the next start takes it back.
EveryEntrySettles ==
  \A i \in Ids :
    i \in DOMAIN entries ~>
      \/ Acknowledged(i)
      \/ Gone(i)
      \/ consumer.from = 0 /\ i \in pending \ consumer.batch
==============================================================================
