----------------------------- MODULE IngestProofs -----------------------------
(***************************************************************************)
(* Why nothing is lost on the way from the stream to the rollups, and      *)
(* nothing counted twice although the database forgets what it counted.    *)
(*                                                                         *)
(*   Reach    the batch is part of what the group holds pending, and that  *)
(*            of what it has been given.                                   *)
(*   Swept    what reclaimPending has not come to yet.                     *)
(*   Heard    what has been counted when the XACK is due.                  *)
(*   Aged     an entry that could still be written is young: retention     *)
(*            outlasts every redelivery (RetentionAssumption).             *)
(*   Counted  what was counted is in the table, or settled for good.       *)
(*                                                                         *)
(* TypeOK /\ Reach is inductive, and the others are on top of it.          *)
(***************************************************************************)
EXTENDS Ingest, TLAPS, SequenceTheorems, FiniteSetTheorems

Reach ==
  /\ lastDelivered <= Len(entries) /\ trimmed <= Len(entries)
  /\ pending \subseteq 1 .. lastDelivered
  /\ consumer.batch \subseteq pending
  /\ consumer.pc \notin {"write", "ack"} => consumer.batch = {}
  /\ consumer.began <= lastDelivered

Swept ==
  /\ consumer.pc = "read" => consumer.from = 0
  /\ \A i \in pending \ consumer.batch :
       i > consumer.began \/ (consumer.from # 0 /\ i >= consumer.from)

Heard ==
  /\ \A t \in transactions : rollup[t] >= 1
  /\ consumer.pc = "ack" =>
       \A i \in consumer.batch :
         entries[i].kind = "good" => i \in dropped \/ rollup[entries[i].transaction] >= 1
  /\ AcknowledgedIsCounted

------------------------------------------------------------------------------
(* Sets of ids. *)

LEMMA IdsFinite == ASSUME NEW S \in SUBSET Ids PROVE IsFiniteSet(S)
<1>1. IsFiniteSet(Ids)
  BY FS_Interval, IngestAssumption DEF Ids
<1> QED
  BY <1>1, FS_Subset

\* With an element, Lowest has every smaller one.
LEMMA LowestIsInitial ==
  ASSUME NEW S \in SUBSET Ids, NEW n \in Nat, NEW j \in Lowest(S, n), NEW i \in S, i < j
  PROVE  i \in Lowest(S, n)
<1> DEFINE below(k) == {m \in S : m < k}
<1>1. i \in Nat /\ j \in Nat /\ j \in S /\ \A k \in S : k \in Nat
  BY IngestAssumption DEF Lowest, Ids
<1>2. below(i) \subseteq below(j)
  <2>1. SUFFICES ASSUME NEW m \in S, m < i PROVE m < j
    OBVIOUS
  <2>2. m \in Nat /\ i \in Nat /\ j \in Nat /\ i < j
    BY <1>1
  <2> QED
    BY <2>1, <2>2
<1>3. IsFiniteSet(below(j)) /\ Cardinality(below(j)) < n
  <2>1. below(j) \in SUBSET Ids
    OBVIOUS
  <2>2. Cardinality(below(j)) < n
    BY DEF Lowest
  <2> QED
    BY <2>1, <2>2, IdsFinite
<1>4. /\ Cardinality(below(i)) <= Cardinality(below(j))
      /\ Cardinality(below(i)) \in Nat /\ Cardinality(below(j)) \in Nat
  BY <1>2, <1>3, FS_Subset, FS_CardinalityType
<1> QED
  BY <1>3, <1>4 DEF Lowest

------------------------------------------------------------------------------
(* Types, and what the batch is part of. *)

\* The facts about the variables that every step uses.
LEMMA Facts ==
  ASSUME TypeOK, Reach
  PROVE  /\ clock \in Nat /\ trimmed \in Nat /\ lastDelivered \in Nat /\ Len(entries) \in Nat
         /\ Len(entries) <= MaxEntries /\ MaxEntries \in Nat
         /\ DOMAIN entries = 1 .. Len(entries)
         /\ \A i \in DOMAIN entries : entries[i] \in Entry
         /\ pending \subseteq DOMAIN entries /\ consumer.batch \subseteq DOMAIN entries
         /\ DOMAIN entries \subseteq Ids
         /\ Valid \subseteq consumer.batch
         /\ consumer \in Consumer /\ rollup \in [Ids -> Nat]
<1>1. /\ clock \in Nat /\ trimmed \in Nat /\ lastDelivered \in Nat /\ Len(entries) \in Nat
      /\ Len(entries) <= MaxEntries /\ MaxEntries \in Nat
  BY IngestAssumption DEF TypeOK
<1>2. DOMAIN entries = 1 .. Len(entries) /\ \A i \in DOMAIN entries : entries[i] \in Entry
  BY DEF TypeOK
<1>3. pending \subseteq DOMAIN entries /\ consumer.batch \subseteq DOMAIN entries
  <2>1. 1 .. lastDelivered \subseteq 1 .. Len(entries)
    BY <1>1 DEF Reach
  <2> QED
    BY <2>1, <1>2 DEF Reach
<1>4. DOMAIN entries \subseteq Ids
  BY <1>1, <1>2 DEF Ids
<1>5. Valid \subseteq consumer.batch
  BY DEF Valid
<1> QED
  BY <1>1, <1>2, <1>3, <1>4, <1>5 DEF TypeOK

LEMMA InitTypes == Init => TypeOK /\ Reach
<1> SUFFICES ASSUME Init PROVE TypeOK /\ Reach
  OBVIOUS
<1>1. clock \in 0 .. MaxClock /\ 0 \in 0 .. MaxEntries /\ 1 \in 0 .. MaxEntries + 1
      /\ 0 \in 0 .. MaxDbRetries - 1
  BY IngestAssumption DEF Init
<1>2. Down \in Consumer /\ Down.batch = {} /\ Down.began = 0
  BY <1>1 DEF Down, Consumer
<1>3. rollup \in [Ids -> Nat]
  BY DEF Init
<1>4. entries \in Seq(Entry) /\ Len(entries) = 0
  BY DEF Init
<1> QED
  BY <1>1, <1>2, <1>3, <1>4 DEF Init, TypeOK, Reach

LEMMA EmitTypes == TypeOK /\ Reach /\ Emit => TypeOK' /\ Reach'
<1> SUFFICES ASSUME TypeOK, Reach, Emit PROVE TypeOK' /\ Reach'
  OBVIOUS
<1> USE Facts
<1>1. PICK entry \in NewEntries \cup Repeats : entries' = Append(entries, entry)
  BY DEF Emit
<1>2. entry \in Entry
  <2>1. CASE entry \in NewEntries
    <3>1. Len(entries) + 1 \in Ids /\ clock \in 0 .. MaxClock
      BY DEF Emit, Ids, TypeOK
    <3> QED
      BY <2>1, <3>1 DEF NewEntries, Entry
  <2>2. CASE entry \in Repeats
    BY <2>2 DEF Repeats, TypeOK
  <2> QED
    BY <1>1, <2>1, <2>2
<1>3. entries' \in Seq(Entry) /\ Len(entries') = Len(entries) + 1
  BY <1>1, <1>2, AppendProperties DEF TypeOK
<1>4. trimmed' \in Nat /\ trimmed' <= Len(entries')
  BY <1>3, IngestAssumption DEF Emit, Reach
<1>5. Len(entries') \in 0 .. MaxEntries /\ trimmed' \in 0 .. MaxEntries
  BY <1>3, <1>4 DEF Emit
<1>6. UNCHANGED <<clock, lastDelivered, pending, transactions, rollup, consumer, dropped>>
  BY DEF Emit
<1>7. TypeOK'
  BY <1>3, <1>5, <1>6 DEF TypeOK
<1> QED
  BY <1>3, <1>4, <1>6, <1>7 DEF Reach

\* Steps of the consumer alone, by the value they leave it with.
LEMMA ConsumerTypes ==
  ASSUME TypeOK, Reach, UNCHANGED <<clock, entries, trimmed, transactions, rollup, dropped>>,
         consumer' \in Consumer, lastDelivered' \in lastDelivered .. Len(entries),
         pending' \subseteq 1 .. lastDelivered', consumer'.batch \subseteq pending',
         consumer'.pc \notin {"write", "ack"} => consumer'.batch = {},
         consumer'.began <= lastDelivered'
  PROVE  TypeOK' /\ Reach'
<1>1. lastDelivered' \in 0 .. MaxEntries /\ pending' \subseteq Ids
  BY Facts DEF Ids
<1>2. TypeOK'
  BY <1>1 DEF TypeOK
<1> QED
  BY <1>2 DEF Reach

\* The consumer after it has been handed a batch.
LEMMA HandleTypes ==
  ASSUME TypeOK, NEW batch \in SUBSET Ids, NEW from \in 0 .. MaxEntries + 1,
         Handle(batch, from)
  PROVE  /\ consumer' \in Consumer
         /\ consumer'.batch = batch /\ consumer'.from = from
         /\ consumer'.began = consumer.began
         /\ consumer'.pc = IF batch = {} THEN Loop(from) ELSE "write"
<1>1. 0 \in 0 .. MaxDbRetries - 1
  BY IngestAssumption
<1>2. Loop(from) \in {"read", "reclaim"}
  BY DEF Loop
<1>3. consumer \in Consumer
  BY DEF TypeOK
<1> DEFINE pc == IF batch = {} THEN Loop(from) ELSE "write"
<1>4. pc \in {"read", "reclaim", "write"}
  BY <1>2
<1>5. consumer' = [consumer EXCEPT !.pc = pc, !.from = from, !.batch = batch, !.attempt = 0]
  BY DEF Handle
<1> HIDE DEF pc
<1>6. /\ consumer' \in Consumer
      /\ consumer'.batch = batch /\ consumer'.from = from
      /\ consumer'.began = consumer.began
      /\ consumer'.pc = pc
  BY <1>1, <1>3, <1>4, <1>5 DEF Consumer
<1> QED
  BY <1>6 DEF pc

LEMMA TickTypes == TypeOK /\ Reach /\ Tick => TypeOK' /\ Reach'
<1> SUFFICES ASSUME TypeOK, Reach, Tick PROVE TypeOK' /\ Reach'
  OBVIOUS
<1>1. clock' \in 0 .. MaxClock
  BY Facts, IngestAssumption DEF Tick
<1> QED
  BY <1>1 DEF Tick, TypeOK, Reach

LEMMA StartTypes == TypeOK /\ Reach /\ Start => TypeOK' /\ Reach'
<1> SUFFICES ASSUME TypeOK, Reach, Start PROVE TypeOK' /\ Reach'
  OBVIOUS
<1>1. consumer' = [pc |-> "reclaim", from |-> 1, batch |-> {}, attempt |-> 0,
                   began |-> lastDelivered]
  BY DEF Start, Down
<1>2. 1 \in 0 .. MaxEntries + 1 /\ 0 \in 0 .. MaxDbRetries - 1
      /\ lastDelivered \in 0 .. MaxEntries
  BY IngestAssumption DEF TypeOK
<1>3. consumer' \in Consumer
  BY <1>1, <1>2 DEF Consumer
<1>4. lastDelivered' = lastDelivered /\ pending' = pending
      /\ UNCHANGED <<clock, entries, trimmed, transactions, rollup, dropped>>
  BY DEF Start
<1>5. lastDelivered' \in lastDelivered .. Len(entries)
  BY <1>4, Facts DEF Reach
<1> QED
  BY <1>1, <1>3, <1>4, <1>5, Facts, ConsumerTypes DEF Reach

\* The page that reclaimPending takes, by the value it leaves the consumer with.
LEMMA ReclaimStep ==
  ASSUME TypeOK, Reach, Reclaim
  PROVE  /\ UNCHANGED <<clock, entries, trimmed, lastDelivered, transactions, rollup, dropped>>
         /\ consumer' \in Consumer
         /\ consumer'.pc = IF consumer'.batch = {} THEN Loop(consumer'.from) ELSE "write"
         /\ consumer'.began = consumer.began
         /\ pending' \subseteq pending /\ consumer'.batch \subseteq pending'
         /\ \A i \in pending \ pending' : Gone(i)
         /\ \A i \in consumer'.batch : ~Gone(i)
         /\ \A i \in pending' \ consumer'.batch :
              i < consumer.from \/ (consumer'.from # 0 /\ i >= consumer'.from)
<1> DEFINE left == {i \in pending : i >= consumer.from}
           scan == Lowest(left, Page)
           batch == {i \in scan : ~Gone(i)}
<1>1. scan \subseteq left /\ left \subseteq pending /\ batch \subseteq scan
  BY DEF Lowest
<1>2. pending' = pending \ {i \in scan : Gone(i)}
  BY DEF Reclaim
<1>3. pending \subseteq Ids /\ \A i \in pending : i \in Nat
  BY DEF TypeOK, Ids
<1>4. consumer.from \in Nat
  BY IngestAssumption DEF TypeOK, Consumer
<1>5. PICK from \in 0 .. MaxEntries + 1 :
        /\ Handle(batch, from)
        /\ \A i \in left \ scan : from # 0 /\ i >= from
  <2>1. CASE scan = left
    <3>1. Handle(batch, 0)
      BY <2>1 DEF Reclaim
    <3>2. 0 \in 0 .. MaxEntries + 1
      BY IngestAssumption
    <3> QED
      BY <2>1, <3>1, <3>2
  <2>2. CASE scan # left
    <3>1. PICK last \in scan : (\A i \in scan : i <= last) /\ Handle(batch, last + 1)
      BY <2>2 DEF Reclaim
    <3>2. last \in Ids /\ last \in Nat
      BY <1>1, <1>3
    <3>3. last + 1 \in 0 .. MaxEntries + 1 /\ last + 1 # 0
      BY <3>2, IngestAssumption DEF Ids
    <3>4. ASSUME NEW i \in left \ scan PROVE i >= last + 1
      <4>1. left \in SUBSET Ids /\ Page \in Nat
        BY <1>1, <1>3, IngestAssumption
      <4>2. ~(i < last)
        BY <4>1, LowestIsInitial, <3>1, <3>4
      <4>3. i # last /\ i \in Nat
        BY <1>1, <1>3, <3>4, <3>1
      <4> QED
        BY <4>2, <4>3, <3>2
    <3> QED
      BY <3>1, <3>3, <3>4
  <2> QED
    BY <2>1, <2>2
<1>6. batch \in SUBSET Ids
  BY <1>1, <1>3
<1>7. /\ consumer' \in Consumer
      /\ consumer'.batch = batch /\ consumer'.from = from
      /\ consumer'.began = consumer.began
      /\ consumer'.pc = IF batch = {} THEN Loop(from) ELSE "write"
  BY <1>5, <1>6, HandleTypes
<1>8. \A i \in pending' \ batch : i < consumer.from \/ (from # 0 /\ i >= from)
  <2>1. SUFFICES ASSUME NEW i \in pending', i \notin batch
                 PROVE  i < consumer.from \/ (from # 0 /\ i >= from)
    OBVIOUS
  <2>2. i \in pending /\ i \notin scan /\ i \in Nat
    BY <1>2, <1>3, <2>1
  <2>3. CASE i \in left
    BY <1>5, <2>2, <2>3
  <2>4. CASE i \notin left
    BY <1>4, <2>2, <2>4
  <2> QED
    BY <2>3, <2>4
<1>9. UNCHANGED <<clock, entries, trimmed, lastDelivered, transactions, rollup, dropped>>
  BY DEF Reclaim
<1>10. /\ pending' \subseteq pending /\ batch \subseteq pending'
       /\ \A i \in pending \ pending' : Gone(i)
       /\ \A i \in batch : ~Gone(i)
  BY <1>1, <1>2
<1> HIDE DEF batch, left, scan
<1> QED
  BY <1>7, <1>8, <1>9, <1>10

LEMMA ReclaimTypes == TypeOK /\ Reach /\ Reclaim => TypeOK' /\ Reach'
<1> SUFFICES ASSUME TypeOK, Reach, Reclaim PROVE TypeOK' /\ Reach'
  OBVIOUS
<1> USE ReclaimStep
<1>1. consumer'.batch # {} => consumer'.pc = "write"
  OBVIOUS
<1>2. lastDelivered' \in lastDelivered .. Len(entries)
  BY Facts DEF Reach
<1>3. pending' \subseteq 1 .. lastDelivered' /\ consumer'.began <= lastDelivered'
  BY DEF Reach
<1> QED
  BY <1>1, <1>2, <1>3, ConsumerTypes

\* What XREADGROUP hands over.
LEMMA DeliverStep ==
  ASSUME TypeOK, Reach, DeliverNew(Lowest(Undelivered, BatchSize))
  PROVE  /\ UNCHANGED <<clock, entries, trimmed, transactions, rollup, dropped>>
         /\ Lowest(Undelivered, BatchSize) \in SUBSET Ids
         /\ lastDelivered' \in Lowest(Undelivered, BatchSize)
         /\ lastDelivered' \in lastDelivered .. Len(entries) /\ lastDelivered' > lastDelivered
         /\ pending' = pending \cup Lowest(Undelivered, BatchSize)
         /\ pending' \subseteq 1 .. lastDelivered'
         /\ \A i \in Lowest(Undelivered, BatchSize) : i > lastDelivered /\ ~Gone(i)
         /\ \A i \in 1 .. lastDelivered' :
              i > lastDelivered /\ ~Gone(i) => i \in Lowest(Undelivered, BatchSize)
<1> DEFINE batch == Lowest(Undelivered, BatchSize)
<1>1. \A i \in batch : i \in Undelivered
  BY DEF Lowest
<1>2. PICK last \in batch : (\A i \in batch : i <= last) /\ lastDelivered' = last
  BY DEF DeliverNew
<1>3. /\ pending' = pending \cup batch
      /\ UNCHANGED <<clock, entries, trimmed, transactions, rollup, dropped>>
  BY DEF DeliverNew
<1>4. \A i \in Undelivered : i \in 1 .. Len(entries) /\ i > lastDelivered /\ ~Gone(i)
  BY Facts DEF Undelivered
<1>5. Undelivered \in SUBSET Ids /\ BatchSize \in Nat
  BY <1>4, Facts, IngestAssumption
<1>6. /\ lastDelivered' = last /\ last \in Nat
      /\ last \in lastDelivered .. Len(entries) /\ last > lastDelivered
  BY <1>1, <1>2, <1>4, Facts
<1>7. pending' \subseteq 1 .. last
  <2>1. \A i \in batch : i \in 1 .. last
    BY <1>1, <1>2, <1>4, <1>6
  <2>2. \A i \in pending : i \in 1 .. last
    BY <1>6, Facts DEF Reach
  <2> QED
    BY <1>3, <2>1, <2>2
<1>8. \A i \in 1 .. last : i > lastDelivered /\ ~Gone(i) => i \in batch
  <2>1. SUFFICES ASSUME NEW i \in 1 .. last, i > lastDelivered, ~Gone(i)
                 PROVE  i \in batch
    OBVIOUS
  <2>2. i \in Undelivered
    BY <1>6, <2>1, Facts DEF Undelivered
  <2>3. CASE i = last
    BY <2>3, <1>2
  <2>4. CASE i < last
    BY <1>2, <1>5, <2>2, <2>4, LowestIsInitial
  <2> QED
    BY <2>3, <2>4, <1>6
<1>9. batch \in SUBSET Ids
  BY <1>1, <1>5
<1>10. \A i \in batch : i > lastDelivered /\ ~Gone(i)
  BY <1>1, <1>4
<1> HIDE DEF batch
<1>11. /\ UNCHANGED <<clock, entries, trimmed, transactions, rollup, dropped>>
       /\ batch \in SUBSET Ids
       /\ lastDelivered' \in batch
       /\ lastDelivered' \in lastDelivered .. Len(entries) /\ lastDelivered' > lastDelivered
       /\ pending' = pending \cup batch
       /\ pending' \subseteq 1 .. lastDelivered'
       /\ \A i \in batch : i > lastDelivered /\ ~Gone(i)
       /\ \A i \in 1 .. lastDelivered' : i > lastDelivered /\ ~Gone(i) => i \in batch
  BY <1>2, <1>3, <1>6, <1>7, <1>8, <1>9, <1>10
<1> QED
  BY <1>11 DEF batch

LEMMA LoseReplyTypes == TypeOK /\ Reach /\ LoseReply => TypeOK' /\ Reach'
<1> SUFFICES ASSUME TypeOK, Reach, LoseReply PROVE TypeOK' /\ Reach'
  OBVIOUS
<1>1. /\ lastDelivered' \in lastDelivered .. Len(entries) /\ lastDelivered' > lastDelivered
      /\ pending' \subseteq 1 .. lastDelivered' /\ pending \subseteq pending'
      /\ UNCHANGED <<clock, entries, trimmed, transactions, rollup, dropped>>
  BY DeliverStep DEF LoseReply
<1>2. consumer' = consumer /\ consumer \in Consumer
  BY Facts DEF LoseReply
<1>3. consumer.began <= lastDelivered'
  BY <1>1, Facts, IngestAssumption DEF Reach, TypeOK, Consumer
<1> QED
  BY <1>1, <1>2, <1>3, ConsumerTypes DEF Reach

\* ReadNew leaves the consumer with what was delivered.
LEMMA ReadStep ==
  ASSUME TypeOK, Reach, ReadNew
  PROVE  /\ consumer' \in Consumer
         /\ consumer'.batch = Lowest(Undelivered, BatchSize)
         /\ consumer'.from = 0 /\ consumer'.began = consumer.began
         /\ consumer'.pc = "write" /\ consumer.batch = {}
<1> DEFINE batch == Lowest(Undelivered, BatchSize)
<1>1. Handle(batch, 0) /\ DeliverNew(batch) /\ consumer.pc = "read"
  BY DEF ReadNew
<1>2. batch \in SUBSET Ids /\ 0 \in 0 .. MaxEntries + 1
  BY <1>1, DeliverStep, IngestAssumption
<1>3. batch # {}
  BY <1>1, DeliverStep
<1> HIDE DEF batch
<1>4. /\ consumer' \in Consumer
      /\ consumer'.batch = batch /\ consumer'.from = 0
      /\ consumer'.began = consumer.began
      /\ consumer'.pc = "write"
  BY <1>1, <1>2, <1>3, HandleTypes
<1> QED
  BY <1>1, <1>4 DEF batch, Reach

LEMMA ReadNewTypes == TypeOK /\ Reach /\ ReadNew => TypeOK' /\ Reach'
<1> SUFFICES ASSUME TypeOK, Reach, ReadNew PROVE TypeOK' /\ Reach'
  OBVIOUS
<1>1. /\ lastDelivered' \in lastDelivered .. Len(entries) /\ lastDelivered' > lastDelivered
      /\ pending' \subseteq 1 .. lastDelivered'
      /\ Lowest(Undelivered, BatchSize) \subseteq pending'
      /\ UNCHANGED <<clock, entries, trimmed, transactions, rollup, dropped>>
  BY DeliverStep DEF ReadNew
<1>2. /\ consumer' \in Consumer /\ consumer'.batch \subseteq pending'
      /\ consumer'.began = consumer.began /\ consumer'.pc = "write"
  BY <1>1, ReadStep
<1>3. consumer'.began <= lastDelivered'
  BY <1>1, <1>2, Facts, IngestAssumption DEF Reach, TypeOK, Consumer
<1> QED
  BY <1>1, <1>2, <1>3, ConsumerTypes

\* One attempt fails: the next one, or the end of the process.
LEMMA RetryStep ==
  ASSUME TypeOK, Reach, Retry
  PROVE  /\ consumer' \in Consumer
         /\ \/ consumer' = Down
            \/ /\ consumer'.pc = consumer.pc /\ consumer'.batch = consumer.batch
               /\ consumer'.from = consumer.from /\ consumer'.began = consumer.began
<1>1. consumer.attempt \in Nat /\ MaxDbRetries \in Nat
  BY IngestAssumption DEF TypeOK, Consumer
<1>2. CASE consumer.attempt + 1 >= MaxDbRetries
  <2>1. 0 \in 0 .. MaxEntries /\ 1 \in 0 .. MaxEntries + 1 /\ 0 \in 0 .. MaxDbRetries - 1
    BY IngestAssumption
  <2>2. consumer' = Down
    BY <1>2 DEF Retry
  <2>3. Down \in Consumer
    BY <2>1 DEF Down, Consumer
  <2> QED
    BY <2>2, <2>3
<1>3. CASE ~(consumer.attempt + 1 >= MaxDbRetries)
  <2>1. consumer.attempt + 1 \in 0 .. MaxDbRetries - 1
    BY <1>1, <1>3
  <2>2. consumer \in Consumer /\ consumer' = [consumer EXCEPT !.attempt = @ + 1]
    BY <1>3 DEF Retry, TypeOK
  <2> QED
    BY <2>1, <2>2 DEF Consumer
<1> QED
  BY <1>2, <1>3

LEMMA FailCommitTypes == TypeOK /\ Reach /\ FailCommit => TypeOK' /\ Reach'
<1> SUFFICES ASSUME TypeOK, Reach, FailCommit PROVE TypeOK' /\ Reach'
  OBVIOUS
<1>1. UNCHANGED <<clock, entries, trimmed, lastDelivered, pending, transactions, rollup, dropped>>
      /\ Retry
  BY DEF FailCommit
<1>2. /\ consumer' \in Consumer /\ consumer'.batch \subseteq pending
      /\ (consumer'.pc \notin {"write", "ack"} => consumer'.batch = {})
      /\ consumer'.began <= lastDelivered
  BY <1>1, RetryStep, Facts DEF Down, Reach
<1>3. lastDelivered' \in lastDelivered .. Len(entries)
  BY <1>1, Facts DEF Reach
<1> QED
  BY <1>1, <1>2, <1>3, ConsumerTypes DEF Reach

LEMMA CrashTypes == TypeOK /\ Reach /\ Crash => TypeOK' /\ Reach'
<1> SUFFICES ASSUME TypeOK, Reach, Crash PROVE TypeOK' /\ Reach'
  OBVIOUS
<1>1. UNCHANGED <<clock, entries, trimmed, lastDelivered, pending, transactions, rollup, dropped>>
      /\ consumer' = Down
  BY DEF Crash
<1>2. 0 \in 0 .. MaxEntries /\ 1 \in 0 .. MaxEntries + 1 /\ 0 \in 0 .. MaxDbRetries - 1
  BY IngestAssumption
<1>3. /\ consumer' \in Consumer /\ consumer'.batch = {} /\ consumer'.began = 0
  BY <1>1, <1>2 DEF Down, Consumer
<1>4. lastDelivered' \in lastDelivered .. Len(entries)
  BY <1>1, Facts DEF Reach
<1> QED
  BY <1>1, <1>3, <1>4, Facts, ConsumerTypes DEF Reach

LEMMA AckTypes == TypeOK /\ Reach /\ Ack => TypeOK' /\ Reach'
<1> SUFFICES ASSUME TypeOK, Reach, Ack PROVE TypeOK' /\ Reach'
  OBVIOUS
<1>1. UNCHANGED <<clock, entries, trimmed, lastDelivered, transactions, rollup, dropped>>
      /\ pending' = pending \ consumer.batch
  BY DEF Ack
<1> DEFINE pc == Loop(consumer.from)
<1>2. pc \in {"read", "reclaim"} /\ 0 \in 0 .. MaxDbRetries - 1 /\ consumer \in Consumer
  BY IngestAssumption DEF Loop, TypeOK
<1>3. consumer' = [consumer EXCEPT !.pc = pc, !.batch = {}, !.attempt = 0]
  BY DEF Ack
<1> HIDE DEF pc
<1>4. consumer' \in Consumer /\ consumer'.batch = {} /\ consumer'.began = consumer.began
  BY <1>2, <1>3 DEF Consumer
<1>5. lastDelivered' \in lastDelivered .. Len(entries)
  BY <1>1, Facts DEF Reach
<1> QED
  BY <1>1, <1>4, <1>5, ConsumerTypes DEF Reach

\* The database transaction: what it inserts it counts, and nothing else.
LEMMA WriteStep ==
  ASSUME TypeOK, Reach, WriteBatch
  PROVE  /\ transactions' \subseteq Ids /\ rollup' \in [Ids -> Nat]
         /\ transactions \subseteq transactions'
         /\ \A i \in Valid : entries[i].transaction \in transactions'
         /\ \A t \in Ids : t \notin transactions' \ transactions => rollup'[t] = rollup[t]
         /\ \A t \in transactions' \ transactions :
              /\ t \in Ids /\ \E i \in Valid : entries[i].transaction = t
              /\ rollup'[t] = rollup[t]
                   + Cardinality({i \in Valid : entries[i].transaction = t})
              /\ rollup'[t] >= rollup[t] + 1
<1> DEFINE carrying(t) == {i \in Valid : entries[i].transaction = t}
           inserted == {entries[i].transaction : i \in Valid} \ transactions
<1>1. /\ transactions' = transactions \cup inserted
      /\ rollup' = [t \in Ids |-> rollup[t] + IF t \in inserted THEN Cardinality(carrying(t)) ELSE 0]
  BY DEF WriteBatch
<1>2. \A i \in Valid : entries[i].transaction \in Ids
  BY Facts DEF Entry
<1>3. inserted \subseteq Ids
  BY <1>2
<1>4. transactions' \subseteq Ids /\ inserted = transactions' \ transactions
  BY <1>1, <1>3 DEF TypeOK
<1>5. ASSUME NEW t \in Ids
      PROVE  /\ Cardinality(carrying(t)) \in Nat
             /\ carrying(t) # {} => Cardinality(carrying(t)) >= 1
  <2>1. carrying(t) \in SUBSET Ids
    BY Facts
  <2>2. IsFiniteSet(carrying(t))
    BY <2>1, IdsFinite
  <2>3. Cardinality(carrying(t)) \in Nat
    BY <2>2, FS_CardinalityType
  <2>4. Cardinality(carrying(t)) = 0 => carrying(t) = {}
    BY <2>2, FS_EmptySet
  <2> QED
    BY <2>3, <2>4
<1>6. ASSUME NEW t \in inserted
      PROVE  /\ t \in Ids /\ \E i \in Valid : entries[i].transaction = t
             /\ rollup'[t] = rollup[t] + Cardinality(carrying(t))
             /\ rollup'[t] >= rollup[t] + 1
  <2>1. t \in Ids
    BY <1>3
  <2>2. PICK i \in Valid : entries[i].transaction = t
    OBVIOUS
  <2>3. Cardinality(carrying(t)) \in Nat /\ Cardinality(carrying(t)) >= 1
    BY <1>5, <2>1, <2>2
  <2>4. rollup'[t] = rollup[t] + Cardinality(carrying(t))
    BY <1>1, <2>1
  <2>5. rollup[t] \in Nat
    BY <2>1 DEF TypeOK
  <2>6. rollup'[t] >= rollup[t] + 1
    BY <2>3, <2>4, <2>5
  <2> QED
    BY <2>1, <2>2, <2>4, <2>6
<1>7. ASSUME NEW t \in Ids, t \notin inserted
      PROVE  rollup'[t] = rollup[t]
  BY <1>1, <1>7 DEF TypeOK
<1>8. rollup' \in [Ids -> Nat]
  <2>1. \A t \in Ids : rollup[t] + (IF t \in inserted THEN Cardinality(carrying(t)) ELSE 0) \in Nat
    <3>1. SUFFICES ASSUME NEW t \in Ids
                   PROVE rollup[t] + (IF t \in inserted THEN Cardinality(carrying(t)) ELSE 0) \in Nat
      OBVIOUS
    <3>2. rollup[t] \in Nat /\ Cardinality(carrying(t)) \in Nat
      BY <1>5 DEF TypeOK
    <3> HIDE DEF carrying, inserted
    <3> QED
      BY <3>2
  <2> HIDE DEF carrying, inserted
  <2> QED
    BY <1>1, <2>1
<1>9. \A i \in Valid : entries[i].transaction \in transactions'
  BY <1>1
<1> HIDE DEF inserted
<1> QED
  BY <1>1, <1>4, <1>6, <1>7, <1>8, <1>9

LEMMA CommitTypes == TypeOK /\ Reach /\ Commit => TypeOK' /\ Reach'
<1> SUFFICES ASSUME TypeOK, Reach, Commit PROVE TypeOK' /\ Reach'
  OBVIOUS
<1>1. UNCHANGED <<clock, entries, trimmed, lastDelivered, pending, dropped>>
      /\ WriteBatch /\ consumer' = [consumer EXCEPT !.pc = "ack"]
  BY DEF Commit
<1>2. /\ consumer' \in Consumer /\ consumer'.batch = consumer.batch
      /\ consumer'.began = consumer.began /\ consumer'.pc = "ack"
  BY <1>1, Facts DEF Consumer
<1>3. transactions' \subseteq Ids /\ rollup' \in [Ids -> Nat]
  BY <1>1, WriteStep
<1>4. TypeOK'
  BY <1>1, <1>2, <1>3 DEF TypeOK
<1> QED
  BY <1>1, <1>2, <1>4 DEF Reach

LEMMA CommitUnansweredTypes == TypeOK /\ Reach /\ CommitUnanswered => TypeOK' /\ Reach'
<1> SUFFICES ASSUME TypeOK, Reach, CommitUnanswered PROVE TypeOK' /\ Reach'
  OBVIOUS
<1>1. UNCHANGED <<clock, entries, trimmed, lastDelivered, pending, dropped>>
      /\ WriteBatch /\ Retry
  BY DEF CommitUnanswered
<1>2. /\ consumer' \in Consumer /\ consumer'.batch \subseteq pending
      /\ (consumer'.pc \notin {"write", "ack"} => consumer'.batch = {})
      /\ consumer'.began <= lastDelivered
  BY <1>1, RetryStep, Facts DEF Down, Reach
<1>3. transactions' \subseteq Ids /\ rollup' \in [Ids -> Nat]
  BY <1>1, WriteStep
<1>4. TypeOK'
  BY <1>1, <1>2, <1>3 DEF TypeOK
<1> QED
  BY <1>1, <1>2, <1>4 DEF Reach

LEMMA DropPoisonTypes == TypeOK /\ Reach /\ DropPoison => TypeOK' /\ Reach'
<1> SUFFICES ASSUME TypeOK, Reach, DropPoison PROVE TypeOK' /\ Reach'
  OBVIOUS
<1>1. UNCHANGED <<clock, entries, trimmed, lastDelivered, pending, transactions, rollup>>
      /\ dropped' = dropped \cup consumer.batch
      /\ consumer' = [consumer EXCEPT !.pc = "ack"]
  BY DEF DropPoison
<1>2. /\ consumer' \in Consumer /\ consumer'.batch = consumer.batch
      /\ consumer'.began = consumer.began /\ consumer'.pc = "ack"
  BY <1>1, Facts DEF Consumer
<1>3. TypeOK'
  BY <1>1, <1>2, Facts DEF TypeOK
<1> QED
  BY <1>1, <1>2, <1>3 DEF Reach

LEMMA PruneTypes == TypeOK /\ Reach /\ Prune => TypeOK' /\ Reach'
<1> SUFFICES ASSUME TypeOK, Reach, Prune PROVE TypeOK' /\ Reach'
  OBVIOUS
<1>1. transactions' \subseteq transactions
      /\ UNCHANGED <<clock, entries, trimmed, lastDelivered, pending, rollup, consumer, dropped>>
  BY DEF Prune
<1> QED
  BY <1>1 DEF TypeOK, Reach

LEMMA NextTypes == TypeOK /\ Reach /\ [Next]_vars => TypeOK' /\ Reach'
<1> SUFFICES ASSUME TypeOK, Reach, [Next]_vars PROVE TypeOK' /\ Reach'
  OBVIOUS
<1>1. CASE UNCHANGED vars
  BY <1>1 DEF vars, TypeOK, Reach
<1>2. CASE Next
  BY <1>2, EmitTypes, TickTypes, StartTypes, ReclaimTypes, ReadNewTypes, LoseReplyTypes,
     CommitTypes, CommitUnansweredTypes, FailCommitTypes, DropPoisonTypes, AckTypes,
     CrashTypes, PruneTypes DEF Next
<1> QED
  BY <1>1, <1>2

LEMMA Types == Spec => [](TypeOK /\ Reach)
BY InitTypes, NextTypes, PTL DEF Spec

\* Every variable keeps its type: the cursors stay within the stream, the batch,
\* the pending list and the rows within the ids given out, the attempts below
\* their limit (consumer.ts:118-213).
THEOREM TypeSafety == Spec => []TypeOK
<1>1. TypeOK /\ Reach => TypeOK
  OBVIOUS
<1> QED
  BY Types, <1>1, PTL

------------------------------------------------------------------------------
(* What is pending is taken back. *)

\* A process that is down has everything before it.
LEMMA DownSwept ==
  ASSUME TypeOK, TypeOK', consumer' = Down
  PROVE  Swept'
<1>1. \A i \in pending' : i \in Nat /\ i >= 1
  BY DEF TypeOK, Ids
<1> QED
  BY <1>1 DEF Down, Swept

LEMMA NextSwept == TypeOK /\ Reach /\ Swept /\ [Next]_vars => Swept'
<1> SUFFICES ASSUME TypeOK, Reach, Swept, [Next]_vars PROVE Swept'
  OBVIOUS
<1>1. TypeOK' /\ Reach'
  BY NextTypes
<1>2. \A i \in pending' : i \in Nat /\ i >= 1
  BY <1>1 DEF TypeOK, Ids
<1>3. CASE UNCHANGED <<consumer, pending>>
  BY <1>3 DEF Swept
<1>4. CASE Start
  BY <1>2, <1>4 DEF Start, Down, Swept
<1>5. CASE Reclaim
  <2>1. consumer'.pc = "read" => consumer'.from = 0
    BY <1>5, ReclaimStep DEF Loop
  <2>2. ASSUME NEW i \in pending' \ consumer'.batch
        PROVE  i > consumer'.began \/ (consumer'.from # 0 /\ i >= consumer'.from)
    <3>1. i \in pending /\ consumer'.began = consumer.began
          /\ (i < consumer.from \/ (consumer'.from # 0 /\ i >= consumer'.from))
      BY <1>5, <2>2, ReclaimStep
    <3>2. consumer.batch = {}
      BY <1>5 DEF Reclaim, Reach
    <3>3. i \in Nat /\ consumer.from \in Nat
      BY <1>2, <2>2, IngestAssumption DEF TypeOK, Consumer
    <3>4. i > consumer.began \/ i >= consumer.from
      BY <3>1, <3>2 DEF Swept
    <3> QED
      BY <3>1, <3>3, <3>4
  <2> QED
    BY <2>1, <2>2 DEF Swept
<1>6. CASE ReadNew
  <2>1. /\ consumer'.batch = Lowest(Undelivered, BatchSize) /\ consumer.batch = {}
        /\ consumer'.began = consumer.began /\ consumer'.pc = "write"
    BY <1>6, ReadStep
  <2>2. pending' = pending \cup Lowest(Undelivered, BatchSize)
    BY <1>6, DeliverStep DEF ReadNew
  <2>3. consumer.from = 0
    BY <1>6 DEF ReadNew, Swept
  <2> QED
    BY <2>1, <2>2, <2>3 DEF Swept
<1>7. CASE LoseReply
  <2>1. consumer' = consumer
    BY <1>7 DEF LoseReply
  <2>2. /\ pending' = pending \cup Lowest(Undelivered, BatchSize)
        /\ \A i \in Lowest(Undelivered, BatchSize) : i > lastDelivered
    BY <1>7, DeliverStep DEF LoseReply
  <2>3. \A i \in Lowest(Undelivered, BatchSize) : i > consumer.began
    <3>1. consumer.began \in Nat /\ lastDelivered \in Nat /\ consumer.began <= lastDelivered
      BY Facts, IngestAssumption DEF Consumer, Reach
    <3> QED
      BY <1>2, <2>2, <3>1
  <2> QED
    BY <2>1, <2>2, <2>3 DEF Swept
<1>8. CASE Commit
  BY <1>8, Facts DEF Commit, Swept, Consumer
<1>9. CASE DropPoison
  BY <1>9, Facts DEF DropPoison, Swept, Consumer
<1>10. CASE (CommitUnanswered \/ FailCommit)
  <2>1. Retry /\ pending' = pending
    BY <1>10 DEF CommitUnanswered, FailCommit
  <2>2. \/ consumer' = Down
        \/ /\ consumer'.pc = consumer.pc /\ consumer'.batch = consumer.batch
           /\ consumer'.from = consumer.from /\ consumer'.began = consumer.began
    BY <2>1, RetryStep
  <2> QED
    BY <1>1, <2>1, <2>2, DownSwept DEF Swept
<1>11. CASE Ack
  <2>1. pending' = pending \ consumer.batch
    BY <1>11 DEF Ack
  <2> DEFINE pc == Loop(consumer.from)
  <2>2. consumer' = [consumer EXCEPT !.pc = pc, !.batch = {}, !.attempt = 0]
    BY <1>11 DEF Ack
  <2>3. pc = "read" => consumer.from = 0
    BY DEF Loop
  <2> HIDE DEF pc
  <2>4. /\ consumer'.pc = pc /\ consumer'.batch = {}
        /\ consumer'.from = consumer.from /\ consumer'.began = consumer.began
    BY <2>2, Facts DEF Consumer
  <2> QED
    BY <2>1, <2>3, <2>4 DEF Swept
<1>12. CASE Crash
  BY <1>1, <1>12, DownSwept DEF Crash
<1>13. CASE (Emit \/ Tick \/ Prune \/ UNCHANGED vars)
  BY <1>3, <1>13 DEF Emit, Tick, Prune, vars
<1> QED
  BY <1>4, <1>5, <1>6, <1>7, <1>8, <1>9, <1>10, <1>11, <1>12, <1>13 DEF Next

\* Once a process reads new entries, all that was pending when it started has been
\* worked off or is in the batch at hand, for pages and batches of any size
\* (consumer.ts:151).
THEOREM PendingIsTakenBack == Spec => []NothingStaysPending
<1>1. Init => Swept
  BY DEF Init, Down, Swept
<1>2. Swept => NothingStaysPending
  BY DEF Swept, NothingStaysPending
<1> QED
  BY Types, <1>1, <1>2, NextSwept, PTL DEF Spec

------------------------------------------------------------------------------
(* What is acknowledged is counted. *)

\* A committed batch is counted, all of it.
LEMMA WriteCounts ==
  ASSUME TypeOK, Reach, Heard, WriteBatch
  PROVE  /\ \A t \in Ids : rollup[t] \in Nat /\ rollup'[t] \in Nat /\ rollup'[t] >= rollup[t]
         /\ \A t \in transactions' : rollup'[t] >= 1
         /\ \A i \in Valid : rollup'[entries[i].transaction] >= 1
<1>1. ASSUME NEW t \in Ids
      PROVE  rollup[t] \in Nat /\ rollup'[t] \in Nat /\ rollup'[t] >= rollup[t]
  <2>1. rollup[t] \in Nat /\ rollup'[t] \in Nat
    BY WriteStep DEF TypeOK
  <2>2. rollup'[t] = rollup[t] \/ rollup'[t] >= rollup[t] + 1
    BY WriteStep
  <2> QED
    BY <2>1, <2>2
<1>2. ASSUME NEW t \in transactions'
      PROVE  rollup'[t] >= 1
  <2>1. t \in Ids
    BY WriteStep
  <2>2. CASE t \in transactions
    BY <2>1, <2>2, WriteStep DEF Heard
  <2>3. CASE t \notin transactions
    <3>1. rollup'[t] >= rollup[t] + 1
      BY <2>3, WriteStep
    <3> QED
      BY <3>1, <2>1, <1>1
  <2> QED
    BY <2>2, <2>3
<1> QED
  BY <1>1, <1>2, WriteStep

\* A step that neither writes nor acknowledges.
LEMMA HeardKept ==
  ASSUME TypeOK, Reach, Heard,
         entries' = entries, trimmed' = trimmed, rollup' = rollup, dropped' = dropped,
         transactions' \subseteq transactions,
         \A i \in DOMAIN entries : Acknowledged(i)' => Acknowledged(i) \/ Gone(i),
         consumer'.pc = "ack" => consumer.pc = "ack" /\ consumer'.batch = consumer.batch
  PROVE  Heard'
BY DEF Heard, AcknowledgedIsCounted, Gone

\* Reading new entries acknowledges only what the stream has dropped.
LEMMA DeliverAcknowledges ==
  ASSUME TypeOK, Reach, DeliverNew(Lowest(Undelivered, BatchSize)),
         NEW i \in DOMAIN entries, Acknowledged(i)'
  PROVE  Acknowledged(i) \/ Gone(i)
<1>1. i <= lastDelivered' /\ i \notin pending' /\ i \in Nat /\ i >= 1
  BY Facts DEF Acknowledged, Ids
<1>2. CASE i <= lastDelivered
  BY <1>1, <1>2, DeliverStep DEF Acknowledged
<1>3. CASE ~(i <= lastDelivered)
  <2>1. i \in 1 .. lastDelivered' /\ i > lastDelivered
    BY <1>1, <1>3, DeliverStep, Facts
  <2> QED
    BY <1>1, <2>1, DeliverStep
<1> QED
  BY <1>2, <1>3

LEMMA NextHeard == TypeOK /\ Reach /\ Heard /\ [Next]_vars => Heard'
<1> SUFFICES ASSUME TypeOK, Reach, Heard, [Next]_vars PROVE Heard'
  OBVIOUS
<1>1. CASE Emit
  <2>1. PICK entry : entries' = Append(entries, entry)
    BY <1>1 DEF Emit
  <2>2. /\ Len(entries') = Len(entries) + 1 /\ DOMAIN entries' = 1 .. Len(entries) + 1
        /\ \A i \in DOMAIN entries : entries'[i] = entries[i]
    <3>1. entries \in Seq(Entry \cup {entry}) /\ entry \in Entry \cup {entry}
      BY DEF TypeOK
    <3> QED
      BY <2>1, <3>1, AppendProperties
  <2>3. UNCHANGED <<clock, lastDelivered, pending, transactions, rollup, consumer, dropped>>
        /\ trimmed <= trimmed'
    BY <1>1, Facts DEF Emit
  <2>4. ASSUME NEW i \in DOMAIN entries', Acknowledged(i)', ~Gone(i)'
        PROVE  /\ i \in DOMAIN entries /\ Acknowledged(i) /\ ~Gone(i)
               /\ entries'[i] = entries[i]
    <3>1. i \in Nat /\ i <= lastDelivered /\ i >= 1 /\ i \notin pending
      BY <2>2, <2>3, <2>4, Facts DEF Acknowledged
    <3>2. i \in DOMAIN entries
      BY <3>1, Facts DEF Reach
    <3>3. trimmed' \in Nat /\ ~(i <= trimmed')
      BY <2>4, NextTypes, IngestAssumption DEF TypeOK, Gone
    <3>4. ~Gone(i)
      BY <2>3, <3>1, <3>3, Facts DEF Gone
    <3> QED
      BY <2>2, <3>1, <3>2, <3>4 DEF Acknowledged
  <2>5. AcknowledgedIsCounted'
    BY <2>3, <2>4 DEF AcknowledgedIsCounted, Heard
  <2>6. \A i \in consumer.batch : entries'[i] = entries[i]
    BY <2>2, Facts
  <2> QED
    BY <2>3, <2>5, <2>6 DEF Heard
<1>2. CASE Reclaim
  <2>1. \A i \in pending \ pending' : Gone(i)
    BY <1>2, ReclaimStep
  <2>2. UNCHANGED <<entries, trimmed, lastDelivered, transactions, rollup, dropped>>
        /\ consumer'.pc # "ack"
    BY <1>2, ReclaimStep DEF Loop
  <2>3. \A i \in DOMAIN entries : Acknowledged(i)' => Acknowledged(i) \/ Gone(i)
    BY <2>1, <2>2 DEF Acknowledged
  <2> QED
    BY <2>2, <2>3, HeardKept
<1>3. CASE ReadNew
  <2>1. UNCHANGED <<entries, trimmed, transactions, rollup, dropped>>
        /\ \A i \in DOMAIN entries : Acknowledged(i)' => Acknowledged(i) \/ Gone(i)
    BY <1>3, DeliverStep, DeliverAcknowledges DEF ReadNew
  <2>2. consumer'.pc = "write"
    BY <1>3, ReadStep
  <2> QED
    BY <2>1, <2>2, HeardKept
<1>4. CASE LoseReply
  <2>1. UNCHANGED <<entries, trimmed, transactions, rollup, dropped>>
        /\ \A i \in DOMAIN entries : Acknowledged(i)' => Acknowledged(i) \/ Gone(i)
    BY <1>4, DeliverStep, DeliverAcknowledges DEF LoseReply
  <2>2. consumer' = consumer
    BY <1>4 DEF LoseReply
  <2> QED
    BY <2>1, <2>2, HeardKept
<1>5. CASE (Commit \/ CommitUnanswered)
  <2>1. WriteBatch /\ UNCHANGED <<entries, trimmed, lastDelivered, pending, dropped>>
    BY <1>5 DEF Commit, CommitUnanswered
  <2>2. \A i \in DOMAIN entries : entries[i].transaction \in Ids
    BY Facts DEF Entry
  <2>3. AcknowledgedIsCounted'
    <3>1. SUFFICES ASSUME NEW i \in DOMAIN entries, Acknowledged(i), entries[i].kind = "good",
                          i \notin dropped, ~Gone(i)
                   PROVE  rollup'[entries[i].transaction] >= 1
      BY <2>1 DEF AcknowledgedIsCounted, Acknowledged, Gone
    <3>2. rollup[entries[i].transaction] >= 1
      BY <3>1 DEF Heard, AcknowledgedIsCounted
    <3> QED
      BY <2>1, <2>2, <3>2, WriteCounts
  <2>4. consumer'.pc = "ack" =>
          \A i \in consumer'.batch :
            entries'[i].kind = "good" => rollup'[entries'[i].transaction] >= 1
    <3>1. consumer'.pc = "ack" => consumer'.batch = consumer.batch
      <4>1. CASE Commit
        BY <4>1, Facts DEF Commit, Consumer
      <4>2. CASE CommitUnanswered
        BY <4>2, RetryStep DEF CommitUnanswered, Down
      <4> QED
        BY <1>5, <4>1, <4>2
    <3>2. \A i \in consumer.batch : entries[i].kind = "good" => i \in Valid
      BY DEF Valid
    <3> QED
      BY <2>1, <3>1, <3>2, WriteCounts
  <2> QED
    BY <2>1, <2>3, <2>4, WriteCounts DEF Heard
<1>6. CASE DropPoison
  <2>1. /\ UNCHANGED <<entries, trimmed, lastDelivered, pending, transactions, rollup>>
        /\ dropped' = dropped \cup consumer.batch
    BY <1>6 DEF DropPoison
  <2>2. consumer'.batch = consumer.batch
    BY <1>6, Facts DEF DropPoison, Consumer
  <2>3. AcknowledgedIsCounted'
    BY <2>1 DEF Heard, AcknowledgedIsCounted, Acknowledged, Gone
  <2> QED
    BY <2>1, <2>2, <2>3 DEF Heard
<1>7. CASE Ack
  <2>1. /\ UNCHANGED <<entries, trimmed, lastDelivered, transactions, rollup, dropped>>
        /\ pending' = pending \ consumer.batch /\ consumer.pc = "ack"
    BY <1>7 DEF Ack
  <2>2. consumer'.pc # "ack"
    <3> DEFINE pc == Loop(consumer.from)
    <3>1. consumer' = [consumer EXCEPT !.pc = pc, !.batch = {}, !.attempt = 0] /\ pc # "ack"
      BY <1>7 DEF Ack, Loop
    <3> HIDE DEF pc
    <3> QED
      BY <3>1, Facts DEF Consumer
  <2>3. AcknowledgedIsCounted'
    <3>1. SUFFICES ASSUME NEW i \in DOMAIN entries, Acknowledged(i)', entries[i].kind = "good",
                          i \notin dropped, ~Gone(i)
                   PROVE  rollup[entries[i].transaction] >= 1
      BY <2>1 DEF AcknowledgedIsCounted, Gone
    <3>2. CASE i \in consumer.batch
      BY <2>1, <3>1, <3>2 DEF Heard
    <3>3. CASE i \notin consumer.batch
      <4>1. Acknowledged(i)
        BY <2>1, <3>1, <3>3 DEF Acknowledged
      <4> QED
        BY <3>1, <4>1 DEF Heard, AcknowledgedIsCounted
    <3> QED
      BY <3>2, <3>3
  <2> QED
    BY <2>1, <2>2, <2>3 DEF Heard
<1>8. CASE FailCommit
  <2>1. UNCHANGED <<entries, trimmed, lastDelivered, pending, transactions, rollup, dropped>>
        /\ Retry
    BY <1>8 DEF FailCommit
  <2>2. consumer'.pc = "ack" => consumer.pc = "ack" /\ consumer'.batch = consumer.batch
    BY <2>1, RetryStep DEF Down
  <2> QED
    BY <2>1, <2>2, HeardKept DEF Acknowledged
<1>9. CASE (Start \/ Crash)
  <2>1. UNCHANGED <<entries, trimmed, lastDelivered, pending, transactions, rollup, dropped>>
    BY <1>9 DEF Start, Crash
  <2>2. consumer'.pc # "ack"
    <3>1. Start => consumer'.pc = "reclaim"
      BY DEF Start, Down
    <3>2. Crash => consumer'.pc = "down"
      BY DEF Crash, Down
    <3> QED
      BY <1>9, <3>1, <3>2
  <2> QED
    BY <2>1, <2>2, HeardKept DEF Acknowledged
<1>10. CASE (Tick \/ Prune \/ UNCHANGED vars)
  <2>1. UNCHANGED <<entries, trimmed, lastDelivered, pending, rollup, consumer, dropped>>
        /\ transactions' \subseteq transactions
    BY <1>10 DEF Tick, Prune, vars
  <2> QED
    BY <2>1, HeardKept DEF Acknowledged
<1> QED
  BY <1>1, <1>2, <1>3, <1>4, <1>5, <1>6, <1>7, <1>8, <1>9, <1>10 DEF Next

\* An entry the group is done with has been counted, unless it was malformed, went
\* down with a poison batch or was trimmed: whatever crashes, retries and lost
\* replies came before (consumer.ts:183-213).
THEOREM NothingIsLost == Spec => []AcknowledgedIsCounted
<1>1. Init => Heard
  BY DEF Init, Down, Heard, AcknowledgedIsCounted
<1>2. Heard => AcknowledgedIsCounted
  BY DEF Heard
<1> QED
  BY Types, <1>1, <1>2, NextHeard, PTL DEF Spec
------------------------------------------------------------------------------
(* Counting once: with one entry per transaction, a row is deleted only once its
   entry is settled, and what is settled stays so. *)

OneEntryEach ==
  /\ \A i \in DOMAIN entries : entries[i].transaction = i
  /\ transactions \subseteq DOMAIN entries

\* An entry that could still be written is young.
Aged ==
  \A i \in DOMAIN entries : Settled(i) \/ clock <= entries[i].createdAt + RedeliveryWithin

\* A transaction that was counted is in the table, or no batch contains it again.
Counted ==
  \A t \in Ids :
    \/ rollup[t] = 0
    \/ rollup[t] = 1 /\ t \in DOMAIN entries /\ (t \in transactions \/ Settled(t))

------------------------------------------------------------------------------
(* What is settled stays settled. *)

\* The cursors only advance; what becomes pending is new, what enters the batch
\* is still in the stream.
Advance ==
  /\ lastDelivered <= lastDelivered' /\ trimmed <= trimmed'
  /\ \A i \in pending' \ pending : i > lastDelivered
  /\ \A i \in consumer'.batch \ consumer.batch : ~(i <= trimmed')

LEMMA NextAdvances == TypeOK /\ Reach /\ [Next]_vars => Advance
<1> SUFFICES ASSUME TypeOK, Reach, [Next]_vars PROVE Advance
  OBVIOUS
<1> USE Facts
<1>1. CASE Emit
  <2>1. trimmed <= trimmed' /\ UNCHANGED <<lastDelivered, pending, consumer>>
    BY <1>1 DEF Emit
  <2> QED
    BY <2>1 DEF Advance
<1>2. CASE (Tick \/ Prune \/ UNCHANGED vars)
  <2>1. UNCHANGED <<trimmed, lastDelivered, pending, consumer>>
    BY <1>2 DEF Tick, Prune, vars
  <2> QED
    BY <2>1 DEF Advance
<1>3. CASE (Start \/ Crash)
  <2>1. UNCHANGED <<trimmed, lastDelivered, pending>>
    BY <1>3 DEF Start, Crash
  <2>2. Start => consumer'.batch = {}
    BY DEF Start, Down
  <2>3. Crash => consumer'.batch = {}
    BY DEF Crash, Down
  <2> QED
    BY <1>3, <2>1, <2>2, <2>3 DEF Advance
<1>4. CASE Reclaim
  <2>1. /\ UNCHANGED <<trimmed, lastDelivered>> /\ pending' \subseteq pending
        /\ \A i \in consumer'.batch : ~(i <= trimmed)
    BY <1>4, ReclaimStep DEF Gone
  <2> QED
    BY <2>1 DEF Advance
<1>5. CASE (ReadNew \/ LoseReply)
  <2>1. /\ trimmed' = trimmed /\ lastDelivered <= lastDelivered'
        /\ pending' = pending \cup Lowest(Undelivered, BatchSize)
        /\ \A i \in Lowest(Undelivered, BatchSize) : i > lastDelivered /\ ~(i <= trimmed)
    BY <1>5, DeliverStep DEF ReadNew, LoseReply, Gone
  <2>2. consumer'.batch \subseteq consumer.batch \cup Lowest(Undelivered, BatchSize)
    <3>1. ReadNew => consumer'.batch = Lowest(Undelivered, BatchSize)
      BY ReadStep
    <3>2. LoseReply => consumer'.batch = consumer.batch
      BY DEF LoseReply
    <3> QED
      BY <1>5, <3>1, <3>2
  <2> QED
    BY <2>1, <2>2 DEF Advance
<1>6. CASE (Commit \/ DropPoison)
  <2>1. UNCHANGED <<trimmed, lastDelivered, pending>>
        /\ consumer' = [consumer EXCEPT !.pc = "ack"]
    BY <1>6 DEF Commit, DropPoison
  <2>2. consumer'.batch = consumer.batch
    BY <2>1 DEF Consumer
  <2> QED
    BY <2>1, <2>2 DEF Advance
<1>7. CASE (CommitUnanswered \/ FailCommit)
  <2>1. UNCHANGED <<trimmed, lastDelivered, pending>> /\ Retry
    BY <1>7 DEF CommitUnanswered, FailCommit
  <2>2. consumer'.batch \subseteq consumer.batch
    BY <2>1, RetryStep DEF Down
  <2> QED
    BY <2>1, <2>2 DEF Advance
<1>8. CASE Ack
  <2>1. UNCHANGED <<trimmed, lastDelivered>> /\ pending' = pending \ consumer.batch
    BY <1>8 DEF Ack
  <2>2. consumer'.batch = {}
    <3> DEFINE pc == Loop(consumer.from)
    <3>1. consumer' = [consumer EXCEPT !.pc = pc, !.batch = {}, !.attempt = 0]
      BY <1>8 DEF Ack
    <3> HIDE DEF pc
    <3> QED
      BY <3>1 DEF Consumer
  <2> QED
    BY <2>1, <2>2 DEF Advance
<1> QED
  BY <1>1, <1>2, <1>3, <1>4, <1>5, <1>6, <1>7, <1>8 DEF Next

LEMMA SettledStays ==
  ASSUME TypeOK, Reach, [Next]_vars, NEW i \in DOMAIN entries, Settled(i)
  PROVE  Settled(i)'
<1>1. /\ lastDelivered <= lastDelivered' /\ trimmed <= trimmed'
      /\ \A j \in pending' \ pending : j > lastDelivered
      /\ \A j \in consumer'.batch \ consumer.batch : ~(j <= trimmed')
  BY NextAdvances DEF Advance
<1>2. /\ i \in Nat /\ lastDelivered \in Nat /\ trimmed \in Nat
      /\ lastDelivered' \in Nat /\ trimmed' \in Nat
  <2>1. i \in Nat /\ lastDelivered \in Nat /\ trimmed \in Nat
    BY Facts
  <2>2. TypeOK' /\ MaxEntries \in Nat
    BY NextTypes, IngestAssumption
  <2>3. lastDelivered' \in Nat /\ trimmed' \in Nat
    BY <2>2 DEF TypeOK
  <2> QED
    BY <2>1, <2>3
<1>3. CASE i <= lastDelivered /\ i \notin pending
  <2>1. i <= lastDelivered' /\ i \notin pending'
    BY <1>1, <1>2, <1>3
  <2> QED
    BY <2>1 DEF Settled, Acknowledged
<1>4. CASE i <= trimmed /\ i \notin consumer.batch
  <2>1. i <= trimmed' /\ i \notin consumer'.batch
    BY <1>1, <1>2, <1>4
  <2> QED
    BY <2>1 DEF Settled, Gone
<1> QED
  BY <1>3, <1>4 DEF Settled, Acknowledged, Gone

\* What a batch writes is not settled.
LEMMA BatchIsUnsettled ==
  ASSUME Reach, NEW i \in consumer.batch
  PROVE  ~Settled(i)
BY DEF Reach, Settled, Acknowledged

------------------------------------------------------------------------------
(* Entries and their ages. *)

LEMMA EmitOne ==
  ASSUME TypeOK, Reach, ~Resends, Emit
  PROVE  /\ UNCHANGED <<clock, lastDelivered, pending, transactions, rollup, consumer, dropped>>
         /\ DOMAIN entries' = 1 .. Len(entries) + 1
         /\ \A i \in DOMAIN entries : entries'[i] = entries[i]
         /\ entries'[Len(entries) + 1].transaction = Len(entries) + 1
         /\ entries'[Len(entries) + 1].createdAt = clock
<1>1. PICK entry \in NewEntries : entries' = Append(entries, entry)
  BY DEF Emit, Repeats
<1>2. entry.transaction = Len(entries) + 1 /\ entry.createdAt = clock
  BY DEF NewEntries
<1>3. entries \in Seq(Entry \cup {entry}) /\ entry \in Entry \cup {entry}
  BY DEF TypeOK
<1>4. /\ DOMAIN entries' = 1 .. Len(entries) + 1
      /\ \A i \in DOMAIN entries : entries'[i] = entries[i]
      /\ entries'[Len(entries) + 1] = entry
  BY <1>1, <1>3, AppendProperties
<1> QED
  BY <1>2, <1>4 DEF Emit

LEMMA NextOneEntryEach ==
  ASSUME TypeOK, Reach, ~Resends, OneEntryEach, [Next]_vars
  PROVE  OneEntryEach'
<1>1. CASE Emit
  <2>1. transactions' = transactions /\ DOMAIN entries' = 1 .. Len(entries) + 1
        /\ \A i \in DOMAIN entries : entries'[i] = entries[i]
        /\ entries'[Len(entries) + 1].transaction = Len(entries) + 1
    BY <1>1, EmitOne
  <2>2. /\ Len(entries) \in Nat /\ DOMAIN entries = 1 .. Len(entries)
        /\ DOMAIN entries' = DOMAIN entries \cup {Len(entries) + 1}
    BY <2>1, Facts
  <2>3. ASSUME NEW i \in DOMAIN entries' PROVE entries'[i].transaction = i
    <3>1. CASE i = Len(entries) + 1
      <4>1. entries'[Len(entries) + 1].transaction = Len(entries) + 1
        BY <1>1, EmitOne
      <4> QED
        BY <3>1, <4>1
    <3>2. CASE i \in DOMAIN entries
      BY <2>1, <3>2 DEF OneEntryEach
    <3> QED
      BY <2>2, <2>3, <3>1, <3>2
  <2>4. transactions' \subseteq DOMAIN entries'
    BY <2>1, <2>2 DEF OneEntryEach
  <2> QED
    BY <2>3, <2>4 DEF OneEntryEach
<1>2. CASE (Commit \/ CommitUnanswered)
  <2>1. WriteBatch /\ entries' = entries
    BY <1>2 DEF Commit, CommitUnanswered
  <2>2. ASSUME NEW t \in transactions' PROVE t \in DOMAIN entries
    <3>1. CASE t \in transactions
      BY <3>1 DEF OneEntryEach
    <3>2. CASE t \notin transactions
      <4>1. PICK i \in Valid : entries[i].transaction = t
        BY <2>1, <2>2, <3>2, WriteStep
      <4> QED
        BY <4>1, Facts DEF OneEntryEach
    <3> QED
      BY <3>1, <3>2
  <2> QED
    BY <2>1, <2>2 DEF OneEntryEach
<1>3. CASE ~(Emit \/ Commit \/ CommitUnanswered)
  <2>1. entries' = entries /\ transactions' \subseteq transactions
    BY <1>3 DEF Next, vars, Tick, Start, Reclaim, ReadNew, LoseReply, DeliverNew, FailCommit,
                DropPoison, Ack, Crash, Prune
  <2> QED
    BY <2>1 DEF OneEntryEach
<1> QED
  BY <1>1, <1>2, <1>3

LEMMA NextAged ==
  ASSUME TypeOK, Reach, ~Resends, Aged, [Next]_vars
  PROVE  Aged'
<1>1. CASE Emit
  <2>1. SUFFICES ASSUME NEW i \in DOMAIN entries'
                 PROVE  Settled(i)' \/ clock <= entries'[i].createdAt + RedeliveryWithin
    BY <1>1, EmitOne DEF Aged
  <2>2. CASE i = Len(entries) + 1
    BY <1>1, <2>2, EmitOne, Facts, IngestAssumption
  <2>3. CASE i # Len(entries) + 1
    <3>1. i \in DOMAIN entries /\ entries'[i] = entries[i]
      BY <1>1, <2>1, <2>3, EmitOne, Facts
    <3> QED
      BY <3>1, SettledStays DEF Aged
  <2> QED
    BY <2>2, <2>3
<1>2. CASE Tick
  <2>1. entries' = entries /\ clock' = clock + 1
    BY <1>2 DEF Tick
  <2>2. SUFFICES ASSUME NEW i \in DOMAIN entries, ~Settled(i)'
                 PROVE  clock + 1 <= entries[i].createdAt + RedeliveryWithin
    BY <2>1 DEF Aged
  <2>3. ~Settled(i)
    BY <2>2, SettledStays
  <2>4. clock < entries[i].createdAt + RedeliveryWithin
    BY <1>2, <2>3 DEF Tick
  <2>5. entries[i].createdAt \in Nat /\ clock \in Nat
    BY Facts DEF Entry
  <2> QED
    BY <2>4, <2>5, IngestAssumption
<1>3. CASE ~(Emit \/ Tick)
  <2>1. entries' = entries /\ clock' = clock
    BY <1>3 DEF Next, vars, Start, Reclaim, ReadNew, LoseReply, DeliverNew, Commit,
                CommitUnanswered, FailCommit, DropPoison, Ack, Crash, Prune
  <2> QED
    BY <2>1, SettledStays DEF Aged
<1> QED
  BY <1>1, <1>2, <1>3

------------------------------------------------------------------------------
(* Counting. *)

\* A batch holds a transaction once, and the rollup takes it once.
LEMMA WriteCountsOnce ==
  ASSUME TypeOK, Reach, OneEntryEach, Counted, WriteBatch,
         NEW t \in transactions' \ transactions
  PROVE  rollup'[t] = 1 /\ t \in DOMAIN entries
<1>1. /\ t \in Ids /\ \E i \in Valid : entries[i].transaction = t
      /\ rollup'[t] = rollup[t] + Cardinality({i \in Valid : entries[i].transaction = t})
  BY WriteStep
<1>2. t \in Valid /\ t \in DOMAIN entries /\ t \in consumer.batch
  BY <1>1, Facts DEF OneEntryEach
<1>3. rollup[t] = 0
  BY <1>1, <1>2, BatchIsUnsettled DEF Counted
<1>4. {i \in Valid : entries[i].transaction = t} = {t}
  BY <1>2, Facts DEF OneEntryEach
<1>5. Cardinality({t}) = 1
  BY FS_Singleton
<1>6. rollup'[t] = 0 + 1
  BY <1>1, <1>3, <1>4, <1>5, Zenon
<1> QED
  BY <1>2, <1>6

LEMMA NextCounted ==
  ASSUME TypeOK, Reach, ~Resends, OneEntryEach, Aged, Counted, [Next]_vars
  PROVE  Counted'
<1>1. CASE (Commit \/ CommitUnanswered)
  <2>1. WriteBatch /\ UNCHANGED entries
    BY <1>1 DEF Commit, CommitUnanswered
  <2>2. SUFFICES ASSUME NEW t \in Ids
                 PROVE  \/ rollup'[t] = 0
                        \/ rollup'[t] = 1 /\ t \in DOMAIN entries
                             /\ (t \in transactions' \/ Settled(t)')
    BY <2>1 DEF Counted
  <2>3. CASE t \in transactions' \ transactions
    BY <2>1, <2>3, WriteCountsOnce
  <2>4. CASE t \notin transactions' \ transactions
    <3>1. rollup'[t] = rollup[t] /\ transactions \subseteq transactions'
      BY <2>1, <2>4, WriteStep
    <3> QED
      BY <3>1, SettledStays DEF Counted
  <2> QED
    BY <2>3, <2>4
<1>2. CASE Prune
  <2>1. PICK old \in SUBSET {t \in transactions : entries[t].createdAt + Retention < clock} :
          transactions' = transactions \ old
    BY <1>2 DEF Prune
  <2>2. rollup' = rollup /\ entries' = entries
    BY <1>2 DEF Prune
  <2>3. ASSUME NEW t \in DOMAIN entries, t \in transactions, t \notin transactions'
        PROVE  Settled(t)
    <3>1. entries[t].createdAt + Retention < clock
      BY <2>1, <2>3
    <3>2. entries[t].createdAt \in Nat /\ clock \in Nat
      BY Facts DEF Entry
    <3>3. ~(clock <= entries[t].createdAt + RedeliveryWithin)
      BY <3>1, <3>2, IngestAssumption, RetentionAssumption
    <3> QED
      BY <3>3 DEF Aged
  <2> QED
    BY <2>2, <2>3, SettledStays DEF Counted
<1>3. CASE ~(Commit \/ CommitUnanswered \/ Prune)
  <2>1. rollup' = rollup /\ transactions' = transactions
    BY <1>3 DEF Next, vars, Emit, Tick, Start, Reclaim, ReadNew, LoseReply, DeliverNew,
                FailCommit, DropPoison, Ack, Crash
  <2>2. DOMAIN entries \subseteq DOMAIN entries'
    <3>1. CASE Emit
      BY <3>1, EmitOne, Facts
    <3>2. CASE ~Emit
      BY <1>3, <3>2 DEF Next, vars, Tick, Start, Reclaim, ReadNew, LoseReply, DeliverNew,
                FailCommit, DropPoison, Ack, Crash
    <3> QED
      BY <3>1, <3>2
  <2> QED
    BY <2>1, <2>2, SettledStays DEF Counted
<1> QED
  BY <1>1, <1>2, <1>3

\* When the generator's client does not repeat a command, no transaction is counted
\* twice, for any batch and page size, retention and number of crashes, provided an
\* entry is settled before its row may be deleted (process-batch.ts:10-18,
\* retention.ts:10-15).
THEOREM NoDoubleCount ==
  ASSUME ~Resends PROVE Spec => []CountedOnce
<1>1. Init => OneEntryEach /\ Aged /\ Counted
  BY DEF Init, OneEntryEach, Aged, Counted
<1>2. TypeOK /\ Reach /\ OneEntryEach /\ Aged /\ Counted /\ [Next]_vars
        => OneEntryEach' /\ Aged' /\ Counted'
  BY NextOneEntryEach, NextAged, NextCounted
<1>3. Counted => CountedOnce
  BY DEF Counted, CountedOnce
<1> QED
  BY Types, <1>1, <1>2, <1>3, PTL DEF Spec
==============================================================================
