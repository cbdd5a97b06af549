------------------------- MODULE AuditLoggerProofs -------------------------
(***************************************************************************)
(* Proofs about the audit logger, for any events, any number of event and  *)
(* batch workers, and any sizes of buffer, batch and circuit threshold.    *)
(***************************************************************************)
EXTENDS AuditLogger, SequenceFacts

USE SizeAssumption, CrashAssumption

\* The batch buffer holds a whole number of batches.
LEMMA QueueSizeType == QueueSize \in Nat
  BY WorkerAssumption, FS_CardinalityType DEF QueueSize

-----------------------------------------------------------------------------
(* The hash chain and the rows of a batch *)

\* The recursion of ChainHash is well defined: it satisfies its own equation.
LEMMA ChainHashEquation ==
  ASSUME NEW es, NEW n, NEW previous, Len(es) \in Nat
  PROVE  ChainHash(es, n, previous) =
           [i \in 0 .. Len(es) |->
              IF i = 0 THEN previous ELSE HashOf(es[i], n + i, ChainHash(es, n, previous)[i - 1])]
<1> DEFINE Def(h, i) == IF i = 0 THEN previous ELSE HashOf(es[i], n + i, h[i - 1])
           S == {k \in Nat : \E h : h = [i \in 0 .. k |-> Def(h, i)]}
<1>1. 0 \in S
  <2> DEFINE h == [i \in 0 .. 0 |-> previous]
  <2>1. h = [i \in 0 .. 0 |-> Def(h, i)]
    OBVIOUS
  <2> QED
    BY <2>1
<1>2. ASSUME NEW k \in S PROVE k + 1 \in S
  <2>1. PICK h : h = [i \in 0 .. k |-> Def(h, i)]
    OBVIOUS
  <2> DEFINE g == [i \in 0 .. k + 1 |-> IF i = k + 1 THEN HashOf(es[i], n + i, h[k]) ELSE h[i]]
  <2>2. ASSUME NEW i \in 0 .. k + 1 PROVE g[i] = Def(g, i)
    <3>1. CASE i = k + 1
      BY <3>1
    <3>2. CASE i # k + 1
      <4>1. i \in 0 .. k /\ g[i] = h[i] /\ h[i] = Def(h, i)
        BY <3>2, <2>1
      <4>2. i # 0 => g[i - 1] = h[i - 1]
        BY <4>1
      <4>3. Def(g, i) = Def(h, i)
        BY <4>2
      <4> QED
        BY <4>1, <4>3
    <3> QED
      BY <3>1, <3>2
  <2>3. g = [i \in 0 .. k + 1 |-> Def(g, i)]
    BY <2>2
  <2> HIDE DEF g
  <2>4. \E f : f = [i \in 0 .. k + 1 |-> Def(f, i)]
    BY <2>3, Zenon
  <2>5. k + 1 \in Nat
    OBVIOUS
  <2> QED
    BY <2>4, <2>5, Zenon
<1>3. Len(es) \in S
  BY <1>1, <1>2, NatSetInduction
<1>4. PICK h : h = [i \in 0 .. Len(es) |-> Def(h, i)]
  BY <1>3
<1>5. ChainHash(es, n, previous) = CHOOSE g : g = [i \in 0 .. Len(es) |-> Def(g, i)]
  BY DEF ChainHash
<1> QED
  BY <1>4, <1>5, Zenon

\* The chain starts with the hash it is given, and holds only hashes.
LEMMA ChainHashType ==
  ASSUME NEW es \in Seq(Events), NEW n \in Nat, NEW previous \in Hash
  PROVE  /\ ChainHash(es, n, previous)[0] = previous
         /\ \A i \in 0 .. Len(es) : ChainHash(es, n, previous)[i] \in Hash
<1> DEFINE h == ChainHash(es, n, previous)
           S == {k \in Nat : k <= Len(es) => h[k] \in Hash}
<1>1. Len(es) \in Nat
  OBVIOUS
<1>2. h = [i \in 0 .. Len(es) |-> IF i = 0 THEN previous ELSE HashOf(es[i], n + i, h[i - 1])]
  BY <1>1, ChainHashEquation
<1> HIDE DEF h
<1>3. h[0] = previous /\ \A i \in 1 .. Len(es) : h[i] = HashOf(es[i], n + i, h[i - 1])
  BY <1>1, <1>2
<1>4. 0 \in S
  BY <1>3
<1>5. ASSUME NEW k \in S PROVE k + 1 \in S
  <2>1. ASSUME k + 1 <= Len(es) PROVE h[k + 1] \in Hash
    <3>1. k + 1 \in 1 .. Len(es) /\ (k + 1) - 1 = k /\ h[k] \in Hash
      BY <1>1, <2>1
    <3>2. h[k + 1] = HashOf(es[k + 1], n + (k + 1), h[k])
      BY <1>3, <3>1
    <3>3. es[k + 1] \in Events /\ n + (k + 1) \in Nat
      BY <3>1
    <3> QED
      BY <3>1, <3>2, <3>3 DEF HashOf, Hash
  <2> QED
    BY <2>1
<1>6. S = Nat
  BY <1>4, <1>5, NatSetInduction
<1>7. \A i \in 0 .. Len(es) : h[i] \in Hash
  BY <1>1, <1>6
<1> QED
  BY <1>3, <1>7 DEF h

\* The row of the i-th event of a batch.
RowAt(es, n, previous, i) ==
  [event |-> es[i], number |-> n + i,
   previous |-> ChainHash(es, n, previous)[i - 1], hash |-> ChainHash(es, n, previous)[i]]

RowType == [event : Events, number : Nat, previous : Hash, hash : Hash]

\* Such a row: the first is linked to the hash given, each other one to the row
\* before it.
LEMMA RowFacts ==
  ASSUME NEW es \in Seq(Events), NEW n \in Nat, NEW previous \in Hash, NEW i \in 1 .. Len(es)
  PROVE  /\ RowAt(es, n, previous, i) \in RowType
         /\ RowAt(es, n, previous, i).event = es[i]
         /\ RowAt(es, n, previous, i).number = n + i
         /\ i = 1 => RowAt(es, n, previous, i).previous = previous
         /\ i > 1 => RowAt(es, n, previous, i).previous = RowAt(es, n, previous, i - 1).hash
<1>1. Len(es) \in Nat /\ i \in 0 .. Len(es) /\ i - 1 \in 0 .. Len(es) /\ es[i] \in Events /\ n + i \in Nat
  OBVIOUS
<1>2. /\ ChainHash(es, n, previous)[0] = previous
      /\ ChainHash(es, n, previous)[i] \in Hash /\ ChainHash(es, n, previous)[i - 1] \in Hash
  BY <1>1, ChainHashType
<1> QED
  BY <1>1, <1>2 DEF RowAt, RowType

\* The rows of a batch: one for each event, numbered on from n.
LEMMA RowsFacts ==
  ASSUME NEW es \in Seq(Events), NEW n \in Nat, NEW previous \in Hash
  PROVE  /\ Rows(es, n, previous) = {RowAt(es, n, previous, i) : i \in 1 .. Len(es)}
         /\ Numbers(Rows(es, n, previous)) = n + 1 .. n + Len(es)
<1>1. Rows(es, n, previous) = {RowAt(es, n, previous, i) : i \in 1 .. Len(es)}
  BY DEF Rows, RowAt
<1>2. \A i \in 1 .. Len(es) : RowAt(es, n, previous, i).number = n + i
  BY RowFacts
<1>3. Numbers(Rows(es, n, previous)) = {n + i : i \in 1 .. Len(es)}
  BY <1>1, <1>2 DEF Numbers
<1>4. {n + i : i \in 1 .. Len(es)} = n + 1 .. n + Len(es)
  <2>1. Len(es) \in Nat
    OBVIOUS
  <2>2. ASSUME NEW k \in n + 1 .. n + Len(es) PROVE k \in {n + i : i \in 1 .. Len(es)}
    <3>1. k - n \in 1 .. Len(es) /\ k = n + (k - n)
      BY <2>1, <2>2
    <3> QED
      BY <3>1
  <2> QED
    BY <2>1, <2>2
<1> QED
  BY <1>1, <1>3, <1>4

\* Numbers that go on from the highest are above the first.
LEMMA RowsTypes ==
  ASSUME NEW es \in Seq(Events), NEW n \in Nat, NEW previous \in Hash, n >= First
  PROVE  \A r \in Rows(es, n, previous) : r \in RowType /\ r.number > First
<1> SUFFICES ASSUME NEW r \in Rows(es, n, previous) PROVE r \in RowType /\ r.number > First
  OBVIOUS
<1>1. PICK i \in 1 .. Len(es) : r = RowAt(es, n, previous, i)
  BY RowsFacts
<1>2. RowAt(es, n, previous, i) \in RowType /\ RowAt(es, n, previous, i).number = n + i
  BY RowFacts
<1> QED
  BY <1>1, <1>2 DEF First

-----------------------------------------------------------------------------
(* Tables with consecutive numbers *)

UniqueNumbers(rows) == \A r, q \in rows : r.number = q.number => r = q

\* Their highest number, the hash of the row that has it, and their size.
LEMMA HighestOf ==
  ASSUME NEW rows, NEW n \in Nat, Numbers(rows) = First + 1 .. First + n
  PROVE  Highest(rows) = First + n
<1> USE DEF First
<1>0. rows = {} <=> Numbers(rows) = {}
  BY Zenon DEF Numbers
<1>1. rows = {} <=> n = 0
  BY <1>0
<1>2. CASE n = 0
  BY <1>1, <1>2 DEF Highest
<1>3. CASE n # 0
  <2>1. First + n \in Numbers(rows) /\ \A y \in Numbers(rows) : First + n >= y
    BY <1>3
  <2>2. ASSUME NEW x \in Numbers(rows), \A y \in Numbers(rows) : x >= y PROVE x = First + n
    <3>1. x \in Int /\ x >= First + n /\ First + n >= x
      BY <2>1, <2>2
    <3> QED
      BY <3>1
  <2>3. Max(Numbers(rows)) = First + n
    BY <2>1, <2>2 DEF Max
  <2> QED
    BY <1>1, <1>3, <2>3 DEF Highest
<1> QED
  BY <1>2, <1>3

LEMMA LatestHashOf ==
  ASSUME NEW rows, UniqueNumbers(rows), NEW r \in rows, r.number = Highest(rows)
  PROVE  LatestHash(rows) = r.hash
<1>1. \A q \in rows : q.number = Highest(rows) => q = r
  BY DEF UniqueNumbers
<1>2. (CHOOSE q \in rows : q.number = Highest(rows)) = r
  BY <1>1
<1> QED
  BY <1>2 DEF LatestHash

LEMMA SizeOf ==
  ASSUME NEW rows, NEW n \in Nat, UniqueNumbers(rows), Numbers(rows) = First + 1 .. First + n
  PROVE  IsFiniteSet(rows) /\ Cardinality(rows) = n
<1> DEFINE f == [r \in rows |-> r.number]
           T == First + 1 .. First + n
<1>1. f \in Injection(rows, T)
  BY DEF Injection, IsInjective, Numbers, UniqueNumbers
<1>2. f \in Surjection(rows, T)
  BY DEF Surjection, Numbers
<1>3. IsFiniteSet(T) /\ Cardinality(T) = n
  BY FS_Interval DEF First
<1> HIDE DEF f, T
<1> QED
  BY <1>1, <1>2, <1>3, FS_Injection

\* The table of a correct state: its highest number counts its rows, and what
\* the two reads of StoreBatch return is a number and a hash.
LEMMA TableFacts ==
  ASSUME TypeOK, NumbersInv, TrailLinked
  PROVE  /\ Cardinality(trail) \in Nat
         /\ Highest(trail) = First + Cardinality(trail)
         /\ LatestHash(trail) \in Hash
<1>1. Cardinality(trail) \in Nat
  BY FS_CardinalityType DEF NumbersInv
<1>2. Highest(trail) = First + Cardinality(trail)
  BY <1>1, HighestOf DEF TrailLinked
<1>3. LatestHash(trail) \in Hash
  <2>1. CASE trail = {}
    BY <2>1 DEF LatestHash, NoHash, Hash
  <2>2. CASE trail # {}
    <3>1. Numbers(trail) # {}
      BY <2>2, Zenon DEF Numbers
    <3>2. Highest(trail) \in Numbers(trail)
      BY <1>1, <1>2, <3>1 DEF TrailLinked, First
    <3>3. PICK r \in trail : r.number = Highest(trail)
      BY <3>2 DEF Numbers
    <3>4. r.hash \in Hash
      BY DEF TypeOK
    <3> QED
      BY <3>3, <3>4, LatestHashOf DEF NumbersInv, UniqueNumbers
  <2> QED
    BY <2>1, <2>2
<1> QED
  BY <1>1, <1>2, <1>3

-----------------------------------------------------------------------------
(* Types *)

LifeType ==
  /\ running \in BOOLEAN /\ cancelled \in BOOLEAN /\ (cancelled => ~running)
  /\ caller \in [Events -> {"new", "checked", "buffered", "dropped", "lost"}]
  /\ exiting \in BOOLEAN /\ (exiting => cancelled)
  /\ crashes \in 0 .. MaxCrashes
ChannelType ==
  /\ buffer \in Seq(Events) /\ Len(buffer) <= BufferSize
  /\ batch \in Seq(Events) /\ Len(batch) < BatchSize
  /\ queue \in Seq(Seq(Events) \ {<< >>}) /\ Len(queue) <= QueueSize
  /\ flushing \in BOOLEAN
ProcessType ==
  /\ pc \in [Processors -> Steps]
  /\ work \in [Processors -> Seq(Events)]
  /\ \A p \in Processors : work[p] = << >> <=> pc[p] \in {"idle", "stopped"}
ReadType == base \in [Processors -> Nat] /\ prev \in [Processors -> Hash]
TableType ==
  /\ trail \subseteq RowType /\ \A r \in trail : r.number > First
  /\ published \subseteq Events
BreakerType == circuit \in {"closed", "open"} /\ failed \in 0 .. Threshold /\ blocked \in BOOLEAN

\* The types by the part of the state they are about, before and after a step,
\* and what becomes of the parts that a step leaves alone.
LEMMA TypeParts ==
  /\ TypeOK <=> LifeType /\ ChannelType /\ ProcessType /\ ReadType /\ TableType /\ BreakerType
  /\ TypeOK' <=> LifeType' /\ ChannelType' /\ ProcessType' /\ ReadType' /\ TableType' /\ BreakerType'
  BY Zenon DEF TypeOK, LifeType, ChannelType, ProcessType, ReadType, TableType, BreakerType, RowType

LEMMA KeepTypes ==
  ASSUME TypeOK
  PROVE  /\ UNCHANGED <<lifecycle, caller, exiting>> => LifeType'
         /\ UNCHANGED channels => ChannelType'
         /\ UNCHANGED <<pc, work>> => ProcessType'
         /\ UNCHANGED <<base, prev>> => ReadType'
         /\ UNCHANGED <<trail, published>> => TableType'
         /\ UNCHANGED breaker => BreakerType'
<1>1. LifeType /\ ChannelType /\ ProcessType /\ ReadType /\ TableType /\ BreakerType
  BY TypeParts
<1>2. UNCHANGED <<lifecycle, caller, exiting>> => LifeType'
  BY <1>1 DEF lifecycle, LifeType
<1>3. UNCHANGED channels => ChannelType'
  BY <1>1 DEF channels, ChannelType
<1>4. UNCHANGED <<pc, work>> => ProcessType'
  BY <1>1 DEF ProcessType
<1>5. UNCHANGED <<base, prev>> => ReadType'
  BY <1>1 DEF ReadType
<1>6. UNCHANGED <<trail, published>> => TableType'
  BY <1>1 DEF TableType
<1>7. UNCHANGED breaker => BreakerType'
  BY <1>1 DEF breaker, BreakerType
<1> QED
  BY <1>2, <1>3, <1>4, <1>5, <1>6, <1>7

\* sendBatch: a batch that is not empty is queued, or the coordinator holds it.
LEMMA SendBatchTypes ==
  ASSUME TypeOK, NEW es \in Seq(Events), es # << >>, NEW exits \in BOOLEAN, exits => cancelled,
         pc[Coordinator] = "idle", SendBatch(es, exits)
  PROVE  /\ batch' \in Seq(Events) /\ Len(batch') < BatchSize
         /\ queue' \in Seq(Seq(Events) \ {<< >>}) /\ Len(queue') <= QueueSize
         /\ ProcessType'
         /\ exiting' \in BOOLEAN /\ (exiting' => cancelled)
<1> USE DEF TypeOK, SendBatch, Steps, ProcessType
<1>1. Coordinator \in Processors
  BY DEF Processors
<1>2. batch' \in Seq(Events) /\ Len(batch') < BatchSize /\ exiting' \in BOOLEAN /\ (exiting' => cancelled)
  OBVIOUS
<1>3. CASE Len(queue) < QueueSize
  <2>1. queue' = Append(queue, es) /\ es \in Seq(Events) \ {<< >>} /\ Len(queue) \in Nat
    BY <1>3
  <2>2. queue' \in Seq(Seq(Events) \ {<< >>}) /\ Len(queue') = Len(queue) + 1
    BY <2>1
  <2>3. Len(queue') <= QueueSize
    BY <1>3, <2>1, <2>2, QueueSizeType
  <2>4. /\ pc' \in [Processors -> Steps]
        /\ work' \in [Processors -> Seq(Events)]
        /\ \A p \in Processors : work'[p] = << >> <=> pc'[p] \in {"idle", "stopped"}
    BY <1>1, <1>3
  <2> QED
    BY <1>2, <2>2, <2>3, <2>4
<1>4. CASE ~ (Len(queue) < QueueSize)
  <2>1. /\ pc' \in [Processors -> Steps]
        /\ work' \in [Processors -> Seq(Events)]
        /\ \A p \in Processors : work'[p] = << >> <=> pc'[p] \in {"idle", "stopped"}
    <3>1. work' = [work EXCEPT ![Coordinator] = es] /\ pc' = [pc EXCEPT ![Coordinator] = "execute"]
      BY <1>4
    <3> QED
      BY <1>1, <3>1
  <2>2. queue' = queue
    BY <1>4
  <2> QED
    BY <1>2, <2>1, <2>2
<1> QED
  BY <1>3, <1>4

\* A processor is done: it holds nothing, and waits or has returned.
LEMMA DoneTypes ==
  ASSUME TypeOK, NEW p \in Processors, Done(p)
  PROVE  ProcessType' /\ ReadType' /\ exiting' = exiting
<1>1. ProcessType /\ ReadType
  BY TypeParts
<1>2. ProcessType'
  BY <1>1 DEF ProcessType, Done, Steps
<1>3. ReadType'
  BY <1>1 DEF ReadType, Done, NoHash, Hash
<1> QED
  BY <1>2, <1>3 DEF Done

\* A processor that holds events goes on to another step with them.
LEMMA GotoTypes ==
  ASSUME TypeOK, NEW p \in Processors, pc[p] \notin {"idle", "stopped"},
         NEW l \in Steps \ {"idle", "stopped"}, Goto(p, l)
  PROVE  ProcessType' /\ exiting' = exiting
<1>1. ProcessType
  BY TypeParts
<1> QED
  BY <1>1 DEF ProcessType, Goto

\* The rows that a processor inserts are rows of the table.
LEMMA InsertTypes ==
  ASSUME TypeOK, ReadInv, NumbersInv, TrailLinked, NEW p \in Processors, pc[p] = "insert",
         trail' = trail \cup Rows(work[p], base[p], prev[p])
  PROVE  trail' \subseteq RowType /\ \A r \in trail' : r.number > First
<1>1. work[p] \in Seq(Events) /\ base[p] \in Nat /\ prev[p] \in Hash /\ base[p] >= First
  BY TableFacts DEF TypeOK, ReadInv, First
<1>2. \A r \in Rows(work[p], base[p], prev[p]) : r \in RowType /\ r.number > First
  BY <1>1, RowsTypes
<1> QED
  BY <1>2 DEF TypeOK, RowType

\* One processor's steps through the circuit breaker and StoreBatch.
LEMMA ProcessTypes ==
  ASSUME TypeOK, ReadInv, NumbersInv, TrailLinked, NEW p \in Processors, Process(p)
  PROVE  TypeOK'
<1> USE DEF lifecycle, channels, store, breaker
<1>0. LifeType /\ ChannelType /\ ProcessType /\ ReadType /\ TableType /\ BreakerType
  BY TypeParts
<1>1. CASE Refused(p)
  BY KeepTypes, TypeParts, <1>1, DoneTypes DEF Refused
<1>2. CASE Admitted(p)
  BY KeepTypes, TypeParts, <1>2, GotoTypes DEF Admitted, Goto, Steps
<1>3. CASE ReadNumber(p)
  <2>1. ReadType'
    BY <1>0, <1>3, TableFacts DEF ReadNumber, ReadType, First
  <2>2. ProcessType' /\ exiting' = exiting
    BY <1>3, GotoTypes DEF ReadNumber, Steps
  <2> QED
    BY KeepTypes, TypeParts, <1>3, <2>1, <2>2 DEF ReadNumber
<1>4. CASE ReadHash(p)
  <2>1. ReadType'
    BY <1>0, <1>4, TableFacts DEF ReadHash, ReadType
  <2>2. ProcessType' /\ exiting' = exiting
    BY <1>4, GotoTypes DEF ReadHash, Steps
  <2> QED
    BY KeepTypes, TypeParts, <1>4, <2>1, <2>2 DEF ReadHash
<1>5. CASE Insert(p) \/ CommitUnacknowledged(p)
  <2>1. trail' \subseteq RowType /\ \A r \in trail' : r.number > First
    BY <1>5, InsertTypes DEF Insert, CommitUnacknowledged
  <2>2. ProcessType' /\ exiting' = exiting
    BY <1>5, GotoTypes DEF Insert, CommitUnacknowledged, Steps
  <2>3. TableType'
    BY <1>0, <1>5, <2>1 DEF Insert, CommitUnacknowledged, TableType
  <2> QED
    BY KeepTypes, TypeParts, <1>5, <2>2, <2>3 DEF Insert, CommitUnacknowledged
<1>6. CASE StoreFails(p)
  <2>1. ProcessType' /\ exiting' = exiting
    BY <1>6, GotoTypes DEF StoreFails, Steps
  <2> QED
    BY KeepTypes, TypeParts, <1>6, <2>1 DEF StoreFails
<1>7. ASSUME NEW es \in SUBSET ToSet(work[p]), Publish(p, es) PROVE TypeOK'
  <2>1. ToSet(work[p]) \subseteq Events
    BY <1>0, SeqFacts DEF ProcessType
  <2>2. TableType'
    BY <1>0, <1>7, <2>1 DEF Publish, TableType
  <2>3. ProcessType' /\ exiting' = exiting
    BY <1>7, GotoTypes DEF Publish, Steps
  <2> QED
    BY KeepTypes, TypeParts, <1>7, <2>2, <2>3 DEF Publish
<1>8. CASE RecordFailure(p)
  <2>0. /\ circuit \in {"closed", "open"} /\ failed \in 0 .. Threshold /\ blocked \in BOOLEAN
        /\ failed' = IF failed < Threshold THEN failed + 1 ELSE failed
        /\ (circuit' = "open" /\ blocked' = TRUE) \/ UNCHANGED <<circuit, blocked>>
    BY <1>0, <1>8 DEF RecordFailure, BreakerType
  <2>a. failed' \in 0 .. Threshold
    BY <2>0
  <2>1. BreakerType'
    BY <2>0, <2>a DEF BreakerType
  <2> QED
    BY KeepTypes, TypeParts, <1>8, <2>1, DoneTypes DEF RecordFailure
<1>9. CASE RecordSuccess(p)
  <2>1. BreakerType'
    <3>1. (circuit' = "closed" /\ failed' = 0 /\ blocked' = FALSE) \/ UNCHANGED <<circuit, failed, blocked>>
      BY <1>9 DEF RecordSuccess
    <3>2. /\ circuit \in {"closed", "open"} /\ failed \in 0 .. Threshold /\ blocked \in BOOLEAN
          /\ 0 \in 0 .. Threshold
      BY <1>0 DEF BreakerType
    <3>3. CASE circuit' = "closed" /\ failed' = 0 /\ blocked' = FALSE
      BY <3>2, <3>3 DEF BreakerType
    <3>4. CASE UNCHANGED <<circuit, failed, blocked>>
      BY <3>2, <3>4 DEF BreakerType
    <3> QED
      BY <3>1, <3>3, <3>4
  <2> QED
    BY KeepTypes, TypeParts, <1>9, <2>1, DoneTypes DEF RecordSuccess
<1> QED
  BY <1>1, <1>2, <1>3, <1>4, <1>5, <1>6, <1>7, <1>8, <1>9 DEF Process

\* Channels that hold nothing are within their capacities.
LEMMA EmptyChannels ==
  /\ << >> \in Seq(Events) /\ << >> \in Seq(Seq(Events) \ {<< >>})
  /\ Len(<< >>) <= BufferSize /\ Len(<< >>) < BatchSize /\ Len(<< >>) <= QueueSize
<1>1. Len(<< >>) = 0 /\ << >> \in Seq(Events) /\ << >> \in Seq(Seq(Events) \ {<< >>})
  OBVIOUS
<1> QED
  BY <1>1, QueueSizeType

LEMMA TypeStep ==
  ASSUME TypeOK, ReadInv, NumbersInv, TrailLinked, [Next]_vars
  PROVE  TypeOK'
<1> USE DEF lifecycle, channels, processing, store, breaker
<1>0. LifeType /\ ChannelType /\ ProcessType /\ ReadType /\ TableType /\ BreakerType
  BY TypeParts
<1>1. CASE Clients
  <2>1. ASSUME NEW e \in Events, LogEvent(e) \/ DropEvent(e) PROVE TypeOK'
    <3>1. LifeType'
      BY <1>0, <2>1 DEF LogEvent, DropEvent, LifeType
    <3> QED
      BY KeepTypes, TypeParts, <2>1, <3>1 DEF LogEvent, DropEvent
  <2>2. ASSUME NEW e \in Events, BufferEvent(e) PROVE TypeOK'
    <3>1. LifeType'
      BY <1>0, <2>2 DEF BufferEvent, LifeType
    <3>2. ChannelType'
      BY <1>0, <2>2 DEF BufferEvent, ChannelType
    <3> QED
      BY KeepTypes, TypeParts, <2>2, <3>1, <3>2 DEF BufferEvent
  <2>3. ASSUME FlushEvents \/ FlushTakes \/ FlushTimeout PROVE TypeOK'
    <3>1. /\ batch' = batch /\ queue' = queue /\ flushing' \in BOOLEAN
          /\ buffer' = buffer \/ (buffer # << >> /\ buffer' = Tail(buffer))
      BY <1>0, <2>3 DEF FlushEvents, FlushTakes, FlushTimeout, ChannelType
    <3>a. buffer \in Seq(Events) /\ Len(buffer) <= BufferSize
      BY <1>0 DEF ChannelType
    <3>b. buffer' \in Seq(Events) /\ Len(buffer') <= BufferSize
      BY <3>1, <3>a
    <3>2. ChannelType'
      BY <1>0, <3>1, <3>b DEF ChannelType
    <3> QED
      BY KeepTypes, TypeParts, <2>3, <3>2 DEF FlushEvents, FlushTakes, FlushTimeout
  <2>4. CASE Close
    <3>1. LifeType'
      BY <1>0, <2>4 DEF Close, LifeType
    <3> QED
      BY KeepTypes, TypeParts, <2>4, <3>1 DEF Close
  <2> QED
    BY <1>1, <2>1, <2>2, <2>3, <2>4 DEF Clients
<1>2. CASE Cancel
  <2>1. LifeType'
    BY <1>0, <1>2 DEF Cancel, LifeType
  <2> QED
    BY KeepTypes, TypeParts, <1>2, <2>1 DEF Cancel
<1>3. ASSUME NEW w \in Processors, TakeEvent(w) PROVE TypeOK'
  <2>1. ChannelType' /\ <<Head(buffer)>> \in Seq(Events) /\ <<Head(buffer)>> # << >>
    BY <1>0, <1>3 DEF TakeEvent, ChannelType
  <2>2. ProcessType'
    BY <1>0, <1>3, <2>1 DEF TakeEvent, ProcessType, Steps
  <2> QED
    BY KeepTypes, TypeParts, <1>3, <2>1, <2>2 DEF TakeEvent
<1>4. ASSUME NEW b \in Processors, TakeBatch(b) PROVE TypeOK'
  <2>1. ChannelType' /\ Head(queue) \in Seq(Events) \ {<< >>}
    BY <1>0, <1>4, QueueSizeType DEF TakeBatch, ChannelType
  <2>2. ProcessType'
    BY <1>0, <1>4, <2>1 DEF TakeBatch, ProcessType, Steps
  <2> QED
    BY KeepTypes, TypeParts, <1>4, <2>1, <2>2 DEF TakeBatch
<1>5. ASSUME NEW p \in Processors, WorkerStops(p) PROVE TypeOK'
  <2>1. ProcessType'
    BY <1>0, <1>5 DEF WorkerStops, ProcessType, Steps
  <2> QED
    BY KeepTypes, TypeParts, <1>5, <2>1 DEF WorkerStops
<1>6. CASE CollectEvent
  <2> DEFINE es == Append(batch, Head(buffer))
  <2>1. buffer' \in Seq(Events) /\ Len(buffer') <= BufferSize
    BY <1>0, <1>6 DEF CollectEvent, ChannelType
  <2>2. es \in Seq(Events) /\ es # << >> /\ Len(es) \in Nat
    <3>1. buffer \in Seq(Events) /\ buffer # << >> /\ batch \in Seq(Events)
      BY <1>0, <1>6 DEF CollectEvent, ChannelType
    <3>2. Head(buffer) \in Events
      BY <3>1
    <3> QED
      BY <3>1, <3>2
  <2>3. /\ UNCHANGED <<lifecycle, caller, flushing, store, breaker>> /\ pc[Coordinator] = "idle"
        /\ IF Len(es) >= BatchSize THEN SendBatch(es, FALSE) ELSE batch' = es /\ UNCHANGED <<queue, processing>>
    BY <1>6 DEF CollectEvent
  <2> HIDE DEF es
  <2>4. CASE Len(es) >= BatchSize
    <3>1. /\ batch' \in Seq(Events) /\ Len(batch') < BatchSize
          /\ queue' \in Seq(Seq(Events) \ {<< >>}) /\ Len(queue') <= QueueSize
          /\ ProcessType'
          /\ exiting' \in BOOLEAN /\ (exiting' => cancelled)
      BY <2>2, <2>3, <2>4, SendBatchTypes
    <3>2. ChannelType'
      BY <1>0, <2>1, <2>3, <3>1 DEF ChannelType
    <3>3. LifeType'
      BY <1>0, <2>3, <3>1 DEF LifeType
    <3> QED
      BY KeepTypes, TypeParts, <2>3, <3>1, <3>2, <3>3
  <2>5. CASE ~ (Len(es) >= BatchSize)
    <3>1. ChannelType'
      BY <1>0, <2>1, <2>2, <2>3, <2>5 DEF ChannelType
    <3> QED
      BY KeepTypes, TypeParts, <2>3, <2>5, <3>1
  <2> QED
    BY <2>4, <2>5
<1>7. ASSUME NEW exits \in BOOLEAN, exits => cancelled, pc[Coordinator] = "idle", batch # << >>,
             SendBatch(batch, exits), UNCHANGED <<lifecycle, caller, buffer, flushing, store, breaker>>
      PROVE  TypeOK'
  <2>1. /\ batch' \in Seq(Events) /\ Len(batch') < BatchSize
        /\ queue' \in Seq(Seq(Events) \ {<< >>}) /\ Len(queue') <= QueueSize
        /\ ProcessType'
        /\ exiting' \in BOOLEAN /\ (exiting' => cancelled)
    BY <1>0, <1>7, SendBatchTypes DEF ChannelType
  <2>2. ChannelType'
    BY <1>0, <1>7, <2>1 DEF ChannelType
  <2>3. LifeType'
    BY <1>0, <1>7, <2>1 DEF LifeType
  <2> QED
    BY KeepTypes, TypeParts, <1>7, <2>1, <2>2, <2>3
<1>8. CASE BatchTimeout
  BY <1>7, <1>8 DEF BatchTimeout
<1>9. CASE CoordinatorStops
  <2>1. CASE batch # << >>
    BY <1>7, <1>9, <2>1 DEF CoordinatorStops
  <2>2. CASE batch = << >>
    <3>1. ProcessType'
      BY <1>0, <1>9, <2>2 DEF CoordinatorStops, ProcessType, Processors, Steps
    <3> QED
      BY KeepTypes, TypeParts, <1>9, <2>2, <3>1 DEF CoordinatorStops
  <2> QED
    BY <2>1, <2>2
<1>10. CASE RetryTimeReached
  <2>1. BreakerType'
    BY <1>0, <1>10 DEF RetryTimeReached, BreakerType
  <2> QED
    BY KeepTypes, TypeParts, <1>10, <2>1 DEF RetryTimeReached
<1>11. CASE Crash
  <2>1. LifeType'
    <3>1. /\ running' = TRUE /\ cancelled' = FALSE /\ exiting' = FALSE
          /\ crashes < MaxCrashes /\ crashes' = crashes + 1
          /\ caller' = [e \in Events |-> IF caller[e] = "checked" THEN "lost" ELSE caller[e]]
      BY <1>11 DEF Crash
    <3>2. /\ caller \in [Events -> {"new", "checked", "buffered", "dropped", "lost"}]
          /\ crashes \in 0 .. MaxCrashes
      BY <1>0 DEF LifeType
    <3>3. crashes' \in 0 .. MaxCrashes
      BY <3>1, <3>2
    <3>4. caller' \in [Events -> {"new", "checked", "buffered", "dropped", "lost"}]
      BY <3>1, <3>2
    <3> QED
      BY <3>1, <3>3, <3>4 DEF LifeType
  <2>a. BreakerType'
    <3>1. circuit' = "closed" /\ failed' = 0 /\ blocked' = FALSE
      BY <1>11 DEF Crash
    <3>2. 0 \in 0 .. Threshold
      OBVIOUS
    <3> QED
      BY <3>1, <3>2, Zenon DEF BreakerType
  <2>2. ChannelType'
    BY <1>11, EmptyChannels DEF Crash, ChannelType
  <2>3. ProcessType'
    BY <1>11 DEF Crash, ProcessType, Steps
  <2>4. ReadType'
    BY <1>11 DEF Crash, ReadType, NoHash, Hash
  <2> QED
    BY KeepTypes, TypeParts, <1>11, <2>1, <2>a, <2>2, <2>3, <2>4 DEF Crash
<1>12. CASE UNCHANGED vars
  BY KeepTypes, TypeParts, <1>12 DEF vars
<1>13. Workers \subseteq Processors /\ BatchWorkers \subseteq Processors /\ Coordinator \in Processors
  BY DEF Processors
<1>14. ASSUME NEW p \in Processors, Process(p) PROVE TypeOK'
  BY <1>14, ProcessTypes
<1> QED
  BY <1>1, <1>2, <1>3, <1>4, <1>5, <1>6, <1>8, <1>9, <1>10, <1>11, <1>12, <1>13, <1>14
     DEF Next, RunWorker, RunBatchWorker, RunCoordinator

-----------------------------------------------------------------------------
(* The audit trail *)

Linked(rows) == \A r \in rows : r.previous = LatestHash({q \in rows : q.number < r.number})

\* A batch that is numbered from the highest number and linked to the latest
\* hash extends a linked table with consecutive numbers to another one.
LEMMA ExtendTable ==
  ASSUME NEW rows, rows \subseteq RowType, UniqueNumbers(rows), Linked(rows),
         NEW n \in Nat, Numbers(rows) = First + 1 .. First + n,
         NEW es \in Seq(Events), LatestHash(rows) \in Hash,
         NEW new, new = rows \cup Rows(es, First + n, LatestHash(rows))
  PROVE  UniqueNumbers(new) /\ Linked(new) /\ Numbers(new) = First + 1 .. First + (n + Len(es))
<1>0. PICK m \in Nat, h \in Hash : m = First + n /\ h = LatestHash(rows)
  BY DEF First
<1> DEFINE R == Rows(es, m, h)
           row == [i \in 1 .. Len(es) |-> RowAt(es, m, h, i)]
<1>1. First + n \in Nat /\ Len(es) \in Nat /\ First \in Nat
  BY DEF First
<1>2. R = {row[i] : i \in 1 .. Len(es)} /\ Numbers(R) = m + 1 .. m + Len(es)
  <2>1. R = {RowAt(es, m, h, i) : i \in 1 .. Len(es)} /\ Numbers(R) = m + 1 .. m + Len(es)
    BY RowsFacts
  <2>2. \A i \in 1 .. Len(es) : row[i] = RowAt(es, m, h, i)
    OBVIOUS
  <2> HIDE DEF R, row
  <2> QED
    BY <2>1, <2>2
<1>3. \A i \in 1 .. Len(es) : row[i].number = First + n + i
  <2>1. \A i \in 1 .. Len(es) : RowAt(es, m, h, i).number = m + i
    BY RowFacts
  <2> QED
    BY <1>0, <2>1
<1>4. /\ \A i \in 1 .. Len(es) : i = 1 => row[i].previous = LatestHash(rows)
      /\ \A i \in 1 .. Len(es) : i > 1 => row[i].previous = row[i - 1].hash
  <2>1. ASSUME NEW i \in 1 .. Len(es)
        PROVE  /\ i = 1 => row[i].previous = h
               /\ i > 1 => row[i].previous = row[i - 1].hash
    <3>1. row[i] = RowAt(es, m, h, i)
      OBVIOUS
    <3>2. i > 1 => i - 1 \in 1 .. Len(es) /\ row[i - 1] = RowAt(es, m, h, i - 1)
      BY <1>1
    <3> HIDE DEF row, R
    <3>3. i = 1 => RowAt(es, m, h, i).previous = h
      BY RowFacts
    <3>4. i > 1 => RowAt(es, m, h, i).previous = RowAt(es, m, h, i - 1).hash
      BY RowFacts
    <3> QED
      BY <3>1, <3>2, <3>3, <3>4, Zenon
  <2> QED
    BY <1>0, <2>1
<1>5. new = rows \cup R
  BY <1>0
<1> HIDE DEF R, row
<1>6. \A r \in rows : r.number \in First + 1 .. First + n
  BY DEF Numbers
<1>7. UniqueNumbers(new)
  <2>1. \A i, j \in 1 .. Len(es) : row[i].number = row[j].number => i = j
    BY <1>1, <1>3
  <2>2. \A r \in rows, i \in 1 .. Len(es) : r.number # row[i].number
    BY <1>1, <1>3, <1>6
  <2> QED
    BY <1>2, <1>5, <2>1, <2>2 DEF UniqueNumbers
<1>8. Numbers(new) = First + 1 .. First + (n + Len(es))
  <2>1. Numbers(new) = Numbers(rows) \cup Numbers(R)
    BY <1>5, Zenon DEF Numbers
  <2>2. First + 1 .. First + (n + Len(es)) = (First + 1 .. First + n) \cup (m + 1 .. m + Len(es))
    BY <1>0, <1>1
  <2> QED
    BY <1>2, <2>1, <2>2
<1>9. ASSUME NEW r \in rows PROVE r.previous = LatestHash({q \in new : q.number < r.number})
  <2>1. {q \in new : q.number < r.number} = {q \in rows : q.number < r.number}
    BY <1>1, <1>2, <1>3, <1>5, <1>6
  <2> QED
    BY <2>1 DEF Linked
<1>10. ASSUME NEW i \in 1 .. Len(es) PROVE row[i].previous = LatestHash({q \in new : q.number < row[i].number})
  <2> DEFINE before == {q \in new : q.number < row[i].number}
  <2>1. CASE i = 1
    <3>1. before = rows
      BY <1>1, <1>2, <1>3, <1>5, <1>6, <2>1
    <3> QED
      BY <1>4, <2>1, <3>1
  <2>2. CASE i > 1
    <3>1. i - 1 \in 1 .. Len(es) /\ row[i - 1] \in before /\ row[i - 1].number = First + (n + (i - 1))
      BY <1>1, <1>2, <1>3, <1>5, <2>2
    <3>2. UniqueNumbers(before)
      BY <1>7 DEF UniqueNumbers
    <3>3. Numbers(before) = {k \in Numbers(new) : k < First + n + i}
      BY <1>3 DEF Numbers
    <3>4. n + (i - 1) \in Nat /\ Numbers(before) = First + 1 .. First + (n + (i - 1))
      <4>1. \A k \in Int : k \in First + 1 .. First + (n + (i - 1)) <=>
                           k \in First + 1 .. First + (n + Len(es)) /\ k < First + n + i
        BY <1>1
      <4> HIDE DEF before
      <4> QED
        BY <1>1, <1>8, <3>3, <4>1
    <3> HIDE DEF before
    <3>5. Highest(before) = First + (n + (i - 1))
      BY <3>4, HighestOf
    <3>6. LatestHash(before) = row[i - 1].hash
      BY <3>1, <3>2, <3>5, LatestHashOf
    <3> QED
      BY <1>4, <2>2, <3>6 DEF before
  <2> QED
    BY <1>1, <2>1, <2>2
<1>11. Linked(new)
  BY <1>2, <1>5, <1>9, <1>10 DEF Linked
<1> QED
  BY <1>7, <1>8, <1>11

\* A batch whose numbers are all free was numbered from the highest number, so
\* what it read is still true.
LEMMA NoConflictIsFresh ==
  ASSUME TypeOK, TrailInv, NEW p \in Processors, pc[p] = "insert", ~ Conflict(p)
  PROVE  base[p] = Highest(trail) /\ prev[p] = LatestHash(trail)
<1>1. work[p] \in Seq(Events) /\ work[p] # << >> /\ base[p] \in Nat /\ prev[p] \in Hash
  BY DEF TypeOK
<1>2. Cardinality(trail) \in Nat /\ Highest(trail) = First + Cardinality(trail)
  BY TableFacts DEF TrailInv
<1>3. base[p] \in First .. Highest(trail)
  BY DEF TrailInv, ReadInv
<1>4. Len(work[p]) \in Nat /\ Len(work[p]) > 0
  BY <1>1
<1>5. base[p] + 1 \in Numbers(Rows(work[p], base[p], prev[p]))
  <2>1. Numbers(Rows(work[p], base[p], prev[p])) = base[p] + 1 .. base[p] + Len(work[p])
    BY <1>1, RowsFacts
  <2>2. base[p] + 1 \in base[p] + 1 .. base[p] + Len(work[p])
    BY <1>1, <1>4
  <2> QED
    BY <2>1, <2>2
<1>6. base[p] + 1 \notin First + 1 .. First + Cardinality(trail)
  BY <1>5 DEF Conflict, TrailInv, TrailLinked
<1>7. base[p] = Highest(trail)
  BY <1>1, <1>2, <1>3, <1>6 DEF First
<1> QED
  BY <1>7 DEF TrailInv, ReadInv

\* The commit of a batch: the table stays linked, and grows.
LEMMA CommitKeepsTrail ==
  ASSUME TypeOK, TrailInv, NEW p \in Processors, pc[p] = "insert", ~ Conflict(p),
         trail' = trail \cup Rows(work[p], base[p], prev[p])
  PROVE  NumbersInv' /\ TrailLinked' /\ Highest(trail') > Highest(trail)
<1> DEFINE n == Cardinality(trail)
           es == work[p]
<1>1. es \in Seq(Events) /\ es # << >> /\ trail \subseteq RowType
  BY DEF TypeOK, RowType
<1>2. n \in Nat /\ Highest(trail) = First + n /\ LatestHash(trail) \in Hash
  BY TableFacts DEF TrailInv
<1>3. base[p] = First + n /\ prev[p] = LatestHash(trail)
  BY <1>2, NoConflictIsFresh
<1>4. UniqueNumbers(trail) /\ Linked(trail) /\ Numbers(trail) = First + 1 .. First + n
  BY DEF TrailInv, NumbersInv, TrailLinked, UniqueNumbers, Linked
<1>5. trail' = trail \cup Rows(es, First + n, LatestHash(trail))
  BY <1>3
<1>6. Len(es) \in Nat /\ Len(es) > 0
  BY <1>1
<1> HIDE DEF n, es
<1>7. UniqueNumbers(trail') /\ Linked(trail') /\ Numbers(trail') = First + 1 .. First + (n + Len(es))
  BY <1>1, <1>2, <1>4, <1>5, ExtendTable
<1>8. n + Len(es) \in Nat
  BY <1>2, <1>6
<1>9. IsFiniteSet(trail') /\ Cardinality(trail') = n + Len(es)
  BY <1>7, <1>8, SizeOf
<1>10. Highest(trail') = First + (n + Len(es))
  BY <1>7, <1>8, HighestOf
<1>11. NumbersInv'
  BY <1>7, <1>9 DEF NumbersInv, UniqueNumbers
<1>12. TrailLinked'
  BY <1>7, <1>9 DEF TrailLinked, Linked
<1> QED
  BY <1>2, <1>6, <1>10, <1>11, <1>12 DEF First


\* A step that neither reads for StoreBatch, nor commits, nor publishes.
Aside ==
  /\ trail' = trail /\ published' = published
  /\ \A p \in Processors :
       pc'[p] \in {"readHash", "insert", "publish"} =>
         pc'[p] = pc[p] /\ base'[p] = base[p] /\ prev'[p] = prev[p] /\ work'[p] = work[p]

\* What a step may be, seen from the table.
LEMMA StoreCases ==
  ASSUME TypeOK, [Next]_vars
  PROVE  \/ Aside
         \/ \E p \in Processors : ReadNumber(p)
         \/ \E p \in Processors : ReadHash(p)
         \/ \E p \in Processors : Insert(p) \/ CommitUnacknowledged(p)
         \/ \E p \in Processors : \E es \in SUBSET ToSet(work[p]) : Publish(p, es)
<1> USE DEF lifecycle, channels, processing, store, breaker
<1>1. CASE Clients
  BY <1>1 DEF Clients, LogEvent, BufferEvent, DropEvent, FlushEvents, FlushTakes, FlushTimeout, Close, Aside
<1>2. CASE Cancel \/ RetryTimeReached \/ UNCHANGED vars
  BY <1>2 DEF Cancel, RetryTimeReached, vars, Aside
<1>3. CASE Crash
  BY <1>3 DEF Crash, Aside
<1>4. ASSUME NEW p \in Processors, TakeEvent(p) \/ TakeBatch(p) \/ WorkerStops(p) PROVE Aside
  BY <1>4 DEF TakeEvent, TakeBatch, WorkerStops, Aside, TypeOK
<1>5. ASSUME NEW es, NEW exits, SendBatch(es, exits), UNCHANGED store PROVE Aside
  <2>1. Coordinator \in Processors
    BY DEF Processors
  <2>2. CASE Len(queue) < QueueSize
    BY <1>5, <2>1, <2>2 DEF SendBatch, Aside, TypeOK
  <2>3. CASE ~ (Len(queue) < QueueSize)
    BY <1>5, <2>1, <2>3 DEF SendBatch, Aside, TypeOK
  <2> QED
    BY <2>2, <2>3
<1>6. CASE CollectEvent
  <2>1. CASE SendBatch(Append(batch, Head(buffer)), FALSE)
    BY <1>5, <1>6, <2>1 DEF CollectEvent
  <2>2. CASE UNCHANGED <<queue, processing>>
    BY <1>6, <2>2 DEF CollectEvent, Aside
  <2> QED
    BY <1>6, <2>1, <2>2 DEF CollectEvent
<1>7. CASE BatchTimeout
  BY <1>5, <1>7 DEF BatchTimeout
<1>8. CASE CoordinatorStops
  <2>1. CASE batch # << >>
    BY <1>5, <1>8, <2>1 DEF CoordinatorStops
  <2>2. CASE batch = << >>
    BY <1>8, <2>2 DEF CoordinatorStops, Aside, TypeOK
  <2> QED
    BY <2>1, <2>2
<1>9. ASSUME NEW p \in Processors, Done(p), UNCHANGED <<trail, published>> PROVE Aside
  BY <1>9 DEF Done, Aside, TypeOK
<1>10. ASSUME NEW p \in Processors, Refused(p) \/ RecordFailure(p) \/ RecordSuccess(p) PROVE Aside
  BY <1>9, <1>10 DEF Refused, RecordFailure, RecordSuccess
<1>11. ASSUME NEW p \in Processors, Admitted(p) \/ StoreFails(p) PROVE Aside
  BY <1>11 DEF Admitted, StoreFails, Goto, Aside, TypeOK
<1> QED
  BY <1>1, <1>2, <1>3, <1>4, <1>6, <1>7, <1>8, <1>10, <1>11
     DEF Next, RunWorker, RunBatchWorker, RunCoordinator, Process, Processors

\* What was read stays true, or its number is no longer the highest.
LEMMA TrailInvStep ==
  ASSUME TypeOK, TrailInv, [Next]_vars
  PROVE  TrailInv'
<1> USE DEF lifecycle, channels, processing, store, breaker
<1>0. Cardinality(trail) \in Nat /\ Highest(trail) = First + Cardinality(trail)
  BY TableFacts DEF TrailInv
<1>1. CASE Aside
  <2>1. NumbersInv' /\ TrailLinked'
    BY <1>1 DEF Aside, TrailInv, NumbersInv, TrailLinked
  <2>2. ReadInv'
    BY <1>1 DEF Aside, TrailInv, ReadInv
  <2> QED
    BY <2>1, <2>2 DEF TrailInv
<1>2. ASSUME NEW p \in Processors, ReadNumber(p) PROVE TrailInv'
  <2>1. NumbersInv' /\ TrailLinked'
    BY <1>2 DEF ReadNumber, TrailInv, NumbersInv, TrailLinked
  <2>2. /\ trail' = trail /\ prev' = prev
        /\ pc' = [pc EXCEPT ![p] = "readHash"] /\ base' = [base EXCEPT ![p] = Highest(trail)]
    BY <1>2 DEF ReadNumber, Goto
  <2>3. ReadInv'
    BY <1>0, <2>2 DEF TrailInv, ReadInv, TypeOK, First
  <2> QED
    BY <2>1, <2>3 DEF TrailInv
<1>3. ASSUME NEW p \in Processors, ReadHash(p) PROVE TrailInv'
  <2>1. NumbersInv' /\ TrailLinked'
    BY <1>3 DEF ReadHash, TrailInv, NumbersInv, TrailLinked
  <2>2. /\ trail' = trail /\ base' = base /\ pc[p] = "readHash"
        /\ pc' = [pc EXCEPT ![p] = "insert"] /\ prev' = [prev EXCEPT ![p] = LatestHash(trail)]
    BY <1>3 DEF ReadHash, Goto
  <2>3. ReadInv'
    BY <2>2 DEF TrailInv, ReadInv, TypeOK
  <2> QED
    BY <2>1, <2>3 DEF TrailInv
<1>4. ASSUME NEW p \in Processors, Insert(p) \/ CommitUnacknowledged(p) PROVE TrailInv'
  <2>1. /\ pc[p] = "insert" /\ ~ Conflict(p) /\ trail' = trail \cup Rows(work[p], base[p], prev[p])
        /\ base' = base /\ prev' = prev
        /\ \A q \in Processors : pc'[q] \in {"readHash", "insert"} => pc'[q] = pc[q]
    BY <1>4 DEF Insert, CommitUnacknowledged, Goto, TypeOK
  <2>2. NumbersInv' /\ TrailLinked' /\ Highest(trail') > Highest(trail)
    BY <2>1, CommitKeepsTrail
  <2>3. Cardinality(trail') \in Nat /\ Highest(trail') = First + Cardinality(trail')
    <3>1. Cardinality(trail') \in Nat
      BY <2>2, FS_CardinalityType DEF NumbersInv
    <3> QED
      BY <2>2, <3>1, HighestOf DEF TrailLinked
  <2>4. ReadInv'
    <3> SUFFICES ASSUME NEW q \in Processors, pc'[q] \in {"readHash", "insert"}
                 PROVE  base'[q] \in First .. Highest(trail') /\ base'[q] # Highest(trail')
      BY DEF ReadInv
    <3>1. base[q] \in First .. Highest(trail) /\ base'[q] = base[q]
      BY <2>1 DEF TrailInv, ReadInv
    <3> QED
      BY <1>0, <2>2, <2>3, <3>1 DEF First
  <2> QED
    BY <2>2, <2>4 DEF TrailInv
<1>5. ASSUME NEW p \in Processors, NEW es \in SUBSET ToSet(work[p]), Publish(p, es) PROVE TrailInv'
  <2>1. NumbersInv' /\ TrailLinked'
    BY <1>5 DEF Publish, TrailInv, NumbersInv, TrailLinked
  <2>2. ReadInv'
    BY <1>5 DEF Publish, Goto, TrailInv, ReadInv, TypeOK
  <2> QED
    BY <2>1, <2>2 DEF TrailInv
<1> QED
  BY <1>1, <1>2, <1>3, <1>4, <1>5, StoreCases

\* The rows of the events that a processor inserts.
LEMMA CommitStores ==
  ASSUME TypeOK, NEW p \in Processors, trail' = trail \cup Rows(work[p], base[p], prev[p])
  PROVE  Stored' = Stored \cup ToSet(work[p])
<1>1. PICK es \in Seq(Events), n \in Nat, h \in Hash : es = work[p] /\ n = base[p] /\ h = prev[p]
  BY DEF TypeOK
<1>2. Rows(es, n, h) = {RowAt(es, n, h, i) : i \in 1 .. Len(es)}
  BY RowsFacts
<1>3. \A i \in 1 .. Len(es) : RowAt(es, n, h, i).event = es[i]
  BY RowFacts
<1>4. {r.event : r \in Rows(es, n, h)} = {es[i] : i \in 1 .. Len(es)}
  BY <1>2, <1>3
<1>5. ToSet(es) = {es[i] : i \in 1 .. Len(es)}
  BY DEF ToSet
<1>6. {r.event : r \in trail'} = {r.event : r \in trail} \cup {r.event : r \in Rows(es, n, h)}
  BY <1>1, Zenon
<1> QED
  BY <1>1, <1>4, <1>5, <1>6 DEF Stored

\* Nothing leaves the table, and only what is stored is published.
LEMMA StoredStep ==
  ASSUME TypeOK, StoredInv, PublishedIsStored, [Next]_vars
  PROVE  StoredInv' /\ PublishedIsStored'
<1> USE DEF lifecycle, channels, processing, store, breaker
<1>0. PublishedIsStored <=> published \subseteq Stored
  BY DEF PublishedIsStored, Stored
<1>a. PublishedIsStored' <=> published' \subseteq Stored'
  BY DEF PublishedIsStored, Stored
<1>1. CASE Aside
  <2>1. Stored' = Stored
    BY <1>1 DEF Aside, Stored
  <2> QED
    BY <1>0, <1>a, <1>1, <2>1 DEF Aside, StoredInv
<1>2. ASSUME NEW p \in Processors, ReadNumber(p) \/ ReadHash(p) PROVE StoredInv' /\ PublishedIsStored'
  <2>1. Stored' = Stored /\ published' = published
    BY <1>2 DEF ReadNumber, ReadHash, Stored
  <2> QED
    BY <1>0, <1>a, <1>2, <2>1 DEF ReadNumber, ReadHash, Goto, StoredInv, TypeOK
<1>3. ASSUME NEW p \in Processors, Insert(p) \/ CommitUnacknowledged(p) PROVE StoredInv' /\ PublishedIsStored'
  <2>1. Stored' = Stored \cup ToSet(work[p]) /\ published' = published
    BY <1>3, CommitStores DEF Insert, CommitUnacknowledged
  <2>2. work' = work /\ \A q \in Processors : q # p => pc'[q] = pc[q]
    BY <1>3 DEF Insert, CommitUnacknowledged, Goto, TypeOK
  <2> QED
    BY <1>0, <1>a, <2>1, <2>2 DEF StoredInv
<1>4. ASSUME NEW p \in Processors, NEW es \in SUBSET ToSet(work[p]), Publish(p, es)
      PROVE  StoredInv' /\ PublishedIsStored'
  <2>1. Stored' = Stored /\ published' = published \cup es /\ pc[p] = "publish"
    BY <1>4 DEF Publish, Stored
  <2>2. work' = work /\ \A q \in Processors : pc'[q] = "publish" => pc[q] = "publish"
    BY <1>4 DEF Publish, Goto, TypeOK
  <2> QED
    BY <1>0, <1>a, <2>1, <2>2 DEF StoredInv
<1> QED
  BY <1>1, <1>2, <1>3, <1>4, StoreCases

LEMMA InitFacts ==
  ASSUME Init
  PROVE  TypeOK /\ TrailInv /\ StoredInv /\ PublishedIsStored
<1> USE DEF Init
<1>1. IsFiniteSet({}) /\ Cardinality({}) = 0
  BY FS_EmptySet
<1>2. Numbers(trail) = First + 1 .. First + Cardinality(trail)
  <2>1. Numbers(trail) = {}
    BY Zenon DEF Numbers
  <2>2. Cardinality(trail) = 0
    BY <1>1
  <2>3. First + 1 .. First + 0 = {}
    BY DEF First
  <2> QED
    BY <2>1, <2>2, <2>3
<1>3. TrailInv
  BY <1>1, <1>2 DEF TrailInv, NumbersInv, ReadInv, TrailLinked
<1>4. TypeOK
  <2>1. << >> \in Seq(Events) /\ << >> \in Seq(Seq(Events) \ {<< >>}) /\ << >> \in Hash /\ Len(<< >>) = 0
    BY DEF Hash
  <2>2. work \in [Processors -> Seq(Events)] /\ prev \in [Processors -> Hash] /\ pc \in [Processors -> Steps]
    BY <2>1 DEF NoHash, Steps
  <2>3. 0 <= BufferSize /\ 0 < BatchSize /\ 0 <= QueueSize /\ 0 \in 0 .. Threshold /\ 0 \in 0 .. MaxCrashes
    BY QueueSizeType
  <2> QED
    BY <2>1, <2>2, <2>3 DEF TypeOK
<1> QED
  BY <1>3, <1>4 DEF StoredInv, PublishedIsStored

\* The types hold, and the table is as VerifyChainIntegrity expects it, in every
\* reachable state.
THEOREM TrailHolds == Spec => [](TypeOK /\ TrailInv)
<1>1. Init => TypeOK /\ TrailInv
  BY InitFacts
<1>2. TypeOK /\ TrailInv /\ [Next]_vars => TypeOK' /\ TrailInv'
  BY TypeStep, TrailInvStep DEF TrailInv
<1> QED
  BY <1>1, <1>2, PTL DEF Spec

\* The channels of the logger stay within their capacities, no batch that is
\* queued is empty, a processor holds events exactly while it works, and the
\* coordinator only exits once Close has cancelled the context.
THEOREM TypeCorrect == Spec => []TypeOK
  BY TrailHolds, PTL

\* Two workers that read the same highest number outside of any lock, or a
\* number and a hash of different tables, never break the chain of audit_events:
\* the unique constraint on the number stops all but one of them.
THEOREM TrailLinkedHolds == Spec => []TrailLinked
<1>1. TrailInv => TrailLinked
  BY DEF TrailInv
<1> QED
  BY <1>1, TrailHolds, PTL

\* What the publisher is handed has a row in audit_events, whatever fails or
\* crashes in between.
THEOREM PublishedIsStoredHolds == Spec => []PublishedIsStored
<1>1. Init => StoredInv /\ PublishedIsStored
  BY InitFacts
<1>2. TypeOK /\ StoredInv /\ PublishedIsStored /\ [Next]_vars => StoredInv' /\ PublishedIsStored'
  BY StoredStep
<1> QED
  BY <1>1, <1>2, TypeCorrect, PTL DEF Spec

-----------------------------------------------------------------------------
(* One copy of every event *)

\* The places of DistinctInv and PlacesInv, by themselves.
Batches(q) == UNION {ToSet(q[k]) : k \in 1 .. Len(q)}
BatchesApart(q) ==
  /\ \A k \in 1 .. Len(q) : IsInjective(q[k])
  /\ \A k, l \in 1 .. Len(q) : k # l => ToSet(q[k]) \cap ToSet(q[l]) = {}

Holding == [p \in Processors |-> Waiting(p)]
HeldBy(f) == UNION {ToSet(f[p]) : p \in Processors}
HoldersApart(f) ==
  /\ \A p \in Processors : IsInjective(f[p])
  /\ \A p, q \in Processors : p # q => ToSet(f[p]) \cap ToSet(f[q]) = {}

EventsOf(rows) == {r.event : r \in rows}
OneRowEach(rows) == \A r, q \in rows : r.event = q.event => r = q

Buffered == {e \in Events : caller[e] = "buffered"}

Apart(B, A, Q, W, T, E) ==
  /\ B \cap (A \cup Q \cup W \cup T) = {}
  /\ A \cap (Q \cup W \cup T) = {}
  /\ Q \cap (W \cup T) = {}
  /\ W \cap T = {}
  /\ B \cup A \cup Q \cup W \cup T \subseteq E

PlacesApart ==
  /\ IsInjective(buffer) /\ IsInjective(batch) /\ BatchesApart(queue) /\ HoldersApart(Holding)
  /\ OneRowEach(trail)
  /\ Apart(ToSet(buffer), ToSet(batch), Batches(queue), HeldBy(Holding), EventsOf(trail), Buffered)

LEMMA PlacesByParts == DistinctInv /\ PlacesInv <=> PlacesApart
<1>1. Queued = Batches(queue) /\ Stored = EventsOf(trail)
  BY DEF Queued, Batches, Stored, EventsOf
<1>2. Working = HeldBy(Holding)
  <2>1. \A p \in Processors : Holding[p] = Waiting(p)
    BY DEF Holding
  <2> QED
    BY <2>1 DEF Working, HeldBy
<1>3. DistinctInv <=> /\ IsInjective(buffer) /\ IsInjective(batch) /\ BatchesApart(queue)
                      /\ HoldersApart(Holding) /\ OneRowEach(trail)
  BY DEF DistinctInv, BatchesApart, HoldersApart, Holding, OneRowEach
<1>4. PlacesInv <=> Apart(ToSet(buffer), ToSet(batch), Queued, Working, Stored, Buffered)
  BY DEF PlacesInv, Apart, Buffered
<1> QED
  BY <1>1, <1>2, <1>3, <1>4 DEF PlacesApart

\* A batch is received from the queue, or sent to it.
LEMMA BatchReceived ==
  ASSUME NEW S, NEW q \in Seq(Seq(S)), q # << >>, BatchesApart(q)
  PROVE  /\ Head(q) \in Seq(S) /\ IsInjective(Head(q)) /\ ToSet(Head(q)) \subseteq Batches(q)
         /\ BatchesApart(Tail(q)) /\ Batches(Tail(q)) = Batches(q) \ ToSet(Head(q))
<1> DEFINE t == Tail(q)
           n == Len(q)
<1>1. n \in Nat /\ n > 0 /\ Len(t) = n - 1 /\ Head(q) = q[1] /\ \A i \in 1 .. n - 1 : t[i] = q[i + 1]
  OBVIOUS
<1> HIDE DEF t
<1>2. Head(q) \in Seq(S) /\ IsInjective(Head(q)) /\ ToSet(Head(q)) \subseteq Batches(q)
  <2>1. 1 \in 1 .. Len(q) /\ q[1] \in Seq(S)
    BY <1>1
  <2>2. IsInjective(q[1])
    BY <2>1 DEF BatchesApart
  <2>3. ToSet(q[1]) \subseteq Batches(q)
    BY <2>1, Zenon DEF Batches
  <2> QED
    BY <1>1, <2>1, <2>2, <2>3
<1>3. BatchesApart(t)
  <2>1. \A k \in 1 .. n - 1 : k + 1 \in 1 .. n
    BY <1>1
  <2>2. \A k, l \in 1 .. n - 1 : k # l => k + 1 # l + 1
    BY <1>1
  <2>3. ASSUME NEW k \in 1 .. n - 1 PROVE IsInjective(t[k])
    BY <1>1, <2>1 DEF BatchesApart
  <2>4. ASSUME NEW k \in 1 .. n - 1, NEW l \in 1 .. n - 1, k # l PROVE ToSet(t[k]) \cap ToSet(t[l]) = {}
    <3>1. k + 1 \in 1 .. n /\ l + 1 \in 1 .. n /\ k + 1 # l + 1 /\ t[k] = q[k + 1] /\ t[l] = q[l + 1]
      BY <1>1, <2>1, <2>2, <2>4
    <3>2. ToSet(q[k + 1]) \cap ToSet(q[l + 1]) = {}
      BY <3>1 DEF BatchesApart
    <3> QED
      BY <3>1, <3>2
  <2> QED
    BY <1>1, <2>3, <2>4 DEF BatchesApart
<1>4. ASSUME NEW x \in Batches(t) PROVE x \in Batches(q) \ ToSet(q[1])
  <2>1. PICK k \in 1 .. n - 1 : x \in ToSet(t[k])
    BY <1>1 DEF Batches
  <2>a. k + 1 \in 1 .. n /\ k + 1 # 1 /\ 1 \in 1 .. n
    <3>1. n \in Nat /\ n > 0
      BY <1>1
    <3> HIDE DEF n
    <3> QED
      BY <3>1
  <2>2. k + 1 \in 1 .. n /\ k + 1 # 1 /\ 1 \in 1 .. n /\ x \in ToSet(q[k + 1])
    BY <1>1, <2>1, <2>a
  <2>3. x \notin ToSet(q[1])
    BY <2>2 DEF BatchesApart
  <2> QED
    BY <2>2, <2>3 DEF Batches
<1>5. ASSUME NEW x \in Batches(q) \ ToSet(q[1]) PROVE x \in Batches(t)
  <2>1. PICK k \in 1 .. n : x \in ToSet(q[k])
    BY DEF Batches
  <2>2. k - 1 \in 1 .. n - 1 /\ t[k - 1] = q[k]
    BY <1>1, <1>5, <2>1
  <2>3. x \in ToSet(t[k - 1]) /\ k - 1 \in 1 .. Len(t)
    BY <1>1, <2>1, <2>2
  <2> QED
    BY <2>3 DEF Batches
<1> QED
  BY <1>1, <1>2, <1>3, <1>4, <1>5 DEF t

LEMMA BatchSent ==
  ASSUME NEW S, NEW q \in Seq(Seq(S)), BatchesApart(q), NEW es \in Seq(S), IsInjective(es),
         ToSet(es) \cap Batches(q) = {}
  PROVE  BatchesApart(Append(q, es)) /\ Batches(Append(q, es)) = Batches(q) \cup ToSet(es)
<1> DEFINE t == Append(q, es)
           n == Len(q)
<1>1. n \in Nat /\ Len(t) = n + 1 /\ t[n + 1] = es /\ \A i \in 1 .. n : t[i] = q[i]
  OBVIOUS
<1> HIDE DEF t
<1>2. \A i \in 1 .. n + 1 : i = n + 1 \/ i \in 1 .. n
  BY <1>1
<1>3. \A k \in 1 .. n : ToSet(es) \cap ToSet(q[k]) = {}
  BY DEF Batches
<1>4. BatchesApart(t)
  <2>1. ASSUME NEW k \in 1 .. n + 1 PROVE IsInjective(t[k])
    BY <1>1, <1>2 DEF BatchesApart
  <2>2. ASSUME NEW k \in 1 .. n + 1, NEW l \in 1 .. n + 1, k # l PROVE ToSet(t[k]) \cap ToSet(t[l]) = {}
    <3>1. CASE k = n + 1
      <4>1. t[k] = es /\ l \in 1 .. n /\ t[l] = q[l]
        BY <1>1, <1>2, <2>2, <3>1
      <4> QED
        BY <1>3, <4>1
    <3>2. CASE l = n + 1
      <4>1. t[l] = es /\ k \in 1 .. n /\ t[k] = q[k]
        BY <1>1, <1>2, <2>2, <3>2
      <4> QED
        BY <1>3, <4>1
    <3>3. CASE k # n + 1 /\ l # n + 1
      <4>1. k \in 1 .. n /\ l \in 1 .. n /\ t[k] = q[k] /\ t[l] = q[l]
        BY <1>1, <1>2, <3>3
      <4>2. ToSet(q[k]) \cap ToSet(q[l]) = {}
        BY <2>2, <4>1 DEF BatchesApart
      <4> QED
        BY <4>1, <4>2
    <3> QED
      BY <3>1, <3>2, <3>3
  <2> QED
    BY <1>1, <2>1, <2>2 DEF BatchesApart
<1>5. ASSUME NEW x \in Batches(t) PROVE x \in Batches(q) \cup ToSet(es)
  BY <1>1, <1>2 DEF Batches
<1>6. ASSUME NEW x \in Batches(q) \cup ToSet(es) PROVE x \in Batches(t)
  <2>1. CASE x \in ToSet(es)
    <3>1. n + 1 \in 1 .. Len(t) /\ x \in ToSet(t[n + 1])
      BY <1>1, <2>1
    <3> QED
      BY <3>1 DEF Batches
  <2>2. CASE x \in Batches(q)
    <3>1. PICK k \in 1 .. n : x \in ToSet(q[k])
      BY <2>2 DEF Batches
    <3>2. k \in 1 .. Len(t) /\ x \in ToSet(t[k])
      BY <1>1, <3>1
    <3> QED
      BY <3>2 DEF Batches
  <2> QED
    BY <2>1, <2>2
<1> QED
  BY <1>4, <1>5, <1>6 DEF t

\* A processor that held nothing takes events; one that held some lets go.
LEMMA HolderTakes ==
  ASSUME NEW f, NEW p \in Processors, f \in [Processors -> Seq(Events)], f[p] = << >>, HoldersApart(f),
         NEW es, IsInjective(es), ToSet(es) \cap HeldBy(f) = {},
         NEW g, g = [f EXCEPT ![p] = es]
  PROVE  HoldersApart(g) /\ HeldBy(g) = HeldBy(f) \cup ToSet(es)
<1>1. g[p] = es /\ \A q \in Processors : q # p => g[q] = f[q]
  OBVIOUS
<1>2. ToSet(f[p]) = {}
  BY EmptyDistinct
<1>3. \A q \in Processors : ToSet(f[q]) \cap ToSet(es) = {}
  BY DEF HeldBy
<1>4. HoldersApart(g)
  BY <1>1, <1>3 DEF HoldersApart
<1>5. HeldBy(g) = HeldBy(f) \cup ToSet(es)
  BY <1>1, <1>2 DEF HeldBy
<1> QED
  BY <1>4, <1>5

LEMMA HoldersLetGo ==
  ASSUME NEW f, HoldersApart(f), NEW g, \A p \in Processors : g[p] = f[p] \/ g[p] = << >>
  PROVE  HoldersApart(g) /\ HeldBy(g) \subseteq HeldBy(f)
<1>1. HoldersApart(g)
  BY EmptyDistinct DEF HoldersApart
<1>2. HeldBy(g) \subseteq HeldBy(f)
  BY EmptyDistinct DEF HeldBy
<1> QED
  BY <1>1, <1>2

LEMMA HolderStores ==
  ASSUME NEW f, NEW p \in Processors, f \in [Processors -> Seq(Events)], HoldersApart(f),
         NEW g, g = [f EXCEPT ![p] = << >>]
  PROVE  HoldersApart(g) /\ HeldBy(g) = HeldBy(f) \ ToSet(f[p])
<1>1. g[p] = << >> /\ \A q \in Processors : q # p => g[q] = f[q]
  OBVIOUS
<1>2. HoldersApart(g)
  BY <1>1, HoldersLetGo
<1>3. \A q \in Processors : q # p => ToSet(f[q]) \cap ToSet(f[p]) = {}
  BY DEF HoldersApart
<1>4. HeldBy(g) = HeldBy(f) \ ToSet(f[p])
  BY <1>1, <1>3, EmptyDistinct DEF HeldBy
<1> QED
  BY <1>2, <1>4

LEMMA HoldingType ==
  ASSUME TypeOK
  PROVE  /\ Holding \in [Processors -> Seq(Events)]
         /\ \A p \in Processors : Holding[p] = Waiting(p)
         /\ \A p \in Processors : pc[p] = "idle" => Holding[p] = << >>
  BY DEF TypeOK, Holding, Waiting

\* sendBatch moves the events of a batch to the queue or to the coordinator.
LEMMA SendBatchMoves ==
  ASSUME TypeOK, NEW es \in Seq(Events), IsInjective(es), NEW exits, pc[Coordinator] = "idle",
         SendBatch(es, exits), BatchesApart(queue), HoldersApart(Holding),
         ToSet(es) \cap Batches(queue) = {}, ToSet(es) \cap HeldBy(Holding) = {}
  PROVE  /\ batch' = << >> /\ BatchesApart(queue') /\ HoldersApart(Holding')
         /\ \/ Batches(queue') = Batches(queue) \cup ToSet(es) /\ HeldBy(Holding') = HeldBy(Holding)
            \/ Batches(queue') = Batches(queue) /\ HeldBy(Holding') = HeldBy(Holding) \cup ToSet(es)
<1>0. Coordinator \in Processors /\ batch' = << >>
  BY DEF Processors, SendBatch
<1>1. CASE Len(queue) < QueueSize
  <2>1. queue' = Append(queue, es) /\ work' = work
        /\ \E l \in {"idle", "stopped"} : pc' = [pc EXCEPT ![Coordinator] = l]
    BY <1>1 DEF SendBatch
  <2>2. Holding' = Holding
    BY <1>0, <2>1 DEF Holding, Waiting, TypeOK
  <2>3. queue \in Seq(Seq(Events))
    BY DEF TypeOK
  <2>4. BatchesApart(queue') /\ Batches(queue') = Batches(queue) \cup ToSet(es)
    BY <2>1, <2>3, BatchSent
  <2> QED
    BY <1>0, <2>2, <2>4
<1>2. CASE ~ (Len(queue) < QueueSize)
  <2>1. /\ queue' = queue /\ work' = [work EXCEPT ![Coordinator] = es]
        /\ pc' = [pc EXCEPT ![Coordinator] = "execute"]
    BY <1>2 DEF SendBatch
  <2>2. Holding' = [Holding EXCEPT ![Coordinator] = es]
    BY <1>0, <2>1 DEF Holding, Waiting, TypeOK
  <2>3. Holding \in [Processors -> Seq(Events)] /\ Holding[Coordinator] = << >>
    BY <1>0, HoldingType
  <2>4. HoldersApart(Holding') /\ HeldBy(Holding') = HeldBy(Holding) \cup ToSet(es)
    BY <1>0, <2>2, <2>3, HolderTakes
  <2> QED
    BY <1>0, <2>1, <2>4
<1> QED
  BY <1>1, <1>2

\* A commit stores what the processor held, one row for each event.
LEMMA CommitMoves ==
  ASSUME TypeOK, PlacesApart, NEW p \in Processors, pc[p] = "insert",
         trail' = trail \cup Rows(work[p], base[p], prev[p]), NEW l \in {"publish", "failed"}, Goto(p, l)
  PROVE  /\ HoldersApart(Holding') /\ HeldBy(Holding') = HeldBy(Holding) \ ToSet(work[p])
         /\ OneRowEach(trail') /\ EventsOf(trail') = EventsOf(trail) \cup ToSet(work[p])
         /\ ToSet(work[p]) \subseteq HeldBy(Holding)
<1>1. Holding[p] = work[p] /\ Holding \in [Processors -> Seq(Events)]
  BY HoldingType DEF Waiting
<1>2. Holding' = [Holding EXCEPT ![p] = << >>]
  BY DEF Goto, Holding, Waiting, TypeOK
<1>3. HoldersApart(Holding') /\ HeldBy(Holding') = HeldBy(Holding) \ ToSet(work[p])
  BY <1>1, <1>2, HolderStores DEF PlacesApart
<1>4. IsInjective(work[p]) /\ ToSet(work[p]) \subseteq HeldBy(Holding)
  BY <1>1 DEF PlacesApart, HoldersApart, HeldBy
<1>5. ToSet(work[p]) \cap EventsOf(trail) = {}
  BY <1>4 DEF PlacesApart, Apart
<1>6. EventsOf(trail') = EventsOf(trail) \cup ToSet(work[p])
  BY CommitStores DEF EventsOf, Stored
<1>7. OneRowEach(trail')
  <2>1. PICK es \in Seq(Events), n \in Nat, h \in Hash : es = work[p] /\ n = base[p] /\ h = prev[p]
    BY DEF TypeOK
  <2>2. Rows(es, n, h) = {RowAt(es, n, h, i) : i \in 1 .. Len(es)}
    BY RowsFacts
  <2>3. \A i \in 1 .. Len(es) : RowAt(es, n, h, i).event = es[i] /\ es[i] \in ToSet(es)
    <3>1. \A i \in 1 .. Len(es) : RowAt(es, n, h, i).event = es[i]
      BY RowFacts
    <3>2. \A i \in 1 .. Len(es) : es[i] \in ToSet(es)
      BY SeqFacts
    <3> QED
      BY <3>1, <3>2
  <2>4. DOMAIN es = 1 .. Len(es)
    BY SeqFacts
  <2>5. \A i, j \in 1 .. Len(es) : es[i] = es[j] => i = j
    BY <1>4, <2>1, <2>4 DEF IsInjective
  <2>6. \A r, q \in Rows(es, n, h) : r.event = q.event => r = q
    BY <2>2, <2>3, <2>5
  <2>7. \A r \in Rows(es, n, h) : r.event \in ToSet(es)
    BY <2>2, <2>3
  <2>8. \A r \in trail : r.event \in EventsOf(trail)
    BY DEF EventsOf
  <2>9. \A r, q \in trail : r.event = q.event => r = q
    BY DEF PlacesApart, OneRowEach
  <2>10. trail' = trail \cup Rows(es, n, h) /\ ToSet(es) \cap EventsOf(trail) = {}
    BY <1>5, <2>1
  <2> QED
    BY <2>6, <2>7, <2>8, <2>9, <2>10 DEF OneRowEach
<1> QED
  BY <1>3, <1>4, <1>6, <1>7

\* Each step leaves every event in at most one place.
LEMMA PlacesStep ==
  ASSUME TypeOK, PlacesApart, [Next]_vars
  PROVE  PlacesApart'
<1> USE DEF lifecycle, channels, processing, store, breaker
<1>0. /\ IsInjective(buffer) /\ IsInjective(batch) /\ BatchesApart(queue) /\ HoldersApart(Holding)
      /\ OneRowEach(trail) /\ buffer \in Seq(Events) /\ batch \in Seq(Events) /\ queue \in Seq(Seq(Events))
      /\ Apart(ToSet(buffer), ToSet(batch), Batches(queue), HeldBy(Holding), EventsOf(trail), Buffered)
  BY DEF PlacesApart, TypeOK
<1>a. Holding \in [Processors -> Seq(Events)] /\ \A p \in Processors : pc[p] = "idle" => Holding[p] = << >>
  BY HoldingType
<1>1. ASSUME NEW e \in Events, LogEvent(e) \/ DropEvent(e) PROVE PlacesApart'
  <2>1. Buffered' = Buffered
    BY <1>1 DEF LogEvent, DropEvent, Buffered, TypeOK
  <2>2. UNCHANGED <<buffer, batch, queue, pc, work, trail>>
    BY <1>1 DEF LogEvent, DropEvent
  <2>3. Holding' = Holding
    BY <2>2 DEF Holding, Waiting
  <2> QED
    BY <2>1, <2>2, <2>3 DEF PlacesApart
<1>2. ASSUME NEW e \in Events, BufferEvent(e) PROVE PlacesApart'
  <2>1. Buffered' = Buffered \cup {e} /\ e \notin Buffered
    BY <1>2 DEF BufferEvent, Buffered, TypeOK
  <2>2. UNCHANGED <<batch, queue, pc, work, trail>> /\ buffer' = Append(buffer, e)
    BY <1>2 DEF BufferEvent
  <2>3. Holding' = Holding
    BY <2>2 DEF Holding, Waiting
  <2>4. e \notin ToSet(buffer)
    BY <1>0, <2>1 DEF Apart
  <2>5. IsInjective(buffer') /\ ToSet(buffer') = ToSet(buffer) \cup {e}
    BY <1>0, <2>2, <2>4, AppendDistinct
  <2>6. Apart(ToSet(buffer'), ToSet(batch), Batches(queue), HeldBy(Holding), EventsOf(trail), Buffered')
    BY <1>0, <2>1, <2>5 DEF Apart
  <2> QED
    BY <1>0, <2>2, <2>3, <2>5, <2>6 DEF PlacesApart
<1>3. CASE FlushEvents \/ FlushTimeout \/ Close \/ Cancel \/ RetryTimeReached \/ UNCHANGED vars
  <2>1. UNCHANGED <<caller, buffer, batch, queue, pc, work, trail>>
    BY <1>3 DEF FlushEvents, FlushTimeout, Close, Cancel, RetryTimeReached, vars
  <2>2. Holding' = Holding /\ Buffered' = Buffered
    BY <2>1 DEF Holding, Waiting, Buffered
  <2> QED
    BY <2>1, <2>2 DEF PlacesApart
<1>4. CASE FlushTakes
  <2>1. UNCHANGED <<caller, batch, queue, pc, work, trail>> /\ buffer # << >> /\ buffer' = Tail(buffer)
    BY <1>4 DEF FlushTakes
  <2>2. Holding' = Holding /\ Buffered' = Buffered
    BY <2>1 DEF Holding, Waiting, Buffered
  <2>3. IsInjective(buffer') /\ ToSet(buffer') \subseteq ToSet(buffer)
    BY <1>0, <2>1, TailDistinct
  <2>4. Apart(ToSet(buffer'), ToSet(batch), Batches(queue), HeldBy(Holding), EventsOf(trail), Buffered)
    BY <1>0, <2>3 DEF Apart
  <2> QED
    BY <1>0, <2>1, <2>2, <2>3, <2>4 DEF PlacesApart
<1>5. CASE Crash
  <2>1. Buffered' = Buffered /\ trail' = trail /\ buffer' = << >> /\ batch' = << >> /\ queue' = << >>
    BY <1>5 DEF Crash, Buffered, TypeOK
  <2>2. \A p \in Processors : Holding'[p] = << >>
    BY <1>5 DEF Crash, Holding, Waiting
  <2>3. HoldersApart(Holding') /\ HeldBy(Holding') \subseteq HeldBy(Holding)
    BY <1>0, <2>2, HoldersLetGo
  <2>4. BatchesApart(queue') /\ Batches(queue') = {}
    <3>1. 1 .. Len(queue') = {}
      BY <2>1
    <3> QED
      BY <3>1, Zenon DEF BatchesApart, Batches
  <2>5. ToSet(<< >>) = {} /\ IsInjective(<< >>)
    BY EmptyDistinct
  <2>6. Apart({}, {}, {}, HeldBy(Holding'), EventsOf(trail), Buffered)
    BY <1>0, <2>3 DEF Apart
  <2> QED
    BY <1>0, <2>1, <2>3, <2>4, <2>5, <2>6 DEF PlacesApart
<1>6. ASSUME NEW p \in Processors, TakeEvent(p) PROVE PlacesApart'
  <2> DEFINE e == Head(buffer)
  <2>1. /\ UNCHANGED <<caller, batch, queue, trail>> /\ buffer # << >> /\ buffer' = Tail(buffer) /\ pc[p] = "idle"
        /\ work' = [work EXCEPT ![p] = <<e>>] /\ pc' = [pc EXCEPT ![p] = "execute"]
    BY <1>6 DEF TakeEvent
  <2>2. Buffered' = Buffered
    BY <2>1 DEF Buffered
  <2>3. Holding' = [Holding EXCEPT ![p] = <<e>>]
    BY <2>1 DEF Holding, Waiting, TypeOK
  <2>4. /\ IsInjective(buffer') /\ ToSet(buffer') = ToSet(buffer) \ {e}
        /\ e \in ToSet(buffer) /\ e \in Events
    BY <1>0, <2>1, TailDistinct
  <2>5. ToSet(<<e>>) = {e} /\ IsInjective(<<e>>)
    BY <2>4, SingletonDistinct
  <2> HIDE DEF e
  <2>6. ToSet(<<e>>) \cap HeldBy(Holding) = {}
    BY <1>0, <2>4, <2>5 DEF Apart
  <2>7. HoldersApart(Holding') /\ HeldBy(Holding') = HeldBy(Holding) \cup {e}
    <3>1. Holding[p] = << >>
      BY <1>a, <2>1
    <3> QED
      BY <1>0, <1>a, <2>3, <2>5, <2>6, <3>1, HolderTakes
  <2>8. Apart(ToSet(buffer'), ToSet(batch), Batches(queue), HeldBy(Holding'), EventsOf(trail), Buffered)
    BY <1>0, <2>4, <2>7 DEF Apart
  <2> QED
    BY <1>0, <2>1, <2>2, <2>4, <2>7, <2>8 DEF PlacesApart
<1>7. ASSUME NEW p \in Processors, TakeBatch(p) PROVE PlacesApart'
  <2> DEFINE es == Head(queue)
  <2>1. /\ UNCHANGED <<caller, buffer, batch, trail>> /\ queue # << >> /\ queue' = Tail(queue) /\ pc[p] = "idle"
        /\ work' = [work EXCEPT ![p] = es] /\ pc' = [pc EXCEPT ![p] = "execute"]
    BY <1>7 DEF TakeBatch
  <2>2. Buffered' = Buffered
    BY <2>1 DEF Buffered
  <2>3. Holding' = [Holding EXCEPT ![p] = es]
    BY <2>1 DEF Holding, Waiting, TypeOK
  <2>4. /\ es \in Seq(Events) /\ IsInjective(es) /\ ToSet(es) \subseteq Batches(queue)
        /\ BatchesApart(queue') /\ Batches(queue') = Batches(queue) \ ToSet(es)
    BY <1>0, <2>1, BatchReceived
  <2> HIDE DEF es
  <2>6. ToSet(es) \cap HeldBy(Holding) = {}
    BY <1>0, <2>4 DEF Apart
  <2>7. HoldersApart(Holding') /\ HeldBy(Holding') = HeldBy(Holding) \cup ToSet(es)
    <3>1. Holding[p] = << >>
      BY <1>a, <2>1
    <3> QED
      BY <1>0, <1>a, <2>3, <2>4, <2>6, <3>1, HolderTakes
  <2>8. Apart(ToSet(buffer), ToSet(batch), Batches(queue'), HeldBy(Holding'), EventsOf(trail), Buffered)
    BY <1>0, <2>4, <2>7 DEF Apart
  <2> QED
    BY <1>0, <2>1, <2>2, <2>4, <2>7, <2>8 DEF PlacesApart
<1>8. ASSUME NEW es \in Seq(Events), IsInjective(es), NEW exits, pc[Coordinator] = "idle", SendBatch(es, exits),
             UNCHANGED <<caller, trail>>, IsInjective(buffer'),
             \/ ToSet(es) = ToSet(batch) /\ ToSet(buffer') = ToSet(buffer)
             \/ \E e \in ToSet(buffer) : ToSet(es) = ToSet(batch) \cup {e} /\ ToSet(buffer') = ToSet(buffer) \ {e}
      PROVE  PlacesApart'
  <2>1. ToSet(es) \cap Batches(queue) = {} /\ ToSet(es) \cap HeldBy(Holding) = {}
    BY <1>0, <1>8 DEF Apart
  <2>2. /\ batch' = << >> /\ BatchesApart(queue') /\ HoldersApart(Holding')
        /\ \/ Batches(queue') = Batches(queue) \cup ToSet(es) /\ HeldBy(Holding') = HeldBy(Holding)
           \/ Batches(queue') = Batches(queue) /\ HeldBy(Holding') = HeldBy(Holding) \cup ToSet(es)
    BY <1>0, <1>8, <2>1, SendBatchMoves
  <2>3. Apart(ToSet(buffer'), {}, Batches(queue'), HeldBy(Holding'), EventsOf(trail), Buffered)
    BY <1>0, <1>8, <2>2 DEF Apart
  <2>4. ToSet(batch') = {} /\ IsInjective(batch')
    BY <2>2, EmptyDistinct
  <2>5. Buffered' = Buffered
    BY <1>8 DEF Buffered
  <2> QED
    BY <1>0, <1>8, <2>2, <2>3, <2>4, <2>5 DEF PlacesApart
<1>9. CASE CollectEvent
  <2> DEFINE es == Append(batch, Head(buffer))
             e == Head(buffer)
  <2>1. /\ UNCHANGED <<caller, trail>> /\ buffer # << >> /\ buffer' = Tail(buffer) /\ pc[Coordinator] = "idle"
        /\ SendBatch(es, FALSE) \/ (batch' = es /\ UNCHANGED <<queue, processing>>)
    BY <1>9 DEF CollectEvent
  <2>2. /\ IsInjective(buffer') /\ ToSet(buffer') = ToSet(buffer) \ {e}
        /\ e \in ToSet(buffer) /\ e \in Events
    BY <1>0, <2>1, TailDistinct
  <2>3. e \notin ToSet(batch)
    BY <1>0, <2>2 DEF Apart
  <2>4. es \in Seq(Events) /\ IsInjective(es) /\ ToSet(es) = ToSet(batch) \cup {e}
    BY <1>0, <2>2, <2>3, AppendDistinct
  <2> HIDE DEF es, e
  <2>5. CASE SendBatch(es, FALSE)
    BY <1>8, <2>1, <2>2, <2>4, <2>5
  <2>6. CASE batch' = es /\ UNCHANGED <<queue, processing>>
    <3>1. Holding' = Holding /\ Buffered' = Buffered
      BY <2>1, <2>6 DEF Holding, Waiting, Buffered
    <3>2. Apart(ToSet(buffer'), ToSet(batch'), Batches(queue), HeldBy(Holding), EventsOf(trail), Buffered)
      BY <1>0, <2>2, <2>4, <2>6 DEF Apart
    <3> QED
      BY <1>0, <2>1, <2>2, <2>4, <2>6, <3>1, <3>2 DEF PlacesApart
  <2> QED
    BY <2>1, <2>5, <2>6
<1>10. CASE BatchTimeout
  BY <1>0, <1>8, <1>10 DEF BatchTimeout
<1>11. ASSUME NEW p \in Processors, UNCHANGED <<caller, buffer, batch, queue, trail>>,
              \A q \in Processors : Holding'[q] = Holding[q] \/ Holding'[q] = << >>
       PROVE  PlacesApart'
  <2>1. HoldersApart(Holding') /\ HeldBy(Holding') \subseteq HeldBy(Holding)
    BY <1>0, <1>11, HoldersLetGo
  <2>2. Buffered' = Buffered
    BY <1>11 DEF Buffered
  <2>3. Apart(ToSet(buffer), ToSet(batch), Batches(queue), HeldBy(Holding'), EventsOf(trail), Buffered)
    BY <1>0, <2>1 DEF Apart
  <2> QED
    BY <1>0, <1>11, <2>1, <2>2, <2>3 DEF PlacesApart
<1>12. CASE CoordinatorStops
  <2>1. CASE batch # << >>
    BY <1>0, <1>8, <1>12, <2>1 DEF CoordinatorStops
  <2>2. CASE batch = << >>
    <3>1. UNCHANGED <<caller, buffer, batch, queue, work, trail>> /\ pc' = [pc EXCEPT ![Coordinator] = "stopped"]
          /\ Coordinator \in Processors
      BY <1>12, <2>2 DEF CoordinatorStops, Processors
    <3>2. \A q \in Processors : Holding'[q] = Holding[q] \/ Holding'[q] = << >>
      BY <3>1 DEF Holding, Waiting, TypeOK
    <3> QED
      BY <1>11, <3>1, <3>2
  <2> QED
    BY <2>1, <2>2
<1>13. ASSUME NEW p \in Processors, Refused(p) \/ RecordFailure(p) \/ RecordSuccess(p) PROVE PlacesApart'
  <2>1. UNCHANGED <<caller, buffer, batch, queue, trail>> /\ Done(p)
    BY <1>13 DEF Refused, RecordFailure, RecordSuccess
  <2>2. \A q \in Processors : Holding'[q] = Holding[q] \/ Holding'[q] = << >>
    BY <2>1 DEF Done, Holding, Waiting, TypeOK
  <2> QED
    BY <1>11, <2>1, <2>2
<1>14. ASSUME NEW p \in Processors,
              \/ WorkerStops(p) \/ Admitted(p) \/ ReadNumber(p) \/ ReadHash(p) \/ StoreFails(p)
              \/ \E es \in SUBSET ToSet(work[p]) : Publish(p, es)
       PROVE  PlacesApart'
  <2>1. /\ UNCHANGED <<caller, buffer, batch, queue, trail, work>>
        /\ \A q \in Processors : q # p => pc'[q] = pc[q]
        /\ pc'[p] \in {"read", "readHash", "insert"} => pc[p] \in {"execute", "read", "readHash"}
        /\ pc'[p] # "execute"
    BY <1>14 DEF WorkerStops, Admitted, ReadNumber, ReadHash, StoreFails, Publish, Goto, TypeOK
  <2>2. \A q \in Processors : Holding'[q] = Holding[q] \/ Holding'[q] = << >>
    BY <2>1 DEF Holding, Waiting
  <2> QED
    BY <1>11, <2>1, <2>2
<1>15. ASSUME NEW p \in Processors, Insert(p) \/ CommitUnacknowledged(p) PROVE PlacesApart'
  <2>1. /\ UNCHANGED <<caller, buffer, batch, queue>> /\ pc[p] = "insert"
        /\ trail' = trail \cup Rows(work[p], base[p], prev[p])
        /\ Goto(p, "publish") \/ Goto(p, "failed")
    BY <1>15 DEF Insert, CommitUnacknowledged
  <2>2. /\ HoldersApart(Holding') /\ HeldBy(Holding') = HeldBy(Holding) \ ToSet(work[p])
        /\ OneRowEach(trail') /\ EventsOf(trail') = EventsOf(trail) \cup ToSet(work[p])
        /\ ToSet(work[p]) \subseteq HeldBy(Holding)
    BY <2>1, CommitMoves
  <2>3. Apart(ToSet(buffer), ToSet(batch), Batches(queue), HeldBy(Holding'), EventsOf(trail'), Buffered)
    BY <1>0, <2>2 DEF Apart
  <2>4. Buffered' = Buffered
    BY <2>1 DEF Buffered
  <2> QED
    BY <1>0, <2>1, <2>2, <2>3, <2>4 DEF PlacesApart
<1> QED
  BY <1>1, <1>2, <1>3, <1>4, <1>5, <1>6, <1>7, <1>9, <1>10, <1>12, <1>13, <1>14, <1>15
     DEF Next, Clients, RunWorker, RunBatchWorker, RunCoordinator, Process, Processors

\* The recursion of FlattenSeq is well defined: it satisfies its own equation.
LEMMA FlattenEquation ==
  ASSUME NEW q, Len(q) \in Nat, Len(q) # 0
  PROVE  \E f : /\ f = [i \in 1 .. Len(q) |-> IF i = 1 THEN q[i] ELSE f[i - 1] \o q[i]]
                /\ FlattenSeq(q) = f[Len(q)]
<1> DEFINE Def(h, i) == IF i = 1 THEN q[i] ELSE h[i - 1] \o q[i]
           S == {k \in Nat : \E h : h = [i \in 1 .. k + 1 |-> Def(h, i)]}
<1>1. 0 \in S
  <2> DEFINE h == [i \in 1 .. 0 + 1 |-> q[1]]
  <2>1. h = [i \in 1 .. 0 + 1 |-> Def(h, i)]
    OBVIOUS
  <2> HIDE DEF h
  <2>2. \E f : f = [i \in 1 .. 0 + 1 |-> Def(f, i)]
    BY <2>1, Zenon
  <2>3. 0 \in Nat
    OBVIOUS
  <2> QED
    BY <2>2, <2>3, Zenon
<1>2. ASSUME NEW k \in S PROVE k + 1 \in S
  <2>1. PICK h : h = [i \in 1 .. k + 1 |-> Def(h, i)]
    OBVIOUS
  <2> DEFINE g == [i \in 1 .. (k + 1) + 1 |-> IF i = k + 2 THEN h[k + 1] \o q[i] ELSE h[i]]
  <2>2. ASSUME NEW i \in 1 .. (k + 1) + 1 PROVE g[i] = Def(g, i)
    <3>1. CASE i = k + 2
      <4>1. i # 1 /\ i - 1 \in 1 .. (k + 1) + 1 /\ i - 1 = k + 1 /\ k + 1 # k + 2
        BY <3>1
      <4>2. g[i - 1] = h[k + 1] /\ g[i] = h[k + 1] \o q[i]
        BY <3>1, <4>1
      <4> QED
        BY <4>1, <4>2
    <3>2. CASE i # k + 2
      <4>0. i \in 1 .. k + 1
        BY <3>2
      <4>1. i \in 1 .. k + 1 /\ g[i] = h[i] /\ h[i] = Def(h, i)
        BY <3>2, <4>0, <2>1
      <4>2. i # 1 => g[i - 1] = h[i - 1]
        BY <4>1
      <4>3. Def(g, i) = Def(h, i)
        BY <4>2
      <4> QED
        BY <4>1, <4>3
    <3> QED
      BY <3>1, <3>2
  <2>3. g = [i \in 1 .. (k + 1) + 1 |-> Def(g, i)]
    BY <2>2
  <2> HIDE DEF g
  <2>4. \E f : f = [i \in 1 .. (k + 1) + 1 |-> Def(f, i)]
    BY <2>3, Zenon
  <2>5. k + 1 \in Nat
    OBVIOUS
  <2> QED
    BY <2>4, <2>5, Zenon
<1>3. Len(q) - 1 \in S /\ (Len(q) - 1) + 1 = Len(q)
  <2>1. S \in SUBSET Nat
    OBVIOUS
  <2>2. Len(q) - 1 \in Nat /\ (Len(q) - 1) + 1 = Len(q)
    OBVIOUS
  <2> HIDE DEF S
  <2>3. S = Nat
    BY <1>1, <1>2, <2>1, NatSetInduction
  <2> QED
    BY <2>2, <2>3
<1>4. PICK h : h = [i \in 1 .. Len(q) |-> Def(h, i)]
  BY <1>3
<1>5. FlattenSeq(q) = (CHOOSE g : g = [i \in 1 .. Len(q) |-> Def(g, i)])[Len(q)]
  BY DEF FlattenSeq
<1> QED
  BY <1>4, <1>5, Zenon

\* All the batches of the queue in one sequence: their events, each once.
LEMMA FlattenDistinct ==
  ASSUME NEW S, NEW q \in Seq(Seq(S)), BatchesApart(q)
  PROVE  FlattenSeq(q) \in Seq(S) /\ ToSet(FlattenSeq(q)) = Batches(q) /\ IsInjective(FlattenSeq(q))
<1>0. Len(q) \in Nat /\ \A i \in 1 .. Len(q) : q[i] \in Seq(S)
  OBVIOUS
<1>1. CASE Len(q) = 0
  <2>1. q = << >> /\ FlattenSeq(q) = << >> /\ Batches(q) = {}
    BY <1>1 DEF FlattenSeq, Batches
  <2>2. << >> \in Seq(S)
    OBVIOUS
  <2> QED
    BY <2>1, <2>2, EmptyDistinct
<1>2. CASE Len(q) # 0
  <2>1. PICK f : /\ f = [i \in 1 .. Len(q) |-> IF i = 1 THEN q[i] ELSE f[i - 1] \o q[i]]
                 /\ FlattenSeq(q) = f[Len(q)]
    BY <1>0, <1>2, FlattenEquation
  <2>2. f[1] = q[1] /\ \A i \in 1 .. Len(q) : i # 1 => f[i] = f[i - 1] \o q[i]
    <3>1. 1 \in 1 .. Len(q)
      BY <1>0, <1>2
    <3>2. \A i \in 1 .. Len(q) : f[i] = IF i = 1 THEN q[i] ELSE f[i - 1] \o q[i]
      BY <2>1, Zenon
    <3> QED
      BY <3>1, <3>2
  <2> DEFINE UpTo(k) == UNION {ToSet(q[j]) : j \in 1 .. k}
             Good(k) == f[k] \in Seq(S) /\ ToSet(f[k]) = UpTo(k) /\ IsInjective(f[k])
             T == {k \in Nat : k + 1 <= Len(q) => Good(k + 1)}
  <2>3. 0 \in T
    <3>1. 1 \in 1 .. Len(q) /\ q[1] \in Seq(S) /\ IsInjective(q[1])
      BY <1>0, <1>2 DEF BatchesApart
    <3>2. UpTo(1) = ToSet(q[1])
      OBVIOUS
    <3>3. Good(1)
      BY <2>2, <3>1, <3>2
    <3> HIDE DEF Good
    <3>4. Good(0 + 1)
      BY <3>3
    <3> QED
      BY <3>4
  <2>4. ASSUME NEW k \in T PROVE k + 1 \in T
    <3> SUFFICES ASSUME (k + 1) + 1 <= Len(q) PROVE Good((k + 1) + 1)
      OBVIOUS
    <3>1. PICK m \in Nat : m = k + 1
      OBVIOUS
    <3>a. m + 1 <= Len(q) /\ m >= 1 /\ m + 1 \in 1 .. Len(q) /\ m + 1 # 1 /\ (m + 1) - 1 = m
      BY <1>0, <3>1
    <3>2. Good(m)
      BY <1>0, <3>1, <3>a
    <3>3. f[m + 1] = f[m] \o q[m + 1]
      BY <2>2, <3>a
    <3>4. q[m + 1] \in Seq(S) /\ IsInjective(q[m + 1])
      BY <1>0, <3>a DEF BatchesApart
    <3>5. UpTo(m) \cap ToSet(q[m + 1]) = {}
      <4>1. ASSUME NEW j \in 1 .. m PROVE j \in 1 .. Len(q) /\ j # m + 1
        <5>1. Len(q) \in Nat /\ m + 1 <= Len(q)
          BY <1>0, <3>a
        <5> QED
          BY <5>1
      <4>2. \A j \in 1 .. m : ToSet(q[j]) \cap ToSet(q[m + 1]) = {}
        BY <3>a, <4>1 DEF BatchesApart
      <4> QED
        BY <4>2
    <3>6. UpTo(m + 1) = UpTo(m) \cup ToSet(q[m + 1])
      <4>1. \A j \in 1 .. m + 1 : j \in 1 .. m \/ j = m + 1
        OBVIOUS
      <4>2. \A j \in 1 .. m : j \in 1 .. m + 1
        OBVIOUS
      <4>3. m + 1 \in 1 .. m + 1
        BY <3>a
      <4> QED
        BY <4>1, <4>2, <4>3
    <3> HIDE DEF UpTo
    <3>7. /\ f[m] \o q[m + 1] \in Seq(S)
          /\ ToSet(f[m] \o q[m + 1]) = ToSet(f[m]) \cup ToSet(q[m + 1])
          /\ IsInjective(f[m]) /\ IsInjective(q[m + 1]) /\ ToSet(f[m]) \cap ToSet(q[m + 1]) = {}
               => IsInjective(f[m] \o q[m + 1])
      BY <3>2, <3>4, ConcatDistinct
    <3>8. Good(m + 1)
      BY <3>2, <3>3, <3>4, <3>5, <3>6, <3>7
    <3> QED
      BY <3>1, <3>8
  <2>5. \A k \in Nat : k + 1 <= Len(q) => Good(k + 1)
    <3>1. T \in SUBSET Nat
      OBVIOUS
    <3> HIDE DEF T
    <3>2. T = Nat
      BY <2>3, <2>4, <3>1, NatSetInduction
    <3> HIDE DEF Good
    <3> QED
      BY <3>2 DEF T
  <2>6. Good(Len(q))
    <3> HIDE DEF Good, T
    <3>1. \E k \in Nat : k + 1 = Len(q)
      <4>1. Len(q) - 1 \in Nat /\ (Len(q) - 1) + 1 = Len(q)
        BY <1>0, <1>2
      <4> QED
        BY <4>1, Zenon
    <3>2. PICK k \in Nat : k + 1 = Len(q)
      BY <3>1
    <3>3. k + 1 <= Len(q)
      BY <1>0, <3>2
    <3>4. Good(k + 1)
      BY <2>5, <3>3
    <3> QED
      BY <3>2, <3>4
  <2>7. UpTo(Len(q)) = Batches(q)
    BY DEF Batches
  <2> QED
    BY <2>1, <2>6, <2>7
<1> QED
  BY <1>1, <1>2

LEMMA OneCopyFromPlaces ==
  ASSUME TypeOK, PlacesApart
  PROVE  OneCopy
<1> SUFFICES ASSUME NEW e \in Events PROVE Copies(e) <= 1
  BY DEF OneCopy
<1> DEFINE Q == FlattenSeq(queue)
           line == buffer \o batch \o Q
           D == {i \in 1 .. Len(line) : line[i] = e}
           P == {p \in Processors : e \in ToSet(Waiting(p))}
           R == {r \in trail : r.event = e}
<1>0. /\ IsInjective(buffer) /\ IsInjective(batch) /\ BatchesApart(queue) /\ HoldersApart(Holding)
      /\ OneRowEach(trail) /\ buffer \in Seq(Events) /\ batch \in Seq(Events) /\ queue \in Seq(Seq(Events))
      /\ Apart(ToSet(buffer), ToSet(batch), Batches(queue), HeldBy(Holding), EventsOf(trail), Buffered)
  BY DEF PlacesApart, TypeOK
<1>1. Q \in Seq(Events) /\ ToSet(Q) = Batches(queue) /\ IsInjective(Q)
  BY <1>0, FlattenDistinct
<1>2. line \in Seq(Events) /\ IsInjective(line) /\ ToSet(line) = ToSet(buffer) \cup ToSet(batch) \cup Batches(queue)
  <2> HIDE DEF Q
  <2> DEFINE two == buffer \o batch
  <2>1. two \in Seq(Events) /\ ToSet(two) = ToSet(buffer) \cup ToSet(batch)
        /\ (ToSet(buffer) \cap ToSet(batch) = {} => IsInjective(two))
    BY <1>0, ConcatDistinct
  <2>2. ToSet(buffer) \cap ToSet(batch) = {} /\ ToSet(two) \cap ToSet(Q) = {}
    BY <1>0, <1>1, <2>1 DEF Apart
  <2> HIDE DEF two
  <2>3. two \o Q \in Seq(Events) /\ ToSet(two \o Q) = ToSet(two) \cup ToSet(Q)
        /\ (ToSet(two) \cap ToSet(Q) = {} => IsInjective(two \o Q))
    BY <1>1, <2>1, <2>2, ConcatDistinct
  <2> QED
    BY <1>1, <2>1, <2>2, <2>3 DEF two
<1> HIDE DEF Q, line
<1>3. DOMAIN line = 1 .. Len(line) /\ \A i \in 1 .. Len(line) : line[i] \in ToSet(line)
  BY <1>2, SeqFacts
<1>4. PICK b \in BOOLEAN : b <=> e \in ToSet(line)
  OBVIOUS
<1>5. PICK c \in BOOLEAN : c <=> e \in HeldBy(Holding)
  OBVIOUS
<1>6. PICK d \in BOOLEAN : d <=> e \in EventsOf(trail)
  OBVIOUS
<1>7. (\A i, j \in D : i = j) /\ (D # {} => b)
  BY <1>2, <1>3, <1>4 DEF IsInjective
<1>8. (\A p, q \in P : p = q) /\ (P # {} => c)
  BY <1>0, <1>5, HoldingType DEF HoldersApart, HeldBy
<1>9. (\A r, q \in R : r = q) /\ (R # {} => d)
  BY <1>0, <1>6 DEF OneRowEach, EventsOf
<1>10. ~ (b /\ c) /\ ~ (b /\ d) /\ ~ (c /\ d)
  BY <1>0, <1>2, <1>4, <1>5, <1>6 DEF Apart
<1>11. Copies(e) = Cardinality(D) + Cardinality(P) + Cardinality(R)
  BY DEF Copies, Occurrences, line, Q
<1> HIDE DEF D, P, R
<1>12. /\ Cardinality(D) = 0 \/ (Cardinality(D) = 1 /\ b)
       /\ Cardinality(P) = 0 \/ (Cardinality(P) = 1 /\ c)
       /\ Cardinality(R) = 0 \/ (Cardinality(R) = 1 /\ d)
  BY <1>7, <1>8, <1>9, AtMostOne
<1> QED
  BY <1>10, <1>11, <1>12

\* Nothing is anywhere before the first event.
LEMMA InitPlaces ==
  ASSUME Init
  PROVE  PlacesApart
<1>1. buffer = << >> /\ batch = << >> /\ queue = << >> /\ trail = {}
  BY DEF Init
<1>2. \A p \in Processors : Holding[p] = << >>
  BY DEF Init, Holding, Waiting
<1>3. ToSet(<< >>) = {} /\ IsInjective(<< >>)
  BY EmptyDistinct
<1>4. BatchesApart(queue) /\ Batches(queue) = {}
  <2>1. 1 .. Len(queue) = {}
    BY <1>1
  <2> QED
    BY <2>1, Zenon DEF BatchesApart, Batches
<1>5. HoldersApart(Holding) /\ HeldBy(Holding) = {}
  BY <1>2, <1>3 DEF HoldersApart, HeldBy
<1>6. OneRowEach(trail) /\ EventsOf(trail) = {}
  BY <1>1 DEF OneRowEach, EventsOf
<1> QED
  BY <1>1, <1>3, <1>4, <1>5, <1>6 DEF PlacesApart, Apart

\* Workers and coordinator compete for the events of one buffer, batches change
\* hands and commits fail without an answer, and still an event is never held
\* twice nor stored twice.
THEOREM OneCopyHolds == Spec => []OneCopy
<1>1. Init => DistinctInv /\ PlacesInv
  BY InitPlaces, PlacesByParts
<1>2. TypeOK /\ DistinctInv /\ PlacesInv /\ [Next]_vars => DistinctInv' /\ PlacesInv'
  <2> SUFFICES ASSUME TypeOK, DistinctInv, PlacesInv, [Next]_vars PROVE DistinctInv' /\ PlacesInv'
    OBVIOUS
  <2>1. PlacesApart'
    BY PlacesStep, PlacesByParts
  <2>2. (DistinctInv /\ PlacesInv <=> PlacesApart)'
    BY PlacesByParts, PTL
  <2> QED
    BY <2>1, <2>2
<1>3. TypeOK /\ DistinctInv /\ PlacesInv => OneCopy
  BY OneCopyFromPlaces, PlacesByParts
<1> QED
  BY <1>1, <1>2, <1>3, TypeCorrect, PTL DEF Spec
=============================================================================
