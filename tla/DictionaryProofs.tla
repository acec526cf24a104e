-------------------------- MODULE DictionaryProofs ---------------------------
(***************************************************************************)
(* Proofs about the two dictionaries that threads share:                   *)
(* ThreadSafeDictionary, which a queue guards, and the stations by letter  *)
(* of SubwayList, which nothing does.  Each has its own part below.        *)
(***************************************************************************)
EXTENDS DictionaryRefinement, SubwayList, FiniteSetTheorems, SequenceTheorems, TLAPS

-----------------------------------------------------------------------------
(***************************************************************************)
(* ThreadSafeDictionary has no data race, for any number of threads, keys  *)
(* and pending blocks.                                                     *)
(*                                                                         *)
(* NoDataRace speaks of the blocks that assign; the queue only knows of    *)
(* barriers.  The invariant joins the two: whoever assigns was submitted   *)
(* with the barrier flag and keeps it from the queue to its end            *)
(* (WritersAreBarriers), and a barrier block runs alone (BarrierAlone).    *)
(***************************************************************************)

IsSafe(b) == IsWriter(b) => b.barrier

WritersAreBarriers ==
    /\ \A i \in 1..Len(queue) : IsSafe(queue[i])
    /\ \A b \in running : IsSafe(b)

BarrierAlone == \A b \in running : b.barrier => running = {b}

RaceInv == TypeOK /\ WritersAreBarriers /\ BarrierAlone

-----------------------------------------------------------------------------
\* The two kinds of blocks are told apart by IsWriter.
LEMMA ReadersAndWriters ==
    /\ \A b \in Reader : ~IsWriter(b)
    /\ \A b \in Writer : IsWriter(b)
<1>1. ASSUME NEW b \in Reader PROVE ~IsWriter(b)
  <2>1. DOMAIN b = {"client", "keys", "barrier"}
    BY DEF Reader
  <2> QED BY <2>1 DEF IsWriter
<1>2. ASSUME NEW b \in Writer PROVE IsWriter(b)
  <2>1. DOMAIN b = {"client", "key", "value", "barrier"}
    BY DEF Writer
  <2> QED BY <2>1 DEF IsWriter
<1> QED BY <1>1, <1>2

\* Submitting a block keeps the invariant if the block is one of the class's:
\* if it assigns, it has the barrier flag.
LEMMA Submit ==
    ASSUME RaceInv, NEW b \in Block, IsSafe(b), queue' = Append(queue, b),
           waiting' \subseteq Client, UNCHANGED <<items, running, answer>>
    PROVE  RaceInv'
<1>1. TypeOK'
  BY DEF RaceInv, TypeOK
<1>2. WritersAreBarriers'
  <2>1. queue \in Seq(Block)
    BY DEF RaceInv, TypeOK
  <2>2. ASSUME NEW i \in 1..Len(queue') PROVE IsSafe(queue'[i])
    <3>1. CASE i \in 1..Len(queue)
      <4>1. queue'[i] = queue[i]
        BY <2>1, <3>1
      <4> QED BY <3>1, <4>1 DEF RaceInv, WritersAreBarriers
    <3>2. CASE i = Len(queue) + 1
      BY <2>1, <3>2
    <3>3. i \in 1..Len(queue) \/ i = Len(queue) + 1
      BY <2>1, <2>2
    <3> QED BY <3>1, <3>2, <3>3
  <2>3. \A a \in running : IsSafe(a)
    BY DEF RaceInv, WritersAreBarriers
  <2> QED BY <2>2, <2>3 DEF WritersAreBarriers, IsSafe, IsWriter
<1>3. BarrierAlone'
  BY DEF RaceInv, BarrierAlone
<1> QED BY <1>1, <1>2, <1>3 DEF RaceInv

\* The end of a block keeps what the invariant says of queue and running.
LEMMA Finish ==
    ASSUME RaceInv, NEW b \in running, running' = running \ {b},
           UNCHANGED queue
    PROVE  WritersAreBarriers' /\ BarrierAlone'
<1>1. WritersAreBarriers'
  BY DEF RaceInv, WritersAreBarriers, IsSafe, IsWriter
<1>2. BarrierAlone'
  BY DEF RaceInv, BarrierAlone
<1> QED BY <1>1, <1>2

-----------------------------------------------------------------------------
\* An empty dictionary and an empty queue.
LEMMA InitRace == Init => RaceInv
<1> SUFFICES ASSUME Init PROVE RaceInv
  OBVIOUS
<1>1. TypeOK
  BY EmptySeq DEF Init, TypeOK, Contents
<1>2. WritersAreBarriers /\ BarrierAlone
  BY EmptySeq DEF Init, WritersAreBarriers, BarrierAlone
<1> QED BY <1>1, <1>2 DEF RaceInv

\* A call submits one block: the reads one of Reader, the assignments one of
\* Writer with the barrier flag.
LEMMA CallStep ==
    ASSUME RaceInv, NEW c \in Client, Call(c) PROVE RaceInv'
<1>1. ASSUME NEW b \in Reader, Sync(c, b) PROVE RaceInv'
  <2>1. b \in Block /\ IsSafe(b)
    BY ReadersAndWriters DEF Block, IsSafe
  <2>2. waiting' \subseteq Client
    BY <1>1 DEF Sync, RaceInv, TypeOK
  <2> QED BY <1>1, <2>1, <2>2, Submit DEF Sync
<1>2. ASSUME NEW b \in Writer, b.barrier, Async(c, b) PROVE RaceInv'
  <2>1. b \in Block /\ IsSafe(b)
    BY <1>2 DEF Block, IsSafe
  <2>2. waiting' \subseteq Client
    BY <1>2 DEF Async, RaceInv, TypeOK
  <2> QED BY <1>2, <2>1, <2>2, Submit DEF Async
<1>3. ASSUME NEW k \in Key, Get(c, k) PROVE RaceInv'
  <2>1. {k} \in (SUBSET Key) \ {{}}
    OBVIOUS
  <2>2. [client |-> c, keys |-> {k}, barrier |-> FALSE] \in Reader
    BY <2>1 DEF Reader
  <2> QED BY <1>1, <1>3, <2>2 DEF Get
<1>4. CASE Count(c) \/ GetAllKeys(c) \/ GetAllValues(c)
  <2>1. Key \in (SUBSET Key) \ {{}}
    BY KeyAssumption
  <2>2. ASSUME NEW f \in BOOLEAN
        PROVE  [client |-> c, keys |-> Key, barrier |-> f] \in Reader
    BY <2>1 DEF Reader
  <2> QED BY <1>1, <1>4, <2>2 DEF Count, GetAllKeys, GetAllValues
<1>5. ASSUME NEW k \in Key, NEW v \in Value \cup {Nil},
             Set(c, k, v) \/ RemoveValueForKey(c, k)
      PROVE  RaceInv'
  <2>1. ASSUME NEW w \in Value \cup {Nil}
        PROVE  [client |-> c, key |-> k, value |-> w, barrier |-> TRUE] \in Writer
    BY DEF Writer
  <2> QED BY <1>2, <1>5, <2>1 DEF Set, RemoveValueForKey
<1> QED BY <1>3, <1>4, <1>5 DEF Call

\* The queue starts a barrier block only when nothing runs, and nothing while
\* one runs.
LEMMA StartStep == ASSUME RaceInv, Start PROVE RaceInv'
<1>1. /\ queue \in Seq(Block) /\ queue # <<>>
      /\ Head(queue) \in Block /\ Tail(queue) \in Seq(Block)
  BY HeadTailProperties DEF Start, RaceInv, TypeOK
<1>2. TypeOK'
  BY <1>1 DEF Start, RaceInv, TypeOK
<1>3. WritersAreBarriers'
  <2>1. \A i \in 1..Len(Tail(queue)) :
            i + 1 \in 1..Len(queue) /\ Tail(queue)[i] = queue[i + 1]
    BY <1>1
  <2>2. \A i \in 1..Len(Tail(queue)) : IsSafe(Tail(queue)[i])
    BY <2>1 DEF RaceInv, WritersAreBarriers
  <2>3. IsSafe(Head(queue))
    BY <1>1 DEF RaceInv, WritersAreBarriers
  <2> QED BY <2>2, <2>3 DEF Start, RaceInv, WritersAreBarriers, IsSafe, IsWriter
<1>4. BarrierAlone'
  <2>1. CASE Head(queue).barrier
    BY <2>1 DEF Start, CanStart, BarrierAlone
  <2>2. CASE ~Head(queue).barrier
    BY <2>2 DEF Start, CanStart, BarrierAlone
  <2> QED BY <2>1, <2>2
<1> QED BY <1>2, <1>3, <1>4 DEF RaceInv

\* A block that reads leaves items alone and answers its client ...
LEMMA FinishReadStep ==
    ASSUME RaceInv, NEW b \in running, FinishRead(b) PROVE RaceInv'
<1>1. b \in Reader
  BY ReadersAndWriters DEF FinishRead, RaceInv, TypeOK, Block
<1>2. [k \in b.keys |-> items[k]] \in Answer
  <2>1. b.keys \in (SUBSET Key) \ {{}}
    BY <1>1 DEF Reader
  <2>2. [k \in b.keys |-> items[k]] \in [b.keys -> Value \cup {Nil}]
    BY <2>1 DEF RaceInv, TypeOK, Contents
  <2> QED BY <2>1, <2>2 DEF Answer
<1>3. TypeOK'
  BY <1>2 DEF FinishRead, RaceInv, TypeOK
<1>4. WritersAreBarriers' /\ BarrierAlone'
  BY Finish DEF FinishRead
<1> QED BY <1>3, <1>4 DEF RaceInv

\* ... and one that assigns keeps the type of items.
LEMMA FinishWriteStep ==
    ASSUME RaceInv, NEW b \in running, FinishWrite(b) PROVE RaceInv'
<1>1. b \in Writer
  BY ReadersAndWriters DEF FinishWrite, RaceInv, TypeOK, Block
<1>2. TypeOK'
  BY <1>1 DEF FinishWrite, RaceInv, TypeOK, Contents, Writer
<1>3. WritersAreBarriers' /\ BarrierAlone'
  BY Finish DEF FinishWrite
<1> QED BY <1>2, <1>3 DEF RaceInv

\* One lemma per kind of step.
LEMMA RaceStep == RaceInv /\ [Next]_vars => RaceInv'
<1> SUFFICES ASSUME RaceInv, [Next]_vars PROVE RaceInv'
  OBVIOUS
<1>1. ASSUME NEW c \in Client, Return(c) PROVE RaceInv'
  <2>1. TypeOK'
    BY <1>1 DEF Return, RaceInv, TypeOK
  <2>2. WritersAreBarriers' /\ BarrierAlone'
    BY <1>1 DEF Return, RaceInv, WritersAreBarriers, BarrierAlone, IsSafe, IsWriter
  <2> QED BY <2>1, <2>2 DEF RaceInv
<1>2. CASE UNCHANGED vars
  BY <1>2 DEF vars, RaceInv, TypeOK, WritersAreBarriers, BarrierAlone, IsSafe, IsWriter
<1> QED
  BY <1>1, <1>2, CallStep, StartStep, FinishReadStep, FinishWriteStep
  DEF Next, QueueStep

\* The invariant holds throughout.
LEMMA RaceInvariant == Spec => []RaceInv
<1> QED BY InitRace, RaceStep, PTL DEF Spec

-----------------------------------------------------------------------------
\* Whatever is in the queue is a block of one of the calls of the class, and
\* what a sync call returns is part of the dictionary's type.
THEOREM TypeCorrect == Spec => []TypeOK
<1>1. RaceInv => TypeOK
  BY DEF RaceInv
<1> QED BY <1>1, RaceInvariant, PTL

\* While an assignment changes items no other block touches it: the barrier
\* flag of the two setters is all the locking the dictionary needs.
THEOREM NoRace == Spec => []NoDataRace
<1>1. RaceInv => NoDataRace
  BY DEF RaceInv, WritersAreBarriers, BarrierAlone, IsSafe, NoDataRace
<1> QED BY <1>1, RaceInvariant, PTL

-----------------------------------------------------------------------------
(***************************************************************************)
(* ThreadSafeDictionary implements AtomicDictionary.                       *)
(*                                                                         *)
(* A client that waits in queue.sync has exactly one block that reads,     *)
(* queued or running (ClientsInv), so that its abstract reply is well      *)
(* defined.  A block submitted appends to what AfterBlocks counts; a block *)
(* that starts or ends leaves what the last of them will find as it is.    *)
(***************************************************************************)
ClientsInv ==
    \A c \in Client :
        IF c \in waiting
        THEN /\ answer[c] = NoAnswer
             /\ \/ RunningReads(c) = {} /\ \E i : PendingReads(c) = {i}
                \/ PendingReads(c) = {} /\ \E b : RunningReads(c) = {b}
        ELSE PendingReads(c) = {} /\ RunningReads(c) = {}

AtomicInv == RaceInv /\ ClientsInv

-----------------------------------------------------------------------------
\* Some assignment of those among the first n blocks is the last.
LEMMA LatestExists ==
    ASSUME NEW n \in Nat, NEW S \in SUBSET (1..n), S # {}
    PROVE  Latest(S) \in S /\ \A j \in S : j <= Latest(S)
<1> DEFINE R == OpToRel(<, Nat)
           T == {n - i : i \in S}
<1>1. IsWellFoundedOn(R, Nat)
  BY NatLessThanWellFounded
<1>2. \A k, m \in Nat : k < m => <<k, m>> \in R
  BY DEF OpToRel
<1>3. T \subseteq Nat /\ T # {}
  <2>1. \A i \in S : i \in 1..n
    OBVIOUS
  <2>2. \A i \in S : n - i \in Nat
    BY <2>1
  <2>3. PICK i \in S : TRUE
    OBVIOUS
  <2>4. n - i \in T
    OBVIOUS
  <2> QED BY <2>2, <2>4
<1> HIDE DEF R
<1>4. PICK m \in T : \A k \in T : <<k, m>> \notin R
  <2> HIDE DEF T
  <2> QED BY <1>1, <1>3, WFMin
<1>5. PICK i \in S : m = n - i
  OBVIOUS
<1>6. ASSUME NEW j \in S PROVE j <= i
  <2>1. n - j \in T /\ n - j \in Nat /\ m \in Nat
    BY <1>3
  <2>2. ~(n - j < m)
    BY <1>2, <1>4, <2>1
  <2> QED BY <1>5, <2>2
<1> QED BY <1>6 DEF Latest

\* What the queue holds, place by place, for the provers.
LEMMA QueueTyped ==
    ASSUME RaceInv
    PROVE  /\ Len(queue) \in Nat
           /\ \A i \in 1..Len(queue) : queue[i] \in Block
           /\ \A i \in 1..Len(queue) : IsWriter(queue[i]) => queue[i] \in Writer
           /\ \A i \in 1..Len(queue) : ~IsWriter(queue[i]) => queue[i] \in Reader
           /\ DOMAIN queue = 1..Len(queue)
<1>1. queue \in Seq(Block)
  BY DEF RaceInv, TypeOK
<1> QED BY <1>1, ReadersAndWriters DEF Block

\* The dictionary of the next state, key by key.
LEMMA AfterNext ==
    ASSUME NEW n
    PROVE  /\ AfterBlocks(n)' = [k \in Key |-> (AfterBlocks(n)')[k]]
           /\ \A k \in Key :
                 (AfterBlocks(n)')[k]
                 = IF AssignsSoon(k, n)' # {}
                   THEN queue'[Latest(AssignsSoon(k, n)')].value
                   ELSE IF AssignsNow(k)' # {}
                        THEN (CHOOSE b \in AssignsNow(k)' : TRUE).value
                        ELSE items'[k]
<1> DEFINE F(k) == IF AssignsSoon(k, n)' # {}
                   THEN queue'[Latest(AssignsSoon(k, n)')].value
                   ELSE IF AssignsNow(k)' # {}
                        THEN (CHOOSE b \in AssignsNow(k)' : TRUE).value
                        ELSE items'[k]
           A == AfterBlocks(n)'
<1>1. A = [k \in Key |-> F(k)]
  BY DEF AfterBlocks, Latest
<1>2. A = [k \in Key |-> A[k]] /\ \A k \in Key : A[k] = F(k)
  <2> HIDE DEF A, F
  <2> QED BY <1>1
<1> QED BY <1>2

\* The dictionary of the next state is taken after all of its queue.
LEMMA DictNext ==
    ASSUME NEW n, n = Len(queue')
    PROVE  AfterBlocks(Len(queue))' = AfterBlocks(n)'
<1> QED BY DEF AfterBlocks, AssignsSoon, Latest

-----------------------------------------------------------------------------
\* A block that is submitted changes nothing for those before it ...
LEMMA SubmitKeeps ==
    ASSUME RaceInv, NEW b, queue' = Append(queue, b),
           UNCHANGED <<items, running>>, NEW n \in 0..Len(queue)
    PROVE  AfterBlocks(n)' = AfterBlocks(n)
<1>1. queue \in Seq(Block)
  BY DEF RaceInv, TypeOK
<1>2. \A i \in 1..n : queue'[i] = queue[i]
  BY <1>1
<1>3. ASSUME NEW k \in Key PROVE AssignsSoon(k, n)' = AssignsSoon(k, n)
  BY <1>2 DEF AssignsSoon, IsWriter
<1>4. ASSUME NEW k \in Key PROVE AssignsNow(k)' = AssignsNow(k)
  BY DEF AssignsNow, IsWriter
<1>5. ASSUME NEW k \in Key, AssignsSoon(k, n) # {}
      PROVE  queue'[Latest(AssignsSoon(k, n))] = queue[Latest(AssignsSoon(k, n))]
  <2>1. AssignsSoon(k, n) \in SUBSET (1..n)
    BY DEF AssignsSoon
  <2>2. n \in Nat
    BY <1>1
  <2>3. Latest(AssignsSoon(k, n)) \in 1..n
    BY <1>5, <2>1, <2>2, LatestExists
  <2> QED BY <1>2, <2>3
<1>6. ASSUME NEW k \in Key
      PROVE  (AfterBlocks(n)')[k] = AfterBlocks(n)[k]
  <2>1. AssignsSoon(k, n)' = AssignsSoon(k, n) /\ AssignsNow(k)' = AssignsNow(k)
    BY <1>3, <1>4
  <2>2. AssignsSoon(k, n) # {} =>
            queue'[Latest(AssignsSoon(k, n))] = queue[Latest(AssignsSoon(k, n))]
    BY <1>5
  <2>3. (AfterBlocks(n)')[k]
        = IF AssignsSoon(k, n)' # {} THEN queue'[Latest(AssignsSoon(k, n)')].value
          ELSE IF AssignsNow(k)' # {} THEN (CHOOSE a \in AssignsNow(k)' : TRUE).value
          ELSE items'[k]
    BY AfterNext
  <2>4. AfterBlocks(n)[k]
        = IF AssignsSoon(k, n) # {} THEN queue[Latest(AssignsSoon(k, n))].value
          ELSE IF AssignsNow(k) # {} THEN (CHOOSE a \in AssignsNow(k) : TRUE).value
          ELSE items[k]
    BY DEF AfterBlocks
  <2> QED BY <2>1, <2>2, <2>3, <2>4
<1> QED BY <1>6 DEF AfterBlocks

\* ... and is the last to take effect.
LEMMA SubmitAssigns ==
    ASSUME RaceInv, NEW b, queue' = Append(queue, b),
           UNCHANGED <<items, running>>
    PROVE  AfterBlocks(Len(queue))'
           = IF IsWriter(b) /\ b.key \in Key
             THEN [AfterBlocks(Len(queue)) EXCEPT ![b.key] = b.value]
             ELSE AfterBlocks(Len(queue))
<1>0. queue \in Seq(Block)
  BY DEF RaceInv, TypeOK
<1>1. PICK n \in Nat : n = Len(queue)
  BY <1>0
<1>2. /\ Len(queue') = n + 1 /\ queue'[n + 1] = b
      /\ \A i \in 1..n : queue'[i] = queue[i]
  BY <1>1, <1>0
<1>3. ASSUME NEW k \in Key
      PROVE  AssignsSoon(k, n + 1)'
             = IF IsWriter(b) /\ b.key = k THEN AssignsSoon(k, n) \cup {n + 1}
               ELSE AssignsSoon(k, n)
  <2>1. ASSUME NEW i PROVE i \in AssignsSoon(k, n + 1)'
            <=> \/ i \in AssignsSoon(k, n)
                \/ IsWriter(b) /\ b.key = k /\ i = n + 1
    <3>1. i \in 1..(n + 1) <=> i \in 1..n \/ i = n + 1
      BY <1>2
    <3>2. CASE i \in 1..n
      <4>1. queue'[i] = queue[i] /\ i # n + 1
        BY <1>2, <3>2
      <4> QED BY <3>1, <3>2, <4>1 DEF AssignsSoon, IsWriter
    <3>3. CASE i = n + 1
      <4>1. queue'[i] = b /\ i \notin 1..n
        BY <1>2, <3>3
      <4> QED BY <3>1, <3>3, <4>1 DEF AssignsSoon, IsWriter
    <3>4. CASE i \notin 1..(n + 1)
      BY <3>1, <3>4 DEF AssignsSoon
    <3> QED BY <3>1, <3>2, <3>3, <3>4
  <2> QED BY <2>1
<1>4. ASSUME NEW k \in Key PROVE AssignsNow(k)' = AssignsNow(k)
  BY DEF AssignsNow, IsWriter
<1>5. ASSUME NEW k \in Key
      PROVE  (AfterBlocks(n + 1)')[k]
             = IF IsWriter(b) /\ b.key = k THEN b.value ELSE AfterBlocks(n)[k]
  <2>0. AssignsSoon(k, n) \in SUBSET (1..n)
    BY DEF AssignsSoon
  <2>1. CASE IsWriter(b) /\ b.key = k
    <3> DEFINE S == AssignsSoon(k, n) \cup {n + 1}
    <3>1. S \in SUBSET (1..(n + 1)) /\ S # {} /\ n + 1 \in Nat
      BY <1>2, <2>0
    <3>2. n + 1 \in S /\ \A j \in S : j <= n + 1
      BY <1>2, <3>1
    <3>3. AssignsSoon(k, n + 1)' = S
      BY <1>3, <2>1
    <3> HIDE DEF S
    <3>4. Latest(S) \in S /\ \A j \in S : j <= Latest(S)
      BY <3>1, LatestExists
    <3>5. Latest(S) = n + 1
      <4>1. n + 1 <= Latest(S)
        BY <3>2, <3>4
      <4>2. Latest(S) \in 1..(n + 1)
        BY <3>1, <3>4
      <4> QED BY <1>2, <4>1, <4>2
    <3>6. Latest(AssignsSoon(k, n + 1)') = n + 1
      BY <3>3, <3>5
    <3>7. (AfterBlocks(n + 1)')[k] = queue'[Latest(AssignsSoon(k, n + 1)')].value
      BY <3>1, <3>3 DEF AfterBlocks, Latest
    <3> QED BY <1>2, <2>1, <3>6, <3>7
  <2>2. CASE ~(IsWriter(b) /\ b.key = k)
    <3>1. AssignsSoon(k, n + 1)' = AssignsSoon(k, n)
      BY <1>3, <2>2
    <3>2. AssignsSoon(k, n) # {} =>
              queue'[Latest(AssignsSoon(k, n))] = queue[Latest(AssignsSoon(k, n))]
      BY <1>2, <2>0, LatestExists
    <3>3. AssignsNow(k)' = AssignsNow(k)
      BY <1>4
    <3>4. (AfterBlocks(n + 1)')[k]
        = IF AssignsSoon(k, n + 1)' # {} THEN queue'[Latest(AssignsSoon(k, n + 1)')].value
          ELSE IF AssignsNow(k)' # {} THEN (CHOOSE a \in AssignsNow(k)' : TRUE).value
          ELSE items'[k]
      BY AfterNext
    <3>5. AfterBlocks(n)[k]
        = IF AssignsSoon(k, n) # {} THEN queue[Latest(AssignsSoon(k, n))].value
          ELSE IF AssignsNow(k) # {} THEN (CHOOSE a \in AssignsNow(k) : TRUE).value
          ELSE items[k]
      BY DEF AfterBlocks
    <3> QED BY <2>2, <3>1, <3>2, <3>3, <3>4, <3>5
  <2> QED BY <2>1, <2>2
<1>6. AfterBlocks(n + 1)'
      = IF IsWriter(b) /\ b.key \in Key
        THEN [AfterBlocks(n) EXCEPT ![b.key] = b.value] ELSE AfterBlocks(n)
  <2> DEFINE A == AfterBlocks(n + 1)'
             B == AfterBlocks(n)
  <2>1. A = [k \in Key |-> A[k]] /\ B = [k \in Key |-> B[k]]
    <3> DEFINE F(k) == IF AssignsSoon(k, n) # {}
                       THEN queue[Latest(AssignsSoon(k, n))].value
                       ELSE IF AssignsNow(k) # {}
                            THEN (CHOOSE a \in AssignsNow(k) : TRUE).value
                            ELSE items[k]
    <3>1. B = [k \in Key |-> F(k)]
      BY DEF AfterBlocks
    <3>2. B = [k \in Key |-> B[k]]
      <4> HIDE DEF B, F
      <4> QED BY <3>1
    <3> QED BY <3>2, AfterNext
  <2>2. \A k \in Key : A[k] = IF IsWriter(b) /\ b.key = k THEN b.value ELSE B[k]
    BY <1>5
  <2> HIDE DEF A, B
  <2>3. CASE IsWriter(b) /\ b.key \in Key
    <3>1. [B EXCEPT ![b.key] = b.value]
          = [k \in Key |-> IF k = b.key THEN b.value ELSE B[k]]
      BY <2>1
    <3>2. [k \in Key |-> A[k]] = [k \in Key |-> IF k = b.key THEN b.value ELSE B[k]]
      BY <2>2, <2>3
    <3> QED BY <2>1, <2>3, <3>1, <3>2 DEF A, B
  <2>4. CASE ~(IsWriter(b) /\ b.key \in Key)
    <3>1. [k \in Key |-> A[k]] = [k \in Key |-> B[k]]
      BY <2>2, <2>4
    <3> QED BY <2>1, <2>4, <3>1 DEF A, B
  <2> QED BY <2>3, <2>4 DEF A, B
<1>7. AfterBlocks(Len(queue))' = AfterBlocks(n + 1)'
  BY <1>2, DictNext
<1> QED BY <1>1, <1>6, <1>7

\* A block that starts: the counts of blocks before the others go down by
\* one, and a writer that starts is alone.
LEMMA StartKeeps ==
    ASSUME RaceInv, Start, NEW n \in 0..Len(queue')
    PROVE  AfterBlocks(n)' = AfterBlocks(n + 1)
<1> DEFINE h == Head(queue)
<1>1. /\ queue \in Seq(Block) /\ queue # <<>> /\ h = queue[1]
      /\ Len(queue) \in Nat /\ Len(queue') = Len(queue) - 1
      /\ \A i \in 1..n : queue'[i] = queue[i + 1]
  BY DEF Start, RaceInv, TypeOK
<1>2. n \in Nat /\ n + 1 \in Nat /\ n + 1 \in 1..Len(queue)
  BY <1>1
<1>3. UNCHANGED items /\ running' = running \cup {h}
  BY DEF Start
<1>4. IsWriter(h) => running = {}
  BY <1>1 DEF Start, CanStart, RaceInv, WritersAreBarriers, IsSafe
<1> HIDE DEF h
<1>5. ASSUME NEW k \in Key
      PROVE  (AfterBlocks(n)')[k] = AfterBlocks(n + 1)[k]
  <2> DEFINE S == AssignsSoon(k, n + 1)
             U == AssignsSoon(k, n)'
  <2>1. S \in SUBSET (1..(n + 1)) /\ U \in SUBSET (1..n)
    BY DEF AssignsSoon
  <2>2. \A i \in 1..n : i \in U <=> i + 1 \in S
    BY <1>1, <1>2 DEF AssignsSoon, IsWriter
  <2>3. 1 \in S <=> IsWriter(h) /\ h.key = k
    BY <1>1, <1>2 DEF AssignsSoon
  <2>4. AssignsNow(k)' = IF IsWriter(h) /\ h.key = k THEN AssignsNow(k) \cup {h}
                         ELSE AssignsNow(k)
    BY <1>3 DEF AssignsNow, IsWriter
  <2>5. (AfterBlocks(n)')[k]
        = IF U # {} THEN queue'[Latest(U)].value
          ELSE IF AssignsNow(k)' # {} THEN (CHOOSE b \in AssignsNow(k)' : TRUE).value
          ELSE items[k]
    BY <1>3 DEF AfterBlocks, Latest
  <2>6. AfterBlocks(n + 1)[k]
        = IF S # {} THEN queue[Latest(S)].value
          ELSE IF AssignsNow(k) # {} THEN (CHOOSE b \in AssignsNow(k) : TRUE).value
          ELSE items[k]
    BY DEF AfterBlocks
  <2> HIDE DEF S, U
  <2>7. CASE U # {}
    <3>1. Latest(U) \in U /\ \A j \in U : j <= Latest(U)
      BY <1>2, <2>1, <2>7, LatestExists
    <3>2. S # {}
      BY <2>1, <2>2, <3>1
    <3>3. Latest(S) \in S /\ \A j \in S : j <= Latest(S)
      BY <1>2, <2>1, <3>2, LatestExists
    <3>4. Latest(U) + 1 \in S /\ Latest(U) \in 1..n
      BY <2>1, <2>2, <3>1
    <3>5. Latest(U) + 1 <= Latest(S) /\ Latest(S) \in 1..(n + 1)
      BY <2>1, <3>3, <3>4
    <3> DEFINE m == Latest(S) - 1
    <3>6. m \in 1..n /\ Latest(S) = m + 1
      BY <1>2, <3>4, <3>5
    <3>7. m <= Latest(U)
      BY <2>2, <3>1, <3>3, <3>6
    <3>8. Latest(S) = Latest(U) + 1
      BY <1>2, <3>4, <3>5, <3>6, <3>7
    <3>9. queue'[Latest(U)] = queue[Latest(S)]
      BY <1>1, <3>4, <3>8
    <3> QED BY <2>5, <2>6, <2>7, <3>2, <3>9
  <2>8. CASE U = {} /\ IsWriter(h) /\ h.key = k
    <3>1. S = {1}
      <4>1. 1 \in S
        BY <2>3, <2>8
      <4>2. ASSUME NEW j \in S, j # 1 PROVE FALSE
        <5> DEFINE m == j - 1
        <5>1. m \in 1..n /\ j = m + 1
          BY <1>2, <2>1, <4>2
        <5> QED BY <2>2, <2>8, <5>1
      <4> QED BY <4>1, <4>2
    <3>2. Latest(S) = 1
      <4>1. S # {}
        BY <3>1
      <4>2. Latest(S) \in S
        BY <1>2, <2>1, <4>1, LatestExists
      <4> QED BY <3>1, <4>2
    <3>3. AssignsNow(k)' = {h}
      BY <1>4, <2>4, <2>8 DEF AssignsNow
    <3> QED BY <1>1, <2>5, <2>6, <2>8, <3>1, <3>2, <3>3
  <2>9. CASE U = {} /\ ~(IsWriter(h) /\ h.key = k)
    <3>1. S = {}
      <4>1. ASSUME NEW j \in S PROVE FALSE
        <5> DEFINE m == j - 1
        <5>1. j # 1
          BY <2>3, <2>9
        <5>2. m \in 1..n /\ j = m + 1
          BY <1>2, <2>1, <5>1
        <5> QED BY <2>2, <2>9, <5>2
      <4> QED BY <4>1
    <3> QED BY <2>4, <2>5, <2>6, <2>9, <3>1
  <2> QED BY <2>7, <2>8, <2>9
<1> QED BY <1>5 DEF AfterBlocks

\* The end of a block that reads changes no assignment ...
LEMMA FinishReadKeeps ==
    ASSUME RaceInv, NEW b \in running, FinishRead(b), NEW n \in 0..Len(queue)
    PROVE  AfterBlocks(n)' = AfterBlocks(n)
<1>1. UNCHANGED <<items, queue>> /\ running' = running \ {b} /\ ~IsWriter(b)
  BY DEF FinishRead
<1>2. ASSUME NEW k \in Key
      PROVE  /\ AssignsSoon(k, n)' = AssignsSoon(k, n)
             /\ AssignsNow(k)' = AssignsNow(k)
  BY <1>1 DEF AssignsSoon, AssignsNow, IsWriter
<1>3. ASSUME NEW k \in Key
      PROVE  (AfterBlocks(n)')[k] = AfterBlocks(n)[k]
  <2>1. AssignsSoon(k, n)' = AssignsSoon(k, n) /\ AssignsNow(k)' = AssignsNow(k)
    BY <1>2
  <2> QED BY <1>1, <2>1 DEF AfterBlocks, Latest
<1> QED BY <1>3 DEF AfterBlocks

\* ... and one that assigns does it on items.
LEMMA FinishWriteKeeps ==
    ASSUME RaceInv, NEW b \in running, FinishWrite(b), NEW n \in 0..Len(queue)
    PROVE  AfterBlocks(n)' = AfterBlocks(n)
<1>1. /\ UNCHANGED queue /\ running' = running \ {b} /\ IsWriter(b)
      /\ items' = [items EXCEPT ![b.key] = b.value]
  BY DEF FinishWrite
<1>2. running = {b}
  BY <1>1 DEF RaceInv, WritersAreBarriers, BarrierAlone, IsSafe
<1>3. items \in [Key -> Value \cup {Nil}]
  BY DEF RaceInv, TypeOK, Contents
<1>4. ASSUME NEW k \in Key
      PROVE  (AfterBlocks(n)')[k] = AfterBlocks(n)[k]
  <2>1. AssignsSoon(k, n)' = AssignsSoon(k, n)
    BY <1>1 DEF AssignsSoon, IsWriter
  <2>2. AssignsNow(k)' = {}
    BY <1>1, <1>2 DEF AssignsNow
  <2>3. AssignsNow(k) = IF b.key = k THEN {b} ELSE {}
    BY <1>1, <1>2 DEF AssignsNow
  <2>4. items'[k] = IF b.key = k THEN b.value ELSE items[k]
    BY <1>1, <1>3
  <2> QED BY <1>1, <2>1, <2>2, <2>3, <2>4 DEF AfterBlocks, Latest
<1> QED BY <1>4 DEF AfterBlocks

-----------------------------------------------------------------------------
\* What a client will be answered, by where its block is ...
RepliesAre ==
    \A c \in Client :
        /\ c \notin waiting => ReplyOf(c) = answer[c]
        /\ \A b \in RunningReads(c) : ReplyOf(c) = [k \in b.keys |-> items[k]]
        /\ \A i \in PendingReads(c) :
              ReplyOf(c) = [k \in queue[i].keys |-> AfterBlocks(i - 1)[k]]

\* ... is what ReplyOf says while each client has at most one block.
LEMMA Replies == ClientsInv => RepliesAre
<1> SUFFICES ASSUME ClientsInv, NEW c \in Client
             PROVE  /\ c \notin waiting => ReplyOf(c) = answer[c]
                    /\ \A b \in RunningReads(c) :
                          ReplyOf(c) = [k \in b.keys |-> items[k]]
                    /\ \A i \in PendingReads(c) :
                          ReplyOf(c) = [k \in queue[i].keys |-> AfterBlocks(i - 1)[k]]
  BY DEF RepliesAre
<1>1. c \notin waiting => ReplyOf(c) = answer[c]
  BY DEF ReplyOf
<1>2. ASSUME NEW b \in RunningReads(c)
      PROVE  ReplyOf(c) = [k \in b.keys |-> items[k]]
  <2>1. c \in waiting /\ RunningReads(c) = {b}
    BY <1>2 DEF ClientsInv
  <2>2. (CHOOSE a \in RunningReads(c) : TRUE) = b
    BY <2>1
  <2> QED BY <2>1, <2>2 DEF ReplyOf
<1>3. ASSUME NEW i \in PendingReads(c)
      PROVE  ReplyOf(c) = [k \in queue[i].keys |-> AfterBlocks(i - 1)[k]]
  <2>1. c \in waiting /\ RunningReads(c) = {} /\ PendingReads(c) = {i}
    BY <1>3 DEF ClientsInv
  <2>2. (CHOOSE j \in PendingReads(c) : TRUE) = i
    BY <2>1
  <2> QED BY <2>1, <2>2 DEF ReplyOf
<1> QED BY <1>1, <1>2, <1>3

\* The same of the next state.
LEMMA RepliesNext == ClientsInv' => RepliesAre'
<1> QED BY Replies, PTL

\* The client of a block that is submitted to read has one block more.
LEMMA SubmitReads ==
    ASSUME RaceInv, NEW b, queue' = Append(queue, b), UNCHANGED running, NEW d
    PROVE  /\ RunningReads(d)' = RunningReads(d)
           /\ PendingReads(d)' = IF ~IsWriter(b) /\ b.client = d
                                 THEN PendingReads(d) \cup {Len(queue) + 1}
                                 ELSE PendingReads(d)
           /\ \A i \in PendingReads(d) : i \in 1..Len(queue) /\ queue'[i] = queue[i]
<1>1. queue \in Seq(Block)
  BY DEF RaceInv, TypeOK
<1>2. PICK n \in Nat : n = Len(queue)
  BY <1>1
<1>3. /\ DOMAIN queue = 1..n /\ DOMAIN queue' = 1..(n + 1) /\ queue'[n + 1] = b
      /\ \A i \in 1..n : queue'[i] = queue[i]
  BY <1>1, <1>2
<1>4. RunningReads(d)' = RunningReads(d)
  BY DEF RunningReads, IsWriter
<1>5. ASSUME NEW i
      PROVE  i \in PendingReads(d)' <=> \/ i \in PendingReads(d)
                                        \/ ~IsWriter(b) /\ b.client = d /\ i = n + 1
  <2>1. i \in 1..(n + 1) <=> i \in 1..n \/ i = n + 1
    BY <1>2
  <2>2. CASE i \in 1..n
    <3>1. queue'[i] = queue[i] /\ i # n + 1
      BY <1>3, <2>2
    <3> QED BY <1>3, <2>1, <2>2, <3>1 DEF PendingReads, IsWriter
  <2>3. CASE i = n + 1
    <3>1. queue'[i] = b /\ i \notin 1..n
      BY <1>3, <2>3
    <3> QED BY <1>3, <2>1, <2>3, <3>1 DEF PendingReads, IsWriter
  <2>4. CASE i \notin 1..(n + 1)
    BY <1>3, <2>1, <2>4 DEF PendingReads
  <2> QED BY <2>1, <2>2, <2>3, <2>4
<1>6. \A i \in PendingReads(d) : i \in 1..n /\ queue'[i] = queue[i]
  BY <1>3 DEF PendingReads
<1>7. PendingReads(d)' = IF ~IsWriter(b) /\ b.client = d
                         THEN PendingReads(d) \cup {n + 1} ELSE PendingReads(d)
  BY <1>5
<1> QED BY <1>2, <1>4, <1>6, <1>7

\* A call that reads is answered with the dictionary as it is when the block
\* is submitted.
LEMMA SyncStep ==
    ASSUME AtomicInv, NEW c \in Client, NEW b \in Reader, b.client = c, Sync(c, b)
    PROVE  ClientsInv' /\ Atomic!Ask(c, b.keys)
<1>1. /\ RaceInv /\ ClientsInv /\ ~IsWriter(b) /\ queue \in Seq(Block)
      /\ c \notin waiting /\ answer[c] = NoAnswer /\ waiting' = waiting \cup {c}
      /\ queue' = Append(queue, b) /\ UNCHANGED <<items, running, answer>>
  BY ReadersAndWriters DEF AtomicInv, RaceInv, TypeOK, Sync, Idle
<1>2. PICK n \in Nat : n = Len(queue)
  BY <1>1
<1>3. ASSUME NEW d \in Client
      PROVE  /\ RunningReads(d)' = RunningReads(d)
             /\ PendingReads(d)' = IF d = c THEN PendingReads(d) \cup {n + 1}
                                   ELSE PendingReads(d)
             /\ \A i \in PendingReads(d) : i \in 1..n /\ queue'[i] = queue[i]
  BY <1>1, <1>2, SubmitReads
<1>4. PendingReads(c) = {} /\ RunningReads(c) = {}
  BY <1>1 DEF ClientsInv
<1>5. ClientsInv'
  <2> SUFFICES ASSUME NEW d \in Client
               PROVE  IF d \in waiting'
                      THEN /\ answer'[d] = NoAnswer
                           /\ \/ RunningReads(d)' = {} /\ \E i : PendingReads(d)' = {i}
                              \/ PendingReads(d)' = {} /\ \E a : RunningReads(d)' = {a}
                      ELSE PendingReads(d)' = {} /\ RunningReads(d)' = {}
    BY DEF ClientsInv, NoAnswer
  <2>1. CASE d = c
    <3>1. PendingReads(d)' = {n + 1} /\ RunningReads(d)' = {}
      BY <1>3, <1>4, <2>1
    <3> QED BY <1>1, <2>1, <3>1
  <2>2. CASE d # c
    <3>1. PendingReads(d)' = PendingReads(d) /\ RunningReads(d)' = RunningReads(d)
      BY <1>3, <2>2
    <3> QED BY <1>1, <2>2, <3>1 DEF ClientsInv
  <2> QED BY <2>1, <2>2
<1>6. RepliesAre /\ RepliesAre'
  BY <1>1, <1>5, Replies, RepliesNext
<1>7. ASSUME NEW m \in 0..n PROVE AfterBlocks(m)' = AfterBlocks(m)
  BY <1>1, <1>2, SubmitKeeps
<1>8. ASSUME NEW d \in Client, d # c PROVE ReplyOf(d)' = ReplyOf(d)
  <2>1. PendingReads(d)' = PendingReads(d) /\ RunningReads(d)' = RunningReads(d)
    BY <1>3, <1>8
  <2>2. CASE d \notin waiting
    BY <1>1, <1>6, <1>8, <2>2 DEF RepliesAre
  <2>3. ASSUME NEW a \in RunningReads(d) PROVE ReplyOf(d)' = ReplyOf(d)
    <3>1. a \in RunningReads(d)'
      BY <2>1
    <3> QED BY <1>1, <1>6, <3>1 DEF RepliesAre
  <2>4. ASSUME NEW i \in PendingReads(d) PROVE ReplyOf(d)' = ReplyOf(d)
    <3>1. i \in PendingReads(d)' /\ queue'[i] = queue[i] /\ i - 1 \in 0..n
      BY <1>2, <1>3, <2>1
    <3>2. AfterBlocks(i - 1)' = AfterBlocks(i - 1)
      BY <1>7, <3>1
    <3>3. ReplyOf(d)' = [k \in queue'[i].keys |-> (AfterBlocks(i - 1)')[k]]
      BY <1>6, <3>1 DEF RepliesAre
    <3>4. ReplyOf(d) = [k \in queue[i].keys |-> AfterBlocks(i - 1)[k]]
      BY <1>6 DEF RepliesAre
    <3> QED BY <3>1, <3>2, <3>3, <3>4
  <2> QED BY <1>1, <2>2, <2>3, <2>4 DEF ClientsInv
<1>9. ReplyOf(c)' = [k \in b.keys |-> AfterBlocks(n)[k]]
  <2>1. n + 1 \in PendingReads(c)' /\ queue'[n + 1] = b /\ n \in 0..n /\ n + 1 - 1 = n
    BY <1>1, <1>2, <1>3
  <2>2. ReplyOf(c)' = [k \in queue'[n + 1].keys |-> (AfterBlocks(n + 1 - 1)')[k]]
    BY <1>6, <2>1 DEF RepliesAre
  <2>3. AfterBlocks(n)' = AfterBlocks(n)
    BY <1>7, <2>1
  <2> QED BY <2>1, <2>2, <2>3
<1>10. AfterBlocks(Len(queue))' = AfterBlocks(Len(queue))
  BY <1>1, SubmitAssigns
<1>11. Atomic!Ask(c, b.keys)
  <2>1. ReplyOf(c) = [k \in {} |-> Nil]
    BY <1>1, <1>6 DEF RepliesAre, NoAnswer
  <2>2. [d \in Client |-> ReplyOf(d)]'
        = [[d \in Client |-> ReplyOf(d)] EXCEPT
              ![c] = [k \in b.keys |-> AfterBlocks(Len(queue))[k]]]
    BY <1>2, <1>8, <1>9
  <2> QED BY <1>10, <2>1, <2>2 DEF Atomic!Ask, Atomic!NoReply
<1> QED BY <1>5, <1>11

\* A call that assigns does it at once: no reply under way is affected.
LEMMA AsyncStep ==
    ASSUME AtomicInv, NEW c \in Client, NEW b \in Writer, b.client = c, Async(c, b)
    PROVE  ClientsInv' /\ Atomic!Assign(c, b.key, b.value)
<1>1. /\ RaceInv /\ ClientsInv /\ IsWriter(b) /\ queue \in Seq(Block)
      /\ c \notin waiting /\ answer[c] = NoAnswer /\ b.key \in Key
      /\ queue' = Append(queue, b) /\ UNCHANGED <<items, running, waiting, answer>>
  BY ReadersAndWriters DEF AtomicInv, RaceInv, TypeOK, Async, Idle, Writer
<1>2. PICK n \in Nat : n = Len(queue)
  BY <1>1
<1>3. ASSUME NEW d \in Client
      PROVE  /\ RunningReads(d)' = RunningReads(d)
             /\ PendingReads(d)' = PendingReads(d)
             /\ \A i \in PendingReads(d) : i \in 1..n /\ queue'[i] = queue[i]
  BY <1>1, <1>2, SubmitReads
<1>4. ClientsInv'
  BY <1>1, <1>3 DEF ClientsInv, NoAnswer
<1>5. RepliesAre /\ RepliesAre'
  BY <1>1, <1>4, Replies, RepliesNext
<1>6. ASSUME NEW d \in Client PROVE ReplyOf(d)' = ReplyOf(d)
  <2>1. CASE d \notin waiting
    BY <1>1, <1>5, <2>1 DEF RepliesAre
  <2>2. ASSUME NEW a \in RunningReads(d) PROVE ReplyOf(d)' = ReplyOf(d)
    <3>1. a \in RunningReads(d)'
      BY <1>3
    <3> QED BY <1>1, <1>5, <3>1 DEF RepliesAre
  <2>3. ASSUME NEW i \in PendingReads(d) PROVE ReplyOf(d)' = ReplyOf(d)
    <3>1. i \in PendingReads(d)' /\ queue'[i] = queue[i] /\ i - 1 \in 0..Len(queue)
      BY <1>2, <1>3
    <3>2. AfterBlocks(i - 1)' = AfterBlocks(i - 1)
      BY <1>1, <3>1, SubmitKeeps
    <3>3. ReplyOf(d)' = [k \in queue'[i].keys |-> (AfterBlocks(i - 1)')[k]]
      BY <1>5, <3>1 DEF RepliesAre
    <3>4. ReplyOf(d) = [k \in queue[i].keys |-> AfterBlocks(i - 1)[k]]
      BY <1>5 DEF RepliesAre
    <3> QED BY <3>1, <3>2, <3>3, <3>4
  <2> QED BY <1>1, <2>1, <2>2, <2>3 DEF ClientsInv
<1>7. AfterBlocks(Len(queue))' = [AfterBlocks(Len(queue)) EXCEPT ![b.key] = b.value]
  BY <1>1, SubmitAssigns
<1>8. ReplyOf(c) = [k \in {} |-> Nil]
  BY <1>1, <1>5 DEF RepliesAre, NoAnswer
<1>9. [d \in Client |-> ReplyOf(d)]' = [d \in Client |-> ReplyOf(d)]
  BY <1>6
<1> QED BY <1>4, <1>7, <1>8, <1>9 DEF Atomic!Assign, Atomic!NoReply

\* Each call is a step of the abstract dictionary.
LEMMA CallSeen ==
    ASSUME AtomicInv, NEW c \in Client, Call(c)
    PROVE  ClientsInv' /\ Atomic!Next
<1>1. ASSUME NEW b \in Reader, b.client = c, Sync(c, b)
      PROVE  ClientsInv' /\ Atomic!Next
  <2>1. b.keys \in (SUBSET Key) \ {{}}
    BY DEF Reader
  <2> QED BY <1>1, <2>1, SyncStep DEF Atomic!Next
<1>2. ASSUME NEW b \in Writer, b.client = c, Async(c, b)
      PROVE  ClientsInv' /\ Atomic!Next
  <2>1. b.key \in Key /\ b.value \in Value \cup {Nil}
    BY DEF Writer
  <2> QED BY <1>2, <2>1, AsyncStep DEF Atomic!Next
<1>3. ASSUME NEW k \in Key, Get(c, k) PROVE ClientsInv' /\ Atomic!Next
  <2> DEFINE b == [client |-> c, keys |-> {k}, barrier |-> FALSE]
  <2>1. b \in Reader /\ b.client = c
    BY DEF Reader
  <2>2. Sync(c, b)
    BY <1>3 DEF Get
  <2> HIDE DEF b
  <2> QED BY <1>1, <2>1, <2>2
<1>4. ASSUME NEW f \in BOOLEAN,
             Sync(c, [client |-> c, keys |-> Key, barrier |-> f])
      PROVE  ClientsInv' /\ Atomic!Next
  <2> DEFINE b == [client |-> c, keys |-> Key, barrier |-> f]
  <2>1. b \in Reader /\ b.client = c
    BY KeyAssumption DEF Reader
  <2>2. Sync(c, b)
    BY <1>4
  <2> HIDE DEF b
  <2> QED BY <1>1, <2>1, <2>2
<1>5. ASSUME NEW k \in Key, NEW v \in Value \cup {Nil}, Set(c, k, v)
      PROVE  ClientsInv' /\ Atomic!Next
  <2> DEFINE b == [client |-> c, key |-> k, value |-> v, barrier |-> TRUE]
  <2>1. b \in Writer /\ b.client = c
    BY DEF Writer
  <2>2. Async(c, b)
    BY <1>5 DEF Set
  <2> HIDE DEF b
  <2> QED BY <1>2, <2>1, <2>2
<1>6. ASSUME NEW k \in Key, RemoveValueForKey(c, k)
      PROVE  ClientsInv' /\ Atomic!Next
  <2>1. Set(c, k, Nil)
    BY <1>6 DEF RemoveValueForKey, Set
  <2> QED BY <1>5, <2>1
<1>7. CASE Count(c) \/ GetAllKeys(c) \/ GetAllValues(c)
  BY <1>4, <1>7 DEF Count, GetAllKeys, GetAllValues
<1> QED BY <1>3, <1>5, <1>6, <1>7 DEF Call

\* The start of a block is not seen: what its client will be answered does
\* not depend on whether it waits or runs.
LEMMA StartSeen ==
    ASSUME AtomicInv, Start
    PROVE  ClientsInv' /\ UNCHANGED Atomic!atomicVars
<1> DEFINE h == Head(queue)
<1>1. /\ RaceInv /\ ClientsInv /\ queue \in Seq(Block) /\ queue # <<>>
      /\ queue' = Tail(queue) /\ running' = running \cup {h}
      /\ UNCHANGED <<items, waiting, answer>> /\ h = queue[1]
  BY DEF AtomicInv, RaceInv, TypeOK, Start
<1>2. PICK n \in Nat : n = Len(queue')
  BY <1>1
<1>3. /\ Len(queue) = n + 1 /\ DOMAIN queue = 1..(n + 1) /\ DOMAIN queue' = 1..n
      /\ \A i \in 1..n : queue'[i] = queue[i + 1]
      /\ h \in Block
  BY <1>1, <1>2
<1>4. ~IsWriter(h) => h \in Reader /\ \A k \in Key : AssignsNow(k) = {}
  <2>1. ASSUME ~IsWriter(h), NEW a \in running, IsWriter(a) PROVE FALSE
    <3>1. a.barrier
      BY <1>1, <2>1 DEF RaceInv, WritersAreBarriers, IsSafe
    <3> QED BY <2>1, <3>1 DEF Start, CanStart
  <2> QED BY <1>3, <2>1, ReadersAndWriters DEF AssignsNow, Block
<1> HIDE DEF h
<1>5. ASSUME NEW d \in Client
      PROVE  /\ 1 \in PendingReads(d) <=> ~IsWriter(h) /\ h.client = d
             /\ \A i \in PendingReads(d) : i \in 1..(n + 1)
             /\ \A i : i \in PendingReads(d)' <=> i \in 1..n /\ i + 1 \in PendingReads(d)
             /\ RunningReads(d)' = IF ~IsWriter(h) /\ h.client = d
                                   THEN RunningReads(d) \cup {h} ELSE RunningReads(d)
  <2>1. 1 \in 1..(n + 1) /\ \A i \in 1..n : i + 1 \in 1..(n + 1)
    BY <1>2
  <2>2. 1 \in PendingReads(d) <=> ~IsWriter(h) /\ h.client = d
    BY <1>1, <1>3, <2>1 DEF PendingReads
  <2>3. ASSUME NEW i
        PROVE i \in PendingReads(d)' <=> i \in 1..n /\ i + 1 \in PendingReads(d)
    BY <1>3, <2>1 DEF PendingReads, IsWriter
  <2>4. RunningReads(d)' = IF ~IsWriter(h) /\ h.client = d
                           THEN RunningReads(d) \cup {h} ELSE RunningReads(d)
    BY <1>1 DEF RunningReads, IsWriter
  <2>5. \A i \in PendingReads(d) : i \in 1..(n + 1)
    BY <1>3 DEF PendingReads
  <2> QED BY <2>2, <2>3, <2>4, <2>5
<1>6. ASSUME NEW d \in Client, ~(~IsWriter(h) /\ h.client = d)
      PROVE  /\ RunningReads(d)' = RunningReads(d)
             /\ \A i \in PendingReads(d) : i - 1 \in 1..n /\ i - 1 \in PendingReads(d)'
             /\ \A i \in PendingReads(d)' : i + 1 \in PendingReads(d) /\ i \in 1..n
  <2>1. ASSUME NEW i \in PendingReads(d)
        PROVE  i - 1 \in 1..n /\ i - 1 \in PendingReads(d)'
    <3>1. i # 1 /\ i \in 1..(n + 1)
      BY <1>5, <1>6
    <3> DEFINE j == i - 1
    <3>2. j \in 1..n /\ i = j + 1
      BY <1>2, <3>1
    <3> QED BY <1>5, <3>2
  <2> QED BY <1>5, <1>6, <2>1
<1>7. ASSUME NEW d \in Client, ~IsWriter(h), h.client = d
      PROVE  /\ PendingReads(d) = {1} /\ RunningReads(d) = {}
             /\ PendingReads(d)' = {} /\ RunningReads(d)' = {h}
  <2>1. PendingReads(d) = {1} /\ RunningReads(d) = {}
    BY <1>1, <1>5, <1>7 DEF ClientsInv
  <2>2. ASSUME NEW i \in PendingReads(d)' PROVE FALSE
    <3>1. i \in 1..n /\ i + 1 = 1
      BY <1>5, <2>1, <2>2
    <3> QED BY <1>2, <3>1
  <2> QED BY <1>5, <1>7, <2>1, <2>2
<1>8. ClientsInv'
  <2> SUFFICES ASSUME NEW d \in Client
               PROVE  IF d \in waiting'
                      THEN /\ answer'[d] = NoAnswer
                           /\ \/ RunningReads(d)' = {} /\ \E i : PendingReads(d)' = {i}
                              \/ PendingReads(d)' = {} /\ \E a : RunningReads(d)' = {a}
                      ELSE PendingReads(d)' = {} /\ RunningReads(d)' = {}
    BY DEF ClientsInv, NoAnswer
  <2>1. CASE ~IsWriter(h) /\ h.client = d
    BY <1>1, <1>7, <2>1 DEF ClientsInv
  <2>2. CASE ~(~IsWriter(h) /\ h.client = d)
    <3>1. CASE PendingReads(d) = {}
      <4>1. PendingReads(d)' = {}
        BY <1>6, <2>2, <3>1
      <4> QED BY <1>1, <1>6, <2>2, <3>1, <4>1 DEF ClientsInv
    <3>2. ASSUME NEW i, PendingReads(d) = {i}
          PROVE  PendingReads(d)' = {i - 1}
      <4>1. i - 1 \in PendingReads(d)'
        BY <1>6, <2>2, <3>2
      <4>2. ASSUME NEW j \in PendingReads(d)' PROVE j = i - 1
        <5>1. j + 1 = i /\ j \in 1..n
          BY <1>6, <2>2, <3>2
        <5> QED BY <1>2, <5>1
      <4> QED BY <4>1, <4>2
    <3>3. PendingReads(d) # {} =>
              /\ d \in waiting /\ answer[d] = NoAnswer /\ RunningReads(d) = {}
              /\ \E i : PendingReads(d) = {i}
      BY <1>1 DEF ClientsInv
    <3>4. CASE PendingReads(d) # {}
      <4>1. \E i : PendingReads(d)' = {i}
        BY <3>2, <3>3, <3>4
      <4> QED BY <1>1, <1>6, <2>2, <3>3, <3>4, <4>1
    <3> QED BY <3>1, <3>4
  <2> QED BY <2>1, <2>2
<1>9. RepliesAre /\ RepliesAre'
  BY <1>1, <1>8, Replies, RepliesNext
<1>10. ASSUME NEW m \in 0..n PROVE AfterBlocks(m)' = AfterBlocks(m + 1)
  BY <1>1, <1>2, StartKeeps
<1>11. ASSUME NEW d \in Client PROVE ReplyOf(d)' = ReplyOf(d)
  <2>1. CASE d \notin waiting
    BY <1>1, <1>9, <2>1 DEF RepliesAre
  <2>2. CASE ~IsWriter(h) /\ h.client = d
    <3>1. h \in RunningReads(d)' /\ 1 \in PendingReads(d) /\ h.keys \subseteq Key
      BY <1>4, <1>7, <2>2 DEF Reader
    <3>2. ReplyOf(d)' = [k \in h.keys |-> items[k]]
      BY <1>1, <1>9, <3>1 DEF RepliesAre
    <3>3. ReplyOf(d) = [k \in h.keys |-> AfterBlocks(1 - 1)[k]]
      BY <1>1, <1>9, <3>1 DEF RepliesAre
    <3>4. ASSUME NEW k \in Key PROVE AfterBlocks(1 - 1)[k] = items[k]
      <4>1. AssignsSoon(k, 1 - 1) = {}
        BY DEF AssignsSoon
      <4> QED BY <1>4, <2>2, <4>1 DEF AfterBlocks
    <3> QED BY <3>1, <3>2, <3>3, <3>4
  <2>3. ASSUME NEW a \in RunningReads(d), ~(~IsWriter(h) /\ h.client = d)
        PROVE  ReplyOf(d)' = ReplyOf(d)
    <3>1. a \in RunningReads(d)'
      BY <1>6, <2>3
    <3> QED BY <1>1, <1>9, <3>1 DEF RepliesAre
  <2>4. ASSUME NEW i \in PendingReads(d), ~(~IsWriter(h) /\ h.client = d)
        PROVE  ReplyOf(d)' = ReplyOf(d)
    <3>1. PICK j \in 1..n : j = i - 1 /\ j \in PendingReads(d)'
      BY <1>6, <2>4
    <3>2. i \in 1..(n + 1)
      BY <1>5
    <3>3. /\ queue'[j] = queue[i]
          /\ j - 1 \in 0..n /\ j - 1 + 1 = i - 1
      BY <1>2, <1>3, <3>1, <3>2
    <3>4. AfterBlocks(j - 1)' = AfterBlocks(i - 1)
      BY <1>10, <3>3
    <3>5. ReplyOf(d)' = [k \in queue'[j].keys |-> (AfterBlocks(j - 1)')[k]]
      BY <1>9, <3>1 DEF RepliesAre
    <3>6. ReplyOf(d) = [k \in queue[i].keys |-> AfterBlocks(i - 1)[k]]
      BY <1>9 DEF RepliesAre
    <3> QED BY <3>3, <3>4, <3>5, <3>6
  <2> QED BY <1>1, <2>1, <2>2, <2>3, <2>4 DEF ClientsInv
<1>12. AfterBlocks(Len(queue))' = AfterBlocks(Len(queue))
  <2>1. n \in 0..n
    BY <1>2
  <2>2. AfterBlocks(n)' = AfterBlocks(n + 1)
    BY <1>10, <2>1
  <2> QED BY <1>2, <1>3, <2>2, DictNext
<1>13. [d \in Client |-> ReplyOf(d)]' = [d \in Client |-> ReplyOf(d)]
  BY <1>11
<1> QED BY <1>8, <1>12, <1>13 DEF Atomic!atomicVars

\* Nor is the end of a block that reads: its client has the answer it was to
\* have.
LEMMA FinishReadSeen ==
    ASSUME AtomicInv, NEW b \in running, FinishRead(b)
    PROVE  ClientsInv' /\ UNCHANGED Atomic!atomicVars
<1> DEFINE c == b.client
<1>1. /\ RaceInv /\ ClientsInv /\ ~IsWriter(b) /\ b \in Reader
      /\ running' = running \ {b} /\ waiting' = waiting \ {c}
      /\ answer' = [answer EXCEPT ![c] = [k \in b.keys |-> items[k]]]
      /\ answer \in [Client -> Answer \cup {NoAnswer}]
      /\ UNCHANGED <<items, queue>>
  BY ReadersAndWriters DEF AtomicInv, RaceInv, TypeOK, FinishRead, Block
<1>2. c \in Client /\ b \in RunningReads(c)
  BY <1>1 DEF Reader, RunningReads
<1>3. c \in waiting /\ RunningReads(c) = {b} /\ PendingReads(c) = {}
  BY <1>1, <1>2 DEF ClientsInv
<1>4. ASSUME NEW d \in Client
      PROVE  /\ PendingReads(d)' = PendingReads(d)
             /\ RunningReads(d)' = IF d = c THEN {} ELSE RunningReads(d)
  <2>1. PendingReads(d)' = PendingReads(d)
    BY <1>1 DEF PendingReads, IsWriter
  <2>2. RunningReads(d)' = RunningReads(d) \ {b}
    BY <1>1 DEF RunningReads, IsWriter
  <2>3. d # c => b \notin RunningReads(d)
    BY DEF RunningReads
  <2> QED BY <1>3, <2>1, <2>2, <2>3
<1> HIDE DEF c
<1>5. ClientsInv'
  <2> SUFFICES ASSUME NEW d \in Client
               PROVE  IF d \in waiting'
                      THEN /\ answer'[d] = NoAnswer
                           /\ \/ RunningReads(d)' = {} /\ \E i : PendingReads(d)' = {i}
                              \/ PendingReads(d)' = {} /\ \E a : RunningReads(d)' = {a}
                      ELSE PendingReads(d)' = {} /\ RunningReads(d)' = {}
    BY DEF ClientsInv, NoAnswer
  <2>1. CASE d = c
    BY <1>1, <1>3, <1>4, <2>1
  <2>2. CASE d # c
    <3>1. PendingReads(d)' = PendingReads(d) /\ RunningReads(d)' = RunningReads(d)
      BY <1>4, <2>2
    <3>2. answer'[d] = answer[d] /\ (d \in waiting' <=> d \in waiting)
      BY <1>1, <2>2
    <3> QED BY <1>1, <3>1, <3>2 DEF ClientsInv
  <2> QED BY <2>1, <2>2
<1>6. RepliesAre /\ RepliesAre'
  BY <1>1, <1>5, Replies, RepliesNext
<1>7. ASSUME NEW m \in 0..Len(queue) PROVE AfterBlocks(m)' = AfterBlocks(m)
  BY <1>1, FinishReadKeeps
<1>8. ReplyOf(c)' = ReplyOf(c)
  <2>1. ReplyOf(c)' = answer'[c]
    BY <1>1, <1>2, <1>6 DEF RepliesAre
  <2>2. answer'[c] = [k \in b.keys |-> items[k]]
    BY <1>1, <1>2
  <2>3. ReplyOf(c) = [k \in b.keys |-> items[k]]
    BY <1>2, <1>6 DEF RepliesAre
  <2> QED BY <2>1, <2>2, <2>3
<1>9. ASSUME NEW d \in Client, d # c PROVE ReplyOf(d)' = ReplyOf(d)
  <2>1. /\ PendingReads(d)' = PendingReads(d) /\ RunningReads(d)' = RunningReads(d)
        /\ answer'[d] = answer[d] /\ (d \in waiting' <=> d \in waiting)
    BY <1>1, <1>4, <1>9
  <2>2. CASE d \notin waiting
    BY <1>6, <2>1, <2>2 DEF RepliesAre
  <2>3. ASSUME NEW a \in RunningReads(d) PROVE ReplyOf(d)' = ReplyOf(d)
    <3>1. a \in RunningReads(d)'
      BY <2>1
    <3> QED BY <1>1, <1>6, <3>1 DEF RepliesAre
  <2>4. ASSUME NEW i \in PendingReads(d) PROVE ReplyOf(d)' = ReplyOf(d)
    <3>1. i \in PendingReads(d)'
      BY <2>1
    <3>2. i \in 1..Len(queue) /\ i - 1 \in 0..Len(queue)
      BY <1>1, QueueTyped DEF PendingReads
    <3>3. AfterBlocks(i - 1)' = AfterBlocks(i - 1)
      BY <1>7, <3>2
    <3>4. ReplyOf(d)' = [k \in queue'[i].keys |-> (AfterBlocks(i - 1)')[k]]
      BY <1>6, <3>1 DEF RepliesAre
    <3>5. ReplyOf(d) = [k \in queue[i].keys |-> AfterBlocks(i - 1)[k]]
      BY <1>6 DEF RepliesAre
    <3> QED BY <1>1, <3>3, <3>4, <3>5
  <2> QED BY <1>1, <2>2, <2>3, <2>4 DEF ClientsInv
<1>10. AfterBlocks(Len(queue))' = AfterBlocks(Len(queue))
  <2>1. PICK n : n = Len(queue)
    OBVIOUS
  <2>2. n = Len(queue') /\ n \in 0..Len(queue)
    BY <1>1, <2>1, QueueTyped
  <2>3. AfterBlocks(n)' = AfterBlocks(n)
    BY <1>7, <2>2
  <2> QED BY <2>1, <2>2, <2>3, DictNext
<1>11. [d \in Client |-> ReplyOf(d)]' = [d \in Client |-> ReplyOf(d)]
  BY <1>8, <1>9
<1> QED BY <1>5, <1>10, <1>11 DEF Atomic!atomicVars

\* The end of an assignment was already counted, and nobody reads meanwhile.
LEMMA FinishWriteSeen ==
    ASSUME AtomicInv, NEW b \in running, FinishWrite(b)
    PROVE  ClientsInv' /\ UNCHANGED Atomic!atomicVars
<1>1. /\ RaceInv /\ ClientsInv /\ IsWriter(b) /\ running' = running \ {b}
      /\ UNCHANGED <<queue, waiting, answer>>
  BY DEF AtomicInv, FinishWrite
<1>2. running = {b}
  BY <1>1 DEF RaceInv, WritersAreBarriers, BarrierAlone, IsSafe
<1>3. ASSUME NEW d \in Client
      PROVE  /\ PendingReads(d)' = PendingReads(d)
             /\ RunningReads(d) = {} /\ RunningReads(d)' = {}
  BY <1>1, <1>2 DEF PendingReads, RunningReads, IsWriter
<1>4. ClientsInv'
  BY <1>1, <1>3 DEF ClientsInv, NoAnswer
<1>5. RepliesAre /\ RepliesAre'
  BY <1>1, <1>4, Replies, RepliesNext
<1>6. ASSUME NEW m \in 0..Len(queue) PROVE AfterBlocks(m)' = AfterBlocks(m)
  BY <1>1, FinishWriteKeeps
<1>7. ASSUME NEW d \in Client PROVE ReplyOf(d)' = ReplyOf(d)
  <2>1. CASE d \notin waiting
    BY <1>1, <1>5, <2>1 DEF RepliesAre
  <2>2. ASSUME NEW i \in PendingReads(d) PROVE ReplyOf(d)' = ReplyOf(d)
    <3>1. i \in PendingReads(d)'
      BY <1>3
    <3>2. i \in 1..Len(queue) /\ i - 1 \in 0..Len(queue)
      BY <1>1, QueueTyped DEF PendingReads
    <3>3. AfterBlocks(i - 1)' = AfterBlocks(i - 1)
      BY <1>6, <3>2
    <3>4. ReplyOf(d)' = [k \in queue'[i].keys |-> (AfterBlocks(i - 1)')[k]]
      BY <1>5, <3>1 DEF RepliesAre
    <3>5. ReplyOf(d) = [k \in queue[i].keys |-> AfterBlocks(i - 1)[k]]
      BY <1>5 DEF RepliesAre
    <3> QED BY <1>1, <3>3, <3>4, <3>5
  <2> QED BY <1>1, <1>3, <2>1, <2>2 DEF ClientsInv
<1>8. AfterBlocks(Len(queue))' = AfterBlocks(Len(queue))
  <2>1. PICK n : n = Len(queue)
    OBVIOUS
  <2>2. n = Len(queue') /\ n \in 0..Len(queue)
    BY <1>1, <2>1, QueueTyped
  <2>3. AfterBlocks(n)' = AfterBlocks(n)
    BY <1>6, <2>2
  <2> QED BY <2>1, <2>2, <2>3, DictNext
<1>9. [d \in Client |-> ReplyOf(d)]' = [d \in Client |-> ReplyOf(d)]
  BY <1>7
<1> QED BY <1>4, <1>8, <1>9 DEF Atomic!atomicVars

\* A sync call that returns is the return of the abstract call.
LEMMA ReturnSeen ==
    ASSUME AtomicInv, NEW c \in Client, Return(c)
    PROVE  ClientsInv' /\ Atomic!Return(c)
<1>1. /\ RaceInv /\ ClientsInv /\ answer[c] # NoAnswer
      /\ answer' = [answer EXCEPT ![c] = NoAnswer]
      /\ answer \in [Client -> Answer \cup {NoAnswer}]
      /\ UNCHANGED <<items, queue, running, waiting>>
  BY DEF AtomicInv, RaceInv, TypeOK, Return
<1>2. c \notin waiting
  BY <1>1 DEF ClientsInv
<1>3. ASSUME NEW d \in Client
      PROVE  /\ PendingReads(d)' = PendingReads(d)
             /\ RunningReads(d)' = RunningReads(d)
  BY <1>1 DEF PendingReads, RunningReads, IsWriter
<1>4. ClientsInv'
  BY <1>1, <1>2, <1>3 DEF ClientsInv, NoAnswer
<1>5. RepliesAre /\ RepliesAre'
  BY <1>1, <1>4, Replies, RepliesNext
<1>6. UNCHANGED <<items, queue, running>> /\ \A m : AfterBlocks(m)' = AfterBlocks(m)
  <2>1. ASSUME NEW m, NEW k \in Key
        PROVE  /\ AssignsSoon(k, m)' = AssignsSoon(k, m)
               /\ AssignsNow(k)' = AssignsNow(k)
    BY <1>1 DEF AssignsSoon, AssignsNow, IsWriter
  <2>2. ASSUME NEW m PROVE AfterBlocks(m)' = AfterBlocks(m)
    <3>1. ASSUME NEW k \in Key
          PROVE  (AfterBlocks(m)')[k] = AfterBlocks(m)[k]
      <4>1. AssignsSoon(k, m)' = AssignsSoon(k, m) /\ AssignsNow(k)' = AssignsNow(k)
        BY <2>1
      <4> QED BY <1>1, <4>1 DEF AfterBlocks, Latest
    <3> QED BY <3>1 DEF AfterBlocks
  <2> QED BY <1>1, <2>2
<1>7. ASSUME NEW d \in Client, d # c PROVE ReplyOf(d)' = ReplyOf(d)
  <2>1. CASE d \notin waiting
    BY <1>1, <1>5, <1>7, <2>1 DEF RepliesAre
  <2>2. ASSUME NEW a \in RunningReads(d) PROVE ReplyOf(d)' = ReplyOf(d)
    <3>1. a \in RunningReads(d)'
      BY <1>3
    <3> QED BY <1>1, <1>5, <3>1 DEF RepliesAre
  <2>3. ASSUME NEW i \in PendingReads(d) PROVE ReplyOf(d)' = ReplyOf(d)
    <3>1. i \in PendingReads(d)'
      BY <1>3
    <3>2. ReplyOf(d)' = [k \in queue'[i].keys |-> (AfterBlocks(i - 1)')[k]]
      BY <1>5, <3>1 DEF RepliesAre
    <3>3. ReplyOf(d) = [k \in queue[i].keys |-> AfterBlocks(i - 1)[k]]
      BY <1>5 DEF RepliesAre
    <3> QED BY <1>1, <1>6, <3>2, <3>3
  <2> QED BY <1>1, <2>1, <2>2, <2>3 DEF ClientsInv
<1>8. ReplyOf(c) = answer[c] /\ ReplyOf(c)' = NoAnswer
  BY <1>1, <1>2, <1>5 DEF RepliesAre
<1>9. AfterBlocks(Len(queue))' = AfterBlocks(Len(queue))
  <2>1. PICK n : n = Len(queue)
    OBVIOUS
  <2> QED BY <1>6, <2>1, DictNext
<1>10. [d \in Client |-> ReplyOf(d)]'
       = [[d \in Client |-> ReplyOf(d)] EXCEPT ![c] = NoAnswer]
  BY <1>7, <1>8
<1> QED BY <1>1, <1>4, <1>8, <1>9, <1>10 DEF Atomic!Return, Atomic!NoReply, NoAnswer

\* In the first state both dictionaries are empty and nobody waits.
LEMMA AtomicInit == Init => ClientsInv /\ Atomic!Init
<1> SUFFICES ASSUME Init PROVE ClientsInv /\ Atomic!Init
  OBVIOUS
<1>1. /\ queue = <<>> /\ running = {} /\ waiting = {} /\ Len(queue) = 0
      /\ answer = [c \in Client |-> NoAnswer] /\ items = [k \in Key |-> Nil]
  BY DEF Init
<1>2. ASSUME NEW c \in Client PROVE PendingReads(c) = {} /\ RunningReads(c) = {}
  BY <1>1 DEF PendingReads, RunningReads
<1>3. ClientsInv
  BY <1>1, <1>2 DEF ClientsInv
<1>4. ASSUME NEW c \in Client PROVE ReplyOf(c) = NoAnswer
  BY <1>1 DEF ReplyOf
<1>5. ASSUME NEW k \in Key
      PROVE  AssignsSoon(k, Len(queue)) = {} /\ AssignsNow(k) = {}
  BY <1>1 DEF AssignsSoon, AssignsNow
<1>6. AfterBlocks(Len(queue)) = [k \in Key |-> Nil]
  BY <1>1, <1>5 DEF AfterBlocks
<1> QED BY <1>3, <1>4, <1>6 DEF Atomic!Init, Atomic!NoReply, NoAnswer

\* Each step is one of the abstract dictionary, or not seen.
LEMMA AtomicStep ==
    AtomicInv /\ [Next]_vars => ClientsInv' /\ [Atomic!Next]_(Atomic!atomicVars)
<1> SUFFICES ASSUME AtomicInv, [Next]_vars
             PROVE  ClientsInv' /\ (Atomic!Next \/ UNCHANGED Atomic!atomicVars)
  OBVIOUS
<1>1. ASSUME NEW c \in Client, Return(c) PROVE ClientsInv' /\ Atomic!Next
  BY <1>1, ReturnSeen DEF Atomic!Next
<1>2. CASE UNCHANGED vars
  <2>1. UNCHANGED <<items, queue, running, waiting, answer>>
    BY <1>2 DEF vars
  <2>2. ClientsInv'
    BY <2>1 DEF AtomicInv, ClientsInv, NoAnswer, PendingReads, RunningReads, IsWriter
  <2>3. UNCHANGED Atomic!atomicVars
    BY <2>1 DEF Atomic!atomicVars, AfterBlocks, ReplyOf, AssignsSoon, AssignsNow,
       Latest, PendingReads, RunningReads, IsWriter
  <2> QED BY <2>2, <2>3
<1> QED
  BY <1>1, <1>2, CallSeen, StartSeen, FinishReadSeen, FinishWriteSeen
  DEF Next, QueueStep

\* Every call appears to take effect at the instant it is made: the
\* dictionary with its asynchronous assignments implements the atomic one.
THEOREM ImplementsAtomic == Spec => ImplementsAtomicDictionary
<1>1. Init => AtomicInv /\ Atomic!Init
  BY InitRace, AtomicInit DEF AtomicInv
<1>2. AtomicInv /\ [Next]_vars => AtomicInv' /\ [Atomic!Next]_(Atomic!atomicVars)
  BY RaceStep, AtomicStep DEF AtomicInv
<1> QED BY <1>1, <1>2, PTL DEF Spec, ImplementsAtomicDictionary, Atomic!Spec

-----------------------------------------------------------------------------
(***************************************************************************)
(* What a load of the subway list leaves behind, when the app may crash,   *)
(* and what the table shows in the end, for any stations, any filters and  *)
(* any number of loads.                                                    *)
(*                                                                         *)
(* The inductive invariant follows the one load that no other overlaps     *)
(* through its assignments (ListInv), keeps what the last load found       *)
(* against what Realm holds (FreshInv), and what the table was told        *)
(* against the list nobody is rebuilding (TableInv).                       *)
(***************************************************************************)

\* The letters of the first k stations that load n found.
LettersFound(n, k) == {LetterOf[found[n][j]] : j \in 1..k}

\* What the loads have come to.
LoadsInv ==
    /\ stored \in 0..Len(LetterOf)
    /\ passing \subseteq Station
    /\ loads \in 0..MaxLoads
    /\ phase \in [Load -> Phase]
    /\ \A n \in Load : phase[n] = "none" <=> n > loads
    /\ found \in [Load -> Seq(Station)]
    /\ position \in [Load -> Nat]
    /\ \A n \in Load : position[n] <= Len(found[n])
    /\ \A n \in Load : phase[n] \in {"none", "queued"} => found[n] = <<>>
    /\ \A n \in Load :
          phase[n] \in {"none", "queued", "found", "cleared"} => position[n] = 0
    /\ \A n \in Load : \A i, j \in DOMAIN found[n] :
          i < j => found[n][i] < found[n][j]
    /\ reloads \in Nat
    /\ reloads <= Cardinality({n \in Load : phase[n] = "ended"})
    /\ overlapped \in BOOLEAN
    /\ stale \in BOOLEAN
    /\ ~overlapped => \A n \in Load : Active(n) => n = loads

\* What is left of the presenter's collections whatever the loads do.
ListTyped ==
    /\ DOMAIN subwaysByLetter \subseteq Letter
    /\ \A a \in DOMAIN subwaysByLetter : subwaysByLetter[a] \in Seq(Station)
    /\ orderedLetters \in Seq(Letter)

\* Nothing can be listed before there is a station, or a load.
NothingToList ==
    stored = 0 \/ loads = 0 =>
        /\ subwaysByLetter = NoSubways
        /\ orderedLetters = <<>>
        /\ \A n \in Load : found[n] = <<>>

\* Of the stations load n found the first k are listed.
Grouped(n, k) ==
    /\ DOMAIN subwaysByLetter = LettersFound(n, Len(found[n]))
    /\ orderedLetters \in Sorted(DOMAIN subwaysByLetter)
    /\ \A a \in DOMAIN subwaysByLetter :
          /\ Range(subwaysByLetter[a])
             = {found[n][j] : j \in {i \in 1..k : LetterOf[found[n][i]] = a}}
          /\ \A i, j \in DOMAIN subwaysByLetter[a] :
                i < j => subwaysByLetter[a][i] < subwaysByLetter[a][j]

\* How far the list is that no other load interferes with.
ListInv ==
    ~overlapped /\ loads > 0 =>
        /\ phase[loads] = "cleared" => subwaysByLetter = NoSubways
        /\ phase[loads] = "emptying" =>
              /\ orderedLetters = <<>>
              /\ subwaysByLetter
                 = [a \in LettersFound(loads, position[loads]) |-> <<>>]
        /\ phase[loads] = "filling" => Grouped(loads, position[loads])
        /\ phase[loads] \in {"ending", "ended"} =>
              Grouped(loads, Len(found[loads]))

\* What the last load found is what Realm holds, unless that has changed.
FreshInv ==
    ~overlapped /\ ~stale =>
        /\ loads = 0 => stored = 0
        /\ loads > 0 /\ phase[loads] # "queued" =>
              found[loads] \in Sorted(Matching)

\* What the table knows, and what it shows of a list nobody is rebuilding.
TableInv ==
    /\ layoutPending \in BOOLEAN
    /\ sections \in Nat
    /\ rows \in Seq(Nat)
    /\ Len(rows) <= sections
    /\ layoutPending => ~InLayout
    /\ spinner \in BOOLEAN
    /\ crashed \in BOOLEAN
    /\ crashed => ~Quiet \/ reloads > 0 \/ overlapped
    /\ ~overlapped /\ Quiet /\ reloads = 0 =>
          \/ layoutPending
          \/ /\ sections = Cardinality(DOMAIN subwaysByLetter)
             /\ \A i \in DOMAIN rows : rows[i] = SubwaysCount(i)

SubwayInv ==
    /\ LoadsInv
    /\ ListTyped
    /\ NothingToList
    /\ ListInv
    /\ FreshInv
    /\ TableInv

-----------------------------------------------------------------------------
\* Letters are numbers, and there are finitely many of them.
LEMMA FiniteLetters ==
    /\ Letter \subseteq Nat
    /\ \A S \in SUBSET Letter : IsFiniteSet(S) /\ Cardinality(S) \in Nat
<1>1. LetterOf \in Seq(Nat) /\ DOMAIN LetterOf = 1..Len(LetterOf) /\ Len(LetterOf) \in Nat
  BY LetterOfAssumption
<1>2. LetterOf \in Surjection(1..Len(LetterOf), Letter)
  BY <1>1 DEF Surjection, Letter, Range
<1>3. IsFiniteSet(Letter)
  BY <1>1, <1>2, FS_Interval, FS_Surjection
<1>4. Letter \subseteq Nat
  BY <1>1 DEF Letter, Range
<1> QED BY <1>3, <1>4, FS_Subset, FS_CardinalityType

\* A sorted list is a sequence of the elements sorted.
LEMMA SortedType ==
    ASSUME NEW S, NEW T, S \subseteq T, IsFiniteSet(S), NEW s \in Sorted(S)
    PROVE  /\ s \in Seq(T) /\ Len(s) = Cardinality(S) /\ Range(s) = S
           /\ DOMAIN s = 1..Cardinality(S)
           /\ \A i, j \in DOMAIN s : i < j => s[i] < s[j]
<1>1. Cardinality(S) \in Nat
  BY FS_CardinalityType
<1> QED BY <1>1 DEF Sorted

\* The empty list is the one list of nothing.
LEMMA SortedNothing == Sorted({}) = {<<>>}
<1>1. Cardinality({}) = 0
  BY FS_EmptySet
<1>2. <<>> \in Sorted({})
  BY <1>1 DEF Sorted, Range
<1>3. ASSUME NEW s \in Sorted({}) PROVE s = <<>>
  BY <1>1 DEF Sorted
<1> QED BY <1>2, <1>3

\* Only another load that is active can make an access in range crash.
LEMMA CrashOutcome ==
    ASSUME NEW others \in SUBSET Load, NEW c \in Crashes(FALSE, others)
    PROVE  /\ c \in BOOLEAN
           /\ c => \E m \in others : Active(m)
BY DEF Crashes, Ordering, Active

\* The parts of LoadsInv that depend on one load n, which goes on.
LEMMA LoadGoesOn ==
    ASSUME LoadsInv, NEW n \in Load, Active(n),
           NEW p \in Phase \ {"none", "queued", "ended"},
           phase' = [phase EXCEPT ![n] = p],
           UNCHANGED <<realmVars, loads, reloads, overlapped>>,
           stale' \in BOOLEAN,
           found' \in [Load -> Seq(Station)],
           position' \in [Load -> Nat],
           \A m \in Load \ {n} : found'[m] = found[m] /\ position'[m] = position[m],
           \A i, j \in DOMAIN found'[n] : i < j => found'[n][i] < found'[n][j],
           position'[n] <= Len(found'[n]),
           p \in {"found", "cleared"} => position'[n] = 0
    PROVE  LoadsInv'
<1>1. /\ phase' \in [Load -> Phase]
      /\ phase'[n] = p
      /\ \A m \in Load \ {n} : phase'[m] = phase[m]
  BY DEF LoadsInv
<1>2. \A m \in Load : phase'[m] = "none" <=> m > loads'
  BY <1>1 DEF LoadsInv, Active
<1>3. {m \in Load : phase'[m] = "ended"} = {m \in Load : phase[m] = "ended"}
  BY <1>1 DEF Active
<1>4. ~overlapped' => \A m \in Load : Active(m)' => m = loads'
  BY <1>1 DEF LoadsInv, Active
<1>5. \A m \in Load : position'[m] <= Len(found'[m])
  BY DEF LoadsInv
<1>6. /\ \A m \in Load : phase'[m] \in {"none", "queued"} => found'[m] = <<>>
      /\ \A m \in Load : phase'[m] \in {"none", "queued", "found", "cleared"}
                            => position'[m] = 0
  BY <1>1 DEF LoadsInv
<1>7. \A m \in Load : \A i, j \in DOMAIN found'[m] :
          i < j => found'[m][i] < found'[m][j]
  BY DEF LoadsInv
<1>8. /\ stored' \in 0..Len(LetterOf) /\ passing' \subseteq Station
      /\ loads' \in 0..MaxLoads /\ reloads' \in Nat /\ overlapped' \in BOOLEAN
      /\ reloads' <= Cardinality({m \in Load : phase'[m] = "ended"})
  BY <1>3 DEF LoadsInv, realmVars
<1> QED BY <1>1, <1>2, <1>4, <1>5, <1>6, <1>7, <1>8 DEF LoadsInv

\* The table says nothing of the list while a load is active.
LEMMA TableWhileLoading ==
    ASSUME TableInv, NEW n \in Load, phase'[n] \notin {"none", "ended"},
           layoutPending' = layoutPending, sections' = sections, rows' = rows,
           spinner' \in BOOLEAN, crashed' \in BOOLEAN
    PROVE  TableInv'
<1>1. ~Quiet'
  BY DEF Quiet, Active
<1> QED BY <1>1 DEF TableInv, InLayout

-----------------------------------------------------------------------------
\* Nothing is loaded, listed or shown initially.
LEMMA InitHolds == SubwaysInit => SubwayInv
<1> SUFFICES ASSUME SubwaysInit PROVE SubwayInv
  OBVIOUS
<1>1. LetterOf \in Seq(Nat) /\ Len(LetterOf) \in Nat /\ MaxLoads \in Nat
  BY LetterOfAssumption, MaxLoadsAssumption
<1>2. IsFiniteSet({}) /\ Cardinality({}) = 0 /\ {n \in Load : phase[n] = "ended"} = {}
  BY FS_EmptySet DEF SubwaysInit
<1>3. LoadsInv
  <2>1. Cardinality({n \in Load : phase[n] = "ended"}) = 0
    BY <1>2
  <2>2. phase \in [Load -> Phase] /\ \A n \in Load : phase[n] = "none" /\ ~Active(n)
    BY DEF SubwaysInit, Phase, Active
  <2>3. \A n \in Load : n > loads
    BY <1>1 DEF SubwaysInit, Load
  <2>4. /\ found \in [Load -> Seq(Station)] /\ position \in [Load -> Nat]
        /\ \A n \in Load : found[n] = <<>> /\ position[n] = 0
    BY DEF SubwaysInit
  <2>5. stored \in 0..Len(LetterOf) /\ loads \in 0..MaxLoads
    BY <1>1 DEF SubwaysInit
  <2>6. /\ \A n \in Load : position[n] <= Len(found[n])
        /\ \A n \in Load : \A i, j \in DOMAIN found[n] : i < j => found[n][i] < found[n][j]
    <3>1. Len(<<>>) = 0 /\ DOMAIN <<>> = {}
      OBVIOUS
    <3> QED BY <2>4, <3>1
  <2>7. passing \subseteq Station /\ reloads \in Nat /\ reloads <= 0
    BY DEF SubwaysInit
  <2>8. overlapped \in BOOLEAN /\ stale \in BOOLEAN
    BY DEF SubwaysInit
  <2> QED BY <2>1, <2>2, <2>3, <2>4, <2>5, <2>6, <2>7, <2>8 DEF LoadsInv
<1>4. ListTyped /\ NothingToList /\ ListInv
  BY DEF SubwaysInit, ListTyped, NothingToList, ListInv, NoSubways
<1>5. FreshInv
  BY DEF SubwaysInit, FreshInv
<1>6. TableInv
  <2>1. DOMAIN subwaysByLetter = {}
    BY DEF SubwaysInit, NoSubways
  <2>2. sections = Cardinality(DOMAIN subwaysByLetter)
    BY <1>2, <2>1 DEF SubwaysInit
  <2>3. rows \in Seq(Nat) /\ Len(rows) <= sections /\ ~InLayout /\ DOMAIN rows = {}
    BY DEF SubwaysInit, InLayout
  <2>4. layoutPending \in BOOLEAN /\ ~layoutPending /\ spinner \in BOOLEAN
    BY DEF SubwaysInit
  <2>5. crashed \in BOOLEAN /\ ~crashed
    BY DEF SubwaysInit
  <2>6. sections \in Nat
    BY DEF SubwaysInit
  <2> QED BY <2>2, <2>3, <2>4, <2>5, <2>6 DEF TableInv
<1> QED BY <1>3, <1>4, <1>5, <1>6 DEF SubwayInv

\* Another station is stored: what was found is stale.
LEMMA StoreStationStep ==
    ASSUME SubwayInv, StoreStation
    PROVE  SubwayInv'
<1>1. LoadsInv'
  <2>1. Len(LetterOf) \in Nat
    BY LetterOfAssumption
  <2> QED BY <2>1 DEF StoreStation, SubwayInv, LoadsInv, loadVars, tableVars, Active
<1>2. ListTyped' /\ ListInv'
  BY DEF StoreStation, SubwayInv, ListTyped, ListInv, Grouped, LettersFound,
         loadVars, listVars
<1>3. NothingToList'
  BY DEF StoreStation, SubwayInv, NothingToList, LoadsInv, loadVars, listVars
<1>4. FreshInv'
  BY DEF StoreStation, FreshInv
<1>5. TableInv'
  BY DEF StoreStation, SubwayInv, TableInv, loadVars, listVars, tableVars,
         Quiet, Active, InLayout, SubwaysCount
<1> QED BY <1>1, <1>2, <1>3, <1>4, <1>5 DEF SubwayInv

\* A load is queued, whatever else is active.
LEMMA LoadSubwaysStep ==
    ASSUME SubwayInv, LoadSubways, passing' \subseteq Station,
           stale' \in {stale, TRUE}
    PROVE  SubwayInv'
<1>1. /\ loads' = loads + 1 /\ loads' \in Load /\ loads' \in 0..MaxLoads
      /\ phase' = [phase EXCEPT ![loads'] = "queued"]
      /\ UNCHANGED <<stored, found, position, listVars, reloads, layoutPending,
                     sections, rows, crashed>>
  BY MaxLoadsAssumption DEF LoadSubways, SubwayInv, LoadsInv, Load
<1>2. /\ phase[loads'] = "none"
      /\ phase' \in [Load -> Phase]
      /\ phase'[loads'] = "queued"
      /\ \A m \in Load \ {loads'} : phase'[m] = phase[m]
  <2>1. loads' > loads
    BY <1>1 DEF SubwayInv, LoadsInv
  <2> QED BY <1>1, <2>1 DEF SubwayInv, LoadsInv, Phase, Ordering
<1>3. LoadsInv'
  <2>1. \A m \in Load : phase'[m] = "none" <=> m > loads'
    BY <1>1, <1>2 DEF SubwayInv, LoadsInv, Load
  <2>2. {m \in Load : phase'[m] = "ended"} = {m \in Load : phase[m] = "ended"}
    BY <1>2
  <2>3. ~overlapped' => \A m \in Load : Active(m)' => m = loads'
    BY <1>2 DEF LoadSubways, Active
  <2>4. overlapped' \in BOOLEAN
    BY DEF LoadSubways
  <2>5. stale' \in BOOLEAN
    BY DEF SubwayInv, LoadsInv
  <2>6. /\ \A m \in Load : phase'[m] \in {"none", "queued"} => found'[m] = <<>>
        /\ \A m \in Load : phase'[m] \in {"none", "queued", "found", "cleared"}
                              => position'[m] = 0
    BY <1>1, <1>2 DEF SubwayInv, LoadsInv
  <2> HIDE DEF LoadSubways
  <2> QED BY <1>1, <1>2, <2>1, <2>2, <2>3, <2>4, <2>5, <2>6 DEF SubwayInv, LoadsInv
<1>4. ListTyped' /\ NothingToList'
  BY <1>1 DEF SubwayInv, ListTyped, NothingToList, LoadsInv, listVars
<1>5. ListInv' /\ FreshInv'
  BY <1>1, <1>2 DEF SubwayInv, LoadsInv, ListInv, FreshInv
<1>6. TableInv'
  <2>1. spinner' \in BOOLEAN /\ crashed' \in BOOLEAN
    BY <1>1 DEF LoadSubways, SubwayInv, TableInv
  <2> QED BY <1>1, <1>2, <2>1, TableWhileLoading DEF SubwayInv
<1> QED BY <1>3, <1>4, <1>5, <1>6 DEF SubwayInv

-----------------------------------------------------------------------------
\* Nothing is stored: the list that was empty is complete.
LEMMA FindsNothingStoredStep ==
    ASSUME SubwayInv, NEW n \in Load, FindsNothingStored(n)
    PROVE  SubwayInv'
<1>1. /\ Active(n) /\ phase' = [phase EXCEPT ![n] = "ending"]
      /\ phase'[n] = "ending" /\ stored = 0 /\ phase[n] = "queued"
  BY DEF FindsNothingStored, Active, SubwayInv, LoadsInv
<1>2. LoadsInv'
  BY <1>1, LoadGoesOn DEF FindsNothingStored, SubwayInv, LoadsInv, Phase,
                          tableVars, historyVars
<1>3. ListTyped' /\ NothingToList'
  BY DEF FindsNothingStored, SubwayInv, ListTyped, NothingToList, listVars, realmVars
<1>4. ListInv'
  <2> SUFFICES ASSUME ~overlapped, loads > 0
               PROVE  Grouped(loads, Len(found[loads]))'
    BY <1>1 DEF FindsNothingStored, ListInv, SubwayInv, LoadsInv, historyVars
  <2>1. n = loads
    BY <1>1 DEF SubwayInv, LoadsInv
  <2>2. subwaysByLetter' = NoSubways /\ orderedLetters' = <<>> /\ found'[loads'] = <<>>
    BY <1>1, <2>1 DEF FindsNothingStored, SubwayInv, NothingToList, listVars
  <2>3. DOMAIN subwaysByLetter' = {} /\ LettersFound(loads, 0)' = {}
    BY <2>2 DEF NoSubways, LettersFound
  <2> QED BY <2>2, <2>3, SortedNothing DEF Grouped
<1>5. FreshInv'
  <2> SUFFICES ASSUME ~overlapped
               PROVE  /\ loads' = 0 => stored' = 0
                      /\ found'[loads'] \in Sorted(Matching')
    BY DEF FindsNothingStored, FreshInv, historyVars
  <2>1. n = loads /\ stored' = 0
    BY <1>1 DEF FindsNothingStored, SubwayInv, LoadsInv, realmVars
  <2>2. Matching' = {} /\ found'[loads'] = <<>>
    BY <1>1, <2>1 DEF FindsNothingStored, SubwayInv, NothingToList, Matching
  <2> QED BY <2>1, <2>2, SortedNothing
<1>6. TableInv'
  BY <1>1, TableWhileLoading DEF FindsNothingStored, SubwayInv, TableInv, tableVars
<1> QED BY <1>2, <1>3, <1>4, <1>5, <1>6 DEF SubwayInv

\* The query: its result is sorted by name.
LEMMA LoadFromRealmStep ==
    ASSUME SubwayInv, NEW n \in Load, LoadSubwaysListFromRealm(n)
    PROVE  SubwayInv'
<1>1. /\ Active(n) /\ phase' = [phase EXCEPT ![n] = "found"]
      /\ phase'[n] = "found" /\ phase[n] = "queued"
      /\ \A m \in Load \ {n} : phase'[m] = phase[m]
      /\ UNCHANGED <<realmVars, loads, position, listVars, tableVars, crashed,
                     overlapped>>
  BY DEF LoadSubwaysListFromRealm, Active, SubwayInv, LoadsInv
<1>2. PICK names \in Seq(Station) :
          /\ found' = [found EXCEPT ![n] = names]
          /\ \A i, j \in DOMAIN names : i < j => names[i] < names[j]
          /\ \/ stored > 0 /\ names \in Sorted(Matching) /\ stale' = FALSE
             \/ names = <<>> /\ stale' = TRUE
  <2>1. CASE \E names \in Sorted(Matching) : stored > 0 /\ stale' = FALSE
                                             /\ found' = [found EXCEPT ![n] = names]
    <3>1. PICK names \in Sorted(Matching) : stored > 0 /\ stale' = FALSE
                                            /\ found' = [found EXCEPT ![n] = names]
      BY <2>1
    <3>2. Matching \subseteq Station /\ Matching \subseteq 1..stored /\ stored \in Nat
      BY LetterOfAssumption DEF Matching, SubwayInv, LoadsInv
    <3>3. IsFiniteSet(Matching)
      <4>1. 1 \in Int /\ stored \in Int
        BY <3>2
      <4>2. IsFiniteSet(1..stored)
        BY <4>1, FS_Interval
      <4> QED BY <3>2, <4>2, FS_Subset
    <3> QED BY <3>1, <3>2, <3>3, SortedType
  <2>2. CASE found' = [found EXCEPT ![n] = <<>>] /\ stale' = TRUE
    <3>1. <<>> \in Seq(Station) /\ DOMAIN <<>> = {}
      OBVIOUS
    <3> QED BY <2>2, <3>1
  <2> QED BY <2>1, <2>2 DEF LoadSubwaysListFromRealm
<1>3. /\ found' \in [Load -> Seq(Station)] /\ found'[n] = names
      /\ \A m \in Load \ {n} : found'[m] = found[m]
  BY <1>2 DEF SubwayInv, LoadsInv
<1>4. LoadsInv'
  <2>1. position'[n] = 0 /\ position' \in [Load -> Nat] /\ position' = position
    BY <1>1 DEF SubwayInv, LoadsInv
  <2>2. 0 <= Len(names)
    BY <1>2
  <2> QED BY <1>1, <1>2, <1>3, <2>1, <2>2, LoadGoesOn
          DEF SubwayInv, Phase, Ordering, tableVars
<1>5. n <= loads /\ loads > 0 /\ loads \in Nat
  BY <1>1 DEF SubwayInv, LoadsInv, Load
<1>6. ListTyped' /\ NothingToList'
  BY <1>1, <1>2, <1>3, <1>5 DEF SubwayInv, LoadsInv, ListTyped, NothingToList, listVars, realmVars
<1>7. ListInv'
  BY <1>1 DEF SubwayInv, LoadsInv, ListInv
<1>8. FreshInv'
  BY <1>1, <1>2, <1>3, <1>5 DEF SubwayInv, LoadsInv, FreshInv, Matching, realmVars
<1>9. TableInv'
  BY <1>1, TableWhileLoading DEF SubwayInv, TableInv, tableVars
<1> QED BY <1>4, <1>6, <1>7, <1>8, <1>9 DEF SubwayInv

\* The dictionary is emptied.
LEMMA ClearSubwaysStep ==
    ASSUME SubwayInv, NEW n \in Load, ClearSubways(n)
    PROVE  SubwayInv'
<1>1. /\ Active(n) /\ phase' = [phase EXCEPT ![n] = "cleared"]
      /\ phase'[n] = "cleared" /\ phase[n] = "found"
      /\ UNCHANGED <<realmVars, loads, found, position, orderedLetters,
                     tableVars, historyVars>>
      /\ subwaysByLetter' = NoSubways
  BY DEF ClearSubways, Active, SubwayInv, LoadsInv
<1>2. crashed' \in BOOLEAN
  BY CrashOutcome DEF ClearSubways
<1>3. LoadsInv'
  BY <1>1, LoadGoesOn DEF SubwayInv, LoadsInv, Phase, Ordering, tableVars, historyVars
<1>4. ListTyped' /\ NothingToList'
  BY <1>1 DEF SubwayInv, ListTyped, NothingToList, NoSubways, realmVars
<1>5. ListInv' /\ FreshInv'
  BY <1>1 DEF SubwayInv, LoadsInv, ListInv, FreshInv, Matching, historyVars, realmVars
<1>6. TableInv'
  BY <1>1, <1>2, TableWhileLoading DEF SubwayInv, TableInv, tableVars
<1> QED BY <1>3, <1>4, <1>5, <1>6 DEF SubwayInv

\* The sections are emptied.
LEMMA ClearLettersStep ==
    ASSUME SubwayInv, NEW n \in Load, ClearLetters(n)
    PROVE  SubwayInv'
<1>1. /\ Active(n) /\ phase' = [phase EXCEPT ![n] = "emptying"]
      /\ phase'[n] = "emptying" /\ phase[n] = "cleared"
      /\ UNCHANGED <<realmVars, loads, found, position, subwaysByLetter,
                     tableVars, historyVars>>
      /\ orderedLetters' = <<>>
  BY DEF ClearLetters, Active, SubwayInv, LoadsInv
<1>2. crashed' \in BOOLEAN
  BY CrashOutcome DEF ClearLetters
<1>3. LoadsInv'
  BY <1>1, LoadGoesOn DEF SubwayInv, LoadsInv, Phase, Ordering, tableVars, historyVars
<1>4. ListTyped' /\ NothingToList'
  BY <1>1 DEF SubwayInv, ListTyped, NothingToList, realmVars
<1>5. ListInv'
  <2> SUFFICES ASSUME ~overlapped, loads > 0
               PROVE  subwaysByLetter' = [a \in LettersFound(loads, position[loads])' |-> <<>>]
    BY <1>1 DEF ListInv, SubwayInv, LoadsInv, historyVars
  <2>1. n = loads /\ position'[loads'] = 0 /\ subwaysByLetter' = NoSubways
    BY <1>1 DEF SubwayInv, LoadsInv, ListInv
  <2>2. LettersFound(loads, position[loads])' = {}
    BY <2>1 DEF LettersFound
  <2> QED BY <2>1, <2>2 DEF NoSubways
<1>6. FreshInv'
  BY <1>1 DEF SubwayInv, LoadsInv, FreshInv, Matching, historyVars, realmVars
<1>7. TableInv'
  BY <1>1, <1>2, TableWhileLoading DEF SubwayInv, TableInv, tableVars
<1> QED BY <1>3, <1>4, <1>5, <1>6, <1>7 DEF SubwayInv

\* The next station that was found, and its letter.
LEMMA NextStation ==
    ASSUME LoadsInv, NEW n \in Load, position[n] < Len(found[n])
    PROVE  /\ position[n] + 1 \in DOMAIN found[n]
           /\ found[n][position[n] + 1] \in Station
           /\ LetterOf[found[n][position[n] + 1]] \in Letter
           /\ found[n] # <<>>
<1>1. found[n] \in Seq(Station) /\ position[n] \in Nat
  BY DEF LoadsInv
<1> QED BY <1>1 DEF Station, Letter, Range

\* The first loop: one more letter, with no stations.
LEMMA EmptyLetterStep ==
    ASSUME SubwayInv, NEW n \in Load, EmptyLetter(n)
    PROVE  SubwayInv'
<1> DEFINE next == position[n] + 1
           letter == LetterOf[found[n][next]]
<1>1. /\ Active(n) /\ phase' = [phase EXCEPT ![n] = "emptying"]
      /\ phase' = phase /\ phase[n] = "emptying"
      /\ UNCHANGED <<realmVars, loads, found, orderedLetters, tableVars, historyVars>>
      /\ position' = [position EXCEPT ![n] = next]
      /\ position' \in [Load -> Nat] /\ position'[n] = next
  BY DEF EmptyLetter, Active, SubwayInv, LoadsInv
<1>2. /\ next \in DOMAIN found[n] /\ letter \in Letter /\ found[n] # <<>>
      /\ position[n] < Len(found[n])
  BY NextStation DEF EmptyLetter, SubwayInv
<1>3. subwaysByLetter' = [a \in DOMAIN subwaysByLetter \cup {letter} |->
                             IF a = letter THEN <<>> ELSE subwaysByLetter[a]]
  BY <1>1 DEF EmptyLetter
<1>4. crashed' \in BOOLEAN
  BY CrashOutcome DEF EmptyLetter
<1>5. next <= Len(found[n]) /\ next \in Nat
  BY <1>2 DEF SubwayInv, LoadsInv
<1> HIDE DEF next
<1>6. LoadsInv'
  <2>1. /\ found' \in [Load -> Seq(Station)] /\ found' = found
        /\ \A m \in Load \ {n} : position'[m] = position[m]
        /\ position'[n] <= Len(found'[n])
        /\ stale' \in BOOLEAN
        /\ \A i, j \in DOMAIN found'[n] : i < j => found'[n][i] < found'[n][j]
    BY <1>1, <1>5 DEF SubwayInv, LoadsInv, historyVars
  <2> QED BY <1>1, <2>1, LoadGoesOn
          DEF SubwayInv, Phase, Ordering, tableVars, historyVars
<1>7. ListTyped'
  BY <1>1, <1>2, <1>3 DEF SubwayInv, ListTyped
<1>8. NothingToList'
  BY <1>1, <1>2 DEF SubwayInv, NothingToList, realmVars
<1>9. ListInv'
  <2> SUFFICES ASSUME ~overlapped, loads > 0
               PROVE  /\ orderedLetters' = <<>>
                      /\ subwaysByLetter'
                         = [a \in LettersFound(loads, position[loads])' |-> <<>>]
    BY <1>1 DEF ListInv, SubwayInv, LoadsInv, historyVars
  <2>1. n = loads
    BY <1>1 DEF SubwayInv, LoadsInv
  <2>2. /\ orderedLetters = <<>>
        /\ subwaysByLetter = [a \in LettersFound(n, position[n]) |-> <<>>]
    BY <1>1, <2>1 DEF SubwayInv, ListInv
  <2>3. 1..next = 1..position[n] \cup {next}
    BY DEF next, SubwayInv, LoadsInv
  <2>4. LettersFound(loads, position[loads])' = LettersFound(n, position[n]) \cup {letter}
    BY <1>1, <2>1, <2>3 DEF LettersFound
  <2> QED BY <1>1, <1>3, <2>2, <2>4
<1>10. FreshInv'
  BY <1>1 DEF SubwayInv, LoadsInv, FreshInv, Matching, historyVars, realmVars
<1>11. TableInv'
  BY <1>1, <1>4, TableWhileLoading DEF SubwayInv, TableInv, tableVars
<1> QED BY <1>6, <1>7, <1>8, <1>9, <1>10, <1>11 DEF SubwayInv

\* The letters are sorted, and the second loop begins.
LEMMA SortLettersStep ==
    ASSUME SubwayInv, NEW n \in Load, SortLetters(n)
    PROVE  SubwayInv'
<1>1. /\ Active(n) /\ phase' = [phase EXCEPT ![n] = "filling"]
      /\ phase'[n] = "filling" /\ phase[n] = "emptying"
      /\ UNCHANGED <<realmVars, loads, found, subwaysByLetter, tableVars, historyVars>>
      /\ position' = [position EXCEPT ![n] = 0]
      /\ position' \in [Load -> Nat] /\ position'[n] = 0
      /\ position[n] = Len(found[n])
      /\ orderedLetters' \in Sorted(DOMAIN subwaysByLetter)
  BY DEF SortLetters, Active, SubwayInv, LoadsInv
<1>2. crashed' \in BOOLEAN
  BY CrashOutcome DEF SortLetters
<1>3. LoadsInv'
  <2>1. /\ found' \in [Load -> Seq(Station)] /\ found' = found
        /\ \A m \in Load \ {n} : position'[m] = position[m]
        /\ stale' \in BOOLEAN
        /\ \A i, j \in DOMAIN found'[n] : i < j => found'[n][i] < found'[n][j]
    BY <1>1 DEF SubwayInv, LoadsInv, historyVars
  <2>2. 0 <= Len(found'[n])
    BY <1>1 DEF SubwayInv, LoadsInv
  <2> QED BY <1>1, <2>1, <2>2, LoadGoesOn
          DEF SubwayInv, Phase, Ordering, tableVars, historyVars
<1>4. ListTyped'
  <2>1. DOMAIN subwaysByLetter \subseteq Letter /\ IsFiniteSet(DOMAIN subwaysByLetter)
    BY FiniteLetters DEF SubwayInv, ListTyped
  <2>2. orderedLetters' \in Seq(Letter)
    BY <1>1, <2>1, SortedType
  <2> QED BY <1>1, <2>2 DEF SubwayInv, ListTyped
<1>5. NothingToList'
  <2> SUFFICES ASSUME stored = 0 \/ loads = 0
               PROVE  orderedLetters' = <<>>
    BY <1>1 DEF SubwayInv, NothingToList, realmVars
  <2>1. DOMAIN subwaysByLetter = {}
    BY DEF SubwayInv, NothingToList, NoSubways
  <2> QED BY <1>1, <2>1, SortedNothing
<1>6. ListInv'
  <2> SUFFICES ASSUME ~overlapped, loads > 0
               PROVE  Grouped(loads, position[loads])'
    BY <1>1 DEF ListInv, SubwayInv, LoadsInv, historyVars
  <2>1. n = loads
    BY <1>1 DEF SubwayInv, LoadsInv
  <2>2. subwaysByLetter = [a \in LettersFound(n, Len(found[n])) |-> <<>>]
    BY <1>1, <2>1 DEF SubwayInv, ListInv
  <2>3. DOMAIN subwaysByLetter' = LettersFound(n, Len(found[n]))'
    BY <1>1, <2>2 DEF LettersFound
  <2>4. ASSUME NEW a \in DOMAIN subwaysByLetter'
        PROVE  /\ subwaysByLetter'[a] = <<>>
               /\ Range(subwaysByLetter'[a]) = {}
               /\ {i \in 1..0 : LetterOf[found'[n][i]] = a} = {}
    <3>1. subwaysByLetter'[a] = <<>>
      BY <1>1, <2>2
    <3> QED BY <3>1 DEF Range
  <2> QED BY <1>1, <2>1, <2>3, <2>4 DEF Grouped
<1>7. FreshInv'
  BY <1>1 DEF SubwayInv, LoadsInv, FreshInv, Matching, historyVars, realmVars
<1>8. TableInv'
  BY <1>1, <1>2, TableWhileLoading DEF SubwayInv, TableInv, tableVars
<1> QED BY <1>3, <1>4, <1>5, <1>6, <1>7, <1>8 DEF SubwayInv

\* What appending a greater element does to an ascending list.
LEMMA AppendAscending ==
    ASSUME NEW S \in SUBSET Nat, NEW s \in Seq(S), NEW e \in S,
           \A i, j \in DOMAIN s : i < j => s[i] < s[j],
           \A i \in DOMAIN s : s[i] < e
    PROVE  /\ Range(Append(s, e)) = Range(s) \cup {e}
           /\ \A i, j \in DOMAIN Append(s, e) :
                 i < j => Append(s, e)[i] < Append(s, e)[j]
<1> DEFINE t == Append(s, e)
<1>1. /\ t \in Seq(S) /\ Len(t) = Len(s) + 1 /\ Len(s) \in Nat
      /\ DOMAIN t = 1..Len(s) + 1 /\ DOMAIN s = 1..Len(s)
      /\ \A i \in 1..Len(s) : t[i] = s[i]
      /\ t[Len(s) + 1] = e
  OBVIOUS
<1> HIDE DEF t
<1>2. Range(t) = Range(s) \cup {e}
  <2>1. \A i \in DOMAIN t : i \in DOMAIN s \/ i = Len(s) + 1
    BY <1>1
  <2>2. Len(s) + 1 \in DOMAIN t /\ DOMAIN s \subseteq DOMAIN t
    BY <1>1
  <2> QED BY <1>1, <2>1, <2>2 DEF Range
<1>3. ASSUME NEW i \in DOMAIN t, NEW j \in DOMAIN t, i < j
      PROVE  t[i] < t[j]
  <2>1. i \in DOMAIN s /\ (j \in DOMAIN s \/ j = Len(s) + 1)
    BY <1>1, <1>3
  <2> QED BY <1>1, <1>3, <2>1
<1> QED BY <1>2, <1>3 DEF t

\* The second loop: the next station, whose name is greater than those
\* before, joins its letter.
LEMMA AppendSubwayStep ==
    ASSUME SubwayInv, NEW n \in Load, AppendSubway(n)
    PROVE  SubwayInv'
<1> DEFINE next == position[n] + 1
           station == found[n][next]
           letter == LetterOf[station]
<1>1. /\ Active(n) /\ phase' = [phase EXCEPT ![n] = "filling"]
      /\ phase' = phase /\ phase[n] = "filling"
      /\ UNCHANGED <<realmVars, loads, found, orderedLetters, tableVars, historyVars>>
      /\ position' = [position EXCEPT ![n] = next]
      /\ position' \in [Load -> Nat] /\ position'[n] = next
  BY DEF AppendSubway, Active, SubwayInv, LoadsInv
<1>2. /\ next \in DOMAIN found[n] /\ station \in Station /\ found[n] # <<>>
      /\ position[n] < Len(found[n])
  BY NextStation DEF AppendSubway, SubwayInv
<1>3. subwaysByLetter' = [a \in DOMAIN subwaysByLetter |->
                             IF a = letter THEN Append(subwaysByLetter[a], station)
                             ELSE subwaysByLetter[a]]
  BY <1>1 DEF AppendSubway
<1>4. crashed' \in BOOLEAN
  BY CrashOutcome DEF AppendSubway
<1>5. next <= Len(found[n]) /\ next \in Nat
  BY <1>2 DEF SubwayInv, LoadsInv
<1>6. \A i \in 1..next : i = next \/ i \in 1..position[n]
  BY DEF SubwayInv, LoadsInv
<1>7. 1..position[n] \subseteq 1..next /\ next \in 1..next
  BY <1>5 DEF SubwayInv, LoadsInv
<1>8. \A i \in 1..position[n] : i < next /\ i \in DOMAIN found[n]
  BY <1>2 DEF SubwayInv, LoadsInv
<1> HIDE DEF next
<1>9. LoadsInv'
  <2>1. /\ found' \in [Load -> Seq(Station)] /\ found' = found
        /\ \A m \in Load \ {n} : position'[m] = position[m]
        /\ position'[n] <= Len(found'[n])
        /\ stale' \in BOOLEAN
        /\ \A i, j \in DOMAIN found'[n] : i < j => found'[n][i] < found'[n][j]
    BY <1>1, <1>5 DEF SubwayInv, LoadsInv, historyVars
  <2> QED BY <1>1, <2>1, LoadGoesOn
          DEF SubwayInv, Phase, Ordering, tableVars, historyVars
<1>10. ListTyped'
  <2> HIDE DEF letter, station
  <2> QED BY <1>1, <1>2, <1>3 DEF SubwayInv, ListTyped
<1>11. NothingToList'
  BY <1>1, <1>2 DEF SubwayInv, NothingToList, realmVars
<1>12. ListInv'
  <2> SUFFICES ASSUME ~overlapped, loads > 0
               PROVE  Grouped(loads, position[loads])'
    BY <1>1 DEF ListInv, SubwayInv, LoadsInv, historyVars
  <2>1. n = loads
    BY <1>1 DEF SubwayInv, LoadsInv
  <2>2. Grouped(n, position[n])
    BY <1>1, <2>1 DEF SubwayInv, ListInv
  <2>3. /\ DOMAIN subwaysByLetter' = LettersFound(n, Len(found[n]))'
        /\ orderedLetters' \in Sorted(DOMAIN subwaysByLetter')
    BY <1>1, <1>3, <2>2 DEF Grouped, LettersFound
  <2>4. ASSUME NEW a \in DOMAIN subwaysByLetter'
        PROVE  /\ Range(subwaysByLetter'[a])
                  = {found[n][j] : j \in {i \in 1..next : LetterOf[found[n][i]] = a}}
               /\ \A i, j \in DOMAIN subwaysByLetter'[a] :
                     i < j => subwaysByLetter'[a][i] < subwaysByLetter'[a][j]
    <3>1. /\ a \in DOMAIN subwaysByLetter
          /\ Range(subwaysByLetter[a])
             = {found[n][j] : j \in {i \in 1..position[n] : LetterOf[found[n][i]] = a}}
          /\ \A i, j \in DOMAIN subwaysByLetter[a] :
                i < j => subwaysByLetter[a][i] < subwaysByLetter[a][j]
      BY <1>3, <2>2 DEF Grouped
    <3>2. CASE a = letter
      <4>1. subwaysByLetter[a] \in Seq(Station) /\ Station \in SUBSET Nat
        BY <3>1, LetterOfAssumption DEF SubwayInv, ListTyped, Station
      <4>2. \A i \in DOMAIN subwaysByLetter[a] : subwaysByLetter[a][i] < station
        <5>1. \A i, j \in DOMAIN found[n] : i < j => found[n][i] < found[n][j]
          BY DEF SubwayInv, LoadsInv
        <5>2. ASSUME NEW i \in DOMAIN subwaysByLetter[a]
              PROVE  subwaysByLetter[a][i] < station
          <6>1. subwaysByLetter[a][i] \in Range(subwaysByLetter[a])
            BY DEF Range
          <6>2. PICK j \in 1..position[n] : subwaysByLetter[a][i] = found[n][j]
            BY <3>1, <6>1
          <6> QED BY <1>2, <1>8, <5>1, <6>2
        <5> QED BY <5>2
      <4>3. subwaysByLetter'[a] = Append(subwaysByLetter[a], station)
        BY <1>3, <3>1, <3>2
      <4>4. /\ Range(subwaysByLetter'[a]) = Range(subwaysByLetter[a]) \cup {station}
            /\ \A i, j \in DOMAIN subwaysByLetter'[a] :
                  i < j => subwaysByLetter'[a][i] < subwaysByLetter'[a][j]
        <5> HIDE DEF station
        <5> QED BY <1>2, <3>1, <4>1, <4>2, <4>3, AppendAscending
      <4>5. {i \in 1..next : LetterOf[found[n][i]] = a}
            = {i \in 1..position[n] : LetterOf[found[n][i]] = a} \cup {next}
        BY <1>6, <1>7, <3>2
      <4> QED BY <3>1, <4>4, <4>5
    <3>3. CASE a # letter
      <4>1. {i \in 1..next : LetterOf[found[n][i]] = a}
            = {i \in 1..position[n] : LetterOf[found[n][i]] = a}
        BY <1>6, <1>7, <3>3
      <4> QED BY <1>3, <3>1, <3>3, <4>1
    <3> QED BY <3>2, <3>3
  <2> QED BY <1>1, <2>1, <2>3, <2>4 DEF Grouped
<1>13. FreshInv'
  BY <1>1 DEF SubwayInv, LoadsInv, FreshInv, Matching, historyVars, realmVars
<1>14. TableInv'
  BY <1>1, <1>4, TableWhileLoading DEF SubwayInv, TableInv, tableVars
<1> QED BY <1>9, <1>10, <1>11, <1>12, <1>13, <1>14 DEF SubwayInv

\* The second loop is done.
LEMMA EndLoopStep ==
    ASSUME SubwayInv, NEW n \in Load, EndLoop(n)
    PROVE  SubwayInv'
<1>1. /\ Active(n) /\ phase' = [phase EXCEPT ![n] = "ending"]
      /\ phase'[n] = "ending" /\ phase[n] = "filling"
      /\ position[n] = Len(found[n])
      /\ UNCHANGED <<realmVars, loads, found, position, listVars, tableVars,
                     crashed, historyVars>>
  BY DEF EndLoop, Active, SubwayInv, LoadsInv
<1>2. LoadsInv'
  BY <1>1, LoadGoesOn DEF SubwayInv, LoadsInv, Phase, Ordering, tableVars, historyVars
<1>3. ListTyped' /\ NothingToList'
  BY <1>1 DEF SubwayInv, ListTyped, NothingToList, listVars, realmVars
<1>4. ListInv'
  <2> SUFFICES ASSUME ~overlapped, loads > 0
               PROVE  Grouped(loads, Len(found[loads]))'
    BY <1>1 DEF ListInv, SubwayInv, LoadsInv, historyVars
  <2>1. n = loads
    BY <1>1 DEF SubwayInv, LoadsInv
  <2>2. Grouped(n, Len(found[n]))
    BY <1>1, <2>1 DEF SubwayInv, ListInv
  <2>3. UNCHANGED <<found, subwaysByLetter, orderedLetters, loads>>
    BY <1>1 DEF listVars
  <2>4. Grouped(loads, Len(found[loads]))' = Grouped(n, Len(found[n]))
    BY <2>1, <2>3 DEF Grouped, LettersFound
  <2> QED BY <2>2, <2>4
<1>5. FreshInv'
  BY <1>1 DEF SubwayInv, LoadsInv, FreshInv, Matching, historyVars, realmVars
<1>6. TableInv'
  BY <1>1, TableWhileLoading DEF SubwayInv, TableInv, tableVars
<1> QED BY <1>2, <1>3, <1>4, <1>5, <1>6 DEF SubwayInv

\* The completion queues its reload.
LEMMA CompleteStep ==
    ASSUME SubwayInv, NEW n \in Load, Complete(n)
    PROVE  SubwayInv'
<1>1. /\ Active(n) /\ phase' \in [Load -> Phase]
      /\ phase'[n] = "ended" /\ phase[n] = "ending"
      /\ \A m \in Load \ {n} : phase'[m] = phase[m]
      /\ UNCHANGED <<realmVars, loads, found, position, listVars, layoutPending,
                     sections, rows, spinner, historyVars>>
      /\ reloads' = reloads + 1
  BY DEF Complete, Active, SubwayInv, LoadsInv, Phase
<1>2. crashed' \in BOOLEAN
  BY CrashOutcome DEF Complete
<1> DEFINE Ended == {m \in Load : phase[m] = "ended"}
<1>3. reloads' <= Cardinality({m \in Load : phase'[m] = "ended"})
  <2>1. IsFiniteSet(Load)
    BY MaxLoadsAssumption, FS_Interval DEF Load
  <2>2. Ended \subseteq Load /\ n \notin Ended
    BY <1>1
  <2>3. {m \in Load : phase'[m] = "ended"} = Ended \cup {n}
    BY <1>1
  <2>4. reloads \in Nat /\ reloads <= Cardinality(Ended)
    BY DEF SubwayInv, LoadsInv
  <2> HIDE DEF Ended
  <2>5. IsFiniteSet(Ended) /\ Cardinality(Ended) \in Nat
    BY <2>1, <2>2, FS_Subset, FS_CardinalityType
  <2>6. Cardinality(Ended \cup {n}) = Cardinality(Ended) + 1
    BY <2>2, <2>5, FS_AddElement
  <2> QED BY <1>1, <2>3, <2>4, <2>5, <2>6
<1>4. LoadsInv'
  BY <1>1, <1>3 DEF SubwayInv, LoadsInv, Active, historyVars, realmVars
<1>5. ListTyped' /\ NothingToList'
  BY <1>1 DEF SubwayInv, ListTyped, NothingToList, listVars, realmVars
<1>6. ListInv'
  <2> SUFFICES ASSUME ~overlapped, loads > 0
               PROVE  Grouped(loads, Len(found[loads]))'
    BY <1>1 DEF ListInv, SubwayInv, LoadsInv, historyVars
  <2>1. n = loads
    BY <1>1 DEF SubwayInv, LoadsInv
  <2>2. Grouped(n, Len(found[n]))
    BY <1>1, <2>1 DEF SubwayInv, ListInv
  <2>3. UNCHANGED <<found, subwaysByLetter, orderedLetters, loads>>
    BY <1>1 DEF listVars
  <2>4. Grouped(loads, Len(found[loads]))' = Grouped(n, Len(found[n]))
    BY <2>1, <2>3 DEF Grouped, LettersFound
  <2> QED BY <2>2, <2>4
<1>7. FreshInv'
  BY <1>1 DEF SubwayInv, LoadsInv, FreshInv, Matching, historyVars, realmVars
<1>8. TableInv'
  <2>1. reloads' > 0
    BY <1>1 DEF SubwayInv, LoadsInv
  <2> QED BY <1>1, <1>2, <2>1 DEF SubwayInv, TableInv, InLayout
<1> QED BY <1>4, <1>5, <1>6, <1>7, <1>8 DEF SubwayInv

-----------------------------------------------------------------------------
\* The main thread does not touch what the loads have come to.
LEMMA MainKeepsLoads ==
    ASSUME SubwayInv, UNCHANGED <<realmVars, loadVars, listVars, historyVars>>,
           reloads' \in Nat, reloads' <= reloads
    PROVE  LoadsInv' /\ ListTyped' /\ NothingToList' /\ ListInv' /\ FreshInv'
<1>1. LoadsInv'
  <2>1. Cardinality({m \in Load : phase'[m] = "ended"}) \in Nat
    <3>1. IsFiniteSet(Load)
      BY MaxLoadsAssumption, FS_Interval DEF Load
    <3>2. {m \in Load : phase'[m] = "ended"} \subseteq Load
      OBVIOUS
    <3> QED BY <3>1, <3>2, FS_Subset, FS_CardinalityType
  <2>2. reloads' <= Cardinality({m \in Load : phase'[m] = "ended"})
    BY <2>1 DEF SubwayInv, LoadsInv, loadVars
  <2> QED BY <2>2 DEF SubwayInv, LoadsInv, loadVars, realmVars, historyVars, Active
<1>2. ListTyped' /\ NothingToList'
  BY DEF SubwayInv, ListTyped, NothingToList, listVars, realmVars, loadVars
<1>3. ListInv'
  BY DEF SubwayInv, ListInv, Grouped, LettersFound, listVars, loadVars, historyVars
<1>4. FreshInv'
  BY DEF SubwayInv, FreshInv, Matching, realmVars, loadVars, historyVars
<1> QED BY <1>1, <1>2, <1>3, <1>4

\* A reload asks for a layout.
LEMMA RunReloadStep ==
    ASSUME SubwayInv, ~crashed, RunReload
    PROVE  SubwayInv'
<1>1. reloads' \in Nat /\ reloads' <= reloads
  BY DEF RunReload, SubwayInv, LoadsInv
<1>2. LoadsInv' /\ ListTyped' /\ NothingToList' /\ ListInv' /\ FreshInv'
  BY <1>1, MainKeepsLoads DEF RunReload
<1>3. TableInv'
  <2>1. /\ layoutPending' = TRUE /\ spinner' = FALSE /\ ~InLayout /\ reloads > 0
        /\ UNCHANGED <<sections, rows, crashed>>
    BY DEF RunReload
  <2>2. layoutPending' /\ layoutPending' \in BOOLEAN /\ spinner' \in BOOLEAN
    BY <2>1
  <2> QED BY <2>1, <2>2 DEF SubwayInv, TableInv, InLayout
<1> QED BY <1>2, <1>3 DEF SubwayInv

\* No load is active when nothing but a layout is due, and the list is whole.
LEMMA SettledList ==
    ASSUME SubwayInv, Quiet, ~overlapped
    PROVE  /\ orderedLetters \in Sorted(DOMAIN subwaysByLetter)
           /\ loads > 0 => Grouped(loads, Len(found[loads]))
           /\ loads = 0 => subwaysByLetter = NoSubways /\ orderedLetters = <<>>
           /\ Len(orderedLetters) = Cardinality(DOMAIN subwaysByLetter)
           /\ Range(orderedLetters) = DOMAIN subwaysByLetter
           /\ loads \in Nat
<1>1. loads \in Nat /\ (loads > 0 => loads \in Load)
  BY MaxLoadsAssumption DEF SubwayInv, LoadsInv, Load
<1>2. loads > 0 => phase[loads] = "ended"
  BY <1>1 DEF SubwayInv, LoadsInv, Quiet, Active
<1>3. loads > 0 => Grouped(loads, Len(found[loads]))
  BY <1>2 DEF SubwayInv, ListInv
<1>4. loads = 0 => subwaysByLetter = NoSubways /\ orderedLetters = <<>>
  BY DEF SubwayInv, NothingToList
<1>5. orderedLetters \in Sorted(DOMAIN subwaysByLetter)
  <2>1. CASE loads > 0
    BY <1>3, <2>1 DEF Grouped
  <2>2. CASE loads = 0
    <3>1. DOMAIN subwaysByLetter = {}
      BY <1>4, <2>2 DEF NoSubways
    <3> QED BY <1>4, <2>2, <3>1, SortedNothing
  <2> QED BY <1>1, <2>1, <2>2
<1>6. DOMAIN subwaysByLetter \subseteq Letter /\ IsFiniteSet(DOMAIN subwaysByLetter)
  BY FiniteLetters DEF SubwayInv, ListTyped
<1>7. /\ Len(orderedLetters) = Cardinality(DOMAIN subwaysByLetter)
      /\ Range(orderedLetters) = DOMAIN subwaysByLetter
  BY <1>5, <1>6, SortedType
<1> QED BY <1>1, <1>3, <1>4, <1>5, <1>7

\* A layout begins: the sections are as many as the letters.
LEMMA NumberOfSectionsStep ==
    ASSUME SubwayInv, NumberOfSections
    PROVE  SubwayInv'
<1>1. LoadsInv' /\ ListTyped' /\ NothingToList' /\ ListInv' /\ FreshInv'
  <2>1. reloads' \in Nat /\ reloads' <= reloads
    BY DEF NumberOfSections, SubwayInv, LoadsInv
  <2> QED BY <2>1, MainKeepsLoads DEF NumberOfSections
<1>2. TableInv'
  <2>1. /\ layoutPending' = FALSE /\ rows' = <<>> /\ spinner' = spinner
        /\ sections' = Cardinality(DOMAIN subwaysByLetter')
        /\ UNCHANGED <<loadVars, reloads, overlapped>>
    BY DEF NumberOfSections, listVars, historyVars
  <2>2. sections' \in Nat
    BY <2>1, FiniteLetters DEF NumberOfSections, SubwayInv, ListTyped
  <2>3. crashed' \in BOOLEAN /\ (crashed' => ~Quiet)
    <3>1. crashed' \in BOOLEAN /\ (crashed' => \E m \in Load : Active(m))
      BY CrashOutcome DEF NumberOfSections
    <3> QED BY <3>1 DEF Quiet
  <2>4. Quiet' <=> Quiet
    BY <2>1 DEF Quiet, Active, loadVars
  <2>5. rows' \in Seq(Nat) /\ Len(rows') = 0 /\ DOMAIN rows' = {}
    BY <2>1
  <2>6. ~layoutPending' /\ layoutPending' \in BOOLEAN /\ spinner' \in BOOLEAN
    BY <2>1 DEF SubwayInv, TableInv
  <2>7. Len(rows') <= sections'
    BY <2>2, <2>5
  <2> QED BY <2>1, <2>2, <2>3, <2>4, <2>5, <2>6, <2>7 DEF TableInv
<1> QED BY <1>1, <1>2 DEF SubwayInv

\* The layout goes on with the rows of its next section.
LEMMA NumberOfRowsInSectionStep ==
    ASSUME SubwayInv, NumberOfRowsInSection
    PROVE  SubwayInv'
<1>1. LoadsInv' /\ ListTyped' /\ NothingToList' /\ ListInv' /\ FreshInv'
  <2>1. reloads' \in Nat /\ reloads' <= reloads
    BY DEF NumberOfRowsInSection, SubwayInv, LoadsInv
  <2> QED BY <2>1, MainKeepsLoads DEF NumberOfRowsInSection
<1> DEFINE section == Len(rows) + 1
           wrong == section > Len(orderedLetters)
<1>2. /\ layoutPending' = layoutPending /\ spinner' = spinner /\ sections' = sections
      /\ UNCHANGED <<loadVars, listVars, reloads, overlapped>>
      /\ InLayout
      /\ crashed' \in Crashes(wrong, Load)
      /\ rows' = IF wrong THEN rows ELSE Append(rows, SubwaysCount(section))
  BY DEF NumberOfRowsInSection, historyVars
<1>3. /\ rows \in Seq(Nat) /\ sections \in Nat /\ Len(rows) \in Nat /\ Len(rows) < sections
      /\ ~layoutPending
  BY <1>2 DEF SubwayInv, TableInv, InLayout
<1>4. Quiet' <=> Quiet
  BY <1>2 DEF Quiet, Active, loadVars
<1>5. \A i : SubwaysCount(i)' = SubwaysCount(i)
  BY <1>2 DEF SubwaysCount, listVars
<1>6. ~wrong => SubwaysCount(section) \in Nat
  <2>1. \A a \in DOMAIN subwaysByLetter : Len(subwaysByLetter[a]) \in Nat
    BY DEF SubwayInv, ListTyped
  <2> QED BY <2>1 DEF SubwaysCount
<1>7. rows' \in Seq(Nat) /\ Len(rows') <= sections
  <2> HIDE DEF section, wrong
  <2> QED BY <1>2, <1>3, <1>6
<1>8. ~overlapped /\ Quiet /\ reloads = 0 =>
         /\ sections = Cardinality(DOMAIN subwaysByLetter)
         /\ \A i \in DOMAIN rows : rows[i] = SubwaysCount(i)
         /\ ~wrong
  <2> SUFFICES ASSUME ~overlapped, Quiet, reloads = 0
               PROVE  /\ sections = Cardinality(DOMAIN subwaysByLetter)
                      /\ \A i \in DOMAIN rows : rows[i] = SubwaysCount(i)
                      /\ ~wrong
    OBVIOUS
  <2>1. /\ sections = Cardinality(DOMAIN subwaysByLetter)
        /\ \A i \in DOMAIN rows : rows[i] = SubwaysCount(i)
    BY <1>3 DEF SubwayInv, TableInv
  <2>2. Len(orderedLetters) = sections
    BY <2>1, SettledList
  <2> QED BY <1>3, <2>1, <2>2
<1>9. crashed' \in BOOLEAN /\ (crashed' => ~Quiet \/ wrong)
  <2>1. CASE wrong
    BY <1>2, <2>1 DEF Crashes
  <2>2. CASE ~wrong
    <3>1. crashed' \in Crashes(FALSE, Load)
      BY <1>2, <2>2 DEF Crashes
    <3>2. crashed' \in BOOLEAN /\ (crashed' => \E m \in Load : Active(m))
      <4> HIDE DEF wrong
      <4> QED BY <3>1, CrashOutcome
    <3> QED BY <3>2 DEF Quiet
  <2> QED BY <2>1, <2>2
<1>10. crashed' => ~Quiet' \/ reloads' > 0 \/ overlapped'
  <2>1. reloads \in Nat
    BY DEF SubwayInv, LoadsInv
  <2> HIDE DEF wrong
  <2> QED BY <1>2, <1>4, <1>8, <1>9, <2>1
<1>11. ~overlapped' /\ Quiet' /\ reloads' = 0 =>
          /\ sections' = Cardinality(DOMAIN subwaysByLetter')
          /\ \A i \in DOMAIN rows' : rows'[i] = SubwaysCount(i)'
  <2> SUFFICES ASSUME ~overlapped, Quiet, reloads = 0
               PROVE  /\ sections' = Cardinality(DOMAIN subwaysByLetter')
                      /\ \A i \in DOMAIN rows' : rows'[i] = SubwaysCount(i)'
    BY <1>2, <1>4
  <2>1. rows' = Append(rows, SubwaysCount(section)) /\ SubwaysCount(section) \in Nat
    BY <1>2, <1>6, <1>8
  <2>2. ASSUME NEW i \in DOMAIN rows'
        PROVE  rows'[i] = SubwaysCount(i)
    <3>1. \/ i \in DOMAIN rows /\ rows'[i] = rows[i]
          \/ i = section /\ rows'[i] = SubwaysCount(section)
      <4> DEFINE count == SubwaysCount(section)
      <4>1. rows' = Append(rows, count) /\ count \in Nat
        BY <2>1
      <4> HIDE DEF count
      <4>2. /\ DOMAIN rows' = 1..Len(rows) + 1 /\ DOMAIN rows = 1..Len(rows)
            /\ \A k \in 1..Len(rows) : rows'[k] = rows[k]
            /\ rows'[Len(rows) + 1] = count
        BY <1>3, <4>1
      <4>3. i \in 1..Len(rows) \/ i = Len(rows) + 1
        BY <1>3, <4>2
      <4> QED BY <4>2, <4>3 DEF count
    <3> QED BY <1>8, <3>1
  <2> QED BY <1>2, <1>5, <1>8, <2>2 DEF listVars
<1>12. TableInv'
  <2>1. layoutPending' \in BOOLEAN /\ spinner' \in BOOLEAN /\ sections' \in Nat
        /\ ~layoutPending'
    BY <1>2, <1>3 DEF SubwayInv, TableInv
  <2> QED BY <1>2, <1>7, <1>9, <1>10, <1>11, <2>1 DEF TableInv
<1> QED BY <1>1, <1>12 DEF SubwayInv

\* A scrolled row may be gone while a load rebuilds the list; nothing changes.
LEMMA CellForRowStep ==
    ASSUME SubwayInv, CellForRow
    PROVE  SubwayInv'
<1>1. LoadsInv' /\ ListTyped' /\ NothingToList' /\ ListInv' /\ FreshInv'
  <2>1. reloads' \in Nat /\ reloads' <= reloads
    BY DEF CellForRow, SubwayInv, LoadsInv, tableVars
  <2> QED BY <2>1, MainKeepsLoads DEF CellForRow
<1>2. PICK section \in DOMAIN rows : \E row \in 1..rows[section] :
          crashed' \in Crashes(\/ section > Len(orderedLetters)
                               \/ row > SubwaysCount(section), Load)
  BY DEF CellForRow
<1>3. PICK row \in 1..rows[section] :
          crashed' \in Crashes(\/ section > Len(orderedLetters)
                               \/ row > SubwaysCount(section), Load)
  BY <1>2
<1> DEFINE wrong == section > Len(orderedLetters) \/ row > SubwaysCount(section)
<1>4. /\ UNCHANGED <<loadVars, listVars, tableVars, overlapped>>
      /\ ~layoutPending
  BY DEF CellForRow, historyVars
<1>5. Quiet' <=> Quiet
  BY <1>4 DEF Quiet, Active, loadVars
<1>6. wrong => ~Quiet \/ reloads > 0 \/ overlapped
  <2> SUFFICES ASSUME Quiet, ~overlapped, reloads = 0 PROVE ~wrong
    BY DEF SubwayInv, LoadsInv
  <2>1. /\ sections = Cardinality(DOMAIN subwaysByLetter)
        /\ rows[section] = SubwaysCount(section)
    BY <1>4 DEF SubwayInv, TableInv
  <2>2. Len(orderedLetters) = sections
    BY <2>1, SettledList
  <2>3. section \in 1..Len(rows) /\ Len(rows) <= sections /\ sections \in Nat /\ Len(rows) \in Nat
        /\ rows[section] \in Nat
    BY DEF SubwayInv, TableInv
  <2>4. row <= SubwaysCount(section) /\ row \in Nat /\ SubwaysCount(section) \in Nat
    BY <1>3, <2>1, <2>3
  <2> QED BY <2>2, <2>3, <2>4
<1>7. crashed' \in BOOLEAN /\ (crashed' => ~Quiet \/ wrong)
  <2>1. CASE wrong
    BY <1>3, <2>1 DEF Crashes
  <2>2. CASE ~wrong
    <3>1. crashed' \in Crashes(FALSE, Load)
      BY <1>3, <2>2 DEF Crashes
    <3>2. crashed' \in BOOLEAN /\ (crashed' => \E m \in Load : Active(m))
      <4> HIDE DEF wrong
      <4> QED BY <3>1, CrashOutcome
    <3> QED BY <3>2 DEF Quiet
  <2> QED BY <2>1, <2>2
<1>8. TableInv'
  <2> HIDE DEF wrong
  <2> QED BY <1>4, <1>5, <1>6, <1>7
          DEF SubwayInv, TableInv, InLayout, SubwaysCount, listVars, tableVars
<1> QED BY <1>1, <1>8 DEF SubwayInv

\* Every step keeps the invariant.
LEMMA StepHolds == SubwayInv /\ [SubwaysNext]_subwaysVars => SubwayInv'
<1> SUFFICES ASSUME SubwayInv, [SubwaysNext]_subwaysVars PROVE SubwayInv'
  OBVIOUS
<1>1. CASE StoreStation
  BY <1>1, StoreStationStep
<1>2. CASE HandleRefresh
  BY <1>2, LoadSubwaysStep DEF HandleRefresh, SubwayInv, LoadsInv
<1>3. CASE FiltersWillDisappear
  <2>1. passing' \subseteq Station /\ stale' \in {stale, TRUE} /\ LoadSubways
    BY <1>3 DEF FiltersWillDisappear
  <2> QED BY <2>1, LoadSubwaysStep
<1>4. ASSUME NEW n \in Load, Step(n) PROVE SubwayInv'
  BY <1>4, FindsNothingStoredStep, LoadFromRealmStep, ClearSubwaysStep,
     ClearLettersStep, EmptyLetterStep, SortLettersStep, AppendSubwayStep,
     EndLoopStep, CompleteStep DEF Step
<1>5. ASSUME ~crashed, Main PROVE SubwayInv'
  BY <1>5, RunReloadStep, NumberOfSectionsStep, NumberOfRowsInSectionStep DEF Main
<1>6. CASE CellForRow
  BY <1>6, CellForRowStep
<1>7. CASE UNCHANGED subwaysVars
  <2>1. LoadsInv' /\ ListTyped' /\ NothingToList' /\ ListInv' /\ FreshInv'
    <3>1. reloads' \in Nat /\ reloads' <= reloads
      BY <1>7 DEF subwaysVars, tableVars, SubwayInv, LoadsInv
    <3> QED BY <1>7, <3>1, MainKeepsLoads DEF subwaysVars
  <2>2. TableInv'
    BY <1>7 DEF subwaysVars, SubwayInv, TableInv, InLayout, SubwaysCount, Quiet, Active,
                loadVars, listVars, tableVars, historyVars
  <2> QED BY <2>1, <2>2 DEF SubwayInv
<1> QED BY <1>1, <1>2, <1>3, <1>4, <1>5, <1>6, <1>7 DEF SubwaysNext

\* The inductive invariant of the subway list.
THEOREM Invariant == SubwaysSpec => []SubwayInv
BY InitHolds, StepHolds, PTL DEF SubwaysSpec

-----------------------------------------------------------------------------
\* What a load leaves behind that no other interfered with: every station once,
\* under its letter, the letters sorted (SubwayListPresenter.swift:43-60).
THEOREM ListIsGrouped == SubwaysSpec => []ListIsGroupedUnlessOverlapped
<1>1. SubwayInv => ListIsGroupedUnlessOverlapped
  <2> SUFFICES ASSUME SubwayInv, Quiet, ~overlapped
               PROVE  /\ orderedLetters \in Sorted(DOMAIN subwaysByLetter)
                      /\ \A a \in DOMAIN subwaysByLetter :
                            /\ subwaysByLetter[a] # <<>>
                            /\ \A i \in DOMAIN subwaysByLetter[a] :
                                  LetterOf[subwaysByLetter[a][i]] = a
                            /\ \A i, j \in DOMAIN subwaysByLetter[a] :
                                  i < j => subwaysByLetter[a][i] < subwaysByLetter[a][j]
    BY DEF ListIsGroupedUnlessOverlapped
  <2>1. orderedLetters \in Sorted(DOMAIN subwaysByLetter)
    BY SettledList
  <2>2. ASSUME NEW a \in DOMAIN subwaysByLetter
        PROVE  /\ subwaysByLetter[a] # <<>>
               /\ \A i \in DOMAIN subwaysByLetter[a] :
                     LetterOf[subwaysByLetter[a][i]] = a
               /\ \A i, j \in DOMAIN subwaysByLetter[a] :
                     i < j => subwaysByLetter[a][i] < subwaysByLetter[a][j]
    <3>1. loads > 0 /\ Grouped(loads, Len(found[loads]))
      BY SettledList DEF NoSubways
    <3>2. PICK j \in 1..Len(found[loads]) : a = LetterOf[found[loads][j]]
      BY <3>1 DEF Grouped, LettersFound
    <3>3. found[loads][j] \in Range(subwaysByLetter[a])
      BY <3>1, <3>2 DEF Grouped
    <3>4. subwaysByLetter[a] # <<>>
      BY <3>3 DEF Range
    <3>5. ASSUME NEW i \in DOMAIN subwaysByLetter[a]
          PROVE  LetterOf[subwaysByLetter[a][i]] = a
      <4>1. subwaysByLetter[a][i] \in Range(subwaysByLetter[a])
        BY DEF Range
      <4> QED BY <3>1, <4>1 DEF Grouped
    <3> QED BY <3>1, <3>4, <3>5 DEF Grouped
  <2> QED BY <2>1, <2>2
<1> QED BY <1>1, Invariant, PTL

\* The app crashes only while a load is active or its reload waits, unless two
\* loads have left the list in pieces; the variables keep their types.
THEOREM CrashesOnlyWhileLoading == SubwaysSpec => []CrashOnlyWhileLoading
<1>1. SubwayInv => CrashOnlyWhileLoading
  <2> SUFFICES ASSUME SubwayInv PROVE SubwaysTypeOK
    BY DEF SubwayInv, TableInv, CrashOnlyWhileLoading
  <2>1. \A n \in Load : position[n] \in 0..Len(found[n])
    <3>1. \A n \in Load : Len(found[n]) \in Nat /\ position[n] \in Nat
      BY DEF SubwayInv, LoadsInv
    <3> QED BY <3>1 DEF SubwayInv, LoadsInv
  <2>2. reloads \in 0..MaxLoads
    <3>1. IsFiniteSet(Load) /\ Cardinality(Load) = MaxLoads
      BY MaxLoadsAssumption, FS_Interval DEF Load
    <3>2. {n \in Load : phase[n] = "ended"} \subseteq Load
      OBVIOUS
    <3>3. /\ Cardinality({n \in Load : phase[n] = "ended"}) <= MaxLoads
          /\ Cardinality({n \in Load : phase[n] = "ended"}) \in Nat
      BY <3>1, <3>2, FS_Subset, FS_CardinalityType
    <3> QED BY <3>3, MaxLoadsAssumption DEF SubwayInv, LoadsInv
  <2> QED BY <2>1, <2>2 DEF SubwayInv, LoadsInv, ListTyped, TableInv, SubwaysTypeOK
<1> QED BY <1>1, Invariant, PTL

\* A list without repetitions is as long as its elements are many.
LEMMA LengthOfAscending ==
    ASSUME NEW S \in SUBSET Nat, NEW s \in Seq(S),
           \A i, j \in DOMAIN s : i < j => s[i] < s[j]
    PROVE  Len(s) = Cardinality(Range(s))
<1>1. s \in Bijection(1..Len(s), Range(s))
  <2>1. \A i, j \in 1..Len(s) : s[i] = s[j] => i = j
    <3>1. Len(s) \in Nat /\ DOMAIN s = 1..Len(s) /\ \A i \in 1..Len(s) : s[i] \in S
      OBVIOUS
    <3>2. ASSUME NEW i \in 1..Len(s), NEW j \in 1..Len(s), s[i] = s[j] PROVE i = j
      <4>1. s[i] \in Nat /\ s[j] \in Nat
        BY <3>1
      <4>2. ~(i < j) /\ ~(j < i)
        BY <3>1, <3>2, <4>1
      <4> QED BY <4>2
    <3> QED BY <3>2
  <2>2. s \in Surjection(1..Len(s), Range(s))
    BY DEF Surjection, Range
  <2> QED BY <2>1, <2>2 DEF Bijection, Injection, Surjection, IsInjective
<1>2. IsFiniteSet(1..Len(s)) /\ Cardinality(1..Len(s)) = Len(s)
  <2>1. Len(s) \in Nat
    OBVIOUS
  <2>2. 1 \in Int /\ Len(s) \in Int
    BY <2>1
  <2> QED BY <2>1, <2>2, FS_Interval
<1>3. Cardinality(Range(s)) = Cardinality(1..Len(s))
  <2>1. ExistsBijection(1..Len(s), Range(s))
    BY <1>1 DEF ExistsBijection
  <2> QED BY <1>2, <2>1, FS_Bijection
<1> QED BY <1>2, <1>3

\* Once everything has settled the table shows the stations stored that pass
\* the filters (SubwayListVC.swift:138-215).
THEOREM SettledTableIsRight == SubwaysSpec => []SettledTableShowsRealm
<1>1. SubwayInv => SettledTableShowsRealm
  <2> SUFFICES ASSUME SubwayInv, Settled, ~overlapped, ~stale
               PROVE  /\ Len(rows) = Len(orderedLetters)
                      /\ \A i \in DOMAIN rows :
                            rows[i] = Cardinality({s \in Matching :
                                                      LetterOf[s] = orderedLetters[i]})
                      /\ {LetterOf[s] : s \in Matching} = Range(orderedLetters)
    BY DEF SettledTableShowsRealm
  <2>1. Quiet /\ reloads = 0 /\ ~layoutPending /\ ~InLayout
    BY DEF Settled
  <2>2. /\ sections = Cardinality(DOMAIN subwaysByLetter)
        /\ \A i \in DOMAIN rows : rows[i] = SubwaysCount(i)
        /\ Len(rows) = sections /\ DOMAIN rows = 1..Len(rows)
    BY <2>1 DEF SubwayInv, TableInv, InLayout
  <2>3. /\ Len(orderedLetters) = Cardinality(DOMAIN subwaysByLetter)
        /\ Range(orderedLetters) = DOMAIN subwaysByLetter
    BY <2>1, SettledList
  <2>4. /\ \A a \in DOMAIN subwaysByLetter :
              Len(subwaysByLetter[a]) = Cardinality({s \in Matching : LetterOf[s] = a})
        /\ {LetterOf[s] : s \in Matching} = DOMAIN subwaysByLetter
    <3>1. CASE loads = 0
      <4>1. Matching = {}
        BY <3>1 DEF SubwayInv, FreshInv, Matching
      <4>2. DOMAIN subwaysByLetter = {}
        BY <2>1, <3>1, SettledList DEF NoSubways
      <4> QED BY <4>1, <4>2
    <3>2. CASE loads > 0
      <4>1. Grouped(loads, Len(found[loads])) /\ loads \in Load /\ phase[loads] = "ended"
        <5>1. loads \in Load
          BY <3>2, MaxLoadsAssumption DEF SubwayInv, LoadsInv, Load
        <5> QED BY <2>1, <3>2, <5>1, SettledList DEF SubwayInv, LoadsInv, Quiet, Active
      <4>2. Range(found[loads]) = Matching /\ DOMAIN found[loads] = 1..Len(found[loads])
        BY <3>2, <4>1 DEF SubwayInv, FreshInv, LoadsInv, Sorted
      <4>3. \A s : s \in Matching <=> \E j \in 1..Len(found[loads]) : s = found[loads][j]
        BY <4>2 DEF Range
      <4>4. ASSUME NEW a \in DOMAIN subwaysByLetter
            PROVE  Len(subwaysByLetter[a]) = Cardinality({s \in Matching : LetterOf[s] = a})
        <5>1. Range(subwaysByLetter[a]) = {s \in Matching : LetterOf[s] = a}
          BY <4>1, <4>3 DEF Grouped
        <5>2. /\ subwaysByLetter[a] \in Seq(Station) /\ Station \in SUBSET Nat
              /\ \A i, j \in DOMAIN subwaysByLetter[a] :
                    i < j => subwaysByLetter[a][i] < subwaysByLetter[a][j]
          BY <4>1, LetterOfAssumption DEF SubwayInv, ListTyped, Grouped, Station
        <5> QED BY <5>1, <5>2, LengthOfAscending
      <4>5. {LetterOf[s] : s \in Matching} = DOMAIN subwaysByLetter
        BY <4>1, <4>3 DEF Grouped, LettersFound
      <4> QED BY <4>4, <4>5
    <3>3. loads \in 0..MaxLoads
      BY DEF SubwayInv, LoadsInv
    <3> QED BY <3>1, <3>2, <3>3, MaxLoadsAssumption
  <2>5. ASSUME NEW i \in DOMAIN rows
        PROVE  rows[i] = Cardinality({s \in Matching : LetterOf[s] = orderedLetters[i]})
    <3>1. i \in DOMAIN orderedLetters
      BY <2>2, <2>3 DEF SubwayInv, ListTyped
    <3>2. orderedLetters[i] \in DOMAIN subwaysByLetter
      BY <2>3, <3>1 DEF Range
    <3> QED BY <2>2, <2>4, <3>2 DEF SubwaysCount
  <2> QED BY <2>2, <2>3, <2>4, <2>5
<1> QED BY <1>1, Invariant, PTL
=============================================================================
