---------------------- MODULE TransactionPipelineProofs ----------------------
(***************************************************************************)
(* Proofs about TransactionPipeline, for any number of downloads and any   *)
(* number of transactions.                                                 *)
(*                                                                         *)
(* Every step of the pipeline is a step of AsyncOperation or leaves the    *)
(* operations alone, so that what is proved of AsyncOperation holds here.  *)
(* From its StartedAfterDependencies comes the invariant of the pipeline:  *)
(* once the write operation is in main(), the load operation was seen      *)
(* finished, and what is left of its callback can only bring nil again     *)
(* (LoadInv).  The list that is written is therefore final, and the rows   *)
(* committed can be compared with it (WriteInv).                           *)
(***************************************************************************)
EXTENDS TransactionPipeline, SequenceTheorems, TLAPS

AP == INSTANCE AsyncOperationProofs
        WITH Op <- Operation, Dependencies <- OperationDependencies

-----------------------------------------------------------------------------
\* The two instances of AsyncOperation, with and without its theorems, agree.
LEMMA SameOperations ==
    /\ A!TypeOK <=> AP!TypeOK
    /\ A!StartedAfterDependencies <=> AP!StartedAfterDependencies
    /\ A!FinishedIsSeen <=> AP!FinishedIsSeen
    /\ A!Spec <=> AP!Spec
<1>1. A!TypeOK <=> AP!TypeOK
  BY DEF A!TypeOK, AP!TypeOK, A!State, AP!State, A!Thread, AP!Thread, A!Caller, AP!Caller
<1>2. A!StartedAfterDependencies <=> AP!StartedAfterDependencies
  BY DEF A!StartedAfterDependencies, AP!StartedAfterDependencies
<1>3. A!Init <=> AP!Init
  BY DEF A!Init, AP!Init
<1>4. A!Next <=> AP!Next
  BY DEF A!Next, AP!Next, A!Dispatch, AP!Dispatch, A!IsReady, AP!IsReady,
         A!SuperIsReady, AP!SuperIsReady, A!StartCancelled, AP!StartCancelled,
         A!StartMain, AP!StartMain, A!FinishInMain, AP!FinishInMain,
         A!ReturnFromMain, AP!ReturnFromMain, A!FinishInCallback,
         AP!FinishInCallback, A!Cancel, AP!Cancel, A!FinishCancel,
         AP!FinishCancel, A!DidSet, AP!DidSet,
         A!SetState, AP!SetState, A!IsFinished, AP!IsFinished, A!Caller, AP!Caller
<1>5. [A!Next]_(A!opVars) <=> [AP!Next]_(AP!opVars)
  BY <1>4 DEF A!opVars, AP!opVars
<1>6. A!Spec <=> AP!Spec
  BY <1>3, <1>5, PTL DEF A!Spec, AP!Spec
<1>7. A!FinishedIsSeen <=> AP!FinishedIsSeen
  BY DEF A!FinishedIsSeen, AP!FinishedIsSeen, A!IsFinished, AP!IsFinished,
         A!Caller, AP!Caller
<1> QED BY <1>1, <1>2, <1>6, <1>7

\* The operations of a provider, and what depends on what.
LEMMA Operations ==
    /\ OperationDependencies \in [Operation -> SUBSET Operation]
    /\ \A p \in Provider :
          /\ Load(p) \in Operation /\ Load(p)[1] = p /\ Load(p)[2] = "load"
          /\ Write(p) \in Operation /\ Write(p)[1] = p /\ Write(p)[2] = "write"
          /\ OperationDependencies[Write(p)] = {Load(p)}
    /\ \A p, q \in Provider :
          /\ Load(p) # Write(q)
          /\ Load(p) = Load(q) => p = q
          /\ Write(p) = Write(q) => p = q
    /\ \A op \in Operation : \E p \in Provider : op = Load(p) \/ op = Write(p)
<1>1. ASSUME NEW p \in Provider
      PROVE  /\ Load(p) \in Operation /\ Load(p)[1] = p /\ Load(p)[2] = "load"
             /\ Write(p) \in Operation /\ Write(p)[1] = p /\ Write(p)[2] = "write"
  BY DEF Operation, Load, Write
<1>2. ASSUME NEW op \in Operation
      PROVE  op[1] \in Provider /\ (op = Load(op[1]) \/ op = Write(op[1]))
  BY DEF Operation, Load, Write
<1>3. OperationDependencies \in [Operation -> SUBSET Operation]
  BY <1>1, <1>2 DEF OperationDependencies
<1>4. ASSUME NEW p \in Provider PROVE OperationDependencies[Write(p)] = {Load(p)}
  BY <1>1 DEF OperationDependencies
<1>5. ASSUME NEW p \in Provider, NEW q \in Provider
      PROVE  /\ Load(p) # Write(q)
             /\ Load(p) = Load(q) => p = q
             /\ Write(p) = Write(q) => p = q
  BY <1>1
<1> QED BY <1>1, <1>2, <1>3, <1>4, <1>5

-----------------------------------------------------------------------------
\* Every step of the pipeline is one that AsyncOperation allows, or none.
LEMMA OperationStep == [Next]_vars => [A!Next]_(A!opVars)
<1> SUFFICES ASSUME [Next]_vars PROVE [A!Next]_(A!opVars)
  OBVIOUS
<1>1. CASE UNCHANGED vars
  BY <1>1 DEF vars, opVars, A!opVars
<1>2. ASSUME NEW p \in Provider, CreateProvider(p) \/ NetworkAnswers(p)
      PROVE  UNCHANGED opVars
  BY <1>2 DEF CreateProvider, NetworkAnswers
<1>3. ASSUME NEW p \in Provider, LoadStep(p)
      PROVE  A!Next \/ UNCHANGED opVars
  BY <1>3, Operations DEF LoadStep, LoadMain, LoadReturns, LoadCallback,
         LoadCallbackCancelled, A!Next
<1>4. ASSUME NEW p \in Provider, WriteStep(p)
      PROVE  A!Next \/ UNCHANGED opVars
  BY <1>4, Operations DEF WriteStep, WriteChecksCancelled, WriteFindsNothing,
         WriteOpensRealm, WriteRow, WriteSucceeds, WriteFinishes, WriteReturns, A!Next
<1>5. ASSUME NEW op \in Operation, QueueStep(op) \/ PostStep(op) \/ CancelStep(op)
      PROVE  A!Next
  BY <1>5 DEF QueueStep, PostStep, Dispatch, StartCancelled, StartMain, DidSet,
              CancelStep, Cancel, FinishCancel, A!Next
<1> QED BY <1>1, <1>2, <1>3, <1>4, <1>5 DEF Next, opVars, A!opVars

\* The pipeline uses its operations only as AsyncOperation lets them be used
\* (LoadTransactionsAndWriteInRealm.swift:15-27, AsyncOperation.swift).
THEOREM ImplementsOperation == Spec => ImplementsAsyncOperation
<1>1. Init => A!Init
  BY DEF Init
<1> QED BY <1>1, OperationStep, PTL DEF Spec, ImplementsAsyncOperation, A!Spec

\* What AsyncOperation promises holds in the pipeline.
OperationInv == A!TypeOK /\ A!StartedAfterDependencies

LEMMA OperationsHold == Spec => []OperationInv
<1>1. AP!Spec => []AP!TypeOK
  BY AP!TypeCorrect, Operations
<1>2. AP!Spec => []AP!StartedAfterDependencies
  BY AP!DependenciesRespected, Operations
<1>3. AP!TypeOK /\ AP!StartedAfterDependencies => OperationInv
  BY SameOperations DEF OperationInv
<1> QED BY <1>1, <1>2, <1>3, SameOperations, ImplementsOperation, PTL
           DEF ImplementsAsyncOperation

-----------------------------------------------------------------------------
DataTypeOK ==
    /\ created \subseteq Provider
    /\ request \in [Provider -> {"none", "skipped", "sent", "answered"}]
    /\ calls \in [Provider -> Seq(List \cup {NoList})]
    /\ output \in [Provider -> List \cup {NoList}]
    /\ writer \in [Provider -> {"idle", "reading", "writing",
                                "finishing", "finished"}]
    /\ rows \in [Provider -> List]
    /\ results \in [Provider -> Seq(Result)]
    /\ overwrote \subseteq Provider

\* A load that is over was cancelled or answered, and its callback has at
\* most a second run with nil before it.
LoadInv(p) ==
    /\ calls[p] \in {<<>>} \cup Answer
    /\ request[p] # "answered" => calls[p] = <<>>
    /\ state[Load(p)] = "finished" \/ Load(p) \in cleared =>
          \/ cancelled[Load(p)]
          \/ request[p] = "answered" /\ calls[p] \in {<<>>, <<NoList>>}

WriteInv(p) ==
    /\ writer[p] # "idle" => thread[Write(p)] # "queued" /\ Load(p) \in cleared
    /\ writer[p] \in {"idle", "reading"} => rows[p] = 0
    /\ writer[p] = "writing" => output[p] # NoList /\ rows[p] <= output[p]
    /\ writer[p] = "idle" => results[p] = <<>>
    /\ writer[p] \in {"reading", "writing"} =>
          \A r \in Reported(p) : r.kind = "operationIsCancelled"

OperationsInv ==
    \A op \in Operation :
        /\ thread[op] # "queued" => op[1] \in created
        /\ cancelled[op] => op[1] \in Cancelable

PipelineInv ==
    /\ DataTypeOK
    /\ OperationsInv
    /\ \A p \in Provider : LoadInv(p) /\ WriteInv(p) /\ OutcomeMatches(p)

\* What a step may do to the operations without touching LoadInv: it neither
\* takes back a cancellation or a thread, nor finishes a load on its own.
OperationsKept ==
    /\ OperationsInv'
    /\ \A op \in Operation :
          /\ cancelled[op] => cancelled'[op]
          /\ thread[op] # "queued" => thread'[op] # "queued"
          /\ op \in cleared => op \in cleared'
    /\ \A p \in Provider :
          state'[Load(p)] = "finished" \/ Load(p) \in cleared' =>
             state[Load(p)] = "finished" \/ Load(p) \in cleared \/ cancelled'[Load(p)]

-----------------------------------------------------------------------------
\* nil is no list.
LEMMA NoListIsNone == List \subseteq Nat /\ NoList \notin List
BY MaxRowsAssumption, NoListAssumption DEF List

\* One more result is reported, and those before it stay.
LEMMA CompleteReports ==
    ASSUME DataTypeOK, NEW p \in Provider, NEW result \in Result,
           Complete(p, result)
    PROVE  /\ results' \in [Provider -> Seq(Result)]
           /\ \A q \in Provider \ {p} : results'[q] = results[q]
           /\ results'[p] = Append(results[p], result)
           /\ Reported(p)' = Reported(p) \cup {result}
<1>1. results[p] \in Seq(Result)
  BY DEF DataTypeOK
<1>2. /\ results' \in [Provider -> Seq(Result)]
      /\ \A q \in Provider \ {p} : results'[q] = results[q]
      /\ results'[p] = Append(results[p], result)
  BY <1>1, AppendProperties DEF Complete, DataTypeOK
<1>3. /\ Len(results[p]) \in Nat
      /\ DOMAIN results[p] = 1..Len(results[p])
      /\ DOMAIN results'[p] = 1..Len(results[p]) + 1
      /\ \A i \in 1..Len(results[p]) : results'[p][i] = results[p][i]
      /\ results'[p][Len(results[p]) + 1] = result
  BY <1>1, <1>2, AppendProperties, LenProperties
<1>4. Reported(p)' \subseteq Reported(p) \cup {result}
  <2> SUFFICES ASSUME NEW i \in 1..Len(results[p]) + 1
               PROVE  results'[p][i] \in Reported(p) \cup {result}
    BY <1>3 DEF Reported
  <2>1. CASE i = Len(results[p]) + 1
    BY <2>1, <1>3
  <2>2. CASE i \in 1..Len(results[p])
    BY <2>2, <1>3 DEF Reported
  <2> QED BY <1>3, <2>1, <2>2
<1>5. Reported(p) \subseteq Reported(p)'
  <2> SUFFICES ASSUME NEW i \in 1..Len(results[p])
               PROVE  results[p][i] \in Reported(p)'
    BY <1>3 DEF Reported
  <2>1. i \in DOMAIN results'[p] /\ results'[p][i] = results[p][i]
    BY <1>3
  <2> QED BY <2>1 DEF Reported
<1>6. result \in Reported(p)'
  <2> DEFINE last == Len(results[p]) + 1
  <2>1. last \in DOMAIN results'[p] /\ results'[p][last] = result
    BY <1>3
  <2> HIDE DEF last
  <2> QED BY <2>1 DEF Reported
<1> QED BY <1>2, <1>4, <1>5, <1>6

\* Steps that only move the operations on.
LEMMA QuietStep ==
    ASSUME PipelineInv, OperationsKept, created \subseteq created',
           created' \subseteq Provider, UNCHANGED <<loadVars, writeVars>>
    PROVE  PipelineInv'
<1>1. DataTypeOK'
  BY DEF PipelineInv, DataTypeOK, loadVars, writeVars
<1>2. ASSUME NEW p \in Provider PROVE LoadInv(p)'
  BY Operations DEF PipelineInv, LoadInv, OperationsKept, loadVars, Answer
<1>3. ASSUME NEW p \in Provider PROVE WriteInv(p)' /\ OutcomeMatches(p)'
  <2>1. UNCHANGED <<writer, rows, results, output>> /\ Reported(p)' = Reported(p)
    BY DEF loadVars, writeVars, Reported
  <2> QED BY <2>1, Operations DEF PipelineInv, WriteInv, OutcomeMatches, OperationsKept
<1> QED BY <1>1, <1>2, <1>3 DEF PipelineInv, OperationsKept

-----------------------------------------------------------------------------
\* Nothing happens to the operations.
LEMMA KeptUnchanged ==
    ASSUME PipelineInv, UNCHANGED opVars, created \subseteq created'
    PROVE  OperationsKept
BY DEF PipelineInv, OperationsInv, OperationsKept, opVars

\* A thread moves on without an assignment to state.
LEMMA KeptByThread ==
    ASSUME PipelineInv, A!TypeOK, NEW op \in Operation, op[1] \in created,
           A!Dispatch(op) \/ A!StartMain(op), created' = created
    PROVE  OperationsKept
<1>1. UNCHANGED <<state, cancelled, cleared>>
  BY DEF A!Dispatch, A!StartMain
<1>2. /\ thread'[op] # "queued"
      /\ \A other \in Operation \ {op} : thread'[other] = thread[other]
  BY DEF A!Dispatch, A!StartMain, A!TypeOK
<1> QED BY <1>1, <1>2 DEF PipelineInv, OperationsInv, OperationsKept

\* start() or main() assigns state; if .finished, the operation is cancelled
\* or is a write operation.
LEMMA KeptByAssignment ==
    ASSUME PipelineInv, A!TypeOK, NEW op \in Operation, created' = created,
           \/ A!StartCancelled(op)
           \/ A!ReturnFromMain(op)
           \/ A!FinishInMain(op) /\ \E p \in Provider : op = Write(p)
    PROVE  OperationsKept
<1>1. UNCHANGED <<cancelled, cleared>> /\ thread[op] # "queued"
  BY DEF A!StartCancelled, A!ReturnFromMain, A!FinishInMain
<1>2. /\ thread'[op] # "queued"
      /\ \A other \in Operation \ {op} : thread'[other] = thread[other]
                                         /\ state'[other] = state[other]
  BY <1>1 DEF A!StartCancelled, A!ReturnFromMain, A!FinishInMain, A!SetState, A!TypeOK
<1>3. ASSUME NEW p \in Provider, op = Load(p), state'[op] = "finished"
      PROVE  cancelled[op]
  BY <1>3, Operations DEF A!StartCancelled, A!ReturnFromMain, A!FinishInMain,
                          A!SetState, A!TypeOK
<1> QED BY <1>1, <1>2, <1>3, Operations DEF PipelineInv, OperationsInv, OperationsKept

\* didSet: the queue sees finished what is.
LEMMA KeptByDidSet ==
    ASSUME PipelineInv, A!TypeOK, NEW op \in Operation, NEW caller \in A!Caller,
           A!DidSet(op, caller), created' = created
    PROVE  OperationsKept
<1>1. UNCHANGED <<state, cancelled, thread>> /\ cleared \subseteq cleared'
  BY DEF A!DidSet
<1>2. \A other \in cleared' : other \in cleared \/ state[other] = "finished"
  BY DEF A!DidSet, A!IsFinished
<1> QED BY <1>1, <1>2 DEF PipelineInv, OperationsInv, OperationsKept

\* cancel() finishes the operation it cancels.
LEMMA KeptByCancel ==
    ASSUME PipelineInv, A!TypeOK, NEW op \in Operation, op[1] \in Cancelable,
           A!Cancel(op) \/ A!FinishCancel(op), created' = created
    PROVE  OperationsKept
<1>1. UNCHANGED <<thread, cleared>>
  BY DEF A!Cancel, A!FinishCancel
<1>2. /\ cancelled'[op]
      /\ \A other \in Operation \ {op} : cancelled'[other] = cancelled[other]
  BY DEF A!Cancel, A!FinishCancel, A!TypeOK
<1>3. \A other \in Operation \ {op} : state'[other] = state[other]
  BY DEF A!Cancel, A!FinishCancel, A!SetState, A!TypeOK
<1> QED BY <1>1, <1>2, <1>3, Operations DEF PipelineInv, OperationsInv, OperationsKept

\* The steps of the queue, of cancel() and of the two returns.
LEMMA QueueKeeps ==
    ASSUME PipelineInv, A!TypeOK,
           \/ \E op \in Operation : QueueStep(op) \/ PostStep(op) \/ CancelStep(op)
           \/ \E p \in Provider : CreateProvider(p) \/ WriteReturns(p)
           \/ UNCHANGED vars
    PROVE  PipelineInv'
<1>1. ASSUME NEW op \in Operation, QueueStep(op)
      PROVE  PipelineInv'
  <2>1. UNCHANGED <<created, loadVars, writeVars>>
    BY <1>1 DEF QueueStep, Dispatch, StartCancelled, StartMain
  <2>2. CASE Dispatch(op)
    BY <2>1, <2>2, KeptByThread, QuietStep DEF Dispatch, PipelineInv, DataTypeOK
  <2>3. CASE StartMain(op)
    <3>1. op[1] \in created
      BY <2>3 DEF StartMain, A!StartMain, PipelineInv, OperationsInv
    <3> QED BY <2>1, <2>3, <3>1, KeptByThread, QuietStep DEF StartMain, PipelineInv, DataTypeOK
  <2>4. CASE StartCancelled(op)
    BY <2>1, <2>4, KeptByAssignment, QuietStep DEF StartCancelled, PipelineInv, DataTypeOK
  <2> QED BY <1>1, <2>2, <2>3, <2>4 DEF QueueStep
<1>2. ASSUME NEW op \in Operation, NEW caller \in A!Caller, DidSet(op, caller)
      PROVE  PipelineInv'
  BY <1>2, KeptByDidSet, QuietStep DEF DidSet, PipelineInv, DataTypeOK
<1>3. ASSUME NEW op \in Operation, CancelStep(op)
      PROVE  PipelineInv'
  <2>1. op[1] \in Cancelable
    BY <1>3 DEF CancelStep, Cancel, FinishCancel, A!FinishCancel, A!TypeOK,
                PipelineInv, OperationsInv
  <2>2. /\ A!Cancel(op) \/ A!FinishCancel(op)
        /\ UNCHANGED <<created, loadVars, writeVars>>
    BY <1>3 DEF CancelStep, Cancel, FinishCancel
  <2> QED BY <2>1, <2>2, KeptByCancel, QuietStep DEF PipelineInv, DataTypeOK
<1>4. ASSUME NEW p \in Provider, CreateProvider(p)
      PROVE  PipelineInv'
  <2>1. created \subseteq created' /\ created' \subseteq Provider
    BY <1>4 DEF CreateProvider, PipelineInv, DataTypeOK
  <2> QED BY <1>4, <2>1, KeptUnchanged, QuietStep DEF CreateProvider
<1>5. ASSUME NEW p \in Provider, WriteReturns(p)
      PROVE  PipelineInv'
  BY <1>5, Operations, KeptByAssignment, QuietStep DEF WriteReturns, PipelineInv, DataTypeOK
<1>6. CASE UNCHANGED vars
  <2>1. UNCHANGED <<opVars, created, loadVars, writeVars>>
    BY <1>6 DEF vars
  <2> QED BY <2>1, KeptUnchanged, QuietStep DEF PipelineInv, DataTypeOK
<1> QED BY <1>1, <1>2, <1>3, <1>4, <1>5, <1>6 DEF PostStep

-----------------------------------------------------------------------------
\* Steps of the load operation: what the write operation has read is kept.
LEMMA WriterKept ==
    ASSUME PipelineInv, DataTypeOK', OperationsInv',
           \A q \in Provider : LoadInv(q)',
           \A op \in Operation : /\ thread[op] # "queued" => thread'[op] # "queued"
                                 /\ op \in cleared => op \in cleared',
           UNCHANGED writeVars,
           \A q \in Provider : writer[q] # "idle" => output'[q] = output[q]
    PROVE  PipelineInv'
<1>1. ASSUME NEW q \in Provider PROVE WriteInv(q)' /\ OutcomeMatches(q)'
  <2>1. UNCHANGED <<writer, rows, results>> /\ Reported(q)' = Reported(q)
    BY DEF writeVars, Reported
  <2>2. CASE writer[q] = "idle"
    <3>1. results[q] = <<>> /\ Reported(q) = {}
      BY <2>2 DEF PipelineInv, WriteInv, Reported
    <3> QED BY <2>1, <2>2, <3>1 DEF PipelineInv, WriteInv, OutcomeMatches
  <2>3. CASE writer[q] # "idle"
    BY <2>1, <2>3, Operations DEF PipelineInv, WriteInv, OutcomeMatches
  <2> QED BY <2>2, <2>3
<1> QED BY <1>1 DEF PipelineInv

\* Once the write operation is in main(), the load operation was seen
\* finished; if it was not cancelled, its callback has at most nil to bring.
LEMMA OnlyNilIsLeft ==
    ASSUME PipelineInv, OperationInv, NEW p \in Provider,
           thread[Write(p)] = "main" \/ writer[p] # "idle", ~cancelled[Load(p)]
    PROVE  calls[p] \in {<<>>, <<NoList>>}
<1>1. Load(p) \in cleared
  BY Operations DEF OperationInv, A!StartedAfterDependencies, PipelineInv, WriteInv
<1> QED BY <1>1 DEF PipelineInv, LoadInv

\* The runs of the closure: the first is taken off, the second is nil.
LEMMA RunsLeft ==
    ASSUME NEW runs \in {<<>>} \cup Answer, runs # <<>>
    PROVE  /\ Head(runs) \in List \cup {NoList}
           /\ Tail(runs) \in {<<>>, <<NoList>>}
           /\ Tail(runs) \in Seq(List \cup {NoList})
           /\ runs = <<NoList>> => Head(runs) = NoList
<1>1. ASSUME NEW list \in List \cup {NoList}
      PROVE  Head(<<list>>) = list /\ Tail(<<list>>) = <<>>
  OBVIOUS
<1>2. Head(<<NoList, NoList>>) = NoList /\ Tail(<<NoList, NoList>>) = <<NoList>>
  OBVIOUS
<1>3. CASE \E list \in List \cup {NoList} : runs = <<list>>
  BY <1>1, <1>3
<1>4. CASE runs = <<NoList, NoList>>
  BY <1>2, <1>4
<1> QED BY <1>3, <1>4 DEF Answer

\* The answers of the server are runs of the closure.
LEMMA AnswersTyped == Answer \subseteq Seq(List \cup {NoList})
<1> DEFINE S == List \cup {NoList}
<1>1. \A list \in List : <<list>> \in Seq(S)
  OBVIOUS
<1>2. <<NoList>> \in Seq(S) /\ <<NoList, NoList>> \in Seq(S)
  OBVIOUS
<1> QED BY <1>1, <1>2 DEF Answer

\* main() of the load operation sends the request or not.
LEMMA LoadMainStep ==
    ASSUME PipelineInv, NEW p \in Provider, LoadMain(p)
    PROVE  PipelineInv'
<1>1. /\ UNCHANGED <<state, cancelled, thread, cleared, created, calls, output, overwrote>>
      /\ UNCHANGED writeVars
      /\ request' \in [Provider -> {"none", "skipped", "sent", "answered"}]
      /\ request[p] = "none" /\ request'[p] # "answered"
      /\ \A q \in Provider \ {p} : request'[q] = request[q]
  BY DEF LoadMain, opVars, PipelineInv, DataTypeOK
<1>2. DataTypeOK' /\ OperationsInv'
  BY <1>1 DEF PipelineInv, DataTypeOK, OperationsInv, writeVars
<1>3. ASSUME NEW q \in Provider PROVE LoadInv(q)'
  BY <1>1 DEF PipelineInv, LoadInv, Answer
<1> QED BY <1>1, <1>2, <1>3, WriterKept

\* start() of the load operation goes on after main().
LEMMA LoadReturnsStep ==
    ASSUME PipelineInv, OperationInv, NEW p \in Provider, LoadReturns(p)
    PROVE  PipelineInv'
<1>1. UNCHANGED <<created, request, calls, output>> /\ UNCHANGED writeVars
      /\ overwrote' \subseteq Provider
  BY DEF LoadReturns, PipelineInv, DataTypeOK
<1>2. OperationsKept
  BY <1>1, Operations, KeptByAssignment DEF LoadReturns, OperationInv
<1>3. DataTypeOK' /\ OperationsInv'
  BY <1>1, <1>2 DEF PipelineInv, DataTypeOK, OperationsKept, writeVars
<1>4. ASSUME NEW q \in Provider PROVE LoadInv(q)'
  BY <1>1, <1>2, Operations DEF PipelineInv, LoadInv, OperationsKept, Answer
<1> QED BY <1>1, <1>2, <1>3, <1>4, WriterKept DEF OperationsKept

\* The main thread enters the fetcher's block.
LEMMA NetworkAnswersStep ==
    ASSUME PipelineInv, NEW p \in Provider, NetworkAnswers(p)
    PROVE  PipelineInv'
<1>1. /\ UNCHANGED <<state, cancelled, thread, cleared, created, output, overwrote>>
      /\ UNCHANGED writeVars
      /\ request' \in [Provider -> {"none", "skipped", "sent", "answered"}]
      /\ request[p] = "sent"
      /\ \A q \in Provider \ {p} : request'[q] = request[q] /\ calls'[q] = calls[q]
      /\ calls' \in [Provider -> Seq(List \cup {NoList})]
      /\ calls'[p] \in Answer
      /\ request'[p] = "answered"
  BY AnswersTyped DEF NetworkAnswers, opVars, PipelineInv, DataTypeOK
<1>2. DataTypeOK' /\ OperationsInv'
  BY <1>1 DEF PipelineInv, DataTypeOK, OperationsInv, writeVars
<1>3. ASSUME NEW q \in Provider PROVE LoadInv(q)'
  <2>1. CASE q = p
    <3>1. state[Load(p)] = "finished" \/ Load(p) \in cleared => cancelled[Load(p)]
      BY <1>1 DEF PipelineInv, LoadInv
    <3> QED BY <1>1, <2>1, <3>1 DEF LoadInv, Answer
  <2>2. CASE q # p
    BY <1>1, <2>2 DEF PipelineInv, LoadInv, Answer
  <2> QED BY <2>1, <2>2
<1> QED BY <1>1, <1>2, <1>3, WriterKept

\* One run of the closure: it finishes the operation, and replaces the list
\* only if the write operation has not begun.
LEMMA LoadCallbackStep ==
    ASSUME PipelineInv, OperationInv, NEW p \in Provider, LoadCallback(p)
    PROVE  /\ PipelineInv'
           /\ thread[Write(p)] = "main" \/ writer[p] # "idle" => output'[p] = output[p]
<1>1. /\ calls[p] # <<>> /\ calls[p] \in {<<>>} \cup Answer
      /\ request[p] = "answered" /\ ~cancelled[Load(p)]
  BY DEF LoadCallback, PipelineInv, LoadInv
<1>2. /\ calls'[p] = Tail(calls[p])
      /\ \A q \in Provider \ {p} : calls'[q] = calls[q] /\ output'[q] = output[q]
      /\ output'[p] = IF Head(calls[p]) = NoList THEN output[p] ELSE Head(calls[p])
      /\ DOMAIN calls' = Provider /\ DOMAIN output' = Provider
      /\ calls' = [calls EXCEPT ![p] = Tail(@)]
  BY DEF LoadCallback, PipelineInv, DataTypeOK
<1>3. UNCHANGED <<cancelled, thread, cleared, created, request, overwrote>>
      /\ UNCHANGED writeVars
  BY DEF LoadCallback, A!FinishInCallback
<1>4. \A q \in Provider \ {p} : state'[Load(q)] = state[Load(q)]
  BY Operations DEF LoadCallback, A!FinishInCallback, A!SetState, OperationInv, A!TypeOK
<1>5. calls' \in [Provider -> Seq(List \cup {NoList})]
  BY <1>1, <1>2, RunsLeft DEF PipelineInv, DataTypeOK
<1>6. output' \in [Provider -> List \cup {NoList}]
  <2>1. output'[p] \in List \cup {NoList}
    BY <1>1, <1>2, RunsLeft DEF PipelineInv, DataTypeOK
  <2> QED BY <2>1 DEF LoadCallback, PipelineInv, DataTypeOK
<1>7. DataTypeOK' /\ OperationsInv'
  BY <1>3, <1>5, <1>6 DEF PipelineInv, DataTypeOK, OperationsInv, writeVars
<1>8. ASSUME NEW q \in Provider PROVE LoadInv(q)'
  <2>1. CASE q = p
    <3>1. calls'[p] \in {<<>>, <<NoList>>}
      BY <1>1, <1>2, RunsLeft
    <3> QED BY <1>1, <1>3, <2>1, <3>1 DEF LoadInv, Answer
  <2>2. CASE q # p
    BY <1>2, <1>3, <1>4, <2>2 DEF PipelineInv, LoadInv, Answer
  <2> QED BY <2>1, <2>2
<1>9. thread[Write(p)] = "main" \/ writer[p] # "idle" => output'[p] = output[p]
  <2> SUFFICES ASSUME thread[Write(p)] = "main" \/ writer[p] # "idle"
               PROVE  output'[p] = output[p]
    OBVIOUS
  <2>1. calls[p] = <<NoList>>
    BY <1>1, OnlyNilIsLeft
  <2> QED BY <1>1, <1>2, <2>1, RunsLeft
<1>10. \A q \in Provider : writer[q] # "idle" => output'[q] = output[q]
  BY <1>2, <1>9 DEF PipelineInv, WriteInv
<1> QED BY <1>3, <1>7, <1>8, <1>9, <1>10, WriterKept

\* A run of the closure after cancel() does nothing.
LEMMA LoadCallbackCancelledStep ==
    ASSUME PipelineInv, NEW p \in Provider, LoadCallbackCancelled(p)
    PROVE  PipelineInv'
<1>1. /\ UNCHANGED <<state, cancelled, thread, cleared, created, request, output, overwrote>>
      /\ UNCHANGED writeVars
      /\ calls[p] # <<>> /\ calls[p] \in {<<>>} \cup Answer
      /\ request[p] = "answered" /\ cancelled[Load(p)]
      /\ calls' = [calls EXCEPT ![p] = Tail(@)]
  BY DEF LoadCallbackCancelled, opVars, PipelineInv, LoadInv
<1>2. /\ calls'[p] \in {<<>>, <<NoList>>}
      /\ calls' \in [Provider -> Seq(List \cup {NoList})]
      /\ \A q \in Provider \ {p} : calls'[q] = calls[q]
  BY <1>1, RunsLeft DEF PipelineInv, DataTypeOK
<1>3. DataTypeOK' /\ OperationsInv'
  BY <1>1, <1>2 DEF PipelineInv, DataTypeOK, OperationsInv, writeVars
<1>4. ASSUME NEW q \in Provider PROVE LoadInv(q)'
  <2>1. CASE q = p
    BY <1>1, <1>2, <2>1 DEF LoadInv, Answer
  <2>2. CASE q # p
    BY <1>1, <1>2, <2>2 DEF PipelineInv, LoadInv, Answer
  <2> QED BY <2>1, <2>2
<1> QED BY <1>1, <1>3, <1>4, WriterKept

-----------------------------------------------------------------------------
\* Steps of the write operation: only its own download changes.
LEMMA OtherWritersKept ==
    ASSUME PipelineInv, DataTypeOK', OperationsKept, NEW p \in Provider,
           UNCHANGED <<created, loadVars>>,
           \A q \in Provider \ {p} : /\ writer'[q] = writer[q]
                                     /\ rows'[q] = rows[q]
                                     /\ results'[q] = results[q],
           WriteInv(p)', OutcomeMatches(p)'
    PROVE  PipelineInv'
<1>1. ASSUME NEW q \in Provider PROVE LoadInv(q)'
  BY Operations DEF PipelineInv, LoadInv, OperationsKept, loadVars, Answer
<1>2. ASSUME NEW q \in Provider \ {p} PROVE WriteInv(q)' /\ OutcomeMatches(q)'
  <2>1. /\ writer'[q] = writer[q] /\ rows'[q] = rows[q] /\ output'[q] = output[q]
        /\ results'[q] = results[q]
        /\ Reported(q)' = Reported(q)
    BY <1>2 DEF Reported, loadVars
  <2> QED BY <1>2, <2>1, Operations DEF PipelineInv, WriteInv, OutcomeMatches, OperationsKept
<1> QED BY <1>1, <1>2 DEF PipelineInv, OperationsKept

\* The results there are, by their kind.
LEMMA ResultsTyped ==
    /\ \A kind \in Failure : failed(kind) \in Result /\ failed(kind).kind = kind
    /\ \A n \in List : succeeded(n) \in Result /\ succeeded(n).kind = "success"
                       /\ succeeded(n).count = n
    /\ "success" \notin Failure
BY DEF Result, Failure, failed, succeeded

\* main() of the write operation begins.
LEMMA WriteChecksCancelledStep ==
    ASSUME PipelineInv, OperationInv, NEW p \in Provider, WriteChecksCancelled(p)
    PROVE  PipelineInv'
<1>1. /\ UNCHANGED <<opVars, created, loadVars, rows>>
      /\ writer[p] = "idle" /\ thread[Write(p)] = "main"
      /\ writer' = [writer EXCEPT ![p] = "reading"]
      /\ results[p] = <<>> /\ rows[p] = 0 /\ Load(p) \in cleared
  BY Operations DEF WriteChecksCancelled, PipelineInv, WriteInv, OperationInv,
                    A!StartedAfterDependencies
<1>2. Reported(p) = {}
  BY <1>1 DEF Reported
<1>3. OperationsKept
  BY <1>1, KeptUnchanged
<1>4. /\ results' \in [Provider -> Seq(Result)]
      /\ \A q \in Provider \ {p} : results'[q] = results[q]
      /\ \A r \in Reported(p)' : r.kind = "operationIsCancelled"
  <2>1. CASE Complete(p, failed("operationIsCancelled"))
    <3>1. failed("operationIsCancelled") \in Result
          /\ failed("operationIsCancelled").kind = "operationIsCancelled"
      BY ResultsTyped DEF Failure
    <3> QED BY <1>2, <2>1, <3>1, CompleteReports DEF PipelineInv
  <2>2. CASE UNCHANGED results
    BY <1>2, <2>2 DEF PipelineInv, DataTypeOK, Reported
  <2> QED BY <2>1, <2>2 DEF WriteChecksCancelled
<1>5. DataTypeOK' /\ writer'[p] = "reading"
      /\ \A q \in Provider \ {p} : writer'[q] = writer[q]
  BY <1>1, <1>4 DEF PipelineInv, DataTypeOK, loadVars
<1>6. WriteInv(p)'
  BY <1>1, <1>4, <1>5 DEF WriteInv, opVars
<1>7. OutcomeMatches(p)'
  BY <1>4, <1>5 DEF OutcomeMatches
<1> QED BY <1>1, <1>3, <1>4, <1>5, <1>6, <1>7, OtherWritersKept

\* main() of the write operation ends early, with a failure of its own.
LEMMA FailureStep ==
    ASSUME PipelineInv, NEW p \in Provider, NEW kind \in Failure \ {"operationIsCancelled"},
           writer[p] \in {"reading", "writing"},
           writer' = [writer EXCEPT ![p] = "finishing"],
           Complete(p, failed(kind)), UNCHANGED <<opVars, created, loadVars, rows>>
    PROVE  PipelineInv'
<1>1. OperationsKept
  BY KeptUnchanged
<1>2. /\ results' \in [Provider -> Seq(Result)]
      /\ \A q \in Provider \ {p} : results'[q] = results[q]
      /\ Reported(p)' = Reported(p) \cup {failed(kind)}
      /\ failed(kind).kind = kind
  BY ResultsTyped, CompleteReports DEF PipelineInv
<1>3. \A r \in Reported(p)' : r.kind # "success"
  BY <1>2, ResultsTyped DEF PipelineInv, WriteInv
<1>4. DataTypeOK' /\ writer'[p] = "finishing"
      /\ \A q \in Provider \ {p} : writer'[q] = writer[q]
  BY <1>2 DEF PipelineInv, DataTypeOK, loadVars
<1>5. WriteInv(p)'
  BY <1>4 DEF PipelineInv, WriteInv, opVars
<1>6. OutcomeMatches(p)'
  BY <1>2, <1>3 DEF OutcomeMatches
<1> QED BY <1>1, <1>2, <1>4, <1>5, <1>6, OtherWritersKept

\* Realm opens.
LEMMA OpenedStep ==
    ASSUME PipelineInv, NEW p \in Provider, writer[p] = "reading", output[p] # NoList,
           writer' = [writer EXCEPT ![p] = "writing"],
           UNCHANGED <<opVars, created, loadVars, rows, results>>
    PROVE  PipelineInv'
<1>1. OperationsKept
  BY KeptUnchanged
<1>2. DataTypeOK' /\ writer'[p] = "writing"
      /\ \A q \in Provider \ {p} : writer'[q] = writer[q]
  BY DEF PipelineInv, DataTypeOK, loadVars
<1>3. output[p] \in Nat /\ rows[p] = 0 /\ Reported(p)' = Reported(p) /\ output'[p] = output[p]
  BY NoListIsNone DEF PipelineInv, DataTypeOK, WriteInv, Reported, loadVars
<1>4. WriteInv(p)'
  BY <1>2, <1>3 DEF PipelineInv, WriteInv, opVars
<1>5. OutcomeMatches(p)'
  BY <1>2, <1>3 DEF PipelineInv, WriteInv, OutcomeMatches
<1> QED BY <1>1, <1>2, <1>4, <1>5, OtherWritersKept

\* A row is committed: there are never more than the list has.
LEMMA CommitStep ==
    ASSUME PipelineInv, NEW p \in Provider, writer[p] = "writing", rows[p] < output[p],
           rows' = [rows EXCEPT ![p] = @ + 1],
           UNCHANGED <<opVars, created, loadVars, writer, results>>
    PROVE  PipelineInv'
<1>1. OperationsKept
  BY KeptUnchanged
<1>2. output[p] \in List /\ rows[p] \in List /\ output'[p] = output[p]
  BY DEF PipelineInv, DataTypeOK, WriteInv, loadVars
<1>3. rows[p] + 1 \in List /\ rows[p] + 1 <= output[p]
  BY <1>2, MaxRowsAssumption DEF List
<1>4. rows' \in [Provider -> List] /\ rows'[p] = rows[p] + 1
      /\ \A q \in Provider \ {p} : rows'[q] = rows[q]
  BY <1>3 DEF PipelineInv, DataTypeOK
<1>5. DataTypeOK'
  BY <1>4 DEF PipelineInv, DataTypeOK, loadVars
<1>6. Reported(p)' = Reported(p)
  BY DEF Reported
<1>7. WriteInv(p)'
  BY <1>2, <1>3, <1>4, <1>6 DEF PipelineInv, WriteInv, opVars
<1>8. OutcomeMatches(p)'
  BY <1>6 DEF PipelineInv, WriteInv, OutcomeMatches
<1> QED BY <1>1, <1>4, <1>5, <1>7, <1>8, OtherWritersKept

\* The loop is over: the success names the rows of the list, all committed.
LEMMA WriteSucceedsStep ==
    ASSUME PipelineInv, NEW p \in Provider, WriteSucceeds(p)
    PROVE  PipelineInv'
<1>1. /\ UNCHANGED <<opVars, created, loadVars, rows>>
      /\ writer[p] = "writing" /\ rows[p] = output[p]
      /\ writer' = [writer EXCEPT ![p] = "finishing"]
      /\ Complete(p, succeeded(output[p]))
  BY DEF WriteSucceeds
<1>2. OperationsKept
  BY <1>1, KeptUnchanged
<1>3. output[p] \in List /\ output'[p] = output[p] /\ rows'[p] = rows[p]
  BY <1>1 DEF PipelineInv, DataTypeOK, WriteInv, loadVars
<1>4. /\ results' \in [Provider -> Seq(Result)]
      /\ \A q \in Provider \ {p} : results'[q] = results[q]
      /\ Reported(p)' = Reported(p) \cup {succeeded(output[p])}
      /\ succeeded(output[p]).count = output[p]
  BY <1>1, <1>3, ResultsTyped, CompleteReports DEF PipelineInv
<1>5. DataTypeOK' /\ writer'[p] = "finishing"
      /\ \A q \in Provider \ {p} : writer'[q] = writer[q]
  BY <1>1, <1>4 DEF PipelineInv, DataTypeOK, loadVars
<1>6. WriteInv(p)'
  BY <1>1, <1>5 DEF PipelineInv, WriteInv, opVars
<1>7. OutcomeMatches(p)'
  BY <1>1, <1>3, <1>4 DEF PipelineInv, WriteInv, OutcomeMatches
<1> QED BY <1>1, <1>2, <1>4, <1>5, <1>6, <1>7, OtherWritersKept

\* `state = .finished' of a main() that has reported.
LEMMA WriteFinishesStep ==
    ASSUME PipelineInv, OperationInv, NEW p \in Provider, WriteFinishes(p)
    PROVE  PipelineInv'
<1>1. /\ UNCHANGED <<created, loadVars, rows, results>>
      /\ writer[p] = "finishing"
      /\ writer' = [writer EXCEPT ![p] = "finished"]
  BY DEF WriteFinishes
<1>2. OperationsKept
  BY <1>1, Operations, KeptByAssignment DEF WriteFinishes, OperationInv
<1>3. DataTypeOK' /\ writer'[p] = "finished"
      /\ \A q \in Provider \ {p} : writer'[q] = writer[q]
  BY <1>1 DEF PipelineInv, DataTypeOK, loadVars
<1>4. Reported(p)' = Reported(p) /\ output' = output
  BY <1>1 DEF Reported, loadVars
<1>5. WriteInv(p)'
  BY <1>1, <1>2, <1>3, Operations DEF PipelineInv, WriteInv, OperationsKept
<1>6. OutcomeMatches(p)'
  BY <1>1, <1>3, <1>4 DEF PipelineInv, OutcomeMatches
<1> QED BY <1>1, <1>2, <1>3, <1>5, <1>6, OtherWritersKept

-----------------------------------------------------------------------------
\* The invariant holds initially.
LEMMA InitHolds == Init => PipelineInv
<1> SUFFICES ASSUME Init PROVE PipelineInv
  OBVIOUS
<1>1. DataTypeOK
  <2>1. NoList \in List \cup {NoList} /\ 0 \in List
    BY MaxRowsAssumption DEF List
  <2> QED BY <2>1, EmptySeq DEF Init, DataTypeOK
<1>2. OperationsInv
  BY DEF Init, A!Init, OperationsInv
<1>3. ASSUME NEW p \in Provider PROVE LoadInv(p)
  BY Operations DEF Init, A!Init, LoadInv
<1>4. ASSUME NEW p \in Provider PROVE WriteInv(p) /\ OutcomeMatches(p)
  <2>1. results[p] = <<>> /\ writer[p] = "idle" /\ rows[p] = 0
    BY DEF Init
  <2>2. Reported(p) = {}
    BY <2>1 DEF Reported
  <2> QED BY <2>1, <2>2 DEF WriteInv, OutcomeMatches
<1> QED BY <1>1, <1>2, <1>3, <1>4 DEF PipelineInv

\* Every step keeps the invariant.
LEMMA StepHolds == PipelineInv /\ OperationInv /\ [Next]_vars => PipelineInv'
<1> SUFFICES ASSUME PipelineInv, OperationInv, [Next]_vars PROVE PipelineInv'
  OBVIOUS
<1>1. CASE \/ \E op \in Operation : QueueStep(op) \/ PostStep(op) \/ CancelStep(op)
           \/ \E p \in Provider : CreateProvider(p) \/ WriteReturns(p)
           \/ UNCHANGED vars
  BY <1>1, QueueKeeps DEF OperationInv
<1>2. ASSUME NEW p \in Provider, NetworkAnswers(p) \/ LoadStep(p) PROVE PipelineInv'
  BY <1>2, NetworkAnswersStep, LoadMainStep, LoadReturnsStep, LoadCallbackStep,
     LoadCallbackCancelledStep DEF LoadStep
<1>3. ASSUME NEW p \in Provider, WriteStep(p), ~WriteReturns(p) PROVE PipelineInv'
  <2>1. CASE WriteFindsNothing(p)
    <3>1. "transactionsNotExist" \in Failure \ {"operationIsCancelled"}
      BY DEF Failure
    <3> QED BY <2>1, <3>1, FailureStep DEF WriteFindsNothing
  <2>2. CASE WriteOpensRealm(p)
    <3>1. "notRealmConnected" \in Failure \ {"operationIsCancelled"}
      BY DEF Failure
    <3> QED BY <2>2, <3>1, FailureStep, OpenedStep DEF WriteOpensRealm
  <2>3. CASE WriteRow(p)
    <3>1. "realmWriteDataError" \in Failure \ {"operationIsCancelled"}
      BY DEF Failure
    <3> QED BY <2>3, <3>1, FailureStep, CommitStep DEF WriteRow
  <2> QED BY <1>3, <2>1, <2>2, <2>3, WriteChecksCancelledStep, WriteSucceedsStep,
             WriteFinishesStep DEF WriteStep
<1> QED BY <1>1, <1>2, <1>3 DEF Next

\* The inductive invariant of the pipeline, on top of that of the operations.
THEOREM Invariant == Spec => [](PipelineInv /\ OperationInv)
BY InitHolds, StepHolds, OperationsHold, PTL DEF Spec

-----------------------------------------------------------------------------
\* Every variable of the pipeline keeps its type.
THEOREM TypeCorrect == Spec => []TypeOK
<1>1. PipelineInv /\ OperationInv => TypeOK
  BY DEF PipelineInv, DataTypeOK, OperationInv, TypeOK
<1> QED BY <1>1, Invariant, PTL

\* What the completion is told agrees with what was committed to Realm
\* (WriteTransactionsInRealm.swift:21-51).
THEOREM OutcomeAgrees == Spec => []OutcomeMatchesRealm
<1>1. PipelineInv => OutcomeMatchesRealm
  BY DEF PipelineInv, OutcomeMatchesRealm
<1> QED BY <1>1, Invariant, PTL

\* No late or repeated callback replaces the list under the write operation
\* (LoadTransactions.swift:25-41).
THEOREM InputIsStable == Spec => WriterInputStable
<1>1. PipelineInv /\ OperationInv /\ [Next]_vars =>
        [\A p \in Provider : thread[Write(p)] = "main" => output'[p] = output[p]]_vars
  <2> SUFFICES ASSUME PipelineInv, OperationInv, Next, NEW p \in Provider,
                      thread[Write(p)] = "main"
               PROVE  output'[p] = output[p]
    OBVIOUS
  <2>1. CASE output' = output
    BY <2>1
  <2>2. ASSUME NEW q \in Provider, LoadCallback(q) PROVE output'[p] = output[p]
    <3>1. CASE q = p
      BY <2>2, <3>1, LoadCallbackStep
    <3>2. CASE q # p
      BY <2>2, <3>2 DEF LoadCallback, PipelineInv, DataTypeOK
    <3> QED BY <3>1, <3>2
  <2>3. ASSUME NEW q \in Provider, CreateProvider(q) \/ NetworkAnswers(q)
        PROVE  output' = output
    BY <2>3 DEF CreateProvider, NetworkAnswers, loadVars
  <2>4. ASSUME NEW q \in Provider, LoadStep(q), ~LoadCallback(q) PROVE output' = output
    BY <2>4 DEF LoadStep, LoadMain, LoadReturns, LoadCallbackCancelled
  <2>5. ASSUME NEW q \in Provider, WriteStep(q) PROVE output' = output
    BY <2>5 DEF WriteStep, WriteChecksCancelled, WriteFindsNothing, WriteOpensRealm,
                WriteRow, WriteSucceeds, WriteFinishes, WriteReturns, loadVars
  <2>6. ASSUME NEW op \in Operation, QueueStep(op) \/ PostStep(op) \/ CancelStep(op)
        PROVE  output' = output
    BY <2>6 DEF QueueStep, PostStep, Dispatch, StartCancelled, StartMain, DidSet,
                CancelStep, Cancel, FinishCancel, loadVars
  <2> QED BY <2>1, <2>2, <2>3, <2>4, <2>5, <2>6 DEF Next
<1> QED BY <1>1, Invariant, PTL DEF Spec, WriterInputStable

-----------------------------------------------------------------------------
\* Where nothing is created, committed or reported, nothing is seen.
LEMMA NothingSeen ==
    ASSUME UNCHANGED <<created, rows, results>>
    PROVE  UNCHANGED TL!loadVars
BY DEF TL!loadVars, PhaseOf, Ended

\* A report is seen if it is the first one.
LEMMA ReportSeen ==
    ASSUME DataTypeOK, NEW p \in Provider, p \in created, NEW result \in Result,
           Complete(p, result), UNCHANGED <<created, rows>>
    PROVE  TL!Report(p, result.kind) \/ UNCHANGED TL!loadVars
<1>1. /\ results' \in [Provider -> Seq(Result)]
      /\ \A q \in Provider \ {p} : results'[q] = results[q]
      /\ results'[p] = Append(results[p], result)
      /\ results[p] \in Seq(Result)
  BY CompleteReports DEF DataTypeOK
<1>2. results'[p] # <<>>
  BY <1>1
<1>3. \A q \in Provider \ {p} : Ended(q)' = Ended(q) /\ PhaseOf(q)' = PhaseOf(q)
  BY <1>1 DEF PhaseOf, Ended
<1>4. PhaseOf(p)' = "reported" /\ Ended(p)'
  BY <1>2 DEF PhaseOf, Ended
<1>5. CASE results[p] = <<>>
  <2>1. Head(results'[p]) = result
    BY <1>1, <1>5
  <2>2. PhaseOf(p) = "loading" /\ ~Ended(p)
    BY <1>5 DEF PhaseOf, Ended
  <2> QED BY <1>1, <1>3, <1>4, <2>1, <2>2 DEF TL!Report
<1>6. CASE results[p] # <<>>
  <2>1. Head(results'[p]) = Head(results[p])
    BY <1>1, <1>6
  <2>2. PhaseOf(p) = "reported" /\ Ended(p)
    BY <1>6 DEF PhaseOf, Ended
  <2> QED BY <1>1, <1>3, <1>4, <2>1, <2>2 DEF TL!loadVars
<1> QED BY <1>5, <1>6

\* The write operation of a provider that is created reports or commits.
LEMMA WriteStepSeen ==
    ASSUME PipelineInv, OperationInv, NEW p \in Provider, WriteStep(p)
    PROVE  TL!Step(p) \/ UNCHANGED TL!loadVars
<1> USE DEF PipelineInv
<1>1. /\ WriteInv(p)
      /\ thread[Write(p)] # "queued" => p \in created
      /\ cancelled[Write(p)] => p \in Cancelable
  BY Operations DEF OperationsInv
<1>2. CASE WriteChecksCancelled(p)
  <2>1. p \in created /\ rows[p] = 0 /\ UNCHANGED <<created, rows>>
    BY <1>1, <1>2 DEF WriteChecksCancelled, WriteInv
  <2>2. CASE ~cancelled[Write(p)]
    BY <2>1, <2>2, <1>2, NothingSeen DEF WriteChecksCancelled
  <2>3. CASE cancelled[Write(p)]
    <3>1. Complete(p, failed("operationIsCancelled"))
      BY <2>3, <1>2 DEF WriteChecksCancelled
    <3>2. /\ failed("operationIsCancelled") \in Result
          /\ failed("operationIsCancelled").kind = TL!Cancellation
      BY DEF failed, Result, Failure, TL!Cancellation
    <3>3. \/ TL!Report(p, TL!Cancellation)
          \/ UNCHANGED TL!loadVars
      BY <2>1, <3>1, <3>2, ReportSeen
    <3> QED BY <1>1, <2>1, <2>3, <3>3 DEF TL!ReportCancellation, TL!Step
  <2> QED BY <2>2, <2>3
<1>3. ASSUME NEW kind \in TL!EarlyFailure, writer[p] = "reading",
             Complete(p, failed(kind)), UNCHANGED <<created, rows>>
      PROVE  TL!Step(p) \/ UNCHANGED TL!loadVars
  <2>1. p \in created /\ rows[p] = 0
    BY <1>1, <1>3 DEF WriteInv
  <2>2. failed(kind) \in Result /\ failed(kind).kind = kind
    BY DEF failed, Result, Failure, TL!EarlyFailure
  <2>3. TL!Report(p, kind) \/ UNCHANGED TL!loadVars
    BY <1>3, <2>1, <2>2, ReportSeen
  <2> QED BY <2>1, <2>3 DEF TL!FailEarly, TL!Step
<1>4. CASE WriteFindsNothing(p)
  <2>1. "transactionsNotExist" \in TL!EarlyFailure
    BY DEF TL!EarlyFailure
  <2> QED BY <1>3, <1>4, <2>1 DEF WriteFindsNothing
<1>5. CASE WriteOpensRealm(p)
  <2>1. "notRealmConnected" \in TL!EarlyFailure
    BY DEF TL!EarlyFailure
  <2> QED BY <1>3, <1>5, <2>1, NothingSeen DEF WriteOpensRealm
<1>6. ASSUME NEW result \in Result, writer[p] = "writing",
             result.kind = "success" \/ result.kind \in TL!LateFailure,
             Complete(p, result), UNCHANGED <<created, rows>>
      PROVE  TL!Step(p) \/ UNCHANGED TL!loadVars
  <2>1. p \in created
    BY <1>1, <1>6 DEF WriteInv
  <2>2. TL!Report(p, result.kind) \/ UNCHANGED TL!loadVars
    BY <1>6, <2>1, ReportSeen
  <2> QED BY <1>6, <2>2 DEF TL!Succeed, TL!FailLate, TL!Step
<1>7. ASSUME writer[p] = "writing", rows[p] < output[p],
             rows' = [rows EXCEPT ![p] = @ + 1], UNCHANGED <<created, results>>
      PROVE  TL!Step(p)
  <2>1. p \in created /\ output[p] \in List
    BY <1>1, <1>7 DEF WriteInv, DataTypeOK
  <2>2. rows[p] < MaxRows
    BY <1>7, <2>1, MaxRowsAssumption DEF DataTypeOK, List
  <2>3. PhaseOf(p) = "loading" \/ (Ended(p) /\ Head(results[p]).kind = TL!Cancellation)
    <3>1. CASE results[p] = <<>>
      BY <2>1, <3>1 DEF PhaseOf, Ended
    <3>2. CASE results[p] # <<>>
      <4>1. results[p] \in Seq(Result) /\ 1 \in DOMAIN results[p]
        BY <3>2 DEF DataTypeOK
      <4>2. Head(results[p]) \in Reported(p)
        BY <4>1 DEF Reported
      <4> QED BY <1>1, <1>7, <3>2, <4>2 DEF WriteInv, Ended, TL!Cancellation
    <3> QED BY <3>1, <3>2
  <2>4. UNCHANGED <<[q \in Provider |-> PhaseOf(q)],
                    [q \in Provider |-> IF Ended(q) THEN Head(results[q]).kind
                                                    ELSE "none"]>>
    BY <1>7 DEF PhaseOf, Ended
  <2>5. TL!CommitRow(p)
    BY <1>7, <2>2, <2>3, <2>4 DEF TL!CommitRow
  <2> QED BY <2>5 DEF TL!Step
<1>8. CASE WriteRow(p)
  <2>1. /\ failed("realmWriteDataError") \in Result
        /\ failed("realmWriteDataError").kind \in TL!LateFailure
    BY DEF failed, Result, Failure, TL!LateFailure
  <2> QED BY <1>6, <1>7, <1>8, <2>1 DEF WriteRow
<1>9. CASE WriteSucceeds(p)
  <2>1. output[p] \in List
    BY <1>1, <1>9 DEF WriteSucceeds, WriteInv, DataTypeOK
  <2>2. succeeded(output[p]) \in Result /\ succeeded(output[p]).kind = "success"
    BY <2>1 DEF succeeded, Result
  <2> QED BY <1>6, <1>9, <2>2 DEF WriteSucceeds
<1>10. CASE WriteFinishes(p) \/ WriteReturns(p)
  BY <1>10, NothingSeen DEF WriteFinishes, WriteReturns, writeVars
<1> QED BY <1>2, <1>4, <1>5, <1>8, <1>9, <1>10 DEF WriteStep

\* Creating a provider begins its download.
LEMMA CreateSeen ==
    ASSUME PipelineInv, NEW p \in Provider, CreateProvider(p)
    PROVE  TL!Begin(p)
<1>1. results[p] = <<>>
  <2>1. thread[Write(p)] = "queued"
    BY Operations DEF PipelineInv, OperationsInv, CreateProvider
  <2> QED BY <2>1 DEF PipelineInv, WriteInv
<1>2. PhaseOf(p) = "idle" /\ PhaseOf(p)' = "loading"
  BY <1>1 DEF PhaseOf, Ended, CreateProvider, writeVars
<1>3. \A q \in Provider \ {p} : PhaseOf(q)' = PhaseOf(q)
  BY DEF PhaseOf, Ended, CreateProvider, writeVars
<1>4. \A q \in Provider : Ended(q)' = Ended(q)
  BY DEF Ended, CreateProvider, writeVars
<1> QED BY <1>2, <1>3, <1>4 DEF TL!Begin, CreateProvider, writeVars

(***************************************************************************)
(* Seen through the completion and through Realm, the pipeline does what   *)
(* TransactionLoad promises its callers: every step of it is a step of one *)
(* download, or cannot be seen (LoadTransactionsAndWriteInRealm.swift,     *)
(* WriteTransactionsInRealm.swift:14-51).                                  *)
(***************************************************************************)
THEOREM ImplementsLoad == Spec => ImplementsTransactionLoad
<1>1. Init => TL!Init
  BY DEF Init, TL!Init, PhaseOf, Ended
<1>2. PipelineInv /\ OperationInv /\ [Next]_vars => [TL!Next]_(TL!loadVars)
  <2> SUFFICES ASSUME PipelineInv, OperationInv, [Next]_vars
               PROVE  TL!Next \/ UNCHANGED TL!loadVars
    OBVIOUS
  <2>1. CASE UNCHANGED vars
    BY <2>1, NothingSeen DEF vars, writeVars
  <2>2. ASSUME NEW p \in Provider, CreateProvider(p)
        PROVE  TL!Next
    BY <2>2, CreateSeen DEF TL!Next, TL!Step
  <2>3. ASSUME NEW p \in Provider, NetworkAnswers(p) \/ LoadStep(p)
        PROVE  UNCHANGED TL!loadVars
    BY <2>3, NothingSeen DEF NetworkAnswers, LoadStep, LoadMain, LoadReturns,
       LoadCallback, LoadCallbackCancelled, writeVars
  <2>4. ASSUME NEW p \in Provider, WriteStep(p)
        PROVE  TL!Next \/ UNCHANGED TL!loadVars
    BY <2>4, WriteStepSeen DEF TL!Next
  <2>5. ASSUME NEW op \in Operation, QueueStep(op) \/ PostStep(op) \/ CancelStep(op)
        PROVE  UNCHANGED TL!loadVars
    BY <2>5, NothingSeen DEF QueueStep, PostStep, Dispatch, StartCancelled,
       StartMain, DidSet, CancelStep, Cancel, FinishCancel, writeVars
  <2> QED BY <2>1, <2>2, <2>3, <2>4, <2>5 DEF Next
<1> QED BY <1>1, <1>2, Invariant, PTL DEF Spec, ImplementsTransactionLoad, TL!Spec

-----------------------------------------------------------------------------
\* The queue notices every load and write operation that is finished
\* (AsyncOperation.swift:32-41).
THEOREM FinishIsNoticed == Spec => []FinishedIsSeen
<1>1. AP!Spec => []AP!FinishedIsSeen
  BY AP!NoFinishUnnoticed, Operations
<1>2. AP!FinishedIsSeen <=> FinishedIsSeen
  BY SameOperations DEF FinishedIsSeen
<1> QED BY <1>1, <1>2, SameOperations, ImplementsOperation, PTL
           DEF ImplementsAsyncOperation

-----------------------------------------------------------------------------
\* A completion called before the write operation reached the loop over the
\* rows was the one of a cancelled operation.
CancelReported(p) ==
    cancelled[Write(p)] /\ results[p][1] = failed("operationIsCancelled")

CompletionInv(p) ==
    /\ writer[p] = "idle" => Len(results[p]) = 0
    /\ writer[p] \in {"reading", "writing"} => Len(results[p]) \in 0..1
    /\ writer[p] \in {"reading", "writing"} /\ Len(results[p]) = 1 => CancelReported(p)
    /\ Len(results[p]) \in 0..2
    /\ Len(results[p]) = 2 => CancelReported(p)

\* Nothing is called, and nobody takes back a cancellation.
LEMMA NoCompletionKeeps ==
    ASSUME DataTypeOK, NEW p \in Provider, CompletionInv(p),
           results'[p] = results[p],
           cancelled[Write(p)] => cancelled'[Write(p)],
           \/ writer'[p] = writer[p]
           \/ writer[p] = "reading" /\ writer'[p] = "writing"
           \/ writer'[p] = "finished"
    PROVE  CompletionInv(p)'
BY DEF CompletionInv, CancelReported

\* The completion is called when main() leaves for its end.
LEMMA LastCompletionKeeps ==
    ASSUME DataTypeOK, NEW p \in Provider, CompletionInv(p),
           writer[p] \in {"reading", "writing"}, writer'[p] = "finishing",
           UNCHANGED cancelled, NEW result \in Result, Complete(p, result)
    PROVE  CompletionInv(p)'
<1>1. results[p] \in Seq(Result) /\ results'[p] = Append(results[p], result)
  BY CompleteReports DEF DataTypeOK
<1>2. /\ Len(results'[p]) = Len(results[p]) + 1
      /\ Len(results[p]) = 1 => results'[p][1] = results[p][1]
  BY <1>1, AppendProperties, LenProperties
<1>3. Len(results[p]) \in {0, 1}
  BY DEF CompletionInv
<1>4. Len(results[p]) = 1 => CancelReported(p)'
  BY <1>2 DEF CompletionInv, CancelReported
<1>5. CASE Len(results[p]) = 0
  <2>1. Len(results'[p]) = 1
    BY <1>2, <1>5
  <2> QED BY <2>1 DEF CompletionInv
<1>6. CASE Len(results[p]) = 1
  <2>1. Len(results'[p]) = 2
    BY <1>2, <1>6
  <2> QED BY <1>4, <1>6, <2>1 DEF CompletionInv
<1> QED BY <1>3, <1>5, <1>6

\* The first line of main() calls it if the operation is cancelled.
LEMMA FirstCompletionKeeps ==
    ASSUME DataTypeOK, NEW p \in Provider, CompletionInv(p), WriteChecksCancelled(p)
    PROVE  CompletionInv(p)'
<1>1. /\ writer[p] = "idle" /\ writer'[p] = "reading"
      /\ cancelled' = cancelled
      /\ results[p] \in Seq(Result) /\ Len(results[p]) = 0
  BY DEF WriteChecksCancelled, DataTypeOK, CompletionInv, opVars
<1>2. CASE cancelled[Write(p)]
  <2>1. failed("operationIsCancelled") \in Result
    BY DEF failed, Result, Failure
  <2>2. results'[p] = Append(results[p], failed("operationIsCancelled"))
    BY <1>2, <2>1, CompleteReports DEF WriteChecksCancelled
  <2>3. Len(results'[p]) = 1 /\ results'[p][1] = failed("operationIsCancelled")
    BY <1>1, <2>1, <2>2, AppendProperties
  <2> QED BY <1>1, <1>2, <2>3 DEF CompletionInv, CancelReported
<1>3. CASE ~cancelled[Write(p)]
  <2>1. results'[p] = results[p]
    BY <1>3 DEF WriteChecksCancelled
  <2> QED BY <1>1, <2>1 DEF CompletionInv
<1> QED BY <1>2, <1>3

\* A cancellation is never taken back.
LEMMA CancellationStays ==
    ASSUME A!TypeOK, [Next]_vars, NEW op \in Operation, cancelled[op]
    PROVE  cancelled'[op]
<1>1. CASE UNCHANGED opVars
  BY <1>1 DEF opVars
<1>2. CASE A!Next
  BY <1>2 DEF A!Next, A!TypeOK, A!Dispatch, A!StartCancelled, A!StartMain, A!FinishInMain,
              A!ReturnFromMain, A!FinishInCallback, A!Cancel, A!FinishCancel, A!DidSet
<1>3. A!Next \/ UNCHANGED opVars
  BY OperationStep DEF opVars, A!opVars
<1> QED BY <1>1, <1>2, <1>3

\* The steps of the write operation's own main().
LEMMA WriterCompletes ==
    ASSUME DataTypeOK, NEW p \in Provider, CompletionInv(p), WriteStep(p),
           cancelled[Write(p)] => cancelled'[Write(p)]
    PROVE  CompletionInv(p)'
<1> USE DEF DataTypeOK
<1>1. CASE WriteChecksCancelled(p)
  BY <1>1, FirstCompletionKeeps
<1>2. CASE WriteFindsNothing(p)
  <2>1. failed("transactionsNotExist") \in Result
    BY DEF failed, Result, Failure
  <2> QED BY <1>2, <2>1, LastCompletionKeeps DEF WriteFindsNothing, opVars
<1>3. CASE WriteOpensRealm(p)
  <2>1. failed("notRealmConnected") \in Result
    BY DEF failed, Result, Failure
  <2>2. CASE results' = results /\ writer'[p] = "writing"
    BY <1>3, <2>2, NoCompletionKeeps DEF WriteOpensRealm
  <2>3. CASE Complete(p, failed("notRealmConnected")) /\ writer'[p] = "finishing"
    BY <1>3, <2>1, <2>3, LastCompletionKeeps DEF WriteOpensRealm, opVars
  <2> QED BY <1>3, <2>2, <2>3 DEF WriteOpensRealm
<1>4. CASE WriteRow(p)
  <2>1. failed("realmWriteDataError") \in Result
    BY DEF failed, Result, Failure
  <2>2. CASE results' = results /\ writer' = writer
    BY <2>2, NoCompletionKeeps
  <2>3. CASE Complete(p, failed("realmWriteDataError")) /\ writer'[p] = "finishing"
    BY <1>4, <2>1, <2>3, LastCompletionKeeps DEF WriteRow, opVars
  <2> QED BY <1>4, <2>2, <2>3 DEF WriteRow
<1>5. CASE WriteSucceeds(p)
  <2>1. output[p] \in List
    BY <1>5 DEF WriteSucceeds
  <2>2. succeeded(output[p]) \in Result
    BY <2>1 DEF succeeded, Result
  <2> QED BY <1>5, <2>2, LastCompletionKeeps DEF WriteSucceeds, opVars
<1>6. CASE WriteFinishes(p)
  BY <1>6, NoCompletionKeeps DEF WriteFinishes
<1>7. CASE WriteReturns(p)
  BY <1>7, NoCompletionKeeps DEF WriteReturns, writeVars
<1> QED BY <1>1, <1>2, <1>3, <1>4, <1>5, <1>6, <1>7 DEF WriteStep

\* Steps of others do not call p's completion.
LEMMA OthersDoNotComplete ==
    ASSUME DataTypeOK, [Next]_vars, NEW p \in Provider, ~WriteStep(p)
    PROVE  writer'[p] = writer[p] /\ results'[p] = results[p]
<1> USE DEF DataTypeOK
<1>1. CASE UNCHANGED writeVars
  BY <1>1 DEF writeVars
<1>2. ASSUME NEW q \in Provider, q # p, WriteStep(q)
      PROVE  writer'[p] = writer[p] /\ results'[p] = results[p]
  BY <1>2 DEF WriteStep, WriteChecksCancelled, WriteFindsNothing, WriteOpensRealm,
              WriteRow, WriteSucceeds, WriteFinishes, WriteReturns, writeVars, Complete
<1>3. UNCHANGED writeVars \/ \E q \in Provider : WriteStep(q)
  <2>1. CASE UNCHANGED vars
    BY <2>1 DEF vars
  <2>2. ASSUME NEW q \in Provider, CreateProvider(q) \/ NetworkAnswers(q) \/ LoadStep(q)
        PROVE  UNCHANGED writeVars
    BY <2>2 DEF CreateProvider, NetworkAnswers, LoadStep, LoadMain, LoadReturns,
                LoadCallback, LoadCallbackCancelled
  <2>3. ASSUME NEW op \in Operation, QueueStep(op) \/ PostStep(op) \/ CancelStep(op)
        PROVE  UNCHANGED writeVars
    BY <2>3 DEF QueueStep, PostStep, Dispatch, StartCancelled, StartMain, DidSet,
                CancelStep, Cancel, FinishCancel
  <2> QED BY <2>1, <2>2, <2>3 DEF Next
<1> QED BY <1>1, <1>2, <1>3

(***************************************************************************)
(* The completion is called a second time only by an operation that was    *)
(* cancelled under its thread, and never a third time                      *)
(* (WriteTransactionsInRealm.swift:21-51).                                 *)
(***************************************************************************)
THEOREM CompletionIsCalledOnce == Spec => []SecondCompletionOnlyAfterCancel
<1> DEFINE Inv == \A p \in Provider : CompletionInv(p)
<1>1. Init => Inv
  <2> SUFFICES ASSUME Init, NEW p \in Provider PROVE CompletionInv(p)
    OBVIOUS
  <2>1. writer[p] = "idle" /\ results[p] = <<>>
    BY DEF Init
  <2>2. Len(results[p]) = 0
    BY <2>1
  <2> QED BY <2>1, <2>2 DEF CompletionInv
<1>2. Inv /\ PipelineInv /\ OperationInv /\ [Next]_vars => Inv'
  <2> SUFFICES ASSUME Inv, DataTypeOK, A!TypeOK, [Next]_vars, NEW p \in Provider
               PROVE  CompletionInv(p)'
    BY DEF PipelineInv, OperationInv
  <2>1. CompletionInv(p) /\ (cancelled[Write(p)] => cancelled'[Write(p)])
    BY CancellationStays, Operations
  <2>2. CASE WriteStep(p)
    BY <2>1, <2>2, WriterCompletes
  <2>3. CASE ~WriteStep(p)
    BY <2>1, <2>3, OthersDoNotComplete, NoCompletionKeeps
  <2> QED BY <2>2, <2>3
<1>3. Inv => SecondCompletionOnlyAfterCancel
  <2>1. ASSUME NEW p \in Provider, CompletionInv(p)
        PROVE  Len(results[p]) \in {0, 1, 2}
    BY <2>1 DEF CompletionInv
  <2>2. ASSUME NEW p \in Provider, CompletionInv(p), Len(results[p]) = 2
        PROVE  CancelReported(p)
    BY <2>2 DEF CompletionInv
  <2>3. \A n \in {0, 1, 2} : n <= 2
    OBVIOUS
  <2>4. ASSUME NEW p \in Provider, CompletionInv(p)
        PROVE  Len(results[p]) <= 2
    BY <2>1, <2>3, <2>4
  <2> QED BY <2>2, <2>4, Zenon DEF SecondCompletionOnlyAfterCancel, CancelReported
<1> QED BY <1>1, <1>2, <1>3, Invariant, PTL DEF Spec
=============================================================================
