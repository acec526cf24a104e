------------------------- MODULE TransactionPipeline -------------------------
(***************************************************************************)
(* LoadTransactionsAndWriteInRealmProvider of BankUI: an operation that    *)
(* downloads the transactions, and one, dependent on it, that writes them  *)
(* row by row into the Realm database and calls the provider's completion. *)
(*                                                                         *)
(* Three kinds of thread interleave: the threads of the operation queues,  *)
(* the main thread, which runs the network callbacks one block at a time   *)
(* (NetworkService dispatches them to it), and whoever cancels a provider. *)
(* A failed request calls the load operation's closure twice, because      *)
(* NetworkDataFetcher does not return after completion(nil).               *)
(*                                                                         *)
(* What the server sent is abstracted to the number of its transactions.   *)
(***************************************************************************)
EXTENDS Naturals, Sequences

CONSTANTS
    Provider,   \* the providers created, one per download
    Cancelable, \* the providers a client may call cancel() on
    MaxRows,    \* bound on the transactions of one answer
    NoList      \* nil in the place of a list of transactions

ASSUME MaxRowsAssumption == MaxRows \in Nat
ASSUME NoListAssumption == NoList \notin Nat
ASSUME CancelableAssumption == Cancelable \subseteq Provider

VARIABLES
    state, cancelled, cancelling, thread, notices, cleared,
    created,    \* providers whose operations are in their queue
    request,    \* progress of the load operation's main()
    calls,      \* closure runs left in the main thread's current block
    output,     \* outputTransactions of the load operation
    writer,     \* progress of the write operation's main()
    rows,       \* rows of this download committed to Realm
    results,    \* what the completion was called with
    overwrote   \* loads whose start() stored over .finished (history variable)

Load(p) == <<p, "load">>
Write(p) == <<p, "write">>
Operation == Provider \X {"load", "write"}
\* Mutant: addDependency is forgotten.
NoDependencies == [op \in Operation |-> {}]

OperationDependencies ==
    [op \in Operation |-> IF op[2] = "write" THEN {Load(op[1])} ELSE {}]

A == INSTANCE AsyncOperation
        WITH Op <- Operation, Dependencies <- OperationDependencies

opVars == <<state, cancelled, cancelling, thread, notices, cleared>>
loadVars == <<request, calls, output, overwrote>>
writeVars == <<writer, rows, results>>
vars == <<opVars, created, loadVars, writeVars>>

List == 0..MaxRows

Failure == {"operationIsCancelled", "transactionsNotExist",
            "notRealmConnected", "realmWriteDataError"}
Result == [kind: {"success"}, count: List] \cup [kind: Failure]

failed(kind) == [kind |-> kind]
succeeded(n) == [kind |-> "success", count |-> n]

TypeOK ==
    /\ A!TypeOK
    /\ created \subseteq Provider
    /\ request \in [Provider -> {"none", "skipped", "sent", "answered"}]
    /\ calls \in [Provider -> Seq(List \cup {NoList})]
    /\ output \in [Provider -> List \cup {NoList}]
    /\ writer \in [Provider -> {"idle", "reading", "writing",
                                "finishing", "finished"}]
    /\ rows \in [Provider -> List]
    /\ results \in [Provider -> Seq(Result)]
    /\ overwrote \subseteq Provider

Init ==
    /\ A!Init
    /\ created = {}
    /\ request = [p \in Provider |-> "none"]
    /\ calls = [p \in Provider |-> <<>>]
    /\ output = [p \in Provider |-> NoList]
    /\ writer = [p \in Provider |-> "idle"]
    /\ rows = [p \in Provider |-> 0]
    /\ results = [p \in Provider |-> <<>>]
    /\ overwrote = {}

-----------------------------------------------------------------------------
\* The main thread is inside no block, no cancel() and no didSet.
MainThreadIdle ==
    /\ \A p \in Provider : calls[p] = <<>>
    /\ cancelling = {}
    /\ \A op \in Operation, caller \in {"callback", "cancel"} :
          <<op, caller>> \notin notices

\* The provider's initialiser: both operations are added to its queue.
CreateProvider(p) ==
    /\ MainThreadIdle
    /\ p \notin created
    /\ created' = created \cup {p}
    /\ UNCHANGED <<opVars, loadVars, writeVars>>

Dispatch(op) ==
    /\ op[1] \in created
    /\ A!Dispatch(op)
    /\ UNCHANGED <<created, loadVars, writeVars>>

StartCancelled(op) ==
    /\ A!StartCancelled(op)
    /\ UNCHANGED <<created, loadVars, writeVars>>

StartMain(op) ==
    /\ A!StartMain(op)
    /\ UNCHANGED <<created, loadVars, writeVars>>

DidSet(op, caller) ==
    /\ A!DidSet(op, caller)
    /\ UNCHANGED <<created, loadVars, writeVars>>

\* provider.cancel(): cancelAllOperations reaches one operation after another.
Cancel(op) ==
    /\ MainThreadIdle
    /\ op[1] \in created \cap Cancelable
    /\ op[2] = "write" => cancelled[Load(op[1])]
    /\ A!Cancel(op)
    /\ UNCHANGED <<created, loadVars, writeVars>>

FinishCancel(op) ==
    /\ A!FinishCancel(op)
    /\ UNCHANGED <<created, loadVars, writeVars>>

-----------------------------------------------------------------------------
\* LoadTransactionsOperation.main(): the request leaves, unless cancelled.
LoadMain(p) ==
    /\ thread[Load(p)] = "main"
    /\ request[p] = "none"
    /\ request' = [request EXCEPT ![p] = IF cancelled[Load(p)]
                                         THEN "skipped" ELSE "sent"]
    /\ UNCHANGED <<opVars, created, calls, output, overwrote, writeVars>>

LoadReturns(p) ==
    /\ request[p] # "none"
    /\ A!ReturnFromMain(Load(p))
    /\ overwrote' = IF A!IsFinished(Load(p)) THEN overwrote \cup {p} ELSE overwrote
    /\ UNCHANGED <<created, request, calls, output, writeVars>>

(***************************************************************************)
(* The main thread enters the fetcher's block.  A list is one run of the   *)
(* operation's closure; an undecodable answer one run with nil; an error,  *)
(* which leaves no data, a run with nil and, the block going on, another.  *)
(***************************************************************************)
Answer ==
    {<<list>> : list \in List} \cup {<<NoList>>, <<NoList, NoList>>}

NetworkAnswers(p) ==
    /\ MainThreadIdle
    /\ request[p] = "sent"
    /\ request' = [request EXCEPT ![p] = "answered"]
    /\ \E runs \in Answer : calls' = [calls EXCEPT ![p] = runs]
    /\ UNCHANGED <<opVars, created, output, overwrote, writeVars>>

\* Mutant: the closure finishes the operation only if it got a list.
LoadCallbackOnlyList(p) ==
    /\ calls[p] # <<>>
    /\ ~cancelled[Load(p)]
    /\ output' = [output EXCEPT ![p] = IF Head(calls[p]) = NoList
                                       THEN @ ELSE Head(calls[p])]
    /\ calls' = [calls EXCEPT ![p] = Tail(@)]
    /\ IF Head(calls[p]) = NoList
         THEN UNCHANGED opVars
         ELSE A!FinishInCallback(Load(p))
    /\ UNCHANGED <<created, request, overwrote, writeVars>>

\* One run of the closure that finds the load operation not cancelled.
LoadCallback(p) ==
    /\ calls[p] # <<>>
    /\ ~cancelled[Load(p)]
    /\ output' = [output EXCEPT ![p] = IF Head(calls[p]) = NoList
                                       THEN @ ELSE Head(calls[p])]
    /\ calls' = [calls EXCEPT ![p] = Tail(@)]
    /\ A!FinishInCallback(Load(p))
    /\ UNCHANGED <<created, request, overwrote, writeVars>>

\* One run of the closure after cancel(): it returns at once.
LoadCallbackCancelled(p) ==
    /\ calls[p] # <<>>
    /\ cancelled[Load(p)]
    /\ calls' = [calls EXCEPT ![p] = Tail(@)]
    /\ UNCHANGED <<opVars, created, request, output, overwrote, writeVars>>

-----------------------------------------------------------------------------
\* The completion is called with result.
Complete(p, result) == results' = [results EXCEPT ![p] = Append(@, result)]

\* The first line of WriteTransactionInRealmOperation.main(); no return.
WriteChecksCancelled(p) ==
    /\ thread[Write(p)] = "main"
    /\ writer[p] = "idle"
    /\ writer' = [writer EXCEPT ![p] = "reading"]
    /\ IF cancelled[Write(p)]
         THEN Complete(p, failed("operationIsCancelled"))
         ELSE UNCHANGED results
    /\ UNCHANGED <<opVars, created, loadVars, rows>>

\* The load operation has left no list.
WriteFindsNothing(p) ==
    /\ writer[p] = "reading"
    /\ output[p] = NoList
    /\ writer' = [writer EXCEPT ![p] = "finishing"]
    /\ Complete(p, failed("transactionsNotExist"))
    /\ UNCHANGED <<opVars, created, loadVars, rows>>

\* Mutant: no return after completion(.failure(.notRealmConnected)).
WriteOpensRealmNoReturn(p) ==
    /\ writer[p] = "reading"
    /\ output[p] # NoList
    /\ writer' = [writer EXCEPT ![p] = "writing"]
    /\ \/ UNCHANGED results
       \/ Complete(p, failed("notRealmConnected"))
    /\ UNCHANGED <<opVars, created, loadVars, rows>>

\* There is a list, and Realm opens or does not.
WriteOpensRealm(p) ==
    /\ writer[p] = "reading"
    /\ output[p] # NoList
    /\ \/ /\ writer' = [writer EXCEPT ![p] = "writing"]
          /\ UNCHANGED results
       \/ /\ writer' = [writer EXCEPT ![p] = "finishing"]
          /\ Complete(p, failed("notRealmConnected"))
    /\ UNCHANGED <<opVars, created, loadVars, rows>>

\* Mutant: the error of a realm.write is swallowed.
WriteRowSilent(p) ==
    /\ writer[p] = "writing"
    /\ rows[p] < output[p]
    /\ \/ /\ rows' = [rows EXCEPT ![p] = @ + 1]
          /\ UNCHANGED <<writer, results>>
       \/ /\ writer' = [writer EXCEPT ![p] = "finishing"]
          /\ UNCHANGED <<rows, results>>
    /\ UNCHANGED <<opVars, created, loadVars>>

\* One realm.write: a transaction of its own, committed or thrown.
WriteRow(p) ==
    /\ writer[p] = "writing"
    /\ rows[p] < output[p]
    /\ \/ /\ rows' = [rows EXCEPT ![p] = @ + 1]
          /\ UNCHANGED <<writer, results>>
       \/ /\ writer' = [writer EXCEPT ![p] = "finishing"]
          /\ Complete(p, failed("realmWriteDataError"))
          /\ UNCHANGED rows
    /\ UNCHANGED <<opVars, created, loadVars>>

\* The loop is over: completion(.success(transactions.count)).
WriteSucceeds(p) ==
    /\ writer[p] = "writing"
    /\ rows[p] = output[p]
    /\ writer' = [writer EXCEPT ![p] = "finishing"]
    /\ Complete(p, succeeded(output[p]))
    /\ UNCHANGED <<opVars, created, loadVars, rows>>

WriteFinishes(p) ==
    /\ writer[p] = "finishing"
    /\ A!FinishInMain(Write(p))
    /\ writer' = [writer EXCEPT ![p] = "finished"]
    /\ UNCHANGED <<created, loadVars, rows, results>>

WriteReturns(p) ==
    /\ writer[p] = "finished"
    /\ A!ReturnFromMain(Write(p))
    /\ UNCHANGED <<created, loadVars, writeVars>>

-----------------------------------------------------------------------------
LoadStep(p) ==
    \/ LoadMain(p)
    \/ LoadReturns(p)
    \/ LoadCallback(p)
    \/ LoadCallbackCancelled(p)

WriteStep(p) ==
    \/ WriteChecksCancelled(p)
    \/ WriteFindsNothing(p)
    \/ WriteOpensRealm(p)
    \/ WriteRow(p)
    \/ WriteSucceeds(p)
    \/ WriteFinishes(p)
    \/ WriteReturns(p)

QueueStep(op) ==
    \/ Dispatch(op)
    \/ StartCancelled(op)
    \/ StartMain(op)

PostStep(op) == \E caller \in A!Caller : DidSet(op, caller)

CancelStep(op) == Cancel(op) \/ FinishCancel(op)

Next ==
    \/ \E p \in Provider : CreateProvider(p) \/ NetworkAnswers(p)
    \/ \E p \in Provider : LoadStep(p) \/ WriteStep(p)
    \/ \E op \in Operation : QueueStep(op) \/ PostStep(op) \/ CancelStep(op)

(***************************************************************************)
(* Fairness: the threads of the queues and the main thread run, and every  *)
(* request is answered, be it by URLSession's timeout error.  Nobody is    *)
(* obliged to create a provider or to cancel one; a cancel() that is under *)
(* way returns.                                                            *)
(***************************************************************************)
Fairness ==
    /\ \A p \in Provider : /\ WF_vars(LoadStep(p))
                           /\ WF_vars(WriteStep(p))
                           /\ SF_vars(NetworkAnswers(p))
    /\ \A op \in Operation : /\ WF_vars(QueueStep(op))
                             /\ WF_vars(PostStep(op))
                             /\ WF_vars(FinishCancel(op))

Spec == Init /\ [][Next]_vars
FairSpec == Spec /\ Fairness

-----------------------------------------------------------------------------
Ended(p) == results[p] # <<>>

Reported(p) == {results[p][i] : i \in DOMAIN results[p]}

OutcomeMatches(p) ==
    /\ \A r \in Reported(p) :
          r.kind = "success" => rows[p] = r.count /\ output[p] = r.count
    /\ writer[p] \in {"finishing", "finished"} /\ rows[p] # output[p]
          => \E r \in Reported(p) : r.kind \in Failure \ {"operationIsCancelled"}

(***************************************************************************)
(* What the completion is told agrees with Realm: a success names the      *)
(* rows of the answer, all committed; when the write operation stops       *)
(* short of that, a failure has been reported.                             *)
(***************************************************************************)
OutcomeMatchesRealm == \A p \in Provider : OutcomeMatches(p)

(***************************************************************************)
(* The completion is called once, unless the operation is cancelled after  *)
(* its thread has entered start(): main() then reports the cancellation,   *)
(* carries on (there is no return) and reports again, but never more.      *)
(***************************************************************************)
SecondCompletionOnlyAfterCancel ==
    \A p \in Provider :
        /\ Len(results[p]) <= 2
        /\ Len(results[p]) = 2 =>
              /\ cancelled[Write(p)]
              /\ results[p][1] = failed("operationIsCancelled")

(***************************************************************************)
(* The list the write operation reads through its dependency is final: no  *)
(* late or repeated callback of the load operation replaces it once the    *)
(* write operation has entered main().                                     *)
(***************************************************************************)
WriterInputStable ==
    [][\A p \in Provider :
          thread[Write(p)] = "main" => output'[p] = output[p]]_vars

(***************************************************************************)
(* The callback has stored .finished while start() was still in main(),    *)
(* and start() has put .executing over it before the post was handled: the *)
(* queue will never see the load operation finished.                       *)
(***************************************************************************)
FinishOverwritten(p) ==
    /\ p \in overwrote
    /\ A!IsExecuting(Load(p))
    /\ Load(p) \notin cleared

(***************************************************************************)
(* A download that nobody cancels calls its completion in the end, on any  *)
(* answer of the server; the overwritten store is the only way to lose it. *)
(***************************************************************************)
CompletionUnlessOverwritten ==
    \A p \in Provider :
        p \in created ~>
            Ended(p) \/ cancelled[Load(p)] \/ FinishOverwritten(p)

(***************************************************************************)
(* No stored .finished of either operation goes unnoticed: while the value *)
(* stands, the queue knows of it or a post is still to be made, whatever   *)
(* the order of the callback, of start() and of cancel().                  *)
(***************************************************************************)
FinishedIsSeen == A!FinishedIsSeen

(***************************************************************************)
(* Seen from outside: one abstract download per provider.                  *)
(***************************************************************************)
PhaseOf(p) ==
    CASE Ended(p)                       -> "reported"
      [] ~Ended(p) /\ p \in created     -> "loading"
      [] ~Ended(p) /\ p \notin created  -> "idle"

TL == INSTANCE TransactionLoad
        WITH phase <- [p \in Provider |-> PhaseOf(p)],
             outcome <- [p \in Provider |->
                           IF Ended(p) THEN Head(results[p]).kind ELSE "none"]

\* The provider does what a TransactionLoad promises.
ImplementsTransactionLoad == TL!Spec

\* Both operations are used only as AsyncOperation lets them be used.
ImplementsAsyncOperation == A!Spec
=============================================================================
