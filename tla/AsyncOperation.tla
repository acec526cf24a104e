--------------------------- MODULE AsyncOperation ---------------------------
(***************************************************************************)
(* The base class AsyncOperation of the network layer and the queue that   *)
(* drives it: BankUI/.../AsyncNetworkSerivce/AsyncOperation.swift, and its *)
(* identical copy in UnsplashApp.                                          *)
(*                                                                         *)
(* An operation is a KVO-observed property `state' plus a thread of its    *)
(* queue that runs start().  `state' has no lock: the queue's thread, the  *)
(* network callback and a caller of cancel() all assign it.  An assignment *)
(* is therefore two steps here, as in the code: the store, and the didSet  *)
(* observer that posts the change.  The queue considers an operation over  *)
(* (clears it from the dependencies of others) only when, handling a post, *)
(* it reads isFinished as true.  cancel() is two steps as well: from the   *)
(* first on super.isReady ignores the dependencies, while state is .ready  *)
(* until the second, so that the queue may start the operation in between. *)
(*                                                                         *)
(* The body of main() belongs to the subclasses.  Here a main() may finish *)
(* the operation itself, leave that to a callback, or never finish it; the *)
(* pipelines built on the class implement this specification.              *)
(***************************************************************************)
CONSTANTS
    Op,             \* the operations
    Dependencies    \* Dependencies[op]: what op was given by addDependency

VARIABLES
    state,      \* the stored property `state' of each operation
    cancelled,  \* Operation.isCancelled
    cancelling, \* operations between the two lines of cancel()
    thread,     \* how far the queue's thread is with start()
    notices,    \* assignments to state whose didSet has not posted yet
    cleared     \* operations the queue has seen finished

opVars == <<state, cancelled, cancelling, thread, notices, cleared>>

State == {"ready", "executing", "finished"}

(***************************************************************************)
(* "queued": not picked by the queue; "dispatched": a thread is about to   *)
(* enter start(); "main": start() found the operation not cancelled and    *)
(* is in main(), or has returned from it; "left": start() has no more      *)
(* assignment to make.                                                     *)
(***************************************************************************)
Thread == {"queued", "dispatched", "main", "left"}

\* Who assigns state: the thread in start(), the network callback, cancel().
Caller == {"start", "callback", "cancel"}

TypeOK ==
    /\ state \in [Op -> State]
    /\ cancelled \in [Op -> BOOLEAN]
    /\ cancelling \subseteq {op \in Op : cancelled[op]}
    /\ thread \in [Op -> Thread]
    /\ notices \subseteq Op \X Caller
    /\ cleared \subseteq Op

Init ==
    /\ state = [op \in Op |-> "ready"]
    /\ cancelled = [op \in Op |-> FALSE]
    /\ cancelling = {}
    /\ thread = [op \in Op |-> "queued"]
    /\ notices = {}
    /\ cleared = {}

-----------------------------------------------------------------------------
\* super.isReady: the dependencies count until the operation is cancelled.
SuperIsReady(op) == cancelled[op] \/ Dependencies[op] \subseteq cleared

IsReady(op) == SuperIsReady(op) /\ state[op] = "ready"

IsExecuting(op) == state[op] = "executing"

IsFinished(op) == state[op] = "finished"

\* The store of `state = value'; didSet is still to come.
SetState(op, value, caller) ==
    /\ <<op, caller>> \notin notices
    /\ state' = [state EXCEPT ![op] = value]
    /\ notices' = notices \cup {<<op, caller>>}

\* Mutant: didSet posts the key of the value replaced only.
DidSetOldKeyOnly(op, caller) ==
    /\ <<op, caller>> \in notices
    /\ notices' = notices \ {<<op, caller>>}
    /\ UNCHANGED <<state, cancelled, cancelling, thread, cleared>>

\* didSet: the change is posted and the queue reads isFinished.
DidSet(op, caller) ==
    /\ <<op, caller>> \in notices
    /\ notices' = notices \ {<<op, caller>>}
    /\ cleared' = IF IsFinished(op) THEN cleared \cup {op} ELSE cleared
    /\ UNCHANGED <<state, cancelled, cancelling, thread>>

-----------------------------------------------------------------------------
\* The queue hands a ready operation to one of its threads.
Dispatch(op) ==
    /\ thread[op] = "queued"
    /\ IsReady(op)
    /\ thread' = [thread EXCEPT ![op] = "dispatched"]
    /\ UNCHANGED <<state, cancelled, cancelling, notices, cleared>>

\* start() of an operation that was cancelled meanwhile.
StartCancelled(op) ==
    /\ thread[op] = "dispatched"
    /\ cancelled[op]
    /\ thread' = [thread EXCEPT ![op] = "left"]
    /\ SetState(op, "finished", "start")
    /\ UNCHANGED <<cancelled, cancelling, cleared>>

\* start() calls main().
StartMain(op) ==
    /\ thread[op] = "dispatched"
    /\ ~cancelled[op]
    /\ thread' = [thread EXCEPT ![op] = "main"]
    /\ UNCHANGED <<state, cancelled, cancelling, notices, cleared>>

\* `state = .finished' at the end of a main() that does all its work.
FinishInMain(op) ==
    /\ thread[op] = "main"
    /\ SetState(op, "finished", "start")
    /\ UNCHANGED <<cancelled, cancelling, thread, cleared>>

\* main() has returned: start() assigns state, whatever its value is by now.
ReturnFromMain(op) ==
    /\ thread[op] = "main"
    /\ thread' = [thread EXCEPT ![op] = "left"]
    /\ SetState(op, "executing", "start")
    /\ UNCHANGED <<cancelled, cancelling, cleared>>

\* `state = .finished' in the callback of a request that main() has sent.
FinishInCallback(op) ==
    /\ thread[op] \in {"main", "left"}
    /\ SetState(op, "finished", "callback")
    /\ UNCHANGED <<cancelled, cancelling, thread, cleared>>

\* cancel(), first line: super.cancel().
Cancel(op) ==
    /\ ~cancelled[op]
    /\ cancelled' = [cancelled EXCEPT ![op] = TRUE]
    /\ cancelling' = cancelling \cup {op}
    /\ UNCHANGED <<state, thread, notices, cleared>>

\* cancel(), second line: `state = .finished', whatever its value is by now.
FinishCancel(op) ==
    /\ op \in cancelling
    /\ cancelling' = cancelling \ {op}
    /\ SetState(op, "finished", "cancel")
    /\ UNCHANGED <<cancelled, thread, cleared>>

Next ==
    \/ \E op \in Op :
          \/ Dispatch(op)
          \/ StartCancelled(op)
          \/ StartMain(op)
          \/ FinishInMain(op)
          \/ ReturnFromMain(op)
          \/ FinishInCallback(op)
          \/ Cancel(op)
          \/ FinishCancel(op)
    \/ \E op \in Op, caller \in Caller : DidSet(op, caller)

Spec == Init /\ [][Next]_opVars

-----------------------------------------------------------------------------
(***************************************************************************)
(* No stored .finished goes unnoticed: while the value stands, either the  *)
(* queue knows of it or a post is still to be made (didSet posts the key   *)
(* of the value it finds, not only of the one it replaced).                *)
(***************************************************************************)
FinishedIsSeen ==
    \A op \in Op :
        IsFinished(op) =>
            \/ op \in cleared
            \/ \E caller \in Caller : <<op, caller>> \in notices

(***************************************************************************)
(* main() of an operation is entered only after every dependency has been  *)
(* seen finished.  A thread may enter start() before that, when cancel()   *)
(* has made super.isReady true and not yet assigned state; the check of    *)
(* isCancelled at the head of start() then keeps it out of main().         *)
(***************************************************************************)
StartedAfterDependencies ==
    \A op \in Op :
        thread[op] = "main" \/ (thread[op] # "queued" /\ ~cancelled[op])
            => Dependencies[op] \subseteq cleared

(***************************************************************************)
(* start() of a cancelled operation does not run main(): once cancel() has *)
(* been called on an operation no thread has entered, none enters main().  *)
(***************************************************************************)
CancelBeforeStartWins ==
    [][\A op \in Op :
          cancelled[op] /\ thread[op] \in {"queued", "dispatched"}
              => thread'[op] # "main"]_opVars

=============================================================================
