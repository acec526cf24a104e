------------------------ MODULE ThreadSafeDictionary ------------------------
(***************************************************************************)
(* The class ThreadSafeDictionary of Concurrency_Projects: a Swift         *)
(* dictionary `items', which is not safe to touch while another thread     *)
(* changes it, behind a concurrent dispatch queue.  Reads are submitted    *)
(* with sync, assignments with async and the barrier flag, getAllKeys and  *)
(* getAllValues with sync and the flag.                                    *)
(*                                                                         *)
(* The dispatch queue (external): blocks are started in the order of their *)
(* submission; a barrier block starts when nothing runs, and while it runs *)
(* nothing starts.  An access to items lasts from the start of its block   *)
(* to its end.                                                             *)
(***************************************************************************)
EXTENDS Naturals, Sequences

CONSTANTS
    Client,     \* the threads that use the dictionary
    Key, Value,
    Nil,        \* no value: what an assignment of nil stores
    MaxPending  \* bound on the blocks waiting in the queue

ASSUME KeyAssumption == Key # {}
ASSUME NilAssumption == Nil \notin Value
ASSUME MaxPendingAssumption == MaxPending \in Nat

VARIABLES
    items,      \* the dictionary behind the queue
    queue,      \* blocks submitted and not started, oldest first
    running,    \* blocks a thread is executing
    waiting,    \* clients inside queue.sync
    answer      \* what a finished sync call is about to return

vars == <<items, queue, running, waiting, answer>>

Contents == [Key -> Value \cup {Nil}]
Answer == UNION {[K -> Value \cup {Nil}] : K \in (SUBSET Key) \ {{}}}
NoAnswer == [k \in {} |-> Nil]

\* A block that reads the keys in `keys', or one that assigns to `key'.
Reader == [client : Client, keys : (SUBSET Key) \ {{}}, barrier : BOOLEAN]
Writer == [client : Client, key : Key, value : Value \cup {Nil},
           barrier : BOOLEAN]
Block == Reader \cup Writer

IsWriter(b) == "value" \in DOMAIN b

TypeOK ==
    /\ items \in Contents
    /\ queue \in Seq(Block)
    /\ running \subseteq Block
    /\ waiting \subseteq Client
    /\ answer \in [Client -> Answer \cup {NoAnswer}]

Init ==
    /\ items = [k \in Key |-> Nil]
    /\ queue = <<>>
    /\ running = {}
    /\ waiting = {}
    /\ answer = [c \in Client |-> NoAnswer]

-----------------------------------------------------------------------------
\* A client makes one call at a time.
Idle(c) == c \notin waiting /\ answer[c] = NoAnswer

\* queue.sync: the client waits for the block.
Sync(c, b) ==
    /\ Idle(c)
    /\ Len(queue) < MaxPending
    /\ queue' = Append(queue, b)
    /\ waiting' = waiting \cup {c}
    /\ UNCHANGED <<items, running, answer>>

\* queue.async: the client goes on.
Async(c, b) ==
    /\ Idle(c)
    /\ Len(queue) < MaxPending
    /\ queue' = Append(queue, b)
    /\ UNCHANGED <<items, running, waiting, answer>>

\* let value = dictionary[key]
Get(c, k) == Sync(c, [client |-> c, keys |-> {k}, barrier |-> FALSE])

\* dictionary.count
Count(c) == Sync(c, [client |-> c, keys |-> Key, barrier |-> FALSE])

\* Mutant: the assignment is submitted without the barrier flag.
SetNoBarrier(c, k, v) ==
    Async(c, [client |-> c, key |-> k, value |-> v, barrier |-> FALSE])

\* dictionary[key] = value, nil included
Set(c, k, v) ==
    Async(c, [client |-> c, key |-> k, value |-> v, barrier |-> TRUE])

\* getAllKeys() and getAllValues()
GetAllKeys(c) == Sync(c, [client |-> c, keys |-> Key, barrier |-> TRUE])
GetAllValues(c) == Sync(c, [client |-> c, keys |-> Key, barrier |-> TRUE])

RemoveValueForKey(c, k) ==
    Async(c, [client |-> c, key |-> k, value |-> Nil, barrier |-> TRUE])

-----------------------------------------------------------------------------
\* The queue starts its oldest block.
CanStart(b) ==
    IF b.barrier THEN running = {} ELSE \A r \in running : ~r.barrier

Start ==
    /\ queue # <<>>
    /\ CanStart(Head(queue))
    /\ running' = running \cup {Head(queue)}
    /\ queue' = Tail(queue)
    /\ UNCHANGED <<items, waiting, answer>>

\* A block that reads ends: its client has the result.
FinishRead(b) ==
    /\ b \in running
    /\ ~IsWriter(b)
    /\ running' = running \ {b}
    /\ waiting' = waiting \ {b.client}
    /\ answer' = [answer EXCEPT ![b.client] = [k \in b.keys |-> items[k]]]
    /\ UNCHANGED <<items, queue>>

\* A block that assigns ends.
FinishWrite(b) ==
    /\ b \in running
    /\ IsWriter(b)
    /\ running' = running \ {b}
    /\ items' = [items EXCEPT ![b.key] = b.value]
    /\ UNCHANGED <<queue, waiting, answer>>

\* The sync call returns to its client.
Return(c) ==
    /\ answer[c] # NoAnswer
    /\ answer' = [answer EXCEPT ![c] = NoAnswer]
    /\ UNCHANGED <<items, queue, running, waiting>>

Call(c) ==
    \/ \E k \in Key : Get(c, k)
    \/ Count(c)
    \/ GetAllKeys(c)
    \/ GetAllValues(c)
    \/ \E k \in Key, v \in Value \cup {Nil} : Set(c, k, v)
    \/ \E k \in Key : RemoveValueForKey(c, k)

QueueStep == Start \/ \E b \in running : FinishRead(b) \/ FinishWrite(b)

Next ==
    \/ \E c \in Client : Call(c) \/ Return(c)
    \/ QueueStep

Spec == Init /\ [][Next]_vars

-----------------------------------------------------------------------------
(***************************************************************************)
(* No data race: while a block changes items no other block touches it.    *)
(***************************************************************************)
NoDataRace ==
    \A a, b \in running : IsWriter(a) => a = b

\* The blocks that will answer a client: those queued and those running.
PendingReads(c) ==
    {i \in DOMAIN queue : ~IsWriter(queue[i]) /\ queue[i].client = c}
RunningReads(c) == {b \in running : ~IsWriter(b) /\ b.client = c}
=============================================================================
