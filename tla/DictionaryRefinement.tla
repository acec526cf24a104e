------------------------ MODULE DictionaryRefinement ------------------------
(***************************************************************************)
(* ThreadSafeDictionary implements AtomicDictionary although assignments   *)
(* are asynchronous: since the queue is first in, first out, a call takes  *)
(* effect when it is submitted.  The abstract dictionary is items after    *)
(* every assignment still pending; the abstract reply of a waiting client  *)
(* is what it will read once the assignments before its block are made.    *)
(***************************************************************************)
EXTENDS ThreadSafeDictionary

\* The assignments to k under way and among the first n blocks of the queue.
AssignsNow(k) == {b \in running : IsWriter(b) /\ b.key = k}
AssignsSoon(k, n) == {i \in 1..n : IsWriter(queue[i]) /\ queue[i].key = k}

\* Assignments take effect in the order of the queue: the last one stays.
Latest(S) == CHOOSE i \in S : \A j \in S : j <= i

\* items once the running blocks and the first n waiting ones are done.
AfterBlocks(n) ==
    [k \in Key |->
        IF AssignsSoon(k, n) # {} THEN queue[Latest(AssignsSoon(k, n))].value
        ELSE IF AssignsNow(k) # {} THEN (CHOOSE b \in AssignsNow(k) : TRUE).value
        ELSE items[k]]

ReplyOf(c) ==
    IF c \notin waiting THEN answer[c]
    ELSE IF RunningReads(c) # {}
         THEN LET b == CHOOSE b \in RunningReads(c) : TRUE
              IN  [k \in b.keys |-> items[k]]
         ELSE LET i == CHOOSE i \in PendingReads(c) : TRUE
              IN  [k \in queue[i].keys |-> AfterBlocks(i - 1)[k]]

Atomic == INSTANCE AtomicDictionary
            WITH dict <- AfterBlocks(Len(queue)),
                 reply <- [c \in Client |-> ReplyOf(c)]

(***************************************************************************)
(* Every call appears to take effect at once, when it is made; in          *)
(* particular a thread reads its own asynchronous writes.                  *)
(***************************************************************************)
ImplementsAtomicDictionary == Atomic!Spec
=============================================================================
