-------------------------- MODULE AtomicDictionary --------------------------
(***************************************************************************)
(* What a thread-safe dictionary promises: every call takes effect at one  *)
(* instant, the instant it is made.  A call that reads is answered with    *)
(* the part of the dictionary it asked for as it was at that instant.      *)
(*                                                                         *)
(* A key without a value is mapped to Nil.  An answer is the dictionary    *)
(* restricted to the keys read: one for a subscript, all of them for       *)
(* count, getAllKeys and getAllValues, which are computed from it.         *)
(***************************************************************************)
CONSTANTS Client, Key, Value, Nil

VARIABLES
    dict,       \* the dictionary
    reply       \* the answer a client is about to receive, or NoReply

atomicVars == <<dict, reply>>

Contents == [Key -> Value \cup {Nil}]
Answer == UNION {[K -> Value \cup {Nil}] : K \in (SUBSET Key) \ {{}}}
NoReply == [k \in {} |-> Nil]

TypeOK ==
    /\ dict \in Contents
    /\ reply \in [Client -> Answer \cup {NoReply}]

Init ==
    /\ dict = [k \in Key |-> Nil]
    /\ reply = [c \in Client |-> NoReply]

Assign(c, k, v) ==
    /\ reply[c] = NoReply
    /\ dict' = [dict EXCEPT ![k] = v]
    /\ UNCHANGED reply

Ask(c, K) ==
    /\ reply[c] = NoReply
    /\ reply' = [reply EXCEPT ![c] = [k \in K |-> dict[k]]]
    /\ UNCHANGED dict

Return(c) ==
    /\ reply[c] # NoReply
    /\ reply' = [reply EXCEPT ![c] = NoReply]
    /\ UNCHANGED dict

Next ==
    \E c \in Client :
        \/ \E k \in Key, v \in Value \cup {Nil} : Assign(c, k, v)
        \/ \E K \in (SUBSET Key) \ {{}} : Ask(c, K)
        \/ Return(c)

Spec == Init /\ [][Next]_atomicVars
=============================================================================
