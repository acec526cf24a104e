--------------------------- MODULE TransactionLoad ---------------------------
(***************************************************************************)
(* What a download of transactions promises its caller, who passes a       *)
(* completion to InboxLogoInteractor.loadTransactions: rows are committed  *)
(* to Realm one at a time, and if the download ends, it ends with one call *)
(* of the completion, a success that names the number of rows committed or *)
(* a failure, which may leave rows behind.  A download that is cancelled   *)
(* may also end silently, or report the cancellation and go on all the     *)
(* same; what it reports after that is not told here.                      *)
(*                                                                         *)
(* TransactionPipeline implements this specification.  InboxLogo uses it   *)
(* as its environment, with no Cancelable download: the screen drops the   *)
(* provider as soon as it is made, so nobody can cancel it.                *)
(***************************************************************************)
EXTENDS Naturals

CONSTANTS
    Provider,   \* the downloads
    Cancelable, \* those a client may cancel
    MaxRows     \* bound on the transactions of one download

ASSUME MaxRowsAssumption == MaxRows \in Nat
ASSUME CancelableAssumption == Cancelable \subseteq Provider

VARIABLES
    phase,      \* "idle", "loading" or "reported"
    rows,       \* rows committed to Realm by each download
    outcome     \* what a reported download first reported, "none" before

loadVars == <<phase, rows, outcome>>

\* Failures found before the first row is written, and while writing.
EarlyFailure == {"transactionsNotExist", "notRealmConnected"}
LateFailure == {"realmWriteDataError"}
Cancellation == "operationIsCancelled"
Outcome == {"none", "success", Cancellation} \cup EarlyFailure \cup LateFailure

TypeOK ==
    /\ phase \in [Provider -> {"idle", "loading", "reported"}]
    /\ rows \in [Provider -> 0..MaxRows]
    /\ outcome \in [Provider -> Outcome]

Init ==
    /\ phase = [p \in Provider |-> "idle"]
    /\ rows = [p \in Provider |-> 0]
    /\ outcome = [p \in Provider |-> "none"]

Begin(p) ==
    /\ phase[p] = "idle"
    /\ phase' = [phase EXCEPT ![p] = "loading"]
    /\ UNCHANGED <<rows, outcome>>

CommitRow(p) ==
    /\ phase[p] = "loading" \/ outcome[p] = Cancellation
    /\ rows[p] < MaxRows
    /\ rows' = [rows EXCEPT ![p] = @ + 1]
    /\ UNCHANGED <<phase, outcome>>

Report(p, how) ==
    /\ phase[p] = "loading"
    /\ phase' = [phase EXCEPT ![p] = "reported"]
    /\ outcome' = [outcome EXCEPT ![p] = how]
    /\ UNCHANGED rows

Succeed(p) == Report(p, "success")

FailEarly(p) ==
    /\ rows[p] = 0
    /\ \E how \in EarlyFailure : Report(p, how)

FailLate(p) == \E how \in LateFailure : Report(p, how)

ReportCancellation(p) ==
    /\ p \in Cancelable
    /\ rows[p] = 0
    /\ Report(p, Cancellation)

Step(p) ==
    \/ Begin(p)
    \/ CommitRow(p)
    \/ Succeed(p)
    \/ FailEarly(p)
    \/ FailLate(p)
    \/ ReportCancellation(p)

Next == \E p \in Provider : Step(p)

Spec == Init /\ [][Next]_loadVars
=============================================================================
