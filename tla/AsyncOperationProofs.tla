------------------------ MODULE AsyncOperationProofs ------------------------
(***************************************************************************)
(* What holds of AsyncOperation for every set of operations and every      *)
(* dependencies between them.                                              *)
(***************************************************************************)
EXTENDS AsyncOperation, TLAPS

(***************************************************************************)
(* Every variable keeps its type: in particular state only ever holds one  *)
(* of the three cases of the enumeration.                                  *)
(***************************************************************************)
LEMMA TypeStep == TypeOK /\ [Next]_opVars => TypeOK'
<1> SUFFICES ASSUME TypeOK, [Next]_opVars
             PROVE  TypeOK'
  OBVIOUS
<1> USE DEF TypeOK, State, Thread, Caller
<1>1. ASSUME NEW op \in Op, Dispatch(op) \/ StartMain(op)
      PROVE  TypeOK'
  BY <1>1 DEF Dispatch, StartMain
<1>2. ASSUME NEW op \in Op, StartCancelled(op) \/ ReturnFromMain(op)
      PROVE  TypeOK'
  BY <1>2 DEF StartCancelled, ReturnFromMain, SetState
<1>3. ASSUME NEW op \in Op, FinishInMain(op) \/ FinishInCallback(op)
      PROVE  TypeOK'
  BY <1>3 DEF FinishInMain, FinishInCallback, SetState
<1>4. ASSUME NEW op \in Op, Cancel(op)
      PROVE  TypeOK'
  BY <1>4 DEF Cancel
<1>7. ASSUME NEW op \in Op, FinishCancel(op)
      PROVE  TypeOK'
  BY <1>7 DEF FinishCancel, SetState
<1>5. ASSUME NEW op \in Op, NEW caller \in Caller, DidSet(op, caller)
      PROVE  TypeOK'
  BY <1>5 DEF DidSet
<1>6. CASE UNCHANGED opVars
  BY <1>6 DEF opVars
<1> QED
  BY <1>1, <1>2, <1>3, <1>4, <1>5, <1>6, <1>7 DEF Next

THEOREM TypeCorrect == Spec => []TypeOK
<1>1. Init => TypeOK
  BY DEF Init, TypeOK, State, Thread
<1> QED
  BY <1>1, TypeStep, PTL DEF Spec

-----------------------------------------------------------------------------
(***************************************************************************)
(* A stored .finished is known to the queue or is about to be posted: the  *)
(* two-key didSet loses no finish, only an overwriting store can.          *)
(***************************************************************************)
THEOREM NoFinishUnnoticed == Spec => []FinishedIsSeen
<1>1. Init => FinishedIsSeen
  BY DEF Init, FinishedIsSeen, IsFinished
<1>2. TypeOK /\ FinishedIsSeen /\ [Next]_opVars => FinishedIsSeen'
  <2> SUFFICES ASSUME TypeOK, FinishedIsSeen, [Next]_opVars,
                      NEW x \in Op, state'[x] = "finished"
               PROVE  \/ x \in cleared'
                      \/ \E caller \in Caller : <<x, caller>> \in notices'
    BY DEF FinishedIsSeen, IsFinished
  <2> USE DEF FinishedIsSeen, IsFinished, TypeOK
  <2>1. ASSUME NEW op \in Op, Dispatch(op) \/ StartMain(op) \/ Cancel(op)
        PROVE  \/ x \in cleared'
               \/ \E caller \in Caller : <<x, caller>> \in notices'
    BY <2>1 DEF Dispatch, StartMain, Cancel
  <2>2. ASSUME NEW op \in Op, NEW value \in State, NEW who \in Caller,
               SetState(op, value, who), cleared' = cleared
        PROVE  \/ x \in cleared'
               \/ \E caller \in Caller : <<x, caller>> \in notices'
    <3>1. CASE x = op
      BY <2>2, <3>1 DEF SetState
    <3>2. CASE x # op
      BY <2>2, <3>2 DEF SetState
    <3> QED
      BY <3>1, <3>2
  <2>3. ASSUME NEW op \in Op,
               \/ StartCancelled(op) \/ ReturnFromMain(op) \/ FinishInMain(op)
               \/ FinishInCallback(op) \/ FinishCancel(op)
        PROVE  \/ x \in cleared'
               \/ \E caller \in Caller : <<x, caller>> \in notices'
    <3>1. PICK value \in State, who \in Caller : SetState(op, value, who)
      BY <2>3 DEF StartCancelled, ReturnFromMain, FinishInMain,
                  FinishInCallback, FinishCancel, State, Caller
    <3>2. cleared' = cleared
      BY <2>3 DEF StartCancelled, ReturnFromMain, FinishInMain,
                  FinishInCallback, FinishCancel
    <3> QED
      BY <2>2, <3>1, <3>2
  <2>4. ASSUME NEW op \in Op, NEW who \in Caller, DidSet(op, who)
        PROVE  \/ x \in cleared'
               \/ \E caller \in Caller : <<x, caller>> \in notices'
    <3>1. CASE x = op
      BY <2>4, <3>1 DEF DidSet
    <3>2. CASE x # op
      <4>1. cleared \subseteq cleared' /\ state' = state
        BY <2>4 DEF DidSet
      <4>2. ASSUME NEW caller \in Caller, <<x, caller>> \in notices
            PROVE  <<x, caller>> \in notices'
        BY <2>4, <3>2, <4>2 DEF DidSet
      <4> QED
        BY <4>1, <4>2
    <3> QED
      BY <3>1, <3>2
  <2>5. CASE UNCHANGED opVars
    BY <2>5 DEF opVars
  <2> QED
    BY <2>1, <2>3, <2>4, <2>5 DEF Next
<1> QED
  BY <1>1, <1>2, TypeCorrect, PTL DEF Spec

-----------------------------------------------------------------------------
(***************************************************************************)
(* No operation enters main() before all the operations it depends on have *)
(* been seen finished, not even one that the queue starts too early        *)
(* because cancel() stands between its two lines (AsyncOperation.swift:    *)
(* 38-40, 57-70).                                                          *)
(***************************************************************************)
THEOREM DependenciesRespected == Spec => []StartedAfterDependencies
<1>1. Init => StartedAfterDependencies
  BY DEF Init, StartedAfterDependencies
<1>2. TypeOK /\ StartedAfterDependencies /\ [Next]_opVars
        => StartedAfterDependencies'
  <2> SUFFICES ASSUME TypeOK, StartedAfterDependencies, [Next]_opVars, NEW x \in Op,
                      thread'[x] = "main" \/ (thread'[x] # "queued" /\ ~cancelled'[x])
               PROVE  Dependencies[x] \subseteq cleared'
    BY DEF StartedAfterDependencies
  <2> USE DEF TypeOK, StartedAfterDependencies
  <2>1. cleared \subseteq cleared' /\ (cancelled[x] => cancelled'[x])
    BY DEF Next, opVars, Dispatch, StartCancelled, StartMain, FinishInMain,
           ReturnFromMain, FinishInCallback, Cancel, FinishCancel, DidSet
  <2>2. CASE thread[x] = "main" \/ (thread[x] # "queued" /\ ~cancelled[x])
    BY <2>1, <2>2
  <2>3. CASE thread[x] = "queued"
    <3>1. Dispatch(x)
      BY <2>3 DEF Next, opVars, Dispatch, StartCancelled, StartMain, FinishInMain,
                  ReturnFromMain, FinishInCallback, Cancel, FinishCancel, DidSet
    <3>2. thread'[x] = "dispatched" /\ ~cancelled[x]
      BY <2>1, <3>1 DEF Dispatch
    <3> QED
      BY <2>1, <3>1, <3>2 DEF Dispatch, IsReady, SuperIsReady
  <2>4. CASE thread[x] \notin {"queued", "main"} /\ cancelled[x]
    <3>1. thread'[x] = "main"
      BY <2>1, <2>4
    <3>2. StartMain(x)
      BY <2>4, <3>1 DEF Next, opVars, Dispatch, StartCancelled, StartMain, FinishInMain,
                  ReturnFromMain, FinishInCallback, Cancel, FinishCancel, DidSet
    <3> QED
      BY <2>4, <3>2 DEF StartMain
  <2> QED
    BY <2>2, <2>3, <2>4
<1> QED
  BY <1>1, <1>2, TypeCorrect, PTL DEF Spec

-----------------------------------------------------------------------------
(***************************************************************************)
(* An operation cancelled before a thread has entered start() never runs   *)
(* its main().                                                             *)
(***************************************************************************)
THEOREM CancelledNeverMain == Spec => CancelBeforeStartWins
<1>1. TypeOK /\ [Next]_opVars =>
        [\A op \in Op :
            cancelled[op] /\ thread[op] \in {"queued", "dispatched"}
                => thread'[op] # "main"]_opVars
  <2> SUFFICES ASSUME TypeOK, Next, NEW x \in Op, cancelled[x],
                      thread[x] \in {"queued", "dispatched"}
               PROVE  thread'[x] # "main"
    BY DEF opVars
  <2> USE DEF TypeOK
  <2>1. ASSUME NEW op \in Op, StartMain(op)
        PROVE  thread'[x] # "main"
    BY <2>1 DEF StartMain
  <2>2. ASSUME NEW op \in Op,
               \/ Dispatch(op) \/ StartCancelled(op) \/ ReturnFromMain(op)
        PROVE  thread'[x] # "main"
    BY <2>2 DEF Dispatch, StartCancelled, ReturnFromMain
  <2>3. ASSUME NEW op \in Op,
               \/ FinishInMain(op) \/ FinishInCallback(op) \/ Cancel(op)
               \/ FinishCancel(op)
               \/ \E caller \in Caller : DidSet(op, caller)
        PROVE  thread'[x] # "main"
    BY <2>3 DEF FinishInMain, FinishInCallback, Cancel, FinishCancel, DidSet
  <2> QED
    BY <2>1, <2>2, <2>3 DEF Next
<1> QED
  BY <1>1, TypeCorrect, PTL DEF Spec, CancelBeforeStartWins
=============================================================================
