------------------------------ MODULE WitnessProofs ------------------------------
(***************************************************************************)
(* For any set of components and any window: the witness gives one verdict *)
(* at most, leaves no patch behind and never says "Executed" of a dispatch *)
(* that did not run in a request.                                          *)
(***************************************************************************)
EXTENDS Witness, TLAPS

\* Whatever is patched is going to be restored.
AllTracked == patched \subseteq restores

\* The worker is patched until something is recorded or the window is over.
ArmedUntilDone == (patched # {}) = (~ recorded /\ remaining > 0)

\* The wrapper of execute_model is there if any is.
ExecuteWrapped == patched # {} => Execute \in patched

\* A step that runs in the wrapper still has its place in the window, and only
\* such a step sets in_request.
StepInWindow ==
    /\ wrapped => step \in {"request", "empty"} /\ remaining > 0
    /\ inRequest => wrapped /\ step = "request"

\* The thread and the event belong to the recorded dispatch.
ThreadOfRecord ==
    /\ (watcher = "none") = ~ recorded
    /\ recorded => genuine

\* Who has reported what.
Verdict ==
    \/ reports = <<>> /\ watcher # "done" /\ (recorded \/ remaining > 0)
    \/ reports = <<"ExecutionNotYetObserved">> /\ ~ recorded /\ remaining = 0
    \/ /\ watcher = "done"
       /\ \/ reports = <<"Executed">> /\ event = "complete"
          \/ reports = <<"ExecutionEvidenceUnavailable">>

\* Request steps are counted no more often than steps.
CountInWindow == requests + remaining <= Budget

IInv ==
    /\ TypeOK
    /\ AllTracked
    /\ ArmedUntilDone
    /\ ExecuteWrapped
    /\ StepInWindow
    /\ ThreadOfRecord
    /\ Verdict
    /\ CountInWindow

-------------------------------------------------------------------------------
LEMMA FirstReport ==
    ASSUME NEW x \in Stages
    PROVE  Append(<<>>, x) = <<x>> /\ <<x>> \in Seq(Stages) /\ <<>> \in Seq(Stages)
OBVIOUS

\* The reports of a witness with a verdict are well typed.
LEMMA VerdictTypes == Verdict => reports \in Seq(Stages)
<1>1. /\ "Executed" \in Stages /\ "ExecutionNotYetObserved" \in Stages
      /\ "ExecutionEvidenceUnavailable" \in Stages
  BY DEF Stages
<1> QED BY <1>1, FirstReport DEF Verdict

LEMMA InitIInv == Init => IInv
<1> SUFFICES ASSUME Init PROVE IInv
  OBVIOUS
<1> USE WitnessAssumption DEF Init
<1>1. patched \in SUBSET Hooks
  BY DEF Hooks, Execute, LoadHook, DispatchHook
<1>2. Verdict
  BY DEF Verdict
<1>3. /\ remaining \in 0 .. Budget /\ requests \in 0 .. Budget
      /\ requests + remaining <= Budget /\ remaining > 0
  OBVIOUS
<1>4. TypeOK
  BY <1>1, <1>2, <1>3, VerdictTypes, Zenon DEF TypeOK
<1>5. AllTracked
  BY DEF AllTracked
<1>6. ArmedUntilDone
  BY <1>3 DEF ArmedUntilDone
<1>7. ExecuteWrapped /\ StepInWindow /\ ThreadOfRecord
  BY <1>3 DEF ExecuteWrapped, StepInWindow, ThreadOfRecord
<1> QED
  BY <1>2, <1>3, <1>4, <1>5, <1>6, <1>7 DEF IInv, CountInWindow

\* The end of a step of a worker that has not reported yet.
LEMMA FinishStepKeeps ==
    ASSUME IInv, step \in {"none", "request", "empty"},
           NEW result \in {"none", "dead"}, FinishStep(result), LeaveRequest,
           UNCHANGED <<loaded, recorded, observation, manifest>>
    PROVE  IInv'
<1> USE WitnessAssumption DEF IInv
<1>1. /\ step' = result /\ wrapped' = FALSE
      /\ inRequest' = FALSE
      /\ UNCHANGED <<loaded, recorded, event, watcher, genuine, manifest>>
  BY DEF FinishStep, LeaveRequest, observation, StepInWindow
<1>2. /\ remaining' \in 0 .. Budget /\ requests' \in 0 .. Budget
      /\ requests' + remaining' <= Budget
  BY DEF FinishStep, TypeOK, CountInWindow, StepInWindow
<1>3. StepInWindow' /\ ThreadOfRecord' /\ CountInWindow'
  <2>1. StepInWindow'
    BY <1>1 DEF StepInWindow
  <2>2. ThreadOfRecord'
    BY <1>1 DEF ThreadOfRecord
  <2>3. CountInWindow'
    BY <1>2 DEF CountInWindow
  <2> QED BY <2>1, <2>2, <2>3
<1>4. AllTracked' /\ ExecuteWrapped' /\ patched' \in SUBSET Hooks /\ restores' \in SUBSET Hooks
  BY DEF FinishStep, Disarm, AllTracked, ExecuteWrapped, TypeOK
<1>5. Verdict' /\ ArmedUntilDone'
  <2>1. CASE wrapped /\ ~ recorded /\ remaining = 1
    <3>1. reports = <<>>
      BY <2>1 DEF Verdict, ThreadOfRecord
    <3>2. /\ remaining' = 0 /\ patched' = {}
          /\ reports' = <<"ExecutionNotYetObserved">>
      BY <2>1, <3>1, FirstReport DEF FinishStep, Disarm, AllTracked, Stages
    <3> QED
      BY <1>1, <2>1, <3>2 DEF Verdict, ArmedUntilDone
  <2>2. CASE wrapped /\ ~ (~ recorded /\ remaining = 1)
    <3>1. remaining > 0 /\ remaining \in Nat
      BY <2>2 DEF StepInWindow, TypeOK
    <3>2. /\ remaining' = remaining - 1
          /\ UNCHANGED <<patched, restores, reports>>
      BY <2>2, <3>1 DEF FinishStep
    <3>3. Verdict'
      BY <1>1, <2>2, <3>1, <3>2 DEF Verdict
    <3>4. ArmedUntilDone'
      BY <1>1, <2>2, <3>1, <3>2 DEF ArmedUntilDone
    <3> QED BY <3>3, <3>4
  <2>3. CASE ~ wrapped
    <3>1. UNCHANGED <<remaining, patched, reports>>
      BY <2>3 DEF FinishStep
    <3> QED
      BY <1>1, <3>1 DEF Verdict, ArmedUntilDone
  <2> QED BY <2>1, <2>2, <2>3
<1>6. (reports \in Seq(Stages))'
  <2>1. /\ "Executed" \in Stages /\ "ExecutionNotYetObserved" \in Stages
        /\ "ExecutionEvidenceUnavailable" \in Stages
    BY DEF Stages
  <2> QED BY <1>5, <2>1, FirstReport DEF Verdict
<1>7. TypeOK'
  BY <1>1, <1>2, <1>4, <1>6, Zenon DEF TypeOK
<1> QED BY <1>3, <1>4, <1>5, <1>7

LEMMA IInvInductive == IInv /\ [Next]_vars => IInv'
<1> SUFFICES ASSUME IInv, [Next]_vars PROVE IInv'
  OBVIOUS
<1> USE WitnessAssumption DEF IInv, observation
<1>1. ASSUME BeginStep PROVE IInv'
  <2>1. wrapped' => remaining > 0
    BY <1>1 DEF BeginStep, ArmedUntilDone
  <2>2. inRequest' => wrapped' /\ step' = "request"
    BY <1>1 DEF BeginStep, StepInWindow
  <2>3. inRequest' \in BOOLEAN /\ wrapped' \in BOOLEAN
    <3>1. wrapped' \in BOOLEAN
      BY <1>1 DEF BeginStep
    <3>2. CASE wrapped'
      <4>1. inRequest' \in BOOLEAN
        BY <1>1, <3>2 DEF BeginStep
      <4> QED BY <3>1, <4>1, Zenon
    <3>3. CASE ~ wrapped'
      <4>1. inRequest' = inRequest /\ inRequest \in BOOLEAN
        BY <1>1, <3>3 DEF BeginStep, TypeOK
      <4> QED BY <3>1, <4>1, Zenon
    <3> QED BY <3>2, <3>3
  <2>4. /\ step' \in {"request", "empty"}
        /\ UNCHANGED <<loaded, patched, restores, recorded, remaining, event, watcher,
                       genuine, manifest, reports, requests>>
    BY <1>1 DEF BeginStep
  <2>5. TypeOK'
    BY <2>3, <2>4, Zenon DEF TypeOK
  <2>6. AllTracked' /\ ArmedUntilDone' /\ ExecuteWrapped' /\ ThreadOfRecord'
        /\ Verdict' /\ CountInWindow'
    BY <2>4 DEF AllTracked, ArmedUntilDone, ExecuteWrapped, ThreadOfRecord, Verdict,
       CountInWindow
  <2>7. StepInWindow'
    BY <2>1, <2>2, <2>4 DEF StepInWindow
  <2> QED BY <2>5, <2>6, <2>7
<1>2. ASSUME EndStep PROVE IInv'
  BY <1>2, FinishStepKeeps DEF EndStep
<1>3. ASSUME NEW s \in Sites, Dispatch(s) PROVE IInv'
  <2>1. CASE FinishStep("dead") /\ LeaveRequest /\ UNCHANGED <<recorded, observation>>
    BY <1>3, <2>1, FinishStepKeeps DEF Dispatch, StepInWindow
  <2>2. CASE ~ (FinishStep("dead") /\ LeaveRequest /\ UNCHANGED <<recorded, observation>>)
    <3>1. /\ ~ recorded /\ recorded' = TRUE
          /\ patched # {} /\ patched' = {} /\ restores' = {}
          /\ event' = "pending" /\ watcher' = "polling"
          /\ genuine' = (step = "request")
          /\ UNCHANGED <<loaded, inRequest, remaining, step, wrapped, manifest,
                         reports, requests>>
      BY <1>3, <2>2 DEF Dispatch, Disarm, AllTracked
    <3>2. step = "request" /\ remaining > 0
      BY <1>3 DEF Dispatch, StepInWindow
    <3>3. reports = <<>>
      BY <3>1, <3>2 DEF Verdict, ThreadOfRecord
    <3> QED
      BY <3>1, <3>2, <3>3 DEF TypeOK, AllTracked, ArmedUntilDone, ExecuteWrapped,
         StepInWindow, ThreadOfRecord, Verdict, CountInWindow
  <2> QED BY <2>1, <2>2
<1>4. ASSUME NEW s \in Sites, Load(s) PROVE IInv'
  <2>1. DispatchHook(s) \in Hooks /\ LoadHook(s) # Execute
    BY DEF Hooks, DispatchHook, LoadHook, Execute
  <2>2. CASE LoadHook(s) \in patched
    <3>1. ~ recorded /\ remaining > 0 /\ Execute \in patched
      BY <2>2 DEF ArmedUntilDone, ExecuteWrapped
    <3>2. /\ patched' = (patched \ {LoadHook(s)}) \cup {DispatchHook(s)}
          /\ restores' = restores \cup {DispatchHook(s)}
      BY <1>4, <2>2, <3>1 DEF Load
    <3> QED
      BY <1>4, <2>1, <3>1, <3>2 DEF Load, TypeOK, AllTracked, ArmedUntilDone,
         ExecuteWrapped, StepInWindow, ThreadOfRecord, Verdict, CountInWindow
  <2>3. CASE LoadHook(s) \notin patched
    BY <1>4, <2>3 DEF Load, TypeOK, AllTracked, ArmedUntilDone, ExecuteWrapped,
       StepInWindow, ThreadOfRecord, Verdict, CountInWindow
  <2> QED BY <2>2, <2>3
<1>5. ASSUME Gpu PROVE IInv'
  BY <1>5 DEF Gpu, TypeOK, AllTracked, ArmedUntilDone, ExecuteWrapped, StepInWindow,
     ThreadOfRecord, Verdict, CountInWindow
<1>6. ASSUME LoseManifest PROVE IInv'
  BY <1>6 DEF LoseManifest, TypeOK, AllTracked, ArmedUntilDone, ExecuteWrapped,
     StepInWindow, ThreadOfRecord, Verdict, CountInWindow
<1>7. ASSUME Watch PROVE IInv'
  <2>1. recorded /\ reports = <<>>
    BY <1>7 DEF Watch, ThreadOfRecord, Verdict
  <2>2. \/ watcher' = "died" /\ UNCHANGED reports
        \/ event = "complete" /\ watcher' = "done" /\ reports' = <<"Executed">>
        \/ watcher' = "done" /\ reports' = <<"ExecutionEvidenceUnavailable">>
    BY <1>7, <2>1, FirstReport DEF Watch, Report
  <2>3. (reports \in Seq(Stages))'
    BY <2>2, FirstReport DEF Stages, TypeOK
  <2>4. TypeOK'
    BY <1>7, <2>2, <2>3 DEF Watch, TypeOK
  <2> QED
    BY <1>7, <2>1, <2>2, <2>4 DEF Watch, AllTracked, ArmedUntilDone, ExecuteWrapped,
       StepInWindow, ThreadOfRecord, Verdict, CountInWindow
<1>8. CASE UNCHANGED vars
  BY <1>8 DEF vars, TypeOK, AllTracked, ArmedUntilDone, ExecuteWrapped, StepInWindow,
     ThreadOfRecord, Verdict, CountInWindow
<1> QED
  BY <1>1, <1>2, <1>3, <1>4, <1>5, <1>6, <1>7, <1>8 DEF Next

LEMMA Invariant == Spec => []IInv
BY InitIInv, IInvInductive, PTL DEF Spec

-------------------------------------------------------------------------------
\* The variables of the witness keep their types; its window is never exceeded.
THEOREM WitnessTypes == Spec => []TypeOK
<1>1. IInv => TypeOK
  BY DEF IInv
<1> QED BY <1>1, Invariant, PTL

\* The thread and the end of the window never both report, nor one of them twice.
THEOREM AtMostOneVerdict == Spec => []OneVerdict
<1>1. IInv => OneVerdict
  BY DEF IInv, Verdict, OneVerdict
<1> QED BY <1>1, Invariant, PTL

\* After the observation or the window, no attribute holds a wrapper.
THEOREM InstrumentationRemoved == Spec => []RemovedWhenDone
<1>1. IInv => RemovedWhenDone
  BY DEF IInv, ArmedUntilDone, Verdict, ThreadOfRecord, RemovedWhenDone
<1> QED BY <1>1, Invariant, PTL

\* "Executed" is said of a completed dispatch of a request, outside capture.
THEOREM ExecutedIsTrue == Spec => []ExecutedIsGenuine
<1>1. IInv => ExecutedIsGenuine
  BY DEF IInv, Verdict, ThreadOfRecord, ExecutedIsGenuine
<1> QED BY <1>1, Invariant, PTL
===============================================================================
