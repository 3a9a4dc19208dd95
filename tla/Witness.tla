-------------------------------- MODULE Witness --------------------------------
(***************************************************************************)
(* execution/witness.py: the bounded request witness of one worker.  After *)
(* the warm-up it patches Worker.execute_model, the dispatch function of   *)
(* every native library that is loaded and the `load` of the adapters      *)
(* whose library is not.  The first dispatch of a request outside graph    *)
(* capture records a HIP event and removes every patch; a thread waits for *)
(* the event and reports.  Without one, step number Budget removes the     *)
(* patches and reports that nothing was observed.                          *)
(***************************************************************************)
EXTENDS Naturals, Sequences

CONSTANTS
    Sites,      \* the native components
    Budget      \* remaining_steps at the start: 32 in the code

ASSUME WitnessAssumption == Budget \in Nat \ {0}

Execute == <<"worker", "execute_model">>
LoadHook(s) == <<s, "load">>
DispatchHook(s) == <<s, "dispatch">>
Stages == {"Executed", "ExecutionEvidenceUnavailable", "ExecutionNotYetObserved"}
Hooks == {Execute} \cup (Sites \X {"load", "dispatch"})

VARIABLES
    loaded,     \* the sites whose library is loaded
    patched,    \* the attributes that hold a wrapper
    restores,   \* the attributes that disarm restores
    inRequest, recorded, remaining,
    step,       \* what the worker runs: "none", "request", "empty", or "dead"
    wrapped,    \* the running step was entered through the wrapper
    event,      \* of the recorded dispatch: "none", "pending", "complete", "failed"
    watcher,    \* the thread: "none", "polling", "done", "died"
    manifest,   \* native/<group>/manifest.json can be read
    reports,    \* the stages reported
    genuine,    \* history: the event was recorded in a request, outside capture
    requests    \* history: the request steps that the wrapper has seen end

vars == <<loaded, patched, restores, inRequest, recorded, remaining, step, wrapped,
          event, watcher, manifest, reports, genuine, requests>>

observation == <<event, watcher, genuine>>

\* Witness.arm, after compile_or_warm_up_model; no step runs yet.
Init ==
    /\ loaded \in SUBSET Sites
    /\ patched = {Execute} \cup {DispatchHook(s) : s \in loaded}
                           \cup {LoadHook(s) : s \in Sites \ loaded}
    /\ restores = patched
    /\ inRequest = FALSE /\ recorded = FALSE
    /\ remaining = Budget
    /\ step = "none" /\ wrapped = FALSE
    /\ event = "none" /\ watcher = "none" /\ genuine = FALSE
    /\ manifest = TRUE
    /\ reports = <<>>
    /\ requests = 0

\* execute_model is called; the scheduler may have scheduled no token at all
\* (a step that only frees finished requests).
BeginStep ==
    /\ step = "none"
    /\ step' \in {"request", "empty"}
    /\ wrapped' = (Execute \in patched)
    /\ inRequest' = IF wrapped' THEN step' = "request" ELSE inRequest
    /\ UNCHANGED <<loaded, patched, restores, recorded, remaining, observation,
                   manifest, reports, requests>>

\* Every wrapper that is still in place is taken out.
Disarm ==
    /\ patched' = patched \ restores
    /\ restores' = {}

\* The `finally` of execute, in two parts.
LeaveRequest == inRequest' = (inRequest /\ ~ wrapped)

\* After an exception of the model the engine is dead.
FinishStep(result) ==
    /\ step' = result
    /\ wrapped' = FALSE
    /\ IF wrapped
       THEN /\ remaining' = remaining - 1
            /\ requests' = IF step = "request" THEN requests + 1 ELSE requests
            /\ IF ~ recorded /\ remaining' = 0
               THEN Disarm /\ reports' = Append(reports, "ExecutionNotYetObserved")
               ELSE UNCHANGED <<patched, restores, reports>>
       ELSE UNCHANGED <<remaining, requests, patched, restores, reports>>

\* Mutant of EndStep: the flag survives the step.
EndStepInRequest ==
    /\ step \in {"request", "empty"}
    /\ \E result \in {"none", "dead"} : FinishStep(result)
    /\ UNCHANGED <<inRequest, loaded, recorded, observation, manifest>>

\* Mutant of EndStep: steps are counted after the wrapper is gone.
EndStepUnwrapped ==
    /\ step \in {"request", "empty"}
    /\ step' = "none" /\ wrapped' = FALSE
    /\ LeaveRequest
    /\ remaining' = remaining - 1
    /\ UNCHANGED <<loaded, patched, restores, recorded, observation, manifest,
                   reports, requests>>

\* Mutant of EndStep: the end of the window is reported whatever was recorded.
EndStepAlwaysReports ==
    /\ step \in {"request", "empty"} /\ wrapped
    /\ step' = "none" /\ wrapped' = FALSE
    /\ LeaveRequest
    /\ remaining' = remaining - 1
    /\ requests' = IF step = "request" THEN requests + 1 ELSE requests
    /\ IF remaining' = 0
       THEN Disarm /\ reports' = Append(reports, "ExecutionNotYetObserved")
       ELSE UNCHANGED <<patched, restores, reports>>
    /\ UNCHANGED <<loaded, recorded, observation, manifest>>

EndStep ==
    /\ step \in {"request", "empty"}
    /\ LeaveRequest
    /\ \E result \in {"none", "dead"} : FinishStep(result)
    /\ UNCHANGED <<loaded, recorded, observation, manifest>>

\* A native function returned 0 through its wrapper: `observe`.  The stream may
\* be capturing a graph, and the program may be outside execute_model (a dummy
\* run).  The event cannot always be created; the exception ends the step.
Dispatch(s) ==
    /\ step # "dead"
    /\ DispatchHook(s) \in patched
    /\ ~ recorded /\ inRequest
    /\ \E capturing \in BOOLEAN, created \in BOOLEAN :
          /\ ~ capturing
          /\ IF created
             THEN /\ recorded' = TRUE
                  /\ Disarm
                  /\ event' = "pending"
                  /\ watcher' = "polling"
                  /\ genuine' = (step = "request" /\ ~ capturing)
                  /\ UNCHANGED <<inRequest, remaining, step, wrapped, reports, requests>>
             ELSE /\ FinishStep("dead")
                  /\ LeaveRequest
                  /\ UNCHANGED <<recorded, observation>>
    /\ UNCHANGED <<loaded, manifest>>

\* Mutant of Load: the patch of the library is not noted for disarm.
LoadUntracked(s) ==
    /\ step # "dead" /\ s \notin loaded
    /\ loaded' = loaded \cup {s}
    /\ IF LoadHook(s) \in patched
       THEN patched' = (patched \ {LoadHook(s)}) \cup {DispatchHook(s)}
       ELSE UNCHANGED patched
    /\ UNCHANGED <<restores, inRequest, recorded, remaining, step, wrapped,
                   observation, manifest, reports, requests>>

\* An adapter loads its library, in a step or not.  The patched `load` replaces
\* itself by a patch of the library.
Load(s) ==
    /\ step # "dead" /\ s \notin loaded
    /\ loaded' = loaded \cup {s}
    /\ IF LoadHook(s) \in patched
       THEN IF recorded
            THEN patched' = patched \ {LoadHook(s)} /\ UNCHANGED restores
            ELSE /\ patched' = (patched \ {LoadHook(s)}) \cup {DispatchHook(s)}
                 /\ restores' = restores \cup {DispatchHook(s)}
       ELSE UNCHANGED <<patched, restores>>
    /\ UNCHANGED <<inRequest, recorded, remaining, step, wrapped, observation,
                   manifest, reports, requests>>

\* The GPU reaches the event, or fails; it may also hang.
Gpu ==
    /\ event = "pending"
    /\ event' \in {"complete", "failed"}
    /\ UNCHANGED <<loaded, patched, restores, inRequest, recorded, remaining, step,
                   wrapped, watcher, manifest, reports, genuine, requests>>

\* The bundle is damaged after the launch.
LoseManifest ==
    /\ manifest
    /\ manifest' = FALSE
    /\ UNCHANGED <<loaded, patched, restores, inRequest, recorded, remaining, step,
                   wrapped, observation, reports, requests>>

Report(stage) ==
    /\ watcher' = "done"
    /\ reports' = Append(reports, stage)

\* Mutant of Watch: the thread polls without a deadline.
WatchForever ==
    /\ watcher = "polling" /\ step # "dead"
    /\ \/ event = "complete" /\ manifest /\ Report("Executed")
       \/ event = "complete" /\ ~ manifest /\ watcher' = "died" /\ UNCHANGED reports
       \/ event = "failed" /\ Report("ExecutionEvidenceUnavailable")
    /\ UNCHANGED <<loaded, patched, restores, inRequest, recorded, remaining, step,
                   wrapped, event, manifest, genuine, requests>>

\* `completed`: the event is complete (the checksum is read from the bundle, and
\* the thread dies if it cannot be), has failed, or is late.
Watch ==
    /\ watcher = "polling" /\ step # "dead"
    /\ \/ event = "complete" /\ manifest /\ Report("Executed")
       \/ event = "complete" /\ ~ manifest /\ watcher' = "died" /\ UNCHANGED reports
       \/ event # "complete" /\ Report("ExecutionEvidenceUnavailable")
    /\ UNCHANGED <<loaded, patched, restores, inRequest, recorded, remaining, step,
                   wrapped, event, manifest, genuine, requests>>

Next ==
    \/ BeginStep \/ EndStep
    \/ \E s \in Sites : Dispatch(s) \/ Load(s)
    \/ Gpu \/ LoseManifest \/ Watch

Spec == Init /\ [][Next]_vars

\* The thread polls every 10 ms and gives up after 120 s; a step returns or
\* raises.  Nothing obliges the scheduler to begin one, or the GPU to finish.
FairSpec == Spec /\ WF_vars(Watch) /\ WF_vars(EndStep)

-------------------------------------------------------------------------------
TypeOK ==
    /\ loaded \in SUBSET Sites
    /\ patched \in SUBSET Hooks
    /\ restores \in SUBSET Hooks
    /\ inRequest \in BOOLEAN /\ recorded \in BOOLEAN
    /\ remaining \in 0 .. Budget
    /\ step \in {"none", "request", "empty", "dead"}
    /\ wrapped \in BOOLEAN
    /\ event \in {"none", "pending", "complete", "failed"}
    /\ watcher \in {"none", "polling", "done", "died"}
    /\ manifest \in BOOLEAN
    /\ reports \in Seq(Stages)
    /\ genuine \in BOOLEAN
    /\ requests \in 0 .. Budget

\* The worker gives at most one verdict, although the thread and the last step of
\* the window may end in either order.
OneVerdict == Len(reports) <= 1

\* The instrumentation is gone as soon as something was recorded or the window is
\* over, including the patches that libraries loaded meanwhile have got.
RemovedWhenDone == (recorded \/ reports # <<>>) => patched = {}

\* "Executed" is only ever said of a dispatch that ran in a request, outside
\* capture, and whose event the GPU has completed: never of a dummy run between
\* two requests or after the last.
ExecutedIsGenuine ==
    \A i \in 1 .. Len(reports) :
        reports[i] = "Executed" => genuine /\ event = "complete"

\* A recorded dispatch is followed by a verdict even if the GPU hangs, unless the
\* engine dies or the bundle was damaged.
RecordedIsReported ==
    recorded ~> (reports # <<>> \/ step = "dead" \/ watcher = "died")

\* What the report of an empty window says: no eligible dispatch "in the first 32
\* request steps".
WindowIsRequestSteps ==
    \A i \in 1 .. Len(reports) :
        reports[i] = "ExecutionNotYetObserved" => requests = Budget
===============================================================================
