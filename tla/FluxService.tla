------------------------------ MODULE FluxService ------------------------------
(***************************************************************************)
(* The FLUX.2 image services of worker_api.py, one per engine, with the    *)
(* ComfyUI node that uses them.  A service is a single-threaded HTTP       *)
(* server: requests wait in its backlog and are handled one at a time.  It *)
(* runs inference in a spawned worker process behind a two-way pipe, and   *)
(* the worker may fail to load, die or take too long at any moment.  The   *)
(* node, under its lock, has every other engine unloaded before it asks    *)
(* its own for an image, and may give up (timeout=1230) while its request  *)
(* is still in a backlog or in the works.                                  *)
(*                                                                         *)
(* The code does not number anything: here a request has a number, and an  *)
(* answer, image or error, that of the request it was computed for, or 0   *)
(* when it only says that the pipeline could not be loaded.                *)
(***************************************************************************)
EXTENDS Naturals, Sequences, FiniteSets

CONSTANTS
    Engines,        \* _endpoints
    MaxRequests     \* bound: HTTP requests of the node

ASSUME FluxAssumption ==
    /\ Engines # {} /\ IsFiniteSet(Engines)
    /\ MaxRequests \in Nat

VARIABLES
    backlog,    \* per engine: requests that the server has not accepted
    current,    \* per engine: the request in its handler
    stage,      \* per engine: the place in the handler
    process,    \* per engine: InferenceWorker.process and its state
    inbox,      \* per engine: request numbers in the pipe to the worker
    outbox,     \* per engine: answers in the pipe to the service
    work,       \* per engine: the request that the worker computes
    answer,     \* per engine: what recv returned
    node,       \* the node: what it does, for which engine, whom it has had unloaded
    asked,      \* the engine and number of its outstanding request
    sent,       \* the number of its last request
    outcome     \* how its last request ended

pipes   == <<inbox, outbox, work>>
client  == <<node, asked, sent, outcome>>
vars    == <<backlog, current, stage, process, pipes, answer, client>>

Ids      == Nat \ {0}
Requests == [id : Ids, kind : {"unload", "generate"}]
Nodes    == [at : {"idle", "unloading", "generating"}, engine : Engines,
             unloaded : SUBSET Engines]
NoOne    == [id |-> 0, kind |-> "none"]
Alive    == {"loading", "ready", "busy", "exiting"}
Stages   == {"idle", "unload", "generate", "send", "waiting", "reply", "failed"}
Outcomes == {"none", "unloaded", "answered", "error", "dropped"}

Goto(e, s) == stage' = [stage EXCEPT ![e] = s]
Gone(e)    == asked # current[e].id     \* the client does not wait any more

Init ==
    /\ backlog = [e \in Engines |-> <<>>]
    /\ current = [e \in Engines |-> NoOne]
    /\ stage = [e \in Engines |-> "idle"]
    /\ process = [e \in Engines |-> "none"]
    /\ inbox = [e \in Engines |-> <<>>]
    /\ outbox = [e \in Engines |-> <<>>]
    /\ work = [e \in Engines |-> 0]
    /\ answer = [e \in Engines |-> 0]
    /\ node = [at |-> "idle", engine |-> CHOOSE e \in Engines : TRUE, unloaded |-> {}]
    /\ asked = 0 /\ sent = 0 /\ outcome = "none"

-------------------------------------------------------------------------------
\* The node.

Post(e, kind) ==
    /\ backlog' = [backlog EXCEPT ![e] = Append(@, [id |-> sent + 1, kind |-> kind])]
    /\ sent' = sent + 1 /\ asked' = sent + 1

Begin(e) ==
    /\ node.at = "idle" /\ sent + Cardinality(Engines) <= MaxRequests
    /\ node' = [at |-> "unloading", engine |-> e, unloaded |-> {}]
    /\ UNCHANGED <<backlog, current, stage, process, pipes, answer, asked, sent, outcome>>

\* Mutant of AskUnload: the loop has no `if name!=engine`.
AskUnloadAll(e) ==
    /\ node.at = "unloading" /\ asked = 0
    /\ e \notin node.unloaded
    /\ Post(e, "unload")
    /\ UNCHANGED <<current, stage, process, pipes, answer, node, outcome>>

\* for name,endpoint in _endpoints.items(): if name!=engine: request(endpoint,'/unload')
AskUnload(e) ==
    /\ node.at = "unloading" /\ asked = 0
    /\ e \notin node.unloaded \cup {node.engine}
    /\ Post(e, "unload")
    /\ UNCHANGED <<current, stage, process, pipes, answer, node, outcome>>

AskGenerate ==
    /\ node.at = "unloading" /\ asked = 0
    /\ node.unloaded = Engines \ {node.engine}
    /\ Post(node.engine, "generate")
    /\ node' = [node EXCEPT !.at = "generating"]
    /\ UNCHANGED <<current, stage, process, pipes, answer, outcome>>

\* Mutant of GiveUp: an unload that times out is passed over.
GiveUpOneUnload ==
    /\ asked # 0 /\ asked' = 0
    /\ IF node.at = "unloading"
       THEN node' = [node EXCEPT !.unloaded = Engines \ {node.engine}]
       ELSE node' = [node EXCEPT !.at = "idle"]
    /\ UNCHANGED <<backlog, current, stage, process, pipes, answer, sent, outcome>>

\* urlopen times out: the lock is released, the request stays where it is.
GiveUp ==
    /\ asked # 0 /\ asked' = 0
    /\ node' = [node EXCEPT !.at = "idle"]
    /\ UNCHANGED <<backlog, current, stage, process, pipes, answer, sent, outcome>>

\* The handler of e ends, and a client that still waits learns how.
End(e, how) ==
    /\ Goto(e, "idle")
    /\ current' = [current EXCEPT ![e] = NoOne]
    /\ IF Gone(e)
       THEN UNCHANGED client
       ELSE /\ asked' = 0 /\ outcome' = how
            /\ node' = IF how = "unloaded"
                       THEN [node EXCEPT !.unloaded = @ \cup {e}]
                       ELSE [node EXCEPT !.at = "idle"]
            /\ UNCHANGED sent

-------------------------------------------------------------------------------
\* The service.

\* InferenceWorker.unload of a process that was started: terminate, join, kill, close.
Unload(e) ==
    /\ process' = [process EXCEPT ![e] = "none"]
    /\ inbox' = [inbox EXCEPT ![e] = <<>>]
    /\ outbox' = [outbox EXCEPT ![e] = <<>>]
    /\ work' = [work EXCEPT ![e] = 0]

Accept(e) ==
    /\ stage[e] = "idle" /\ backlog[e] # <<>>
    /\ current' = [current EXCEPT ![e] = Head(backlog[e])]
    /\ backlog' = [backlog EXCEPT ![e] = Tail(@)]
    /\ Goto(e, Head(backlog[e]).kind)
    /\ UNCHANGED <<process, pipes, answer, client>>

\* The /unload handler; terminate of a process whose start failed raises AttributeError.
HandleUnload(e) ==
    /\ stage[e] = "unload"
    /\ IF process[e] = "unstarted"
       THEN End(e, "dropped") /\ UNCHANGED <<process, pipes>>
       ELSE End(e, "unloaded") /\ Unload(e)
    /\ UNCHANGED <<backlog, answer>>

\* generate: a process that is not alive is unloaded and replaced.  Pipe and start may
\* raise OSError, which do_POST does not catch; start leaves an unstarted process behind.
EnsureWorker(e) ==
    /\ stage[e] = "generate"
    /\ \/ process[e] \in Alive /\ Goto(e, "send") /\ UNCHANGED <<current, process, pipes, client>>
       \/ process[e] = "unstarted" /\ End(e, "dropped") /\ UNCHANGED <<process, pipes>>
       \/ /\ process[e] \in {"none", "dead"}
          /\ inbox' = [inbox EXCEPT ![e] = <<>>]
          /\ outbox' = [outbox EXCEPT ![e] = <<>>]
          /\ work' = [work EXCEPT ![e] = 0]
          /\ \/ /\ process' = [process EXCEPT ![e] = "loading"]
                /\ Goto(e, "send")
                /\ UNCHANGED <<current, client>>
             \/ /\ \E p \in {"none", "unstarted"} : process' = [process EXCEPT ![e] = p]
                /\ End(e, "dropped")
    /\ UNCHANGED <<backlog, answer>>

\* connection.send: BrokenPipeError if the worker has died meanwhile.
Send(e) ==
    /\ stage[e] = "send"
    /\ IF process[e] = "dead"
       THEN Goto(e, "failed") /\ UNCHANGED inbox
       ELSE Goto(e, "waiting") /\ inbox' = [inbox EXCEPT ![e] = Append(@, current[e].id)]
    /\ UNCHANGED <<backlog, current, process, outbox, work, answer, client>>

Receive(e) ==
    /\ stage[e] = "waiting" /\ outbox[e] # <<>>
    /\ answer' = [answer EXCEPT ![e] = Head(outbox[e])]
    /\ outbox' = [outbox EXCEPT ![e] = Tail(@)]
    /\ Goto(e, "reply")
    /\ UNCHANGED <<backlog, current, process, inbox, work, client>>

\* The worker has died: noticed by is_alive (RuntimeError) or by recv, which raises
\* EOFError, or ConnectionResetError if the worker left something unread.
WorkerExited(e) ==
    /\ stage[e] = "waiting" /\ process[e] = "dead"
    /\ \/ Goto(e, "failed") /\ UNCHANGED <<current, client>>
       \/ outbox[e] = <<>> /\ inbox[e] # <<>> /\ End(e, "dropped")
    /\ UNCHANGED <<backlog, process, pipes, answer>>

\* Mutant of Deadline: the worker is left alone, the client told.
DeadlineOnly(e) ==
    /\ stage[e] = "waiting" /\ process[e] # "dead"
    /\ End(e, "error")
    /\ UNCHANGED <<backlog, process, pipes, answer>>

\* Mutant of Deadline: there is none.
NoDeadline(e) == FALSE /\ UNCHANGED vars

Deadline(e) ==
    /\ stage[e] = "waiting" /\ process[e] # "dead"
    /\ Unload(e)
    /\ Goto(e, "failed")
    /\ UNCHANGED <<backlog, current, answer, client>>

\* The reply; BrokenPipeError of a client that has gone unloads the worker as well.
Reply(e) ==
    /\ stage[e] = "reply"
    /\ End(e, "answered")
    /\ UNCHANGED <<process, pipes>> \/ (Gone(e) /\ Unload(e))
    /\ UNCHANGED <<backlog, answer>>

\* except (RuntimeError,EOFError,BrokenPipeError): unload, and the error as reply.
Fail(e) ==
    /\ stage[e] = "failed"
    /\ Unload(e)
    /\ End(e, "error")
    /\ UNCHANGED <<backlog, answer>>

-------------------------------------------------------------------------------
\* The worker process.

Load(e) ==
    /\ process[e] = "loading"
    /\ \/ process' = [process EXCEPT ![e] = "ready"] /\ UNCHANGED outbox
       \/ /\ process' = [process EXCEPT ![e] = "exiting"]
          /\ outbox' = [outbox EXCEPT ![e] = Append(@, 0)]
    /\ UNCHANGED <<backlog, current, stage, inbox, work, answer, client>>

Take(e) ==
    /\ process[e] = "ready" /\ inbox[e] # <<>>
    /\ work' = [work EXCEPT ![e] = Head(inbox[e])]
    /\ inbox' = [inbox EXCEPT ![e] = Tail(@)]
    /\ process' = [process EXCEPT ![e] = "busy"]
    /\ UNCHANGED <<backlog, current, stage, outbox, answer, client>>

\* An image, or the error that generate raised.
Finish(e) ==
    /\ process[e] = "busy"
    /\ outbox' = [outbox EXCEPT ![e] = Append(@, work[e])]
    /\ work' = [work EXCEPT ![e] = 0]
    /\ process' = [process EXCEPT ![e] = "ready"]
    /\ UNCHANGED <<backlog, current, stage, inbox, answer, client>>

\* It returns after a failed load, is killed, or crashes.
Die(e) ==
    /\ process[e] \in Alive
    /\ process' = [process EXCEPT ![e] = "dead"]
    /\ work' = [work EXCEPT ![e] = 0]
    /\ UNCHANGED <<backlog, current, stage, inbox, outbox, answer, client>>

Serve(e) ==
    \/ Accept(e) \/ HandleUnload(e) \/ EnsureWorker(e) \/ Send(e) \/ Receive(e)
    \/ WorkerExited(e) \/ Deadline(e) \/ Reply(e) \/ Fail(e)

Ask == AskGenerate \/ \E e \in Engines : AskUnload(e)

Next ==
    \/ Ask \/ GiveUp
    \/ \E e \in Engines :
          Begin(e) \/ Serve(e) \/ Load(e) \/ Take(e) \/ Finish(e) \/ Die(e)

Spec == Init /\ [][Next]_vars

\* The servers and the node keep running; a worker may hang, a client need not give up.
FairSpec == Spec /\ WF_vars(Ask) /\ \A e \in Engines : WF_vars(Serve(e))

-------------------------------------------------------------------------------
\* The variables keep their types.  On the way to an image the engine that is to make
\* it is never among those unloaded for it: its model need not be loaded again.
TypeOK ==
    /\ backlog \in [Engines -> Seq(Requests)]
    /\ current \in [Engines -> Requests \cup {NoOne}]
    /\ stage \in [Engines -> Stages]
    /\ process \in [Engines -> Alive \cup {"none", "unstarted", "dead"}]
    /\ inbox \in [Engines -> Seq(Ids)]
    /\ outbox \in [Engines -> Seq(Nat)]
    /\ work \in [Engines -> Nat]
    /\ answer \in [Engines -> Nat]
    /\ node \in Nodes
    /\ node.at = "unloading" => node.engine \notin node.unloaded
    /\ asked \in Nat /\ sent \in Nat
    /\ outcome \in Outcomes

\* An answer goes to the request it was computed for, whatever earlier requests timed
\* out, were abandoned or left in the pipe.
AnswerMatches ==
    \A e \in Engines : stage[e] = "reply" => answer[e] \in {0, current[e].id}

\* "Switching engines unloads the previous model": two engines are never loaded at once,
\* although requests that the node gave up are still carried out later.
OneEngineLoaded ==
    \A e, f \in Engines : process[e] \in Alive /\ process[f] \in Alive => e = f

\* Every call of the node returns, without the node's own timeout: whatever the worker
\* does, the service answers or drops the connection.
NodeReturns == node.at # "idle" ~> node.at = "idle"

\* "The inference worker exited. Check the engine container log.": a client whose worker
\* died after it got the request is told so.
DeathIsReported ==
    [][\A e \in Engines :
          stage[e] = "waiting" /\ stage'[e] = "idle" /\ ~ Gone(e)
              => outcome' # "dropped"]_vars
===============================================================================
