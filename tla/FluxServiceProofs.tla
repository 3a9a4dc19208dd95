--------------------------- MODULE FluxServiceProofs ---------------------------
(***************************************************************************)
(* For any engines and number of requests: answers go to the requests they *)
(* were computed for, and no two engines are loaded at once.               *)
(***************************************************************************)
EXTENDS FluxService, TLAPS

\* Nothing of e is loaded or can be without another request.
Quiet(e) ==
    /\ process[e] \notin Alive
    /\ stage[e] \in {"idle", "unload"}
    /\ \A i \in 1..Len(backlog[e]) : backlog[e][i].kind # "generate"

\* Requests are handled in the order of their numbers.
Ordered ==
    \A e \in Engines :
        /\ current[e].id <= sent
        /\ \A i \in 1..Len(backlog[e]) :
              /\ current[e].id < backlog[e][i].id
              /\ backlog[e][i].id <= sent
              /\ \A j \in 1..Len(backlog[e]) : i < j => backlog[e][i].id < backlog[e][j].id

\* A node that waits for an answer waits for its last request.
AskedLast == asked \in {0, sent}

\* The handler has a request exactly when it is not idle.
Handling == \A e \in Engines : stage[e] = "idle" <=> current[e].id = 0

OneBusy == \A e, f \in Engines : e = f \/ Quiet(e) \/ Quiet(f)

\* The unload that the node waits for is not for the engine it is going to use.
OwnNotAsked ==
    /\ node.at = "idle" => asked = 0
    /\ node.at = "unloading" /\ asked # 0 =>
          /\ current[node.engine].id # asked
          /\ \A i \in 1..Len(backlog[node.engine]) : backlog[node.engine][i].id # asked

UnloadedQuiet == node.at = "unloading" => \A e \in node.unloaded : Quiet(e)

\* What is in the pipes and in the worker, by the state of the process and of the handler.
Pipe(e) ==
    LET r == current[e].id IN
    /\ process[e] = "loading" =>
          /\ outbox[e] = <<>>
          /\ \/ stage[e] = "send" /\ inbox[e] = <<>>
             \/ stage[e] = "waiting" /\ inbox[e] = <<r>>
    /\ process[e] = "ready" =>
          \/ inbox[e] = <<>> /\ outbox[e] = <<>> /\ stage[e] # "waiting"
          \/ inbox[e] = <<r>> /\ outbox[e] = <<>> /\ stage[e] = "waiting"
          \/ inbox[e] = <<>> /\ outbox[e] = <<r>> /\ stage[e] = "waiting"
    /\ process[e] = "busy" =>
          inbox[e] = <<>> /\ outbox[e] = <<>> /\ work[e] = r /\ stage[e] = "waiting"
    /\ process[e] \in {"exiting", "dead"} =>
          \/ outbox[e] = <<>>
          \/ outbox[e] \in {<<0>>, <<r>>} /\ stage[e] \in {"send", "waiting", "failed"}
    /\ stage[e] = "waiting" => process[e] \in Alive \cup {"dead"}
    /\ stage[e] = "send" => process[e] \in Alive \cup {"dead"}
    /\ stage[e] = "failed" => process[e] \in {"none", "dead"}

Pipes == \A e \in Engines : Pipe(e)

IInv ==
    /\ TypeOK
    /\ Ordered /\ AskedLast /\ Handling
    /\ OneBusy /\ UnloadedQuiet /\ OwnNotAsked
    /\ Pipes /\ AnswerMatches

-------------------------------------------------------------------------------
LEMMA InitIInv == Init => IInv
<1> SUFFICES ASSUME Init PROVE IInv
  OBVIOUS
<1> USE FluxAssumption DEF Init
<1>1. TypeOK
  BY DEF TypeOK, Alive, Stages, Outcomes, NoOne, Nodes
<1>2. Ordered /\ AskedLast /\ Handling
  BY DEF Ordered, AskedLast, Handling, NoOne
<1>3. OneBusy /\ UnloadedQuiet /\ OwnNotAsked
  BY DEF OneBusy, UnloadedQuiet, OwnNotAsked, Quiet, Alive
<1>4. Pipes /\ AnswerMatches
  BY DEF Pipes, Pipe, AnswerMatches, Alive
<1> QED BY <1>1, <1>2, <1>3, <1>4 DEF IInv

\* Numbers that the pipes carry stay in range; End and Unload keep the types.
LEMMA EndTypes ==
    ASSUME TypeOK, NEW e \in Engines, NEW how \in Outcomes, End(e, how)
    PROVE  /\ stage' \in [Engines -> Stages]
           /\ current' \in [Engines -> Requests \cup {NoOne}]
           /\ node' \in Nodes
           /\ asked' \in Nat /\ sent' \in Nat
           /\ outcome' \in Outcomes
<1> USE FluxAssumption DEF TypeOK, End, Goto, Stages
<1>1. CASE Gone(e)
  BY <1>1 DEF client
<1>2. CASE ~ Gone(e)
  <2>1. /\ asked' = 0 /\ outcome' = how /\ sent' = sent
        /\ node' = IF how = "unloaded" THEN [node EXCEPT !.unloaded = @ \cup {e}]
                                       ELSE [node EXCEPT !.at = "idle"]
    BY <1>2
  <2>2. [node EXCEPT !.unloaded = @ \cup {e}] \in Nodes
    BY DEF Nodes
  <2>3. [node EXCEPT !.at = "idle"] \in Nodes
    BY DEF Nodes
  <2>4. node' \in Nodes
    BY <2>1, <2>2, <2>3
  <2>5. stage' \in [Engines -> Stages] /\ current' \in [Engines -> Requests \cup {NoOne}]
    OBVIOUS
  <2> QED BY <2>1, <2>4, <2>5
<1> QED BY <1>1, <1>2

LEMMA UnloadTypes ==
    ASSUME TypeOK, NEW e \in Engines, Unload(e)
    PROVE  /\ process' \in [Engines -> Alive \cup {"none", "unstarted", "dead"}]
           /\ inbox' \in [Engines -> Seq(Ids)]
           /\ outbox' \in [Engines -> Seq(Nat)]
           /\ work' \in [Engines -> Nat]
BY FluxAssumption DEF TypeOK, Unload

\* What the node expects when it waits, and that it never has its own engine unloaded.
LEMMA OwnInductive ==
    ASSUME IInv, [Next]_vars
    PROVE  /\ OwnNotAsked'
           /\ node'.at = "unloading" => node'.engine \notin node'.unloaded
<1> DEFINE own == node.engine
           Own == /\ OwnNotAsked'
                  /\ node'.at = "unloading" => node'.engine \notin node'.unloaded
<1>t. TypeOK /\ OwnNotAsked /\ own \in Engines
  BY DEF IInv, TypeOK, Nodes
<1>u. node.at = "unloading" => own \notin node.unloaded
  BY <1>t DEF TypeOK
<1>1. ASSUME NEW e \in Engines, Begin(e) PROVE Own
  <2>1. node' = [at |-> "unloading", engine |-> e, unloaded |-> {}] /\ asked' = 0
    BY <1>t, <1>1 DEF Begin, OwnNotAsked
  <2> QED BY <2>1 DEF OwnNotAsked
<1>2. ASSUME NEW e \in Engines, AskUnload(e) PROVE Own
  <2>1. /\ e # own /\ node' = node /\ current' = current /\ asked' = sent + 1
        /\ backlog'[own] = backlog[own] /\ node.at = "unloading"
    BY <1>t, <1>2 DEF AskUnload, Post, TypeOK
  <2>2. /\ sent \in Nat /\ current[own].id \in Nat /\ current[own].id <= sent
        /\ \A i \in 1..Len(backlog[own]) : backlog[own][i].id <= sent
    <3>1. sent \in Nat /\ current[own] \in Requests \cup {NoOne}
      BY <1>t DEF TypeOK
    <3>2. current[own].id \in Nat
      BY <3>1 DEF Requests, Ids, NoOne
    <3>3. /\ current[own].id <= sent
          /\ \A i \in 1..Len(backlog[own]) : backlog[own][i].id <= sent
      BY <1>t DEF IInv, Ordered
    <3> QED BY <3>1, <3>2, <3>3
  <2>3. \A i \in 1..Len(backlog[own]) : backlog[own][i].id \in Nat
    <3> SUFFICES ASSUME NEW i \in 1..Len(backlog[own]) PROVE backlog[own][i].id \in Nat
      OBVIOUS
    <3>1. backlog[own] \in Seq(Requests)
      BY <1>t DEF TypeOK
    <3>2. backlog[own][i] \in Requests
      BY <3>1
    <3> QED BY <3>2 DEF Requests, Ids
  <2>4. /\ current'[own].id # asked'
        /\ \A i \in 1..Len(backlog'[own]) : backlog'[own][i].id # asked'
    BY <2>1, <2>2, <2>3
  <2> QED BY <1>u, <2>1, <2>4 DEF OwnNotAsked
<1>3. CASE AskGenerate
  <2>1. node'.at = "generating"
    BY <1>t, <1>3 DEF AskGenerate, TypeOK, Nodes
  <2> QED BY <2>1 DEF OwnNotAsked
<1>4. CASE GiveUp
  <2>1. node'.at = "idle" /\ asked' = 0
    BY <1>t, <1>4 DEF GiveUp, TypeOK, Nodes
  <2> QED BY <2>1 DEF OwnNotAsked
<1>5. ASSUME NEW e \in Engines, Accept(e) PROVE Own
  <2>1. /\ node' = node /\ asked' = asked
        /\ e # own => current'[own] = current[own] /\ backlog'[own] = backlog[own]
        /\ e = own => /\ current'[own] = Head(backlog[own])
                      /\ backlog'[own] = Tail(backlog[own])
    BY <1>t, <1>5 DEF Accept, TypeOK, client
  <2>2. backlog[e] \in Seq(Requests) /\ backlog[e] # <<>>
    BY <1>t, <1>5 DEF Accept, TypeOK
  <2>3. /\ Head(backlog[e]) = backlog[e][1] /\ 1 \in 1..Len(backlog[e])
        /\ \A i \in 1..Len(Tail(backlog[e])) :
              Tail(backlog[e])[i] = backlog[e][i + 1] /\ i + 1 \in 1..Len(backlog[e])
    BY <2>2
  <2>4. CASE e # own
    BY <1>t, <1>u, <2>1, <2>4 DEF OwnNotAsked
  <2>5. CASE e = own
    <3>1. ASSUME node.at = "unloading", asked # 0
          PROVE  /\ current'[own].id # asked
                 /\ \A i \in 1..Len(backlog'[own]) : backlog'[own][i].id # asked
      <4>1. \A i \in 1..Len(backlog[own]) : backlog[own][i].id # asked
        BY <1>t, <3>1 DEF OwnNotAsked
      <4>2. \A i \in 1..Len(Tail(backlog[own])) : Tail(backlog[own])[i].id # asked
        BY <2>3, <2>5, <4>1
      <4>3. Head(backlog[own]).id # asked
        BY <2>3, <2>5, <4>1
      <4> QED BY <2>1, <2>5, <4>2, <4>3
    <3> QED BY <1>t, <1>u, <2>1, <3>1 DEF OwnNotAsked
  <2> QED BY <2>4, <2>5
<1>6. ASSUME NEW e \in Engines, NEW how, End(e, how), UNCHANGED backlog, stage[e] # "idle"
      PROVE  Own
  <2>1. current' = [current EXCEPT ![e] = NoOne] /\ current[e].id # 0
    <3>1. stage[e] = "idle" <=> current[e].id = 0
      BY DEF IInv, Handling
    <3> QED BY <1>6, <3>1 DEF End
  <2>2. CASE Gone(e)
    <3>1. UNCHANGED <<node, asked>>
      BY <1>6, <2>2 DEF End, client
    <3>2. current'[own].id \in {current[own].id, 0}
      <4>1. current'[own] \in {current[own], NoOne}
        BY <1>t, <2>1 DEF TypeOK
      <4> QED BY <4>1 DEF NoOne
    <3> QED BY <1>t, <1>u, <1>6, <3>1, <3>2 DEF OwnNotAsked
  <2>3. CASE ~ Gone(e)
    <3>1. /\ asked' = 0 /\ asked = current[e].id
          /\ \/ node' = [node EXCEPT !.unloaded = @ \cup {e}]
             \/ node' = [node EXCEPT !.at = "idle"]
      BY <1>6, <2>3 DEF End, Gone
    <3>2. node.at = "unloading" => e # own
      BY <1>t, <2>1, <3>1 DEF OwnNotAsked
    <3>3. \/ node'.at = "idle"
          \/ /\ node'.at = node.at /\ node'.engine = own
             /\ node'.unloaded = node.unloaded \cup {e}
      BY <1>t, <3>1 DEF TypeOK, Nodes
    <3> QED BY <1>u, <3>1, <3>2, <3>3 DEF OwnNotAsked
  <2> QED BY <2>2, <2>3
<1>7. CASE UNCHANGED <<node, asked, current, backlog>>
  BY <1>t, <1>u, <1>7 DEF OwnNotAsked
<1>8. ASSUME NEW e \in Engines,
             HandleUnload(e) \/ EnsureWorker(e) \/ WorkerExited(e) \/ Reply(e) \/ Fail(e)
      PROVE  Own
  <2>1. stage[e] # "idle" /\ UNCHANGED backlog
    BY <1>8 DEF HandleUnload, EnsureWorker, WorkerExited, Reply, Fail
  <2>2. UNCHANGED <<current, client>> \/ \E how \in Outcomes : End(e, how)
    BY <1>8 DEF HandleUnload, EnsureWorker, WorkerExited, Reply, Fail, Outcomes
  <2> QED BY <1>6, <1>7, <2>1, <2>2 DEF client
<1>9. ASSUME NEW e \in Engines, \/ Send(e) \/ Receive(e) \/ Deadline(e)
                                \/ Load(e) \/ Take(e) \/ Finish(e) \/ Die(e)
      PROVE  Own
  BY <1>7, <1>9 DEF Send, Receive, Deadline, Load, Take, Finish, Die, client
<1>10. CASE UNCHANGED vars
  BY <1>7, <1>10 DEF vars, client
<1> HIDE DEF Own
<1> QED BY <1>1, <1>2, <1>3, <1>4, <1>5, <1>8, <1>9, <1>10 DEF Next, Ask, Serve, Own

LEMMA TypeInductive == IInv /\ [Next]_vars => TypeOK'
<1> SUFFICES ASSUME IInv, [Next]_vars PROVE TypeOK'
  OBVIOUS
<1>t. TypeOK
  BY DEF IInv
<1>o. node'.at = "unloading" => node'.engine \notin node'.unloaded
  BY OwnInductive
<1> USE FluxAssumption, <1>o
<1>p. \A e \in Engines, k \in {"unload", "generate"} :
        Post(e, k) =>
           /\ backlog' \in [Engines -> Seq(Requests)]
           /\ sent' \in Nat /\ asked' \in Nat
  <2> SUFFICES ASSUME NEW e \in Engines, NEW k \in {"unload", "generate"}, Post(e, k)
               PROVE  /\ backlog' \in [Engines -> Seq(Requests)]
                      /\ sent' \in Nat /\ asked' \in Nat
    OBVIOUS
  <2>1. [id |-> sent + 1, kind |-> k] \in Requests
    BY <1>t DEF TypeOK, Requests, Ids
  <2>2. Append(backlog[e], [id |-> sent + 1, kind |-> k]) \in Seq(Requests)
    BY <1>t, <2>1 DEF TypeOK
  <2> QED BY <1>t, <2>2 DEF TypeOK, Post
<1>1. ASSUME NEW e \in Engines, Begin(e) PROVE TypeOK'
  BY <1>t, <1>1 DEF Begin, TypeOK, pipes, Nodes
<1>2. ASSUME NEW e \in Engines, AskUnload(e) PROVE TypeOK'
  BY <1>t, <1>2, <1>p DEF AskUnload, TypeOK, pipes
<1>3. CASE AskGenerate
  <2>1. node.engine \in Engines /\ node' \in Nodes
    BY <1>t, <1>3 DEF AskGenerate, TypeOK, Nodes
  <2> QED BY <1>t, <1>3, <1>p, <2>1 DEF AskGenerate, TypeOK, pipes
<1>4. CASE GiveUp
  <2>1. node' \in Nodes
    BY <1>t, <1>4 DEF GiveUp, TypeOK, Nodes
  <2> QED BY <1>t, <1>4, <2>1 DEF GiveUp, TypeOK, pipes
<1>5. ASSUME NEW e \in Engines, Accept(e) PROVE TypeOK'
  <2>1. /\ Head(backlog[e]) \in Requests
        /\ Tail(backlog[e]) \in Seq(Requests)
    BY <1>t, <1>5 DEF Accept, TypeOK
  <2> QED BY <1>t, <1>5, <2>1 DEF Accept, Goto, Requests, Stages, TypeOK, pipes, client
<1>6. ASSUME NEW e \in Engines, HandleUnload(e) PROVE TypeOK'
  BY <1>t, <1>6, EndTypes, UnloadTypes DEF HandleUnload, TypeOK, pipes, Outcomes
<1>7. ASSUME NEW e \in Engines, EnsureWorker(e) PROVE TypeOK'
  <2>1. CASE /\ process[e] \in Alive /\ Goto(e, "send")
             /\ UNCHANGED <<current, process, pipes, client>>
    BY <1>t, <1>7, <2>1 DEF EnsureWorker, TypeOK, pipes, client, Goto, Stages
  <2>2. CASE process[e] = "unstarted" /\ End(e, "dropped") /\ UNCHANGED <<process, pipes>>
    BY <1>t, <1>7, <2>2, EndTypes DEF EnsureWorker, TypeOK, pipes, Outcomes
  <2>3. ASSUME process[e] \in {"none", "dead"},
               inbox' = [inbox EXCEPT ![e] = <<>>],
               outbox' = [outbox EXCEPT ![e] = <<>>],
               work' = [work EXCEPT ![e] = 0]
        PROVE  /\ inbox' \in [Engines -> Seq(Ids)]
               /\ outbox' \in [Engines -> Seq(Nat)]
               /\ work' \in [Engines -> Nat]
    BY <1>t, <2>3 DEF TypeOK
  <2>4. CASE /\ process[e] \in {"none", "dead"}
             /\ process' = [process EXCEPT ![e] = "loading"]
             /\ Goto(e, "send") /\ UNCHANGED <<current, client>>
    BY <1>t, <1>7, <2>3, <2>4 DEF EnsureWorker, TypeOK, client, Goto, Stages, Alive
  <2>5. CASE /\ process[e] \in {"none", "dead"}
             /\ \E p \in {"none", "unstarted"} : process' = [process EXCEPT ![e] = p]
             /\ End(e, "dropped")
    <3>1. process' \in [Engines -> Alive \cup {"none", "unstarted", "dead"}]
      BY <1>t, <2>5 DEF TypeOK
    <3>2. "dropped" \in Outcomes
      BY DEF Outcomes
    <3>3. /\ stage' \in [Engines -> Stages]
          /\ current' \in [Engines -> Requests \cup {NoOne}]
          /\ node' \in Nodes /\ asked' \in Nat /\ sent' \in Nat /\ outcome' \in Outcomes
      BY <1>t, <2>5, <3>2, EndTypes
    <3>4. /\ inbox' \in [Engines -> Seq(Ids)] /\ outbox' \in [Engines -> Seq(Nat)]
          /\ work' \in [Engines -> Nat]
      BY <1>7, <2>3, <2>5 DEF EnsureWorker, Alive
    <3> QED BY <1>t, <1>7, <3>1, <3>3, <3>4 DEF EnsureWorker, TypeOK
  <2> QED BY <1>7, <2>1, <2>2, <2>4, <2>5 DEF EnsureWorker
<1>8. ASSUME NEW e \in Engines, Send(e) PROVE TypeOK'
  <2>1. current[e].id \in Ids
    BY <1>t, <1>8 DEF IInv, Handling, TypeOK, Send, Requests, NoOne
  <2>2. Append(inbox[e], current[e].id) \in Seq(Ids)
    BY <1>t, <2>1 DEF TypeOK
  <2>3. inbox' \in [Engines -> Seq(Ids)]
    BY <1>t, <1>8, <2>2 DEF Send, TypeOK
  <2> QED BY <1>t, <1>8, <2>3 DEF Send, Goto, Stages, TypeOK, client
<1>9. ASSUME NEW e \in Engines, Receive(e) PROVE TypeOK'
  <2>1. /\ Head(outbox[e]) \in Nat
        /\ Tail(outbox[e]) \in Seq(Nat)
    BY <1>t, <1>9 DEF Receive, TypeOK
  <2> QED BY <1>t, <1>9, <2>1 DEF Receive, Goto, Stages, TypeOK, client
<1>10. ASSUME NEW e \in Engines, WorkerExited(e) PROVE TypeOK'
  <2>1. CASE Goto(e, "failed") /\ UNCHANGED <<current, client>>
    BY <1>t, <1>10, <2>1 DEF WorkerExited, Goto, Stages, TypeOK, client, pipes
  <2>2. CASE End(e, "dropped")
    BY <1>t, <1>10, <2>2, EndTypes DEF WorkerExited, TypeOK, pipes, Outcomes
  <2> QED BY <1>10, <2>1, <2>2 DEF WorkerExited
<1>11. ASSUME NEW e \in Engines, Deadline(e) PROVE TypeOK'
  BY <1>t, <1>11, UnloadTypes DEF Deadline, Goto, Stages, TypeOK, client
<1>12. ASSUME NEW e \in Engines, Reply(e) PROVE TypeOK'
  BY <1>t, <1>12, UnloadTypes, EndTypes DEF Reply, TypeOK, pipes, Outcomes
<1>13. ASSUME NEW e \in Engines, Fail(e) PROVE TypeOK'
  BY <1>t, <1>13, UnloadTypes, EndTypes DEF Fail, TypeOK, Outcomes
<1>14. ASSUME NEW e \in Engines, Load(e) PROVE TypeOK'
  <2>1. Append(outbox[e], 0) \in Seq(Nat)
    BY <1>t DEF TypeOK
  <2>2. outbox' \in [Engines -> Seq(Nat)]
    BY <1>t, <1>14, <2>1 DEF Load, TypeOK
  <2>3. process' \in [Engines -> Alive \cup {"none", "unstarted", "dead"}]
    BY <1>t, <1>14 DEF Load, TypeOK, Alive
  <2> QED BY <1>t, <1>14, <2>2, <2>3 DEF Load, TypeOK, client
<1>15. ASSUME NEW e \in Engines, Take(e) PROVE TypeOK'
  <2>1. /\ Head(inbox[e]) \in Ids
        /\ Tail(inbox[e]) \in Seq(Ids)
    BY <1>t, <1>15 DEF Take, TypeOK
  <2>2. process' \in [Engines -> Alive \cup {"none", "unstarted", "dead"}]
    BY <1>t, <1>15 DEF Take, TypeOK, Alive
  <2> QED BY <1>t, <1>15, <2>1, <2>2 DEF Take, TypeOK, client, Ids
<1>16. ASSUME NEW e \in Engines, Finish(e) PROVE TypeOK'
  <2>1. Append(outbox[e], work[e]) \in Seq(Nat)
    BY <1>t DEF TypeOK
  <2>2. outbox' \in [Engines -> Seq(Nat)]
    BY <1>t, <1>16, <2>1 DEF Finish, TypeOK
  <2>3. process' \in [Engines -> Alive \cup {"none", "unstarted", "dead"}]
    BY <1>t, <1>16 DEF Finish, TypeOK, Alive
  <2> QED BY <1>t, <1>16, <2>2, <2>3 DEF Finish, TypeOK, client
<1>17. ASSUME NEW e \in Engines, Die(e) PROVE TypeOK'
  BY <1>t, <1>17 DEF Die, TypeOK, client, Alive
<1>18. CASE UNCHANGED vars
  BY <1>t, <1>18 DEF vars, pipes, client, TypeOK
<1> QED BY <1>1, <1>2, <1>3, <1>4, <1>5, <1>6, <1>7, <1>8, <1>9, <1>10, <1>11, <1>12,
       <1>13, <1>14, <1>15, <1>16, <1>17, <1>18 DEF Next, Ask, Serve

-------------------------------------------------------------------------------
\* The order of the requests.

LEMMA Queued ==
    ASSUME TypeOK, NEW e \in Engines, NEW i \in 1..Len(backlog[e])
    PROVE  /\ backlog[e][i] \in Requests
           /\ backlog[e][i].id \in Nat /\ 0 < backlog[e][i].id
           /\ backlog[e][i].kind \in {"unload", "generate"}
<1>1. backlog[e] \in Seq(Requests)
  BY DEF TypeOK
<1>2. backlog[e][i] \in Requests
  BY <1>1
<1> QED BY <1>2 DEF Requests, Ids

LEMMA OrderOfEnd ==
    ASSUME IInv, NEW e \in Engines, NEW how, End(e, how), UNCHANGED backlog
    PROVE  Ordered' /\ AskedLast' /\ Handling'
<1>1. sent' = sent /\ asked' \in {asked, 0}
  BY DEF End, client
<1>2. \A f \in Engines : \A i \in 1..Len(backlog[f]) : 0 < backlog[f][i].id
  BY Queued DEF IInv
<1>3. Ordered'
  BY <1>1, <1>2 DEF IInv, TypeOK, Ordered, End, NoOne
<1>4. AskedLast' /\ Handling'
  BY <1>1 DEF IInv, TypeOK, AskedLast, Handling, End, Goto, NoOne
<1> QED BY <1>3, <1>4

LEMMA OrderOfPost ==
    ASSUME IInv, NEW e \in Engines, NEW k \in {"unload", "generate"}, Post(e, k),
           UNCHANGED <<current, stage>>
    PROVE  Ordered' /\ AskedLast' /\ Handling'
<1> DEFINE s == backlog[e]
           r == [id |-> sent + 1, kind |-> k]
<1>1. s \in Seq(Requests) /\ sent \in Nat
  BY DEF IInv, TypeOK
<1>2. backlog'[e] = Append(s, r) /\ \A f \in Engines \ {e} : backlog'[f] = backlog[f]
  BY DEF IInv, TypeOK, Post
<1>3. /\ Len(Append(s, r)) = Len(s) + 1
      /\ \A i \in 1..Len(s) : Append(s, r)[i] = s[i]
      /\ Append(s, r)[Len(s) + 1].id = sent + 1
  BY <1>1
<1>4. sent' = sent + 1 /\ asked' = sent + 1 /\ UNCHANGED <<current, stage>>
  BY DEF Post
<1>5. \A f \in Engines : current[f].id \in Nat /\ current[f].id <= sent
  BY DEF IInv, TypeOK, Requests, Ids, NoOne, Ordered
<1>6. ASSUME NEW f \in Engines
      PROVE  \A i \in 1..Len(backlog'[f]) :
                /\ current[f].id < backlog'[f][i].id
                /\ backlog'[f][i].id <= sent + 1
                /\ \A j \in 1..Len(backlog'[f]) :
                      i < j => backlog'[f][i].id < backlog'[f][j].id
  <2>1. \A i \in 1..Len(backlog[f]) :
           /\ backlog[f][i].id \in Nat
           /\ current[f].id < backlog[f][i].id /\ backlog[f][i].id <= sent
           /\ \A j \in 1..Len(backlog[f]) : i < j => backlog[f][i].id < backlog[f][j].id
    BY Queued DEF IInv, Ordered
  <2>2. CASE f = e
    <3> DEFINE t == Append(s, r)
    <3>1. \A i \in 1..Len(s) :
             /\ t[i].id \in Nat /\ current[f].id < t[i].id /\ t[i].id <= sent
             /\ \A j \in 1..Len(s) : i < j => t[i].id < t[j].id
      BY <1>3, <2>1, <2>2
    <3>2. t[Len(s) + 1].id = sent + 1 /\ Len(s) \in Nat
      BY <1>1, <1>3
    <3> HIDE DEF t
    <3>3. \A i \in 1..(Len(s) + 1) :
             /\ current[f].id < t[i].id /\ t[i].id <= sent + 1
             /\ \A j \in 1..(Len(s) + 1) : i < j => t[i].id < t[j].id
      <4>1. \A i \in 1..(Len(s) + 1) : i \in 1..Len(s) \/ i = Len(s) + 1
        BY <3>2
      <4>2. \A i \in 1..(Len(s) + 1) : current[f].id < t[i].id /\ t[i].id <= sent + 1
        BY <1>1, <1>5, <3>1, <3>2, <4>1
      <4>3. \A i, j \in 1..(Len(s) + 1) : i < j => i \in 1..Len(s)
        BY <3>2
      <4>4. \A i, j \in 1..(Len(s) + 1) : i < j => t[i].id < t[j].id
        BY <1>1, <3>1, <3>2, <4>1, <4>3
      <4> QED BY <4>2, <4>4
    <3>4. backlog'[f] = t /\ Len(t) = Len(s) + 1
      BY <1>2, <1>3, <2>2 DEF t
    <3> QED BY <3>3, <3>4
  <2>3. CASE f # e
    <3>1. backlog'[f] = backlog[f]
      BY <1>2, <2>3
    <3>2. \A m \in Nat : m <= sent => m <= sent + 1
      BY <1>1
    <3> QED BY <2>1, <3>1, <3>2
  <2> QED BY <2>2, <2>3
<1>7. Ordered'
  BY <1>1, <1>4, <1>5, <1>6 DEF Ordered
<1> QED BY <1>4, <1>7 DEF IInv, AskedLast, Handling

LEMMA OrderInductive ==
    ASSUME IInv, [Next]_vars
    PROVE  Ordered' /\ AskedLast' /\ Handling'
<1>t. TypeOK /\ Ordered /\ AskedLast /\ Handling
  BY DEF IInv
<1>1. ASSUME NEW e \in Engines, Begin(e) \/ Load(e) \/ Take(e) \/ Finish(e) \/ Die(e)
      PROVE  Ordered' /\ AskedLast' /\ Handling'
  BY <1>t, <1>1 DEF Begin, Load, Take, Finish, Die, client, Ordered, AskedLast, Handling
<1>2. ASSUME NEW e \in Engines, Send(e) \/ Receive(e) \/ Deadline(e)
      PROVE  Ordered' /\ AskedLast' /\ Handling'
  <2>1. /\ UNCHANGED <<backlog, current, client>>
        /\ \A f \in Engines : stage'[f] = "idle" <=> stage[f] = "idle"
    BY <1>t, <1>2 DEF Send, Receive, Deadline, Goto, TypeOK
  <2> QED BY <1>t, <2>1 DEF client, Ordered, AskedLast, Handling
<1>3. CASE Ask
  BY <1>3, <1>t, OrderOfPost DEF Ask, AskGenerate, AskUnload, TypeOK, Nodes
<1>4. CASE GiveUp
  BY <1>4, <1>t DEF GiveUp, Ordered, AskedLast, Handling
<1>5. ASSUME NEW e \in Engines, Accept(e)
      PROVE  Ordered' /\ AskedLast' /\ Handling'
  <2> DEFINE s == backlog[e]
  <2>1. s \in Seq(Requests) /\ s # <<>> /\ sent \in Nat
    BY <1>t, <1>5 DEF Accept, TypeOK
  <2>2. /\ Head(s) = s[1] /\ Len(Tail(s)) = Len(s) - 1
        /\ \A i \in 1..Len(Tail(s)) : Tail(s)[i] = s[i + 1]
    BY <2>1
  <2>3. /\ backlog'[e] = Tail(s) /\ current'[e] = s[1]
        /\ \A f \in Engines \ {e} : backlog'[f] = backlog[f] /\ current'[f] = current[f]
        /\ sent' = sent /\ asked' = asked
    BY <1>t, <1>5, <2>2 DEF Accept, TypeOK, client
  <2>4. s[1].id \in Ids /\ s[1].kind \in {"unload", "generate"}
    BY <1>t, <2>1, Queued DEF Requests
  <2>5. ASSUME NEW f \in Engines
        PROVE  /\ current'[f].id <= sent
               /\ \A i \in 1..Len(backlog'[f]) :
                     /\ current'[f].id < backlog'[f][i].id
                     /\ backlog'[f][i].id <= sent
                     /\ \A j \in 1..Len(backlog'[f]) :
                           i < j => backlog'[f][i].id < backlog'[f][j].id
    <3>1. CASE f = e
      <4>1. \A i \in 1..Len(s) :
               /\ s[i].id <= sent
               /\ \A j \in 1..Len(s) : i < j => s[i].id < s[j].id
        BY <1>t DEF Ordered
      <4>2. \A i \in 1..Len(Tail(s)) : i + 1 \in 1..Len(s) /\ 1 < i + 1
        BY <2>1, <2>2
      <4>3. 1 \in 1..Len(s)
        BY <2>1
      <4>4. \A i \in 1..Len(Tail(s)) : \A j \in 1..Len(Tail(s)) : i < j => i + 1 < j + 1
        BY <2>1, <2>2
      <4> DEFINE u == Tail(s)
      <4>5. \A i \in 1..Len(u) : u[i] = s[i + 1]
        BY <2>2
      <4> HIDE DEF u
      <4>6. \A i \in 1..Len(u) : s[1].id < u[i].id /\ u[i].id <= sent
        BY <4>1, <4>2, <4>3, <4>5 DEF u
      <4>7. \A i, j \in 1..Len(u) : i < j => u[i].id < u[j].id
        BY <4>1, <4>2, <4>4, <4>5 DEF u
      <4>8. s[1].id <= sent
        BY <4>1, <4>3
      <4> QED BY <2>3, <3>1, <4>6, <4>7, <4>8 DEF u
    <3>2. CASE f # e
      BY <1>t, <2>3, <3>2 DEF Ordered
    <3> QED BY <3>1, <3>2
  <2>6. Ordered'
    BY <2>3, <2>5 DEF Ordered
  <2>7. s[1].id # 0 /\ s[1].kind # "idle"
    BY <2>4 DEF Ids
  <2>8. stage'[e] # "idle" /\ \A f \in Engines \ {e} : stage'[f] = stage[f]
    BY <1>t, <1>5, <2>2, <2>7 DEF Accept, Goto, TypeOK
  <2> QED BY <1>t, <2>3, <2>6, <2>7, <2>8 DEF AskedLast, Handling
<1>6. ASSUME NEW e \in Engines, HandleUnload(e) \/ Reply(e) \/ Fail(e)
      PROVE  Ordered' /\ AskedLast' /\ Handling'
  BY <1>6, OrderOfEnd DEF HandleUnload, Reply, Fail
<1>7. ASSUME NEW e \in Engines, EnsureWorker(e)
      PROVE  Ordered' /\ AskedLast' /\ Handling'
  <2>1. CASE End(e, "dropped")
    BY <1>7, <2>1, OrderOfEnd DEF EnsureWorker
  <2>2. CASE Goto(e, "send") /\ UNCHANGED <<current, client>>
    BY <1>t, <1>7, <2>2 DEF EnsureWorker, Goto, client, TypeOK, Ordered, AskedLast, Handling
  <2> QED BY <1>7, <2>1, <2>2 DEF EnsureWorker
<1>8. ASSUME NEW e \in Engines, WorkerExited(e)
      PROVE  Ordered' /\ AskedLast' /\ Handling'
  <2>1. CASE End(e, "dropped")
    BY <1>8, <2>1, OrderOfEnd DEF WorkerExited
  <2>2. CASE Goto(e, "failed") /\ UNCHANGED <<current, client>>
    BY <1>t, <1>8, <2>2 DEF WorkerExited, Goto, client, TypeOK, Ordered, AskedLast, Handling
  <2> QED BY <1>8, <2>1, <2>2 DEF WorkerExited
<1>9. CASE UNCHANGED vars
  BY <1>t, <1>9 DEF vars, client, Ordered, AskedLast, Handling
<1> QED BY <1>1, <1>2, <1>3, <1>4, <1>5, <1>6, <1>7, <1>8, <1>9 DEF Next, Serve

-------------------------------------------------------------------------------
\* One engine at a time.

\* What is quiet stays so until it is asked for an image: the request that comes out of
\* its backlog is an unload, and nobody but its own server starts its worker.
LEMMA QuietStays ==
    ASSUME IInv, [Next]_vars, NEW e \in Engines, Quiet(e), AskGenerate => e # node.engine
    PROVE  Quiet(e)'
<1>t. TypeOK
  BY DEF IInv
<1>q. /\ process[e] \notin Alive /\ stage[e] \in {"idle", "unload"}
      /\ \A i \in 1..Len(backlog[e]) : backlog[e][i].kind # "generate"
  BY DEF Quiet
<1>n. ASSUME NEW f \in Engines, NEW k \in {"unload", "generate"}, Post(f, k),
             f = e => k = "unload"
      PROVE  \A i \in 1..Len(backlog'[e]) : backlog'[e][i].kind # "generate"
  <2>1. CASE f # e
    BY <1>t, <1>q, <1>n, <2>1 DEF Post, TypeOK
  <2>2. CASE f = e
    <3> DEFINE r == [id |-> sent + 1, kind |-> k]
    <3>1. backlog'[e] = Append(backlog[e], r) /\ r.kind # "generate"
      BY <1>t, <1>n, <2>2 DEF Post, TypeOK
    <3>2. backlog[e] \in Seq(Requests)
      BY <1>t DEF TypeOK
    <3> HIDE DEF r
    <3>3. \A i \in 1..Len(Append(backlog[e], r)) :
             \/ Append(backlog[e], r)[i] = r
             \/ i \in 1..Len(backlog[e]) /\ Append(backlog[e], r)[i] = backlog[e][i]
      BY <3>2
    <3> QED BY <1>q, <3>1, <3>3
  <2> QED BY <2>1, <2>2
<1>1. ASSUME NEW f \in Engines, Begin(f) \/ Load(f) \/ Take(f) \/ Finish(f) \/ Die(f)
      PROVE  Quiet(e)'
  BY <1>t, <1>q, <1>1 DEF Begin, Load, Take, Finish, Die, Quiet, TypeOK, Alive
<1>2. CASE GiveUp
  BY <1>q, <1>2 DEF GiveUp, Quiet
<1>3. ASSUME NEW f \in Engines, AskUnload(f) PROVE Quiet(e)'
  BY <1>q, <1>3, <1>n DEF AskUnload, Quiet
<1>4. CASE AskGenerate
  BY <1>t, <1>q, <1>4, <1>n DEF AskGenerate, Quiet, TypeOK, Nodes
<1>5. ASSUME NEW f \in Engines, Accept(f) PROVE Quiet(e)'
  <2>1. CASE f # e
    BY <1>t, <1>q, <1>5, <2>1 DEF Accept, Goto, Quiet, TypeOK
  <2>2. CASE f = e
    <3> DEFINE s == backlog[e]
    <3>1. s \in Seq(Requests) /\ s # <<>>
      BY <1>t, <1>5, <2>2 DEF Accept, TypeOK
    <3>2. /\ Head(s) = s[1] /\ 1 \in 1..Len(s)
          /\ \A i \in 1..Len(Tail(s)) : Tail(s)[i] = s[i + 1] /\ i + 1 \in 1..Len(s)
      BY <3>1
    <3>3. s[1].kind = "unload"
      BY <1>t, <1>q, <3>2, Queued
    <3>4. stage'[e] = "unload" /\ backlog'[e] = Tail(s) /\ process'[e] = process[e]
      BY <1>t, <1>5, <2>2, <3>2, <3>3 DEF Accept, Goto, TypeOK
    <3> QED BY <1>q, <3>2, <3>4 DEF Quiet
  <2> QED BY <2>1, <2>2
<1>6. ASSUME NEW f \in Engines, HandleUnload(f) PROVE Quiet(e)'
  BY <1>t, <1>q, <1>6 DEF HandleUnload, End, Unload, Goto, Quiet, TypeOK, Alive, pipes
<1>7. ASSUME NEW f \in Engines, \/ EnsureWorker(f) \/ Send(f) \/ Receive(f)
                                \/ WorkerExited(f) \/ Deadline(f) \/ Reply(f) \/ Fail(f)
      PROVE  Quiet(e)'
  <2>1. f # e
    BY <1>q, <1>7 DEF EnsureWorker, Send, Receive, WorkerExited, Deadline, Reply, Fail
  <2>2. UNCHANGED <<backlog, process[e], stage[e]>>
    BY <1>t, <1>7, <2>1 DEF EnsureWorker, Send, Receive, WorkerExited, Deadline, Reply, Fail,
       End, Unload, Goto, TypeOK, pipes
  <2> QED BY <1>q, <2>2 DEF Quiet
<1>8. CASE UNCHANGED vars
  BY <1>q, <1>8 DEF vars, Quiet
<1> QED BY <1>1, <1>2, <1>3, <1>4, <1>5, <1>6, <1>7, <1>8 DEF Next, Ask, Serve

LEMMA OneBusyInductive == IInv /\ [Next]_vars => OneBusy'
<1> SUFFICES ASSUME IInv, [Next]_vars, NEW e \in Engines, NEW f \in Engines, e # f
             PROVE  Quiet(e)' \/ Quiet(f)'
  BY DEF OneBusy
<1>1. Quiet(e) \/ Quiet(f)
  BY DEF IInv, OneBusy
<1>2. CASE ~ AskGenerate
  BY <1>1, <1>2, QuietStays
<1>3. CASE AskGenerate
  <2>1. \A g \in Engines \ {node.engine} : Quiet(g)
    BY <1>3 DEF IInv, UnloadedQuiet, AskGenerate
  <2> QED BY <2>1, QuietStays
<1> QED BY <1>2, <1>3

\* An unload that the node has waited for was its engine's last request.
LEMMA UnloadedQuietInductive == IInv /\ [Next]_vars => UnloadedQuiet'
<1> SUFFICES ASSUME IInv, [Next]_vars, node'.at = "unloading", NEW e \in node'.unloaded
             PROVE  Quiet(e)'
  BY DEF UnloadedQuiet
<1>t. TypeOK /\ TypeOK'
  BY TypeInductive DEF IInv
<1>e. e \in Engines
  BY <1>t DEF TypeOK, Nodes
<1>1. CASE node' = node
  <2>1. Quiet(e) /\ ~ AskGenerate
    BY <1>t, <1>1 DEF IInv, UnloadedQuiet, AskGenerate, TypeOK, Nodes
  <2> QED BY <1>e, <2>1, QuietStays
<1>2. CASE node' # node
  <2>1. PICK f \in Engines : \/ Begin(f) \/ HandleUnload(f)
                             \/ EnsureWorker(f) \/ WorkerExited(f) \/ Reply(f) \/ Fail(f)
    BY <1>t, <1>2 DEF Next, Ask, Serve, AskUnload, AskGenerate, GiveUp, Accept, Send, Receive,
       Deadline, Load, Take, Finish, Die, client, vars, TypeOK, Nodes
  <2>2. HandleUnload(f) /\ process[f] # "unstarted"
    <3>1. ~ Begin(f)
      BY <1>e DEF Begin
    <3>2. ASSUME NEW how, End(f, how), how # "unloaded" PROVE FALSE
      BY <1>t, <1>2, <3>2 DEF End, client, TypeOK, Nodes
    <3>3. (EnsureWorker(f) \/ WorkerExited(f)) => node' = node \/ End(f, "dropped")
      BY DEF EnsureWorker, WorkerExited, client
    <3> QED BY <1>2, <2>1, <3>1, <3>2, <3>3 DEF HandleUnload, Reply, Fail
  <2>3. /\ End(f, "unloaded") /\ Unload(f) /\ backlog' = backlog
        /\ ~ Gone(f) /\ node' = [node EXCEPT !.unloaded = @ \cup {f}]
    BY <1>2, <2>2 DEF HandleUnload, End, client
  <2>4. node.at = "unloading" /\ (e = f \/ e \in node.unloaded)
    BY <1>t, <2>3 DEF TypeOK, Nodes
  <2>5. CASE e # f
    BY <1>e, <2>2, <2>4, <2>5, QuietStays DEF IInv, UnloadedQuiet, HandleUnload, AskGenerate
  <2>6. CASE e = f
    <3>1. asked = sent /\ current[e].id = sent
      BY <2>2, <2>3, <2>6 DEF IInv, AskedLast, Handling, Gone, HandleUnload
    <3>2. \A i \in 1..Len(backlog[e]) : FALSE
      <4> SUFFICES ASSUME NEW i \in 1..Len(backlog[e]) PROVE FALSE
        OBVIOUS
      <4>1. backlog[e][i].id \in Nat /\ sent \in Nat
        BY <1>t, <1>e, Queued DEF TypeOK
      <4>2. sent < backlog[e][i].id /\ backlog[e][i].id <= sent
        BY <1>e, <3>1 DEF IInv, Ordered
      <4> QED BY <4>1, <4>2
    <3>3. process'[e] = "none" /\ stage'[e] = "idle"
      BY <1>t, <1>e, <2>3, <2>6 DEF Unload, End, Goto, TypeOK
    <3> QED BY <2>3, <3>2, <3>3 DEF Quiet, Alive
  <2> QED BY <2>5, <2>6
<1> QED BY <1>1, <1>2

-------------------------------------------------------------------------------
\* The pipes.

Matches(e) == stage[e] = "reply" => answer[e] \in {0, current[e].id}

LEMMA PipeOfStep ==
    ASSUME IInv, NEW e \in Engines, Serve(e) \/ Load(e) \/ Take(e) \/ Finish(e) \/ Die(e)
    PROVE  Pipe(e)' /\ Matches(e)'
<1>t. TypeOK /\ Pipe(e) /\ Matches(e) /\ (stage[e] = "idle" <=> current[e].id = 0)
  BY DEF IInv, Pipes, AnswerMatches, Matches, Handling
<1> USE DEF Pipe, Matches, Alive
<1>u. Unload(e) => process'[e] = "none" /\ inbox'[e] = <<>> /\ outbox'[e] = <<>>
  BY <1>t DEF Unload, TypeOK
<1>e. ASSUME NEW how, End(e, how) PROVE stage'[e] = "idle"
  BY <1>t, <1>e DEF End, Goto, TypeOK
<1>1. CASE Accept(e)
  <2>1. stage'[e] \in {"unload", "generate"}
    <3>1. Head(backlog[e]) = backlog[e][1] /\ 1 \in 1..Len(backlog[e])
      BY <1>t, <1>1 DEF Accept, TypeOK
    <3> QED BY <1>t, <1>1, <3>1, Queued DEF Accept, Goto, TypeOK
  <2> QED BY <1>t, <1>1, <2>1 DEF Accept, pipes
<1>2. CASE HandleUnload(e)
  BY <1>t, <1>u, <1>e, <1>2 DEF HandleUnload, pipes
<1>3. CASE EnsureWorker(e)
  <2>1. CASE /\ process[e] \in Alive /\ Goto(e, "send")
             /\ UNCHANGED <<current, process, pipes, client>>
    BY <1>t, <1>3, <2>1 DEF EnsureWorker, Goto, pipes, TypeOK
  <2>2. CASE process[e] = "unstarted" /\ End(e, "dropped") /\ UNCHANGED <<process, pipes>>
    BY <1>t, <1>e, <2>2
  <2>3. CASE /\ inbox' = [inbox EXCEPT ![e] = <<>>] /\ outbox' = [outbox EXCEPT ![e] = <<>>]
             /\ process' = [process EXCEPT ![e] = "loading"] /\ Goto(e, "send")
    BY <1>t, <2>3 DEF Goto, TypeOK
  <2>4. CASE /\ \E p \in {"none", "unstarted"} : process' = [process EXCEPT ![e] = p]
             /\ End(e, "dropped")
    BY <1>t, <1>e, <2>4 DEF TypeOK
  <2> QED BY <1>3, <2>1, <2>2, <2>3, <2>4 DEF EnsureWorker
<1>4. CASE Send(e)
  <2>1. CASE process[e] = "dead"
    BY <1>t, <1>4, <2>1 DEF Send, Goto, TypeOK
  <2>2. CASE process[e] # "dead"
    <3>1. /\ stage[e] = "send" /\ stage'[e] = "waiting"
          /\ inbox'[e] = Append(inbox[e], current[e].id)
          /\ UNCHANGED <<current, process, outbox, work>>
      BY <1>t, <1>4, <2>2 DEF Send, Goto, TypeOK
    <3>2. inbox[e] = <<>> => inbox'[e] = <<current[e].id>>
      BY <3>1
    <3> QED BY <1>t, <2>2, <3>1, <3>2
  <2> QED BY <2>1, <2>2
<1>5. CASE Receive(e)
  <2>1. /\ stage[e] = "waiting" /\ stage'[e] = "reply" /\ outbox[e] # <<>>
        /\ answer'[e] = Head(outbox[e]) /\ outbox'[e] = Tail(outbox[e])
        /\ UNCHANGED <<current, process, inbox, work>>
    BY <1>t, <1>5 DEF Receive, Goto, TypeOK
  <2>2. outbox[e] \in {<<0>>, <<current[e].id>>} /\ process[e] \in {"ready", "exiting", "dead"}
    BY <1>t, <2>1
  <2>3. answer'[e] \in {0, current[e].id} /\ outbox'[e] = <<>>
    <3>1. CASE outbox[e] = <<0>>
      BY <2>1, <3>1
    <3>2. CASE outbox[e] = <<current[e].id>>
      BY <2>1, <3>2
    <3> QED BY <2>2, <3>1, <3>2
  <2>4. process[e] = "ready" => inbox[e] = <<>>
    BY <1>t, <2>1
  <2> QED BY <2>1, <2>2, <2>3, <2>4
<1>6. CASE WorkerExited(e)
  <2>1. CASE Goto(e, "failed") /\ UNCHANGED <<current, client>>
    BY <1>t, <1>6, <2>1 DEF WorkerExited, Goto, TypeOK, pipes
  <2>2. CASE outbox[e] = <<>> /\ End(e, "dropped")
    BY <1>t, <1>e, <1>6, <2>2 DEF WorkerExited, pipes
  <2> QED BY <1>6, <2>1, <2>2 DEF WorkerExited
<1>7. CASE Deadline(e)
  BY <1>t, <1>u, <1>7 DEF Deadline, Goto, TypeOK
<1>8. CASE Reply(e)
  BY <1>t, <1>u, <1>e, <1>8 DEF Reply, pipes
<1>9. CASE Fail(e)
  BY <1>u, <1>e, <1>9 DEF Fail
<1>10. CASE Load(e)
  <2>1. outbox[e] = <<>>
    BY <1>t, <1>10 DEF Load
  <2>2. Append(outbox[e], 0) = <<0>>
    BY <2>1
  <2> QED BY <1>t, <1>10, <2>2 DEF Load, TypeOK
<1>11. CASE Take(e)
  <2>1. inbox[e] = <<current[e].id>> /\ outbox[e] = <<>> /\ stage[e] = "waiting"
    BY <1>t, <1>11 DEF Take
  <2>2. Head(inbox[e]) = current[e].id /\ Tail(inbox[e]) = <<>>
    BY <2>1
  <2>3. /\ process'[e] = "busy" /\ work'[e] = Head(inbox[e]) /\ inbox'[e] = Tail(inbox[e])
        /\ UNCHANGED <<outbox, stage, current, answer>>
    BY <1>t, <1>11 DEF Take, TypeOK
  <2> QED BY <2>1, <2>2, <2>3
<1>12. CASE Finish(e)
  <2>1. outbox[e] = <<>> /\ work[e] = current[e].id
    BY <1>t, <1>12 DEF Finish
  <2>2. Append(outbox[e], work[e]) = <<current[e].id>>
    BY <2>1
  <2> QED BY <1>t, <1>12, <2>1, <2>2 DEF Finish, TypeOK
<1>13. CASE Die(e)
  BY <1>t, <1>13 DEF Die, TypeOK
<1> QED BY <1>1, <1>2, <1>3, <1>4, <1>5, <1>6, <1>7, <1>8, <1>9, <1>10, <1>11, <1>12,
       <1>13 DEF Serve

\* A step concerns the pipes of one engine at most.
LEMMA PipesInductive == IInv /\ [Next]_vars => Pipes' /\ AnswerMatches'
<1> SUFFICES ASSUME IInv, [Next]_vars, NEW f \in Engines PROVE Pipe(f)' /\ Matches(f)'
  BY DEF Pipes, AnswerMatches, Matches
<1>t. TypeOK /\ Pipe(f) /\ Matches(f)
  BY DEF IInv, Pipes, AnswerMatches, Matches
<1>s. ASSUME process'[f] = process[f], inbox'[f] = inbox[f], outbox'[f] = outbox[f],
             work'[f] = work[f], stage'[f] = stage[f], current'[f] = current[f],
             answer'[f] = answer[f]
      PROVE  Pipe(f)' /\ Matches(f)'
  BY <1>t, <1>s DEF Pipe, Matches
<1>1. CASE UNCHANGED <<process, pipes, stage, current, answer>>
  BY <1>1, <1>s DEF pipes
<1>2. ASSUME NEW e \in Engines, Serve(e) \/ Load(e) \/ Take(e) \/ Finish(e) \/ Die(e)
      PROVE  Pipe(f)' /\ Matches(f)'
  <2>1. CASE e = f
    BY <1>2, <2>1, PipeOfStep
  <2>2. CASE e # f
    <3>1. process'[f] = process[f] /\ inbox'[f] = inbox[f] /\ outbox'[f] = outbox[f]
      BY <1>t, <1>2, <2>2 DEF Serve, Accept, HandleUnload, EnsureWorker, Send, Receive,
         WorkerExited, Deadline, Reply, Fail, Load, Take, Finish, Die, Unload, pipes, TypeOK
    <3>2. work'[f] = work[f] /\ answer'[f] = answer[f]
      BY <1>t, <1>2, <2>2 DEF Serve, Accept, HandleUnload, EnsureWorker, Send, Receive,
         WorkerExited, Deadline, Reply, Fail, Load, Take, Finish, Die, Unload, pipes, TypeOK
    <3>3. stage'[f] = stage[f] /\ current'[f] = current[f]
      BY <1>t, <1>2, <2>2 DEF Serve, Accept, HandleUnload, EnsureWorker, Send, Receive,
         WorkerExited, Deadline, Reply, Fail, Load, Take, Finish, Die, End, Goto, TypeOK
    <3> QED BY <1>s, <3>1, <3>2, <3>3
  <2> QED BY <2>1, <2>2
<1> QED BY <1>1, <1>2 DEF Next, Ask, Begin, AskUnload, AskGenerate, GiveUp, vars

-------------------------------------------------------------------------------
\* The invariant is inductive.
THEOREM Invariant == Spec => []IInv
<1>1. IInv /\ [Next]_vars => IInv'
  BY TypeInductive, OwnInductive, OrderInductive, OneBusyInductive, UnloadedQuietInductive,
     PipesInductive DEF IInv
<1> QED BY InitIInv, <1>1, PTL DEF Spec

\* The variables of the services, the workers and the node keep their types; the node
\* never has the engine unloaded that it is about to use.
THEOREM FluxTypes == Spec => []TypeOK
<1>1. IInv => TypeOK
  BY DEF IInv
<1> QED BY Invariant, <1>1, PTL

\* An answer is only given to the request it was computed for, whatever was abandoned,
\* killed at the deadline or left in a pipe by a worker that died.
THEOREM AnswersMatch == Spec => []AnswerMatches
<1>1. IInv => AnswerMatches
  BY DEF IInv
<1> QED BY Invariant, <1>1, PTL

\* "Switching engines unloads the previous model": for any number of engines no two
\* workers are ever alive at once, although given-up requests are still carried out.
THEOREM AtMostOneEngine == Spec => []OneEngineLoaded
<1>1. IInv => OneEngineLoaded
  BY DEF IInv, OneBusy, Quiet, OneEngineLoaded
<1> QED BY Invariant, <1>1, PTL
===============================================================================
