----------------------------- MODULE OffloadProofs -----------------------------
(***************************************************************************)
(* For any requests, blocks, slots and bounds: the bookkeeping of the      *)
(* connector and of the host tier is exact, the manager hears once that a  *)
(* request finished, and the state keeps its types (IInv); copies and the  *)
(* forward pass stay out of each other's blocks (Layout); and blocks and   *)
(* slots hold what they are taken to hold (Content).                       *)
(***************************************************************************)
EXTENDS Offload, FiniteSetTheorems, TLAPS

Statuses == {"absent", "waiting", "loading", "running", "stopped", "aborted"}
Places   == {"built", "urgent", "deferred", "queued", "done"}
BlockSeq == Seq(Blocks \cup {Null})
ReqT     == [status : Statuses, prompt : Prompts, tokens : Int, computed : Int,
             table : BlockSeq]
TrackT   == [on : BOOLEAN, blocks : BlockSeq, next : Int, jobs : SUBSET (1..MaxJobs),
             signaled : BOOLEAN]
MoveT    == [key : Keys, slot : Slots \cup {Null}, block : Blocks]
JobT     == [id : 1..MaxJobs, req : Requests, store : BOOLEAN, at : Places, known : BOOLEAN,
             moves : SUBSET MoveT]
HostT    == [slot : Slots \cup {Null}, ready : BOOLEAN, readers : Int]
StepT    == [phase : {"idle", "schedule", "store", "flush", "output"}, cut : BOOLEAN,
             visited : SUBSET Requests, todo : SUBSET Requests,
             tokens : [Requests -> Int], blocks : [Requests -> BlockSeq]]

\* The shape of the state, without the ranges of the numbers.
Shape ==
    /\ window \in Windows
    /\ req \in [Requests -> ReqT]
    /\ order \subseteq Requests \X Requests /\ skipped \subseteq Requests
    /\ finished \subseteq Requests /\ preempted \subseteq Requests /\ received \subseteq Requests
    /\ step \in StepT
    /\ track \in [Requests -> TrackT]
    /\ transfers \subseteq JobT
    /\ fences \in [Blocks -> SUBSET (1..MaxJobs)] /\ flush \subseteq 1..MaxJobs
    /\ allocated \subseteq Blocks /\ loading \subseteq Keys
    /\ host \in [Keys -> HostT]
    /\ closed \in [Requests -> Int] /\ resets \in 0..MaxResets

-------------------------------------------------------------------------------
\* Quotients of numbers of tokens by the chunk size.
LEMMA DivType ==
    ASSUME NEW a \in Int PROVE CDiv(a, ChunkTokens) \in Int /\ a \div ChunkTokens \in Int
BY OffloadAssumption DEF CDiv

LEMMA DivMonotone ==
    ASSUME NEW a \in Int, NEW b \in Int, a <= b
    PROVE  CDiv(a, ChunkTokens) <= CDiv(b, ChunkTokens) /\ a \div ChunkTokens <= b \div ChunkTokens
BY OffloadAssumption DEF CDiv

LEMMA ChunksFinite ==
    /\ Chunks \subseteq Nat
    /\ \A S \in SUBSET Chunks : IsFiniteSet(S) /\ Cardinality(S) \in Nat
<1>1. CDiv(MaxTokens, ChunkTokens) \in Int BY DivType, OffloadAssumption
<1>2. IsFiniteSet(Chunks) BY <1>1, FS_Interval DEF Chunks
<1>3. Chunks \subseteq Nat BY <1>1 DEF Chunks
<1>4. \A S \in SUBSET Chunks : IsFiniteSet(S) /\ Cardinality(S) \in Nat
  BY <1>2, FS_Subset, FS_CardinalityType
<1> QED BY <1>3, <1>4

LEMMA LookupType ==
    ASSUME Shape, NEW r \in Requests
    PROVE  /\ Lookup(r) \in Int /\ Hit(r) \in Int /\ Hit(r) <= Most(0, req[r].tokens)
           /\ window # 0 /\ Hit(r) > 0 => Hit(r) < req[r].tokens
<1> DEFINE limit  == IF window = 0 THEN req[r].tokens ELSE req[r].tokens - 1
           chunks == req[r].tokens \div ChunkTokens
           most   == Least(limit, chunks * ChunkTokens)
           asked  == {i \in Chunks : i <= chunks /\ (i - 1) * ChunkTokens < most}
           size   == CDiv(window, ChunkTokens)
           here(i) == Present(KeyOf(r, i))
           prefix == {i \in asked : \A j \in 1..i : here(j)}
           whole  == {i \in asked : i >= size /\ \A j \in i - size + 1..i : here(j)}
           upTo   == {i \in asked : \E j \in whole : i <= j}
           hits   == IF window = 0 \/ whole = {} THEN prefix ELSE upTo
           hit    == Least(most, ChunkTokens * Cardinality(hits))
<1>1. /\ chunks \in Int /\ limit \in Int /\ most \in Int /\ most <= req[r].tokens
      /\ window # 0 => most < req[r].tokens
  BY DivType, OffloadAssumption DEF Shape, ReqT, Least
<1>2. hits \subseteq Chunks
  OBVIOUS
<1>3. Cardinality(hits) \in Nat BY <1>2, ChunksFinite
<1>4. hit \in Int /\ hit <= most
  <2> HIDE DEF hits, most
  <2> QED BY <1>1, <1>3, OffloadAssumption DEF Least
<1>5. Lookup(r) \in {0, Wait, hit} BY DEF Lookup
<1>6. /\ Lookup(r) \in Int /\ Lookup(r) <= Most(0, req[r].tokens)
      /\ window # 0 /\ Lookup(r) > 0 => Lookup(r) < req[r].tokens
  <2> HIDE DEF hit, most
  <2> QED BY <1>1, <1>4, <1>5 DEF Wait, Most, Shape, ReqT
<1> QED BY <1>6 DEF Hit, Wait, Most, Shape, ReqT

\* Sequences of blocks.
LEMMA EmptyType == <<>> \in BlockSeq
BY DEF BlockSeq

LEMMA PicksType ==
    ASSUME NEW n \in Int, NEW free \in SUBSET Blocks, NEW s \in Picks(n, free)
    PROVE  s \in BlockSeq /\ s \in Seq(Blocks) /\ Range(s) \subseteq free /\ (n >= 0 => Len(s) = n)
BY DEF Picks, BlockSeq, Range

LEMMA KeptType ==
    ASSUME Shape, NEW r \in Requests
    PROVE  /\ Kept(r) \in BlockSeq /\ Len(Kept(r)) = Len(req[r].table)
           /\ Free \subseteq Blocks /\ FreeFor(r) \subseteq Blocks
<1>1. req[r].table \in BlockSeq BY DEF Shape, ReqT
<1>2. Kept(r) \in BlockSeq /\ Len(Kept(r)) = Len(req[r].table) BY <1>1 DEF Kept, BlockSeq
<1>3. Free \subseteq Blocks BY DEF Free
<1>4. FreeFor(r) \subseteq Blocks BY <1>1, <1>3 DEF FreeFor, Range, BlockSeq
<1> QED BY <1>2, <1>3, <1>4

LEMMA AmountsType ==
    ASSUME Shape, NEW r \in Requests, NEW n \in Amounts(r)
    PROVE  n \in Int /\ Need(r, n) \in Int /\ n <= req[r].tokens - req[r].computed
<1>1. n \in Int /\ n <= req[r].tokens - req[r].computed
  BY OffloadAssumption DEF Amounts, Least, Shape, ReqT
<1>2. req[r].computed \in Int /\ Len(req[r].table) \in Int BY DEF Shape, ReqT, BlockSeq
<1>3. CDiv(req[r].computed + n, ChunkTokens) \in Int BY <1>1, <1>2, DivType
<1> QED BY <1>1, <1>2, <1>3 DEF Need

LEMMA IdsType ==
    ASSUME Shape
    PROVE  /\ \A js \in SUBSET transfers : Ids(js) \subseteq 1..MaxJobs
           /\ Known \subseteq transfers
           /\ \A id \in NextIds : id \in 1..MaxJobs /\ \A j \in transfers : j.id # id
BY OffloadAssumption DEF Shape, JobT, Ids, Known, KnownOf, NextIds, NewIds

-------------------------------------------------------------------------------
\* Every step keeps the shape.
LEMMA RecordTypes ==
    /\ NoTrack \in TrackT
    /\ Absent \in HostT
    /\ \A t \in TrackT : /\ [t EXCEPT !.next = 0, !.jobs = {}] \in TrackT
                         /\ Signal(t) \in TrackT
                         /\ [NoTrack EXCEPT !.on = TRUE] \in TrackT
    /\ \A q \in ReqT : [q EXCEPT !.status = "waiting", !.computed = 0, !.table = <<>>] \in ReqT
<1>1. NoTrack \in TrackT BY EmptyType DEF TrackT, NoTrack
<1>2. Absent \in HostT BY DEF HostT, Absent
<1>3. ASSUME NEW t \in TrackT PROVE [t EXCEPT !.next = 0, !.jobs = {}] \in TrackT
  <2> DEFINE u == [t EXCEPT !.next = 0]
  <2>1. u \in TrackT BY DEF TrackT
  <2>2. [t EXCEPT !.next = 0, !.jobs = {}] = [u EXCEPT !.jobs = {}]
    OBVIOUS
  <2> HIDE DEF u
  <2>3. [u EXCEPT !.jobs = {}] \in TrackT BY <2>1 DEF TrackT
  <2> QED BY <2>2, <2>3
<1>4. \A t \in TrackT : Signal(t) \in TrackT BY <1>1 DEF TrackT, Signal
<1>5. [NoTrack EXCEPT !.on = TRUE] \in TrackT BY <1>1 DEF TrackT
<1>6. ASSUME NEW q \in ReqT
      PROVE  [q EXCEPT !.status = "waiting", !.computed = 0, !.table = <<>>] \in ReqT
  <2> DEFINE u == [q EXCEPT !.status = "waiting"]
             v == [u EXCEPT !.computed = 0]
  <2>1. u \in ReqT BY DEF ReqT, Statuses
  <2>2. [q EXCEPT !.status = "waiting", !.computed = 0, !.table = <<>>] = [v EXCEPT !.table = <<>>]
    OBVIOUS
  <2> HIDE DEF u
  <2>3. v \in ReqT BY <2>1 DEF ReqT
  <2> HIDE DEF v
  <2>4. [v EXCEPT !.table = <<>>] \in ReqT BY <2>3, EmptyType DEF ReqT
  <2> QED BY <2>2, <2>4
<1> QED BY <1>1, <1>2, <1>3, <1>4, <1>5, <1>6

LEMMA InitShape == Init => Shape
<1> SUFFICES ASSUME Init PROVE Shape
  OBVIOUS
<1>1. req \in [Requests -> ReqT] BY EmptyType, OffloadAssumption DEF Init, ReqT, Statuses
<1>2. step \in StepT BY EmptyType DEF Init, StepT
<1>3. track \in [Requests -> TrackT] /\ host \in [Keys -> HostT] BY RecordTypes DEF Init
<1> QED BY <1>1, <1>2, <1>3, OffloadAssumption DEF Init, Shape

LEMMA ArriveShape == ASSUME Shape, NEW r \in Requests, NEW p \in Prompts, Arrive(r, p) PROVE Shape'
<1>1. req' \in [Requests -> ReqT] BY DEF Arrive, Shape, ReqT, Statuses
<1>2. track' \in [Requests -> TrackT] BY RecordTypes DEF Arrive, Shape
<1> QED BY <1>1, <1>2 DEF Arrive, Shape, manager, memory, Queued

LEMMA AbortShape == ASSUME Shape, NEW r \in Requests, Abort(r) PROVE Shape'
<1>1. req' \in [Requests -> ReqT] BY ZenonT(40), EmptyType DEF Abort, Held, Shape, ReqT, Statuses
<1>2. fences' \in [Blocks -> SUBSET (1..MaxJobs)]
  BY IdsType DEF Abort, Shape, Watched, Known, KnownOf
<1> QED BY <1>1, <1>2 DEF Abort, Shape, manager, memory, Without

LEMMA PreemptedType ==
    ASSUME Shape, NEW rs \in SUBSET Requests
    PROVE  Preempted(rs) \in [Requests -> ReqT]
BY RecordTypes DEF Preempted, Shape

LEMMA ResetShape == ASSUME Shape, NEW force \in BOOLEAN, Reset(force) PROVE Shape'
<1>1. req' \in [Requests -> ReqT] BY PreemptedType DEF Reset, Shape, Running
<1>2. order' \subseteq Requests \X Requests /\ preempted' \subseteq Requests
  BY DEF Reset, Shape, PutBack, Running, Queued
<1>3. resets' \in 0..MaxResets BY OffloadAssumption DEF Reset, Shape
<1>4. CASE UNCHANGED <<connector, manager>>
  BY <1>1, <1>2, <1>3, <1>4 DEF Reset, Shape, connector, manager
<1>5. CASE ResetConnector
  <2>1. track' \in [Requests -> TrackT] BY <1>5, RecordTypes DEF ResetConnector, Shape
  <2>2. host' \in [Keys -> HostT] BY <1>5, RecordTypes DEF ResetConnector
  <2>3. closed' \in [Requests -> Int]
    <3>1. closed \in [Requests -> Int] BY DEF Shape
    <3>2. ASSUME NEW r \in Requests PROVE closed[r] + (IF Unsignaled(r) THEN 1 ELSE 0) \in Int
      BY <3>1
    <3> QED BY <1>5, <3>2 DEF ResetConnector
  <2>4. \A j \in JobT : [j EXCEPT !.known = FALSE] \in JobT BY DEF JobT
  <2>5. transfers' \subseteq JobT BY <1>5, <2>4 DEF ResetConnector, Shape
  <2>6. flush' \subseteq 1..MaxJobs /\ fences' \in [Blocks -> SUBSET (1..MaxJobs)]
    BY <1>5, IdsType DEF ResetConnector
  <2>7. loading' \subseteq Keys BY <1>5 DEF ResetConnector
  <2>8. allocated' \subseteq Blocks BY <1>5 DEF ResetConnector, Shape
  <2> QED BY <1>1, <1>2, <1>3, <2>1, <2>2, <2>3, <2>5, <2>6, <2>7, <2>8 DEF Reset, Shape
<1> QED BY <1>4, <1>5 DEF Reset

LEMMA BeginShape == ASSUME Shape, Begin PROVE Shape'
BY DEF Begin, Shape, StepT, engine, connector, manager, memory

LEMMA StepType ==
    ASSUME step \in StepT, NEW r \in Requests, NEW n \in Int, NEW s \in BlockSeq
    PROVE  /\ [step EXCEPT !.visited = @ \cup {r}] \in StepT
           /\ [step EXCEPT !.visited = @ \cup {r}, !.tokens[r] = n, !.blocks[r] = s] \in StepT
<1> DEFINE u == [step EXCEPT !.visited = @ \cup {r}]
           v == [u EXCEPT !.tokens[r] = n]
<1>1. u \in StepT BY DEF StepT
<1>2. [step EXCEPT !.visited = @ \cup {r}, !.tokens[r] = n, !.blocks[r] = s]
         = [v EXCEPT !.blocks[r] = s]
  OBVIOUS
<1> HIDE DEF u
<1>3. v \in StepT BY <1>1 DEF StepT
<1> HIDE DEF v
<1>4. [v EXCEPT !.blocks[r] = s] \in StepT BY <1>3 DEF StepT
<1> QED BY <1>1, <1>2, <1>4 DEF u

LEMMA ConcatType ==
    ASSUME NEW s \in BlockSeq, NEW t \in BlockSeq
    PROVE  s \o t \in BlockSeq /\ Len(s \o t) = Len(s) + Len(t)
BY DEF BlockSeq

LEMMA ScheduleRunningShape ==
    ASSUME Shape, NEW r \in Requests, ScheduleRunning(r) PROVE Shape'
<1>1. CASE /\ \E n \in Amounts(r) : \E new \in Picks(Need(r, n), FreeFor(r)) :
                /\ req' = [req EXCEPT ![r].table = Kept(r) \o new]
                /\ step' = [step EXCEPT !.visited = @ \cup {r}, !.tokens[r] = n, !.blocks[r] = new]
           /\ UNCHANGED <<order, preempted>>
  <2>1. PICK n \in Amounts(r) : \E new \in Picks(Need(r, n), FreeFor(r)) :
                /\ req' = [req EXCEPT ![r].table = Kept(r) \o new]
                /\ step' = [step EXCEPT !.visited = @ \cup {r}, !.tokens[r] = n, !.blocks[r] = new]
    BY <1>1
  <2>2. PICK new \in Picks(Need(r, n), FreeFor(r)) :
                /\ req' = [req EXCEPT ![r].table = Kept(r) \o new]
                /\ step' = [step EXCEPT !.visited = @ \cup {r}, !.tokens[r] = n, !.blocks[r] = new]
    BY <2>1
  <2>3. n \in Int /\ new \in BlockSeq /\ Kept(r) \o new \in BlockSeq
    BY AmountsType, KeptType, PicksType, ConcatType
  <2>4. req' \in [Requests -> ReqT] BY <2>2, <2>3 DEF Shape, ReqT
  <2>5. step' \in StepT BY <2>2, <2>3, StepType DEF Shape
  <2> QED BY <1>1, <2>4, <2>5 DEF ScheduleRunning, Shape, connector, manager, memory
<1>2. CASE /\ \E v \in Running :
                /\ req' = [Preempted({v}) EXCEPT ![r].table = IF r = v THEN <<>> ELSE Kept(r)]
                /\ PutBack({v})
           /\ step' = [step EXCEPT !.cut = TRUE]
  <2>1. PICK v \in Running :
                /\ req' = [Preempted({v}) EXCEPT ![r].table = IF r = v THEN <<>> ELSE Kept(r)]
                /\ PutBack({v})
    BY <1>2
  <2>2. v \in Requests /\ Preempted({v}) \in [Requests -> ReqT] BY PreemptedType DEF Running
  <2>3. (IF r = v THEN <<>> ELSE Kept(r)) \in BlockSeq BY EmptyType, KeptType
  <2>4. req' \in [Requests -> ReqT] BY <2>1, <2>2, <2>3 DEF ReqT
  <2>5. order' \subseteq Requests \X Requests /\ preempted' \subseteq Requests
    BY <2>1, <2>2 DEF Shape, PutBack, Queued
  <2>6. step' \in StepT BY <1>2 DEF Shape, StepT
  <2> QED BY <2>4, <2>5, <2>6 DEF ScheduleRunning, Shape, connector, manager, memory
<1> QED BY <1>1, <1>2 DEF ScheduleRunning

LEMMA LoadingShape == ASSUME Shape, NEW r \in Requests, Loading(r) PROVE Shape'
<1>1. CASE /\ received' = received \ {r}
           /\ req' = [req EXCEPT ![r].status = "waiting",
                                 ![r].computed = IF @ = req[r].tokens THEN @ - 1 ELSE @]
           /\ UNCHANGED step
  <2> DEFINE c == IF req[r].computed = req[r].tokens THEN req[r].computed - 1 ELSE req[r].computed
             u == [req EXCEPT ![r].status = "waiting"]
  <2>1. c \in Int BY DEF Shape, ReqT
  <2>2. u \in [Requests -> ReqT] BY DEF Shape, ReqT, Statuses
  <2>3. req' = [u EXCEPT ![r].computed = c] BY <1>1 DEF Shape, ReqT
  <2> HIDE DEF u, c
  <2>4. req' \in [Requests -> ReqT] BY <2>1, <2>2, <2>3 DEF ReqT
  <2> QED BY <1>1, <2>4 DEF Loading, Shape, connector, manager, memory
<1>2. CASE step' = [step EXCEPT !.visited = @ \cup {r}] /\ UNCHANGED <<req, received>>
  BY <1>2 DEF Shape, StepT, Loading, connector, manager, memory
<1> QED BY <1>1, <1>2 DEF Loading

LEMMA ForgetBlocks ==
    ASSUME Shape, NEW r \in Requests,
           track' = [track EXCEPT ![r].blocks = IF req[r].computed = 0 THEN <<>> ELSE @]
    PROVE  /\ track' \in [Requests -> TrackT]
           /\ \A q \in Requests : /\ track'[q].on = track[q].on /\ track'[q].jobs = track[q].jobs
                                  /\ track'[q].signaled = track[q].signaled
                                  /\ track'[q].blocks \in {<<>>, track[q].blocks}
BY ZenonT(40), EmptyType DEF Shape, TrackT

LEMMA DelayShape == ASSUME Shape, NEW r \in Requests, Delay(r) PROVE Shape'
<1>1. track' \in [Requests -> TrackT] BY ForgetBlocks DEF Delay
<1>2. step' \in StepT BY ZenonT(40) DEF Delay, Shape, StepT
<1>3. skipped' \subseteq Requests BY DEF Delay, Shape
<1> QED BY <1>1, <1>2, <1>3 DEF Delay, Shape, manager, memory

LEMMA AdmitShape == ASSUME Shape, NEW r \in Requests, Admit(r) PROVE Shape'
<1>1. PICK n \in Amounts(r) : \E new \in Picks(Need(r, n), FreeFor(r)) :
          /\ req' = [req EXCEPT ![r].table = Kept(r) \o new, ![r].status = "running"]
          /\ step' = [step EXCEPT !.visited = @ \cup {r}, !.tokens[r] = n,
                                  !.blocks[r] = Kept(r) \o new]
  BY DEF Admit
<1>2. PICK new \in Picks(Need(r, n), FreeFor(r)) :
          /\ req' = [req EXCEPT ![r].table = Kept(r) \o new, ![r].status = "running"]
          /\ step' = [step EXCEPT !.visited = @ \cup {r}, !.tokens[r] = n,
                                  !.blocks[r] = Kept(r) \o new]
  BY <1>1
<1>3. n \in Int /\ Kept(r) \o new \in BlockSeq BY AmountsType, KeptType, PicksType, ConcatType
<1>4. req' \in [Requests -> ReqT]
  <2> DEFINE u == [req EXCEPT ![r].table = Kept(r) \o new]
  <2>1. u \in [Requests -> ReqT] BY <1>3 DEF Shape, ReqT
  <2>2. req' = [u EXCEPT ![r].status = "running"] BY <1>2 DEF Shape
  <2> HIDE DEF u
  <2> QED BY <2>1, <2>2 DEF ReqT, Statuses
<1>5. step' \in StepT BY <1>2, <1>3, StepType DEF Shape
<1>6. track' \in [Requests -> TrackT] BY ForgetBlocks DEF Admit
<1>7. order' \subseteq Requests \X Requests BY DEF Admit, Shape, Without, Running
<1> QED BY <1>4, <1>5, <1>6, <1>7 DEF Admit, Shape, manager, memory

LEMMA SkippedType ==
    ASSUME Shape, NEW n \in Int
    PROVE  /\ Skipped(n) \in Nat /\ LoadBlocks(n) \in Int
           /\ LoadBlocks(n) = CDiv(n, ChunkTokens) - Skipped(n)
<1>1. window \in Nat BY OffloadAssumption DEF Shape
<1>2. Skipped(n) \in Nat
  <2>1. CASE window = 0 BY <2>1 DEF Skipped
  <2>2. CASE window # 0 BY <1>1, <2>2, OffloadAssumption DEF Most, Skipped
  <2> QED BY <2>1, <2>2
<1> QED BY <1>2, DivType DEF LoadBlocks

LEMMA KeyType ==
    ASSUME Shape, NEW r \in Requests, NEW i \in Chunks
    PROVE  KeyOf(r, i) \in Keys
BY DEF KeyOf, Keys, Shape, ReqT

\* Loads stay below max_model_len if the tokens of requests do.
LEMMA LoadTypes ==
    ASSUME Shape, NEW r \in Requests, req[r].tokens <= MaxTokens, Hit(r) > 0,
           NEW new \in Picks(LoadBlocks(Hit(r)), Free)
    PROVE  /\ LoadMoves(r, Hit(r), new) \subseteq MoveT
           /\ LoadTable(Hit(r), new) \in BlockSeq
           /\ Hit(r) \in Int /\ CDiv(Hit(r), ChunkTokens) \in Int
<1> DEFINE n == Hit(r)
           all == CDiv(n, ChunkTokens)
<1>1. n \in Int /\ 0 < n /\ n <= MaxTokens
  BY LookupType, OffloadAssumption DEF Most, Shape, ReqT
<1>2. all \in Int /\ all <= CDiv(MaxTokens, ChunkTokens) /\ CDiv(MaxTokens, ChunkTokens) \in Int
  BY <1>1, DivMonotone, DivType, OffloadAssumption
<1>3. Skipped(n) \in Nat /\ LoadBlocks(n) = all - Skipped(n) BY <1>1, SkippedType
<1>4. new \in [1..LoadBlocks(n) -> Free] /\ Free \subseteq Blocks BY KeptType DEF Picks
<1> HIDE DEF n, all
<1>5. ASSUME NEW i \in Skipped(n) + 1..all
      PROVE  i \in Chunks /\ i - Skipped(n) \in 1..LoadBlocks(n)
  BY <1>2, <1>3 DEF Chunks
<1>6. ASSUME NEW i \in Skipped(n) + 1..all
      PROVE  [key |-> KeyOf(r, i), slot |-> host[KeyOf(r, i)].slot,
              block |-> new[i - Skipped(n)]] \in MoveT
  BY <1>4, <1>5, KeyType DEF Shape, HostT, MoveT
<1>7. LoadMoves(r, n, new) \subseteq MoveT BY <1>6 DEF LoadMoves, all
<1>8. ASSUME NEW i \in 1..all
      PROVE  (IF i <= Skipped(n) THEN Null ELSE new[i - Skipped(n)]) \in Blocks \cup {Null}
  BY <1>2, <1>3, <1>4
<1>9. LoadTable(n, new) \in [1..all -> Blocks \cup {Null}] BY <1>8 DEF LoadTable, all
<1>10. all \in Nat BY <1>1, OffloadAssumption DEF all, CDiv
<1>11. LoadTable(n, new) \in BlockSeq BY <1>9, <1>10 DEF BlockSeq
<1> QED BY <1>1, <1>2, <1>7, <1>11 DEF n, all

LEMMA LoadShape ==
    ASSUME Shape, NEW r \in Requests, req[r].tokens <= MaxTokens, Load(r) PROVE Shape'
<1> DEFINE n == Hit(r)
           all == CDiv(n, ChunkTokens)
           moves(new) == LoadMoves(r, n, new)
           load(new, id) == Transfer(id, r, FALSE, "built", moves(new))
<1>1. PICK new \in Picks(LoadBlocks(n), Free), id \in NextIds :
          /\ req' = [req EXCEPT ![r].table = LoadTable(n, new), ![r].computed = n,
                                ![r].status = "loading"]
          /\ track' = [track EXCEPT ![r].blocks = <<>>, ![r].next = all, ![r].jobs = {id}]
          /\ transfers' = transfers \cup {load(new, id)}
          /\ loading' = loading \cup KeysOf(load(new, id))
          /\ host' = [k \in Keys |-> [host[k] EXCEPT
                         !.readers = @ + (IF k \in KeysOf(load(new, id)) THEN 1 ELSE 0)]]
  BY DEF Load
<1>2. n > 0 BY DEF Load
<1>3. moves(new) \subseteq MoveT /\ LoadTable(n, new) \in BlockSeq /\ n \in Int /\ all \in Int
  BY <1>2, LoadTypes
<1>4. id \in 1..MaxJobs BY IdsType
<1>13. allocated' \subseteq Blocks
  BY LookupType, SkippedType, PicksType, KeptType DEF Load, Shape
<1> HIDE DEF n, all, moves
<1>5. req' \in [Requests -> ReqT]
  <2> DEFINE u == [req EXCEPT ![r].table = LoadTable(n, new)]
             v == [u EXCEPT ![r].computed = n]
  <2>1. u \in [Requests -> ReqT] BY <1>3 DEF Shape, ReqT
  <2>2. req' = [v EXCEPT ![r].status = "loading"] BY <1>1 DEF Shape
  <2> HIDE DEF u
  <2>3. v \in [Requests -> ReqT] BY <1>3, <2>1 DEF ReqT
  <2> HIDE DEF v
  <2> QED BY <2>2, <2>3 DEF ReqT, Statuses
<1>6. track' \in [Requests -> TrackT]
  <2> DEFINE u == [track EXCEPT ![r].blocks = <<>>]
             v == [u EXCEPT ![r].next = all]
  <2>1. u \in [Requests -> TrackT] BY EmptyType DEF Shape, TrackT
  <2>2. track' = [v EXCEPT ![r].jobs = {id}] BY <1>1 DEF Shape
  <2> HIDE DEF u
  <2>3. v \in [Requests -> TrackT] BY <1>3, <2>1 DEF TrackT
  <2> HIDE DEF v
  <2> QED BY <1>4, <2>2, <2>3 DEF TrackT
<1>7. load(new, id) \in JobT BY <1>3, <1>4 DEF Transfer, JobT, Places
<1>8. transfers' \subseteq JobT BY <1>1, <1>7 DEF Shape
<1>9. loading' \subseteq Keys
  <2>1. load(new, id).moves = moves(new) BY DEF Transfer
  <2> HIDE DEF load
  <2>2. KeysOf(load(new, id)) \subseteq Keys BY <1>3, <2>1 DEF KeysOf, MoveT
  <2> QED BY <1>1, <2>2 DEF Shape
<1>10. host' \in [Keys -> HostT]
  <2> HIDE DEF load
  <2>1. ASSUME NEW k \in Keys, NEW d \in {0, 1} PROVE [host[k] EXCEPT !.readers = @ + d] \in HostT
    BY DEF Shape, HostT
  <2>2. ASSUME NEW k \in Keys PROVE (IF k \in KeysOf(load(new, id)) THEN 1 ELSE 0) \in {0, 1}
    OBVIOUS
  <2> QED BY <1>1, <2>1, <2>2
<1>11. step' = [step EXCEPT !.visited = @ \cup {r}] /\ step \in StepT BY DEF Load, Shape
<1>12. step' \in StepT BY <1>11 DEF StepT
<1> QED BY <1>5, <1>6, <1>8, <1>9, <1>10, <1>12, <1>13 DEF Load, Shape, memory

LEMMA EndScheduleShape == ASSUME Shape, EndSchedule PROVE Shape'
<1>1. \A r \in Requests : track[r] \in TrackT /\ track[r].blocks \in BlockSeq
                          /\ step.blocks[r] \in BlockSeq
  BY DEF Shape, TrackT, StepT
<1>2. track' = [r \in Requests |-> [track[r] EXCEPT !.blocks = KeptIds(r) \o step.blocks[r]]]
  BY DEF EndSchedule
<1>3. flush' = flush \cup (UNION {track[r].jobs : r \in preempted})
                     \cup (UNION {fences[b] : b \in Given})
  BY DEF EndSchedule
<1>4. ASSUME NEW r \in Requests PROVE KeptIds(r) \o step.blocks[r] \in BlockSeq
  BY <1>1, ConcatType DEF BlockSeq, KeptIds
<1>5. track' \in [Requests -> TrackT] BY <1>1, <1>2, <1>4 DEF TrackT
<1>6. Given \subseteq Blocks BY <1>1 DEF Given, Shape, Range, BlockSeq
<1>7. flush' \subseteq 1..MaxJobs
  <2>1. \A r \in preempted : track[r].jobs \subseteq 1..MaxJobs BY <1>1 DEF Shape, TrackT
  <2>2. \A b \in Given : fences[b] \subseteq 1..MaxJobs BY <1>6 DEF Shape
  <2>3. flush \subseteq 1..MaxJobs BY DEF Shape
  <2>4. UNION {track[r].jobs : r \in preempted} \subseteq 1..MaxJobs BY <2>1
  <2>5. UNION {fences[b] : b \in Given} \subseteq 1..MaxJobs BY <2>2
  <2> QED BY <1>3, <2>3, <2>4, <2>5
<1>8. allocated' \subseteq Blocks BY <1>6 DEF EndSchedule
<1>9. step' \in StepT
  <2> DEFINE todo == {r \in Requests : track[r].on /\ (r \in finished \/ step.tokens[r] > 0)}
             u == [step EXCEPT !.phase = "store"]
             v == [u EXCEPT !.todo = todo]
  <2>1. u \in StepT BY DEF Shape, StepT
  <2>2. step' = [v EXCEPT !.blocks = [r \in Requests |-> <<>>]] BY DEF EndSchedule
  <2> HIDE DEF u
  <2>3. todo \subseteq Requests
    OBVIOUS
  <2> HIDE DEF todo
  <2>4. v \in StepT BY <2>1, <2>3 DEF StepT
  <2> HIDE DEF v
  <2> QED BY <2>2, <2>4, EmptyType DEF StepT
<1> QED BY <1>5, <1>7, <1>8, <1>9 DEF EndSchedule, Shape, engine, manager, memory

LEMMA StoreTypes ==
    ASSUME Shape, NEW r \in Requests
    PROVE  /\ Storable(r) \in Int /\ Storable(r) <= Len(track[r].blocks)
           /\ KeysToStore(r) \subseteq Keys
           /\ \A k \in KeysToStore(r) : k[2] \in Chunks /\ track[r].blocks[k[2]] \in Blocks
                                        /\ k = KeyOf(r, k[2])
           /\ NewKeys(KeysToStore(r)) \subseteq KeysToStore(r)
<1>1. /\ req[r].computed \in Int /\ req[r].tokens \in Int /\ step.tokens[r] \in Int
      /\ track[r].blocks \in BlockSeq
  BY DEF Shape, ReqT, StepT, TrackT
<1>2. TokensAfter(r) \in Int BY <1>1 DEF TokensAfter, Least
<1>3. TokensAfter(r) \div ChunkTokens \in Int /\ Len(track[r].blocks) \in Nat
  <2>1. Len(track[r].blocks) \in Nat BY <1>1 DEF BlockSeq
  <2> QED BY <1>2, <2>1, DivType
<1>4. Storable(r) \in Int /\ Storable(r) <= Len(track[r].blocks) BY <1>3 DEF Storable, Least
<1>5. ASSUME NEW c \in Chunks, c <= Storable(r), track[r].blocks[c] # Null
      PROVE  track[r].blocks[c] \in Blocks
  BY <1>1, <1>3, <1>4, <1>5, ChunksFinite DEF BlockSeq, Chunks
<1>6. \A c \in Chunks : KeyOf(r, c) \in Keys /\ KeyOf(r, c)[2] = c BY KeyType DEF KeyOf
<1> QED BY <1>4, <1>5, <1>6 DEF KeysToStore, NewKeys

LEMMA PrepareStoreType ==
    ASSUME Shape, NEW ks \in SUBSET Keys, NEW evicted \in SUBSET Keys,
           NEW slot \in [NewKeys(ks) -> Slots],
           PrepareStore(ks, evicted, slot)
    PROVE  host' \in [Keys -> HostT]
<1>1. ASSUME NEW k \in NewKeys(ks)
      PROVE  [slot |-> slot[k], ready |-> FALSE, readers |-> 0] \in HostT
  BY DEF HostT
<1> QED BY <1>1, RecordTypes DEF PrepareStore, Shape

LEMMA AddStoreShape ==
    ASSUME Shape, NEW r \in Requests, NEW id \in NextIds, NEW moves \in SUBSET MoveT,
           AddStore(r, id, moves)
    PROVE  /\ track' \in [Requests -> TrackT] /\ transfers' \subseteq JobT
           /\ fences' \in [Blocks -> SUBSET (1..MaxJobs)] /\ flush' \subseteq 1..MaxJobs
<1>1. id \in 1..MaxJobs BY IdsType
<1>2. track' \in [Requests -> TrackT]
  <2> DEFINE u == [track EXCEPT ![r].next = Most(@, Storable(r))]
  <2>1. u \in [Requests -> TrackT] BY ZenonT(40), StoreTypes DEF Shape, TrackT, Most
  <2>2. track' = [u EXCEPT ![r].jobs = @ \cup {id}] BY DEF AddStore, Shape
  <2> HIDE DEF u
  <2> QED BY <1>1, <2>1, <2>2 DEF TrackT
<1>3. \A at \in Places : Transfer(id, r, TRUE, at, moves) \in JobT BY <1>1 DEF Transfer, JobT
<1>4. transfers' \subseteq JobT BY <1>3 DEF AddStore, Shape, Places
<1>5. fences' \in [Blocks -> SUBSET (1..MaxJobs)] /\ flush' \subseteq 1..MaxJobs
  BY <1>1 DEF AddStore, Shape
<1> QED BY <1>2, <1>4, <1>5

LEMMA StoreShape == ASSUME Shape, NEW r \in Requests, Store(r) PROVE Shape'
<1> DEFINE ks  == KeysToStore(r)
           new == NewKeys(ks)
<1>1. step' \in StepT BY DEF Store, Shape, StepT
<1>2. CASE track' = [track EXCEPT ![r].next = Most(@, Storable(r))]
           /\ UNCHANGED <<host, transfers, fences, flush>>
  <2>1. track' \in [Requests -> TrackT] BY ZenonT(40), <1>2, StoreTypes DEF Shape, TrackT, Most
  <2> QED BY <1>1, <1>2, <2>1 DEF Store, Shape, engine, memory
<1>3. CASE UNCHANGED <<host, track, transfers, fences, flush>>
  BY <1>1, <1>3 DEF Store, Shape, engine, memory
<1>4. CASE \E evicted \in SUBSET Evictable(ks), slot \in [new -> Slots], id \in NextIds :
              PrepareStore(ks, evicted, slot) /\ AddStore(r, id, StoreMoves(r, slot))
  <2>1. PICK evicted \in SUBSET Evictable(ks), slot \in [new -> Slots], id \in NextIds :
              PrepareStore(ks, evicted, slot) /\ AddStore(r, id, StoreMoves(r, slot))
    BY <1>4
  <2>2. ks \subseteq Keys /\ new \subseteq ks /\ evicted \subseteq Keys
    BY StoreTypes DEF Evictable
  <2>3. StoreMoves(r, slot) \subseteq MoveT BY <2>2, StoreTypes DEF MoveT, StoreMoves
  <2>4. host' \in [Keys -> HostT] BY <2>1, <2>2, PrepareStoreType
  <2>5. /\ track' \in [Requests -> TrackT] /\ transfers' \subseteq JobT
        /\ fences' \in [Blocks -> SUBSET (1..MaxJobs)] /\ flush' \subseteq 1..MaxJobs
    BY <2>1, <2>3, AddStoreShape
  <2> QED BY <1>1, <2>4, <2>5 DEF Store, Shape, engine, memory
<1> QED BY <1>2, <1>3, <1>4 DEF Store

LEMMA SendMetaShape == ASSUME Shape, SendMeta PROVE Shape'
<1>1. track' \in [Requests -> TrackT] BY RecordTypes DEF SendMeta, Shape
<1>2. closed' \in [Requests -> Int] BY DEF Shape, SendMeta
<1>3. req' \in [Requests -> ReqT]
  <2>1. \A r \in Requests : req[r] \in ReqT /\ step.tokens[r] \in Int BY DEF Shape, StepT
  <2>2. ASSUME NEW r \in Requests PROVE [req[r] EXCEPT !.computed = @ + step.tokens[r]] \in ReqT
    BY <2>1 DEF ReqT
  <2> QED BY <2>2 DEF SendMeta
<1>4. transfers' \subseteq JobT
  <2>1. ASSUME NEW j \in JobT, NEW at \in Places PROVE [j EXCEPT !.at = at] \in JobT BY DEF JobT
  <2>2. ASSUME NEW j \in JobT
        PROVE  (IF j.store /\ j.at = "built" THEN "deferred"
                ELSE IF j.at \in {"deferred", "urgent"} THEN "queued" ELSE j.at) \in Places
    BY DEF JobT, Places
  <2> QED BY <2>1, <2>2 DEF SendMeta, Shape
<1>5. step' \in StepT BY DEF SendMeta, Shape, StepT
<1> QED BY <1>1, <1>2, <1>3, <1>4, <1>5 DEF SendMeta, Shape

LEMMA CopyShape == ASSUME Shape, NEW j \in transfers, Copy(j) PROVE Shape'
BY DEF Shape, JobT, Places, Copy, engine, manager

LEMMA ForwardShape == ASSUME Shape, Forward PROVE Shape'
<1>1. transfers' \subseteq JobT BY DEF JobT, Places, Forward, Shape
<1>2. step' \in StepT BY DEF Forward, Shape, StepT
<1> QED BY <1>1, <1>2 DEF Forward, Shape, engine, manager

LEMMA CompleteType ==
    ASSUME Shape, NEW js \in SUBSET transfers, CompleteTransfers(js)
    PROVE  host' \in [Keys -> HostT]
<1>1. Ids(js) \subseteq 1..MaxJobs /\ IsFiniteSet(1..MaxJobs)
  BY IdsType, FS_Interval, OffloadAssumption
<1> DEFINE own(k) == Ids({j \in js : ~j.store /\ k \in KeysOf(j)})
           ready(k) == host[k].ready \/ \E j \in js : j.store /\ k \in KeysOf(j)
<1>2. ASSUME NEW k \in Keys PROVE Cardinality(own(k)) \in Nat
  <2>1. own(k) \subseteq 1..MaxJobs BY <1>1 DEF Ids
  <2> HIDE DEF own
  <2> QED BY <1>1, <2>1, FS_Subset, FS_CardinalityType
<1>3. host' = [k \in Keys |-> [host[k] EXCEPT !.ready = ready(k),
                                              !.readers = host[k].readers - Cardinality(own(k))]]
  BY DEF CompleteTransfers
<1>4. ASSUME NEW k \in Keys PROVE ready(k) \in BOOLEAN BY DEF Shape, HostT
<1> HIDE DEF own, ready
<1>5. ASSUME NEW k \in Keys
      PROVE  [host[k] EXCEPT !.ready = ready(k), !.readers = host[k].readers - Cardinality(own(k))]
                \in HostT
  <2> DEFINE u == [host[k] EXCEPT !.ready = ready(k)]
  <2>1. u \in HostT /\ host[k].readers \in Int BY <1>4 DEF Shape, HostT
  <2>2. [host[k] EXCEPT !.ready = ready(k), !.readers = host[k].readers - Cardinality(own(k))]
           = [u EXCEPT !.readers = host[k].readers - Cardinality(own(k))]
    OBVIOUS
  <2> HIDE DEF u
  <2>3. [u EXCEPT !.readers = host[k].readers - Cardinality(own(k))] \in HostT
    BY <1>2, <2>1 DEF HostT
  <2> QED BY <2>2, <2>3
<1> QED BY <1>3, <1>5

LEMMA UpdateShape == ASSUME Shape, NEW stop \in SUBSET Requests, Update(stop) PROVE Shape'
<1> DEFINE done    == {j \in transfers : j.at = "done"}
           live    == KnownOf(done)
           over(r) == IsFinished(r) \/ r \in stop
           got(r)  == \E j \in done : ~j.store /\ j.req = r
           left(r) == track[r].jobs \ Ids(live)
<1>1. live \subseteq transfers BY DEF KnownOf
<1>2. host' \in [Keys -> HostT] BY <1>1, CompleteType DEF Update
<1>3. /\ req' = [r \in Requests |->
                  [req[r] EXCEPT
                      !.tokens = IF r \in Sampled THEN @ + 1 ELSE @,
                      !.status = IF r \in stop THEN "stopped" ELSE @,
                      !.table  = IF r \in stop \/ (IsFinished(r) /\ got(r)) THEN <<>> ELSE @]]
      /\ track' = [r \in Requests |-> IF track[r].signaled /\ left(r) = {} THEN NoTrack
                                      ELSE [track[r] EXCEPT !.jobs = left(r)]]
      /\ received' = received \cup {r \in Requests : req[r].status = "loading" /\ got(r)}
      /\ fences' = [b \in Blocks |->
             (fences[b] \cup Watched(stop, b))
                 \ Ids({j \in live : b \in BlocksOf(j) /\ (window # 0 \/ over(j.req))})]
  BY DEF Update
<1> HIDE DEF live, got
<1>4. req' \in [Requests -> ReqT]
  <2>1. ASSUME NEW r \in Requests, NEW n \in Int, NEW s \in Statuses, NEW t \in BlockSeq
        PROVE  [req[r] EXCEPT !.tokens = n, !.status = s, !.table = t] \in ReqT
    <3> DEFINE u == [req[r] EXCEPT !.tokens = n]
               v == [u EXCEPT !.status = s]
    <3>1. u \in ReqT BY DEF Shape, ReqT
    <3>2. [req[r] EXCEPT !.tokens = n, !.status = s, !.table = t] = [v EXCEPT !.table = t]
      OBVIOUS
    <3> HIDE DEF u
    <3>3. v \in ReqT BY <3>1 DEF ReqT
    <3> HIDE DEF v
    <3> QED BY <3>2, <3>3 DEF ReqT
  <2>2. ASSUME NEW r \in Requests
        PROVE  /\ (IF r \in Sampled THEN req[r].tokens + 1 ELSE req[r].tokens) \in Int
               /\ (IF r \in stop THEN "stopped" ELSE req[r].status) \in Statuses
               /\ (IF r \in stop \/ (IsFinished(r) /\ got(r)) THEN <<>> ELSE req[r].table)
                     \in BlockSeq
    BY EmptyType DEF Shape, ReqT, Statuses
  <2> QED BY <1>3, <2>1, <2>2
<1>5. track' \in [Requests -> TrackT]
  <2>1. ASSUME NEW r \in Requests PROVE [track[r] EXCEPT !.jobs = left(r)] \in TrackT
    BY DEF Shape, TrackT
  <2> HIDE DEF left
  <2> QED BY <1>3, <2>1, RecordTypes
<1>6. fences' \in [Blocks -> SUBSET (1..MaxJobs)]
  <2>1. ASSUME NEW b \in Blocks
        PROVE  fences[b] \subseteq 1..MaxJobs /\ Watched(stop, b) \subseteq 1..MaxJobs
    BY IdsType DEF Shape, Watched, Known, KnownOf
  <2> HIDE DEF over
  <2> QED BY <1>3, <2>1
<1>7. step' \in StepT
  <2> DEFINE u == [step EXCEPT !.phase = "idle"]
             v == [u EXCEPT !.visited = {}]
             w == [v EXCEPT !.cut = FALSE]
  <2>1. u \in StepT BY DEF Shape, StepT
  <2>2. step' = [w EXCEPT !.tokens = [r \in Requests |-> 0]] BY DEF Update
  <2> HIDE DEF u
  <2>3. v \in StepT BY <2>1 DEF StepT
  <2> HIDE DEF v
  <2>4. w \in StepT BY <2>3 DEF StepT
  <2> HIDE DEF w
  <2> QED BY <2>2, <2>4 DEF StepT
<1>8. received' \subseteq Requests BY <1>3 DEF Shape
<1>9. order' \subseteq Requests \X Requests /\ finished' \subseteq Requests
      /\ loading' \subseteq Keys /\ transfers' \subseteq JobT
  BY DEF Update, Without, Shape
<1> QED BY <1>2, <1>4, <1>5, <1>6, <1>7, <1>8, <1>9 DEF Update, Shape

\* No request has more tokens than the model takes.
Short == \A r \in Requests : req[r].tokens <= MaxTokens

LEMMA ShapeStep == ASSUME Shape, Short, [Next]_vars PROVE Shape'
BY BeginShape, EndScheduleShape, SendMetaShape, ForwardShape, ScheduleRunningShape, LoadingShape,
   DelayShape, AdmitShape, LoadShape, StoreShape, UpdateShape, CopyShape, AbortShape, ArriveShape,
   ResetShape DEF Step, Short, CopyNext, vars, engine, connector, manager, memory, Shape, Next

-------------------------------------------------------------------------------
\* Only running requests have tokens in a step, and they get them in the order of Running:
\* the one that is preempted, the last, has none yet.
Sched ==
    /\ step.phase = "idle" => step.visited = {}
    /\ \A r \in Requests : step.tokens[r] # 0 \/ step.blocks[r] # <<>> =>
          /\ req[r].status = "running" /\ step.phase # "idle"
          /\ step.phase = "schedule" => r \in step.visited
    /\ step.phase # "schedule" => \A r \in Requests : step.blocks[r] = <<>>
    /\ \A q, r \in Running : q = r \/ <<q, r>> \in order \/ <<r, q>> \in order
    /\ step.phase = "schedule" =>
          \A q, r \in Running : <<q, r>> \in order /\ r \in step.visited => q \in step.visited
    /\ \A r \in step.todo : /\ step.phase = "store" /\ track[r].on
                            /\ r \in finished \/ req[r].status = "running"

\* Which requests the connector tracks, and which ones the manager has been told about.
ClosedFor(r) ==
    /\ closed[r] \in {0, 1}
    /\ track[r].signaled => track[r].on
    /\ req[r].status = "absent" => ~track[r].on /\ closed[r] = 0 /\ r \notin finished
    /\ Active(r) => track[r].on /\ ~track[r].signaled /\ closed[r] = 0 /\ r \notin finished
    /\ IsFinished(r) /\ track[r].on /\ ~track[r].signaled => closed[r] = 0 /\ r \in finished
    /\ IsFinished(r) /\ (~track[r].on \/ track[r].signaled) =>
          closed[r] = 1 /\ (track[r].on => r \notin finished)

Closed == \A r \in Requests : ClosedFor(r)

\* What a step of the scheduler, other than Update, may do to the status of a request.
SameTrack(q) == track'[q].on = track[q].on /\ track'[q].signaled = track[q].signaled
SameLife(q)  == req'[q].status = req[q].status \/ (Active(q) /\ Active(q)')

LEMMA ClosedSame ==
    ASSUME Closed, closed' = closed, finished' = finished,
           \A q \in Requests : SameTrack(q) /\ SameLife(q)
    PROVE  Closed'
<1> SUFFICES ASSUME NEW r \in Requests PROVE ClosedFor(r)' BY DEF Closed
<1>1. SameTrack(r) /\ SameLife(r)
  OBVIOUS
<1>2. CASE req'[r].status = req[r].status
  BY <1>1, <1>2 DEF Closed, ClosedFor, SameTrack, Active, IsFinished
<1>3. CASE Active(r) /\ Active(r)'
  BY <1>1, <1>3 DEF Closed, ClosedFor, SameTrack, Active, IsFinished
<1> QED BY <1>1, <1>2, <1>3 DEF SameLife

LEMMA InitSchedClosed == Init => Sched /\ Closed
BY DEF Init, Sched, Closed, ClosedFor, NoTrack, Running, Active, IsFinished

LEMMA ArriveSched ==
    ASSUME Shape, Sched, Closed, NEW r \in Requests, NEW p \in Prompts, Arrive(r, p)
    PROVE  Sched' /\ Closed'
BY DEF Arrive, Shape, ReqT, NoTrack, Closed, ClosedFor, Running, Sched, manager, Active, IsFinished

LEMMA AbortSched ==
    ASSUME Shape, Sched, Closed, NEW r \in Requests, Abort(r)
    PROVE  Sched' /\ Closed'
BY DEF Abort, Shape, ReqT, manager, Running, Active, Sched, Without, Closed, ClosedFor, IsFinished

\* Preempting some of Running leaves the order of the others.
LEMMA PutBackOrder ==
    ASSUME Shape, NEW rs \in SUBSET Requests, PutBack(rs), NEW q \in Requests \ rs,
           NEW r \in Requests \ rs
    PROVE  <<q, r>> \in order' <=> <<q, r>> \in order
BY DEF PutBack

LEMMA ResetSched ==
    ASSUME Shape, Sched, Closed, NEW force \in BOOLEAN, Reset(force)
    PROVE  Sched' /\ Closed'
<1>1. \/ UNCHANGED <<req, order>>
      \/ /\ \A q \in Requests :
               req'[q].status = (IF q \in Running THEN "waiting" ELSE req[q].status)
         /\ Running' = {}
  <2>1. CASE force
    <3>1. req' = Preempted(Running) BY <2>1 DEF Reset
    <3>2. \A q \in Requests : req'[q].status = (IF q \in Running THEN "waiting" ELSE req[q].status)
      BY <3>1 DEF Preempted, Shape, ReqT
    <3> QED BY <3>2 DEF Running
  <2>2. CASE ~force BY <2>2 DEF Reset
  <2> QED BY <2>1, <2>2
<1>2. step.phase = "idle" /\ UNCHANGED <<step, finished>> BY DEF Reset
<1>3. \A q \in Requests : SameLife(q) BY <1>1 DEF SameLife, Running, Active
<1>4. (Running' = Running /\ order' = order) \/ Running' = {} BY <1>1 DEF Running
<1>5. Sched' BY <1>2, <1>4 DEF Sched
<1>6. UNCHANGED <<connector, manager>> => Closed'
  BY <1>2, <1>3, ClosedSame DEF connector, manager, SameTrack
<1>7. ResetConnector => Closed'
  <2> SUFFICES ASSUME ResetConnector, NEW r \in Requests PROVE ClosedFor(r)' BY DEF Closed
  <2>1. closed'[r] = closed[r] + (IF Unsignaled(r) THEN 1 ELSE 0) BY DEF ResetConnector
  <2>2. /\ track[r].on /\ ~IsFinished(r) => SameTrack(r)
        /\ ~(track[r].on /\ ~IsFinished(r)) => ~track'[r].on /\ ~track'[r].signaled
    BY DEF ResetConnector, SameTrack, NoTrack, Shape, TrackT
  <2>3. SameLife(r) /\ finished' = finished /\ req[r].status \in Statuses
    BY <1>2, <1>3 DEF Shape, ReqT
  <2>4. CASE req[r].status = "absent"
    BY <2>1, <2>2, <2>3, <2>4 DEF Closed, ClosedFor, Unsignaled, SameLife, Active, IsFinished
  <2>5. CASE Active(r) BY <2>1, <2>2, <2>3, <2>5
       DEF Closed, ClosedFor, Unsignaled, SameLife, SameTrack, Active, IsFinished
  <2>6. CASE IsFinished(r)
    BY <2>1, <2>2, <2>3, <2>6 DEF Closed, ClosedFor, Unsignaled, SameLife, Active, IsFinished
  <2> QED BY <2>3, <2>4, <2>5, <2>6 DEF Active, IsFinished, Statuses
<1> QED BY <1>5, <1>6, <1>7 DEF Reset

LEMMA BeginSched == ASSUME Shape, Sched, Closed, Begin PROVE Sched' /\ Closed'
BY ClosedSame DEF Begin, engine, connector, manager, Shape, StepT, Sched, Running, SameTrack,
   SameLife

LEMMA ScheduleRunningSched ==
    ASSUME Shape, Sched, Closed, NEW r \in Requests, ScheduleRunning(r) PROVE Sched' /\ Closed'
<1>1. /\ step.phase = "schedule" /\ r \in Running /\ r \notin step.visited
      /\ \A q \in Running : <<q, r>> \in order => q \in step.visited
      /\ UNCHANGED <<finished, track, closed>> /\ step.todo = {}
  BY DEF ScheduleRunning, Turn, connector, manager, Sched
<1>2. CASE /\ \E n \in Amounts(r) : \E new \in Picks(Need(r, n), FreeFor(r)) :
                /\ req' = [req EXCEPT ![r].table = Kept(r) \o new]
                /\ step' = [step EXCEPT !.visited = @ \cup {r}, !.tokens[r] = n, !.blocks[r] = new]
           /\ UNCHANGED <<order, preempted>>
  <2>1. /\ \A q \in Requests : req'[q].status = req[q].status
        /\ \A q \in Requests \ {r} : /\ step'.tokens[q] = step.tokens[q]
                                       /\ step'.blocks[q] = step.blocks[q]
        /\ step'.visited = step.visited \cup {r} /\ step'.phase = "schedule" /\ step'.todo = {}
    BY <1>1, <1>2 DEF Shape, ReqT, StepT
  <2>2. Running' = Running /\ order' = order BY <1>2, <2>1 DEF Running
  <2>3. Sched' BY <1>1, <2>1, <2>2 DEF Sched, Running
  <2>4. Closed' BY <1>1, <2>1, ClosedSame DEF SameTrack, SameLife
  <2> QED BY <2>3, <2>4
<1>3. CASE /\ \E v \in Running :
                /\ \A q \in Running : <<v, q>> \notin order
                /\ req' = [Preempted({v}) EXCEPT ![r].table = IF r = v THEN <<>> ELSE Kept(r)]
                /\ PutBack({v})
           /\ step' = [step EXCEPT !.cut = TRUE]
  <2>1. PICK v \in Running :
                /\ \A q \in Running : <<v, q>> \notin order
                /\ req' = [Preempted({v}) EXCEPT ![r].table = IF r = v THEN <<>> ELSE Kept(r)]
                /\ PutBack({v})
    BY <1>3
  <2>2. /\ \A q \in Requests \ {v} : req'[q].status = req[q].status
        /\ req'[v].status = "waiting" /\ req[v].status = "running"
    BY <1>1, <2>1 DEF Preempted, Shape, ReqT, Running
  <2>3. Running' = Running \ {v} BY <2>2 DEF Running
  <2>4. /\ step'.phase = "schedule" /\ step'.visited = step.visited /\ step'.todo = {}
        /\ step'.tokens = step.tokens /\ step'.blocks = step.blocks
    BY <1>1, <1>3 DEF Shape, StepT
  <2>5. v \notin step.visited BY <1>1, <2>1 DEF Sched
  <2>6. \A q, w \in Running' : <<q, w>> \in order' <=> <<q, w>> \in order
    BY ZenonT(40), <2>1, <2>3, PutBackOrder DEF Running
  <2>7. Sched' BY <1>1, <2>2, <2>3, <2>4, <2>5, <2>6 DEF Sched
  <2>8. Closed' BY <1>1, <2>2, ClosedSame DEF SameTrack, SameLife, Active
  <2> QED BY <2>7, <2>8
<1> QED BY <1>2, <1>3 DEF ScheduleRunning

\* A queued request is looked at: it has no tokens, and is not in Running.
LEMMA QueuedSched ==
    ASSUME Shape, Sched, Closed, NEW r \in Requests, req[r].status \in {"waiting", "loading"},
           step.phase = "schedule", order' = order, finished' = finished, closed' = closed,
           \A q \in Requests \ {r} : req'[q].status = req[q].status,
           req'[r].status \in {"waiting", "loading"},
           \A q \in Requests : SameTrack(q),
           step'.phase = "schedule", step'.tokens = step.tokens, step'.blocks = step.blocks,
           step'.todo = step.todo, step'.visited \in {step.visited, step.visited \cup {r}}
    PROVE  Sched' /\ Closed'
BY ClosedSame DEF Running, Sched, SameLife, Active

LEMMA LoadingSched ==
    ASSUME Shape, Sched, Closed, NEW r \in Requests, Loading(r) PROVE Sched' /\ Closed'
<1>1. req[r].status = "loading" /\ step.phase = "schedule" BY DEF Loading, Considers, Turn
<1>2. UNCHANGED <<order, finished, track, closed>> BY DEF Loading, connector, manager
<1>3. /\ \A q \in Requests \ {r} : req'[q].status = req[q].status
      /\ req'[r].status \in {"waiting", "loading"}
  BY <1>1 DEF Loading, Shape, ReqT
<1>4. /\ step'.phase = "schedule" /\ step'.tokens = step.tokens /\ step'.blocks = step.blocks
      /\ step'.todo = step.todo /\ step'.visited \in {step.visited, step.visited \cup {r}}
  BY <1>1 DEF Loading, Shape, StepT
<1> QED BY <1>1, <1>2, <1>3, <1>4, QueuedSched DEF SameTrack

LEMMA DelaySched ==
    ASSUME Shape, Sched, Closed, NEW r \in Requests, Delay(r) PROVE Sched' /\ Closed'
<1>1. req[r].status = "waiting" /\ step.phase = "schedule" BY DEF Delay, Considers, Turn
<1>2. UNCHANGED <<req, order, finished, closed>> BY DEF Delay, manager
<1>3. \A q \in Requests : SameTrack(q) BY ForgetBlocks DEF Delay, SameTrack
<1>4. /\ step'.phase = "schedule" /\ step'.tokens = step.tokens /\ step'.blocks = step.blocks
      /\ step'.todo = step.todo /\ step'.visited \in {step.visited, step.visited \cup {r}}
  BY <1>1 DEF Delay, Shape, StepT
<1> QED BY <1>1, <1>2, <1>3, <1>4, QueuedSched

LEMMA LoadSched ==
    ASSUME Shape, Sched, Closed, NEW r \in Requests, Load(r) PROVE Sched' /\ Closed'
<1>1. req[r].status = "waiting" /\ step.phase = "schedule" BY DEF Load, Considers, Turn
<1>2. UNCHANGED <<order, finished, closed>> BY DEF Load
<1>3. /\ \A q \in Requests \ {r} : req'[q].status = req[q].status
      /\ req'[r].status = "loading"
  BY DEF Load, Shape, ReqT
<1>4. \A q \in Requests : SameTrack(q) BY DEF Load, Shape, TrackT, SameTrack
<1>5. /\ step'.phase = "schedule" /\ step'.tokens = step.tokens /\ step'.blocks = step.blocks
      /\ step'.todo = step.todo /\ step'.visited \in {step.visited, step.visited \cup {r}}
  BY <1>1 DEF Load, Shape, StepT
<1> QED BY <1>1, <1>2, <1>3, <1>4, <1>5, QueuedSched

LEMMA AdmitSched ==
    ASSUME Shape, Sched, Closed, NEW r \in Requests, Admit(r) PROVE Sched' /\ Closed'
<1>1. req[r].status = "waiting" /\ step.phase = "schedule" /\ Running \subseteq step.visited
  BY DEF Admit, Considers, Turn
<1>2. finished' = finished /\ closed' = closed /\ order' = Without({r}) \cup (Running \X {r})
  BY DEF Admit, manager
<1>3. /\ \A q \in Requests \ {r} : /\ req'[q].status = req[q].status
                                  /\ step'.tokens[q] = step.tokens[q]
                                  /\ step'.blocks[q] = step.blocks[q]
      /\ req'[r].status = "running"
      /\ step'.phase = "schedule" /\ step'.todo = step.todo
      /\ step'.visited = step.visited \cup {r}
  BY <1>1 DEF Admit, Shape, ReqT, StepT
<1>4. \A q \in Requests : SameTrack(q) BY ForgetBlocks DEF Admit, SameTrack
<1>5. Running' = Running \cup {r} /\ r \notin Running BY <1>1, <1>3 DEF Running
<1>6. \A q, w \in Running : <<q, w>> \in order' <=> <<q, w>> \in order BY <1>2, <1>5 DEF Without
<1>7. \A q \in Running : <<q, r>> \in order' BY <1>2
<1>8. Running' \subseteq step'.visited BY <1>1, <1>3, <1>5
<1>9. step.todo = {} BY <1>1 DEF Sched
<1>10. Sched' BY <1>1, <1>3, <1>5, <1>6, <1>7, <1>8, <1>9 DEF Sched
<1>11. Closed' BY <1>1, <1>2, <1>3, <1>4, ClosedSame DEF SameLife, Active
<1> QED BY <1>10, <1>11

LEMMA EndScheduleSched == ASSUME Shape, Sched, Closed, EndSchedule PROVE Sched' /\ Closed'
<1>1. UNCHANGED <<req, order, finished, closed>> BY DEF EndSchedule, engine, manager
<1>2. /\ step.phase = "schedule" /\ step'.phase = "store" /\ step'.tokens = step.tokens
      /\ step'.blocks = [r \in Requests |-> <<>>]
      /\ step'.todo = {r \in Requests : track[r].on /\ (r \in finished \/ step.tokens[r] > 0)}
  BY DEF EndSchedule, Shape, StepT
<1>3. \A q \in Requests : SameTrack(q) /\ track'[q].jobs = track[q].jobs
  BY DEF EndSchedule, Shape, TrackT, SameTrack
<1>4. Running' = Running BY <1>1 DEF Running
<1>5. \A r \in step'.todo : track'[r].on /\ (r \in finished \/ req[r].status = "running")
  BY <1>2, <1>3 DEF Sched, SameTrack, Shape, StepT
<1>6. Sched' BY <1>1, <1>2, <1>4, <1>5 DEF Sched
<1>7. Closed' BY <1>1, <1>3, ClosedSame DEF SameLife
<1> QED BY <1>6, <1>7

LEMMA StoreSched ==
    ASSUME Shape, Sched, Closed, NEW r \in Requests, Store(r) PROVE Sched' /\ Closed'
<1>1. UNCHANGED <<req, order, finished, closed>> BY DEF Store, engine
<1>2. /\ step.phase = "store" /\ step'.phase = "store" /\ step'.tokens = step.tokens
      /\ step'.blocks = step.blocks /\ step'.todo = step.todo \ {r}
  BY DEF Store, Shape, StepT
<1>3. \A q \in Requests : SameTrack(q)
  <2>1. CASE track' = [track EXCEPT ![r].next = Most(@, Storable(r))]
    BY <2>1 DEF Shape, TrackT, SameTrack
  <2>2. CASE track' = track BY <2>2 DEF SameTrack
  <2>3. CASE \E id \in NextIds : track' = [track EXCEPT ![r].next = Most(@, Storable(r)),
                                                        ![r].jobs = @ \cup {id}]
    BY <2>3 DEF Shape, TrackT, SameTrack
  <2> QED BY <2>1, <2>2, <2>3 DEF Store, AddStore
<1>4. Running' = Running BY <1>1 DEF Running
<1>5. Sched' BY ZenonT(40), <1>1, <1>2, <1>3, <1>4 DEF Sched, SameTrack, Shape, StepT
<1>6. Closed' BY <1>1, <1>3, ClosedSame DEF SameLife
<1> QED BY <1>5, <1>6

LEMMA SendMetaSched == ASSUME Shape, Sched, Closed, SendMeta PROVE Sched' /\ Closed'
<1>1. UNCHANGED order /\ finished' = {} BY DEF SendMeta
<1>2. /\ step.phase = "store" /\ step'.phase = "flush" /\ step'.tokens = step.tokens
      /\ step'.blocks = step.blocks /\ step'.todo = {}
  BY DEF SendMeta, Shape, StepT
<1>3. \A q \in Requests : req'[q].status = req[q].status BY DEF SendMeta, Shape, ReqT
<1>4. Running' = Running BY <1>3 DEF Running
<1>5. Sched' BY <1>1, <1>2, <1>3, <1>4 DEF Sched
<1>6. ASSUME NEW r \in Requests PROVE ClosedFor(r)'
  <2>1. closed'[r] = closed[r] + (IF r \in finished /\ track[r].on THEN 1 ELSE 0)
    BY DEF SendMeta
  <2>2. CASE r \in finished /\ track[r].on
    BY <1>1, <1>3, <2>1, <2>2 DEF SendMeta, Signal, NoTrack, Shape, TrackT, Closed, ClosedFor,
       ReqT, Active, IsFinished, Statuses
  <2>3. CASE ~(r \in finished /\ track[r].on)
    BY <1>1, <1>3, <2>1, <2>3 DEF SendMeta, Shape, Closed, ClosedFor, Active, IsFinished
  <2> QED BY <2>2, <2>3
<1> QED BY <1>5, <1>6 DEF Closed

LEMMA CopySched == ASSUME Shape, Sched, Closed, NEW j \in transfers, Copy(j) PROVE Sched' /\ Closed'
BY ClosedSame DEF Copy, engine, manager, Sched, Running, SameTrack, SameLife

LEMMA ForwardSched == ASSUME Shape, Sched, Closed, Forward PROVE Sched' /\ Closed'
BY ClosedSame DEF Forward, engine, manager, Shape, StepT, Sched, Running, SameTrack, SameLife

LEMMA UpdateSched ==
    ASSUME Shape, Sched, Closed, NEW stop \in SUBSET Requests, Update(stop) PROVE Sched' /\ Closed'
<1>1. /\ step.phase = "output" /\ step'.phase = "idle" /\ step'.visited = {}
      /\ \A r \in Requests : step'.tokens[r] = 0
      /\ step'.blocks = step.blocks /\ step'.todo = step.todo
  BY DEF Update, Shape, StepT
<1>2. /\ order' = Without(stop) /\ finished' = finished \cup stop /\ closed' = closed
  BY DEF Update
<1>3. \A r \in stop : req[r].status = "running"
  <2>1. stop \subseteq Sampled BY DEF Update
  <2>2. \A r \in Sampled : step.tokens[r] # 0 BY DEF Sampled, Shape, StepT
  <2> QED BY <2>1, <2>2 DEF Sampled, Sched
<1>4. \A r \in Requests : req'[r].status = IF r \in stop THEN "stopped" ELSE req[r].status
  BY DEF Update, Shape, ReqT
<1>5. Running' = Running \ stop BY <1>4 DEF Running
<1>6. step.todo = {} BY <1>1 DEF Sched
<1>7. Sched' BY <1>1, <1>2, <1>5, <1>6 DEF Sched, Without
<1>8. \A r \in Requests : \/ SameTrack(r)
                          \/ track[r].signaled /\ ~track'[r].signaled /\ ~track'[r].on
  <2>1. \A r \in Requests :
            \/ track[r].signaled /\ track'[r] = NoTrack
            \/ \E left \in SUBSET track[r].jobs : track'[r] = [track[r] EXCEPT !.jobs = left]
    <3> DEFINE live == KnownOf({j \in transfers : j.at = "done"})
               left(r) == track[r].jobs \ Ids(live)
    <3>1. track' = [r \in Requests |-> IF track[r].signaled /\ left(r) = {} THEN NoTrack
                                      ELSE [track[r] EXCEPT !.jobs = left(r)]]
      BY DEF Update
    <3>2. \A r \in Requests : left(r) \in SUBSET track[r].jobs
      OBVIOUS
    <3> HIDE DEF left
    <3> QED BY <3>1, <3>2
  <2>2. \A r \in Requests : track[r] \in TrackT BY DEF Shape
  <2>3. ASSUME NEW r \in Requests, NEW left, track'[r] = [track[r] EXCEPT !.jobs = left]
        PROVE  SameTrack(r)
    BY <2>2, <2>3 DEF TrackT, SameTrack
  <2>4. ASSUME NEW r \in Requests, track'[r] = NoTrack
        PROVE  ~track'[r].signaled /\ ~track'[r].on
    BY <2>4 DEF NoTrack
  <2>5. ASSUME NEW r \in Requests
        PROVE  \/ SameTrack(r)
               \/ track[r].signaled /\ ~track'[r].signaled /\ ~track'[r].on
    BY <2>1, <2>3, <2>4
  <2> QED BY <2>5
<1>9. ASSUME NEW r \in Requests PROVE ClosedFor(r)' BY <1>2, <1>3, <1>4, <1>8
     DEF Closed, ClosedFor, SameTrack, Active, IsFinished, Shape, ReqT, Statuses
<1> QED BY <1>7, <1>9 DEF Closed

LEMMA SchedClosedStep == ASSUME Shape, Sched, Closed, [Next]_vars PROVE Sched' /\ Closed'
<1>1. CASE Step
  BY <1>1, BeginSched, EndScheduleSched, SendMetaSched, ForwardSched, ScheduleRunningSched,
     LoadingSched, DelaySched, AdmitSched, LoadSched, StoreSched, UpdateSched DEF Step
<1>2. CASE CopyNext BY <1>2, CopySched DEF CopyNext
<1>3. CASE \E r \in Requests : Abort(r) \/ \E p \in Prompts : Arrive(r, p)
  BY <1>3, AbortSched, ArriveSched
<1>4. CASE \E force \in BOOLEAN : Reset(force) BY <1>4, ResetSched
<1>5. CASE UNCHANGED vars BY <1>5, ClosedSame
     DEF vars, engine, connector, manager, Sched, Running, SameTrack, SameLife
<1> QED BY <1>1, <1>2, <1>3, <1>4, <1>5 DEF Next

-------------------------------------------------------------------------------
\* Numbers of tokens stay in their ranges.
CountsFor(r) ==
    /\ PromptTokens <= req[r].tokens /\ req[r].tokens <= MaxTokens
    /\ ~IsFinished(r) => req[r].tokens < MaxTokens
    /\ 0 <= req[r].computed /\ req[r].computed <= req[r].tokens
    /\ 0 <= step.tokens[r] /\ step.tokens[r] <= MaxTokens
    /\ step.phase \in {"schedule", "store"} => req[r].computed + step.tokens[r] <= req[r].tokens

Counts == \A r \in Requests : CountsFor(r)

LEMMA CountsShort == Shape /\ Counts => Short
BY OffloadAssumption DEF Counts, CountsFor, Short

\* A request keeps its numbers, or starts again.
SameCounts(q) ==
    /\ step'.tokens[q] = step.tokens[q]
    /\ req'[q].tokens = req[q].tokens /\ req'[q].computed = req[q].computed
    /\ ~IsFinished(q)' => ~IsFinished(q)
EarlierPhase == step'.phase \in {"schedule", "store"} =>
                   step.phase \in {"schedule", "store"} \/ \A r \in Requests : step.tokens[r] = 0

LEMMA CountsKept ==
    ASSUME Shape, Counts, NEW r \in Requests, SameCounts(r), EarlierPhase
    PROVE  CountsFor(r)'
BY OffloadAssumption DEF Counts, CountsFor, SameCounts, EarlierPhase, Shape, ReqT, StepT

LEMMA ScheduleRunningCounts ==
    ASSUME Shape, Sched, Counts, NEW r \in Requests, ScheduleRunning(r) PROVE Counts'
<1>1. step.phase = "schedule" /\ r \in Running /\ r \notin step.visited
  BY DEF ScheduleRunning, Turn
<1>2. CASE \E n \in Amounts(r) : \E new \in Picks(Need(r, n), FreeFor(r)) :
              /\ req' = [req EXCEPT ![r].table = Kept(r) \o new]
              /\ step' = [step EXCEPT !.visited = @ \cup {r}, !.tokens[r] = n, !.blocks[r] = new]
  <2>1. PICK n \in Amounts(r) : \E new \in Picks(Need(r, n), FreeFor(r)) :
              /\ req' = [req EXCEPT ![r].table = Kept(r) \o new]
              /\ step' = [step EXCEPT !.visited = @ \cup {r}, !.tokens[r] = n, !.blocks[r] = new]
    BY <1>2
  <2>2. /\ \A q \in Requests : /\ req'[q].status = req[q].status
                               /\ req'[q].tokens = req[q].tokens
                               /\ req'[q].computed = req[q].computed
        /\ \A q \in Requests \ {r} : step'.tokens[q] = step.tokens[q]
        /\ step'.tokens[r] = n /\ step'.phase = "schedule"
    BY <1>1, <2>1 DEF Shape, ReqT, StepT
  <2>3. n \in Int /\ 0 <= n /\ n <= req[r].tokens - req[r].computed
    BY OffloadAssumption DEF Amounts, Least, Shape, ReqT, Counts, CountsFor
  <2>4. ASSUME NEW q \in Requests \ {r} PROVE CountsFor(q)'
    BY <1>1, <2>2, CountsKept DEF SameCounts, EarlierPhase, IsFinished
  <2>5. CountsFor(r)'
    BY <2>2, <2>3, OffloadAssumption DEF Counts, CountsFor, IsFinished, Shape, ReqT
  <2> QED BY <2>4, <2>5 DEF Counts
<1>3. CASE /\ \E v \in Running :
                /\ \A q \in Running : <<v, q>> \notin order
                /\ req' = [Preempted({v}) EXCEPT ![r].table = IF r = v THEN <<>> ELSE Kept(r)]
           /\ step' = [step EXCEPT !.cut = TRUE]
  <2>1. PICK v \in Running :
                /\ \A q \in Running : <<v, q>> \notin order
                /\ req' = [Preempted({v}) EXCEPT ![r].table = IF r = v THEN <<>> ELSE Kept(r)]
    BY <1>3
  <2>2. /\ \A q \in Requests \ {v} : /\ req'[q].status = req[q].status
                                     /\ req'[q].tokens = req[q].tokens
                                     /\ req'[q].computed = req[q].computed
        /\ req'[v].status = "waiting" /\ req[v].status = "running"
        /\ req'[v].tokens = req[v].tokens /\ req'[v].computed = 0
    BY ZenonT(40), <1>1, <2>1 DEF Preempted, Shape, ReqT, Running
  <2>3. step'.phase = "schedule" /\ step'.tokens = step.tokens BY <1>1, <1>3 DEF Shape, StepT
  <2>4. ASSUME NEW q \in Requests \ {v} PROVE CountsFor(q)'
    BY <1>1, <2>2, <2>3, CountsKept DEF SameCounts, EarlierPhase, IsFinished
  <2>5. v \in Requests /\ CountsFor(v) /\ step.tokens[v] \in Int /\ req[v] \in ReqT
    BY DEF Counts, Running, Shape, StepT
  <2>6. CountsFor(v)'
    BY <1>1, <2>2, <2>3, <2>5, OffloadAssumption DEF CountsFor, IsFinished, ReqT
  <2> QED BY <2>4, <2>5, <2>6 DEF Counts
<1> QED BY <1>2, <1>3 DEF ScheduleRunning

LEMMA AdmitCounts == ASSUME Shape, Sched, Counts, NEW r \in Requests, Admit(r) PROVE Counts'
<1>1. step.phase = "schedule" /\ req[r].status = "waiting" BY DEF Admit, Considers, Turn
<1>2. PICK n \in Amounts(r) : \E new \in Picks(Need(r, n), FreeFor(r)) :
          /\ req' = [req EXCEPT ![r].table = Kept(r) \o new, ![r].status = "running"]
          /\ step' = [step EXCEPT !.visited = @ \cup {r}, !.tokens[r] = n,
                                  !.blocks[r] = Kept(r) \o new]
  BY DEF Admit
<1>3. /\ \A q \in Requests : /\ req'[q].tokens = req[q].tokens
                             /\ req'[q].computed = req[q].computed
                             /\ IsFinished(q)' <=> IsFinished(q)
      /\ \A q \in Requests \ {r} : step'.tokens[q] = step.tokens[q]
      /\ step'.tokens[r] = n /\ step'.phase = "schedule"
  BY <1>1, <1>2 DEF Shape, ReqT, StepT, IsFinished
<1>4. n \in Int /\ 0 <= n /\ n <= req[r].tokens - req[r].computed
  BY OffloadAssumption DEF Amounts, Least, Shape, ReqT, Counts, CountsFor
<1>5. ASSUME NEW q \in Requests \ {r} PROVE CountsFor(q)'
  BY <1>1, <1>3, CountsKept DEF SameCounts, EarlierPhase
<1>6. CountsFor(r)' BY <1>3, <1>4, OffloadAssumption DEF Counts, CountsFor, Shape, ReqT
<1> QED BY <1>5, <1>6 DEF Counts

LEMMA LoadingCounts == ASSUME Shape, Sched, Counts, NEW r \in Requests, Loading(r) PROVE Counts'
<1>1. step.phase = "schedule" /\ req[r].status = "loading" BY DEF Loading, Considers, Turn
<1>2. /\ \A q \in Requests \ {r} : req'[q] = req[q]
      /\ req'[r].status \in {"waiting", "loading"} /\ req'[r].tokens = req[r].tokens
      /\ \/ req'[r].computed = req[r].computed
         \/ req[r].computed = req[r].tokens /\ req'[r].computed = req[r].tokens - 1
      /\ step'.phase = "schedule" /\ step'.tokens = step.tokens
  BY <1>1 DEF Loading, Shape, ReqT, StepT
<1>3. step.tokens[r] = 0 BY <1>1 DEF Sched
<1>4. ASSUME NEW q \in Requests \ {r} PROVE CountsFor(q)'
  BY <1>1, <1>2, CountsKept DEF SameCounts, EarlierPhase, IsFinished
<1>5. CountsFor(r)'
  BY <1>1, <1>2, <1>3, OffloadAssumption DEF Counts, CountsFor, IsFinished, Shape, ReqT
<1> QED BY <1>4, <1>5 DEF Counts

LEMMA LoadCounts == ASSUME Shape, Sched, Counts, NEW r \in Requests, Load(r) PROVE Counts'
<1>1. step.phase = "schedule" /\ req[r].status = "waiting" /\ Hit(r) > 0
  BY DEF Load, Considers, Turn
<1>2. /\ \A q \in Requests \ {r} : req'[q] = req[q]
      /\ req'[r].status = "loading" /\ req'[r].tokens = req[r].tokens
      /\ req'[r].computed = Hit(r)
  BY DEF Load, Shape, ReqT
<1>3. step'.phase = "schedule" /\ step'.tokens = step.tokens BY <1>1 DEF Load, Shape, StepT
<1>4. step.tokens[r] = 0 BY <1>1 DEF Sched
<1>5. Hit(r) \in Int /\ Hit(r) <= req[r].tokens BY <1>1, LookupType DEF Most, Shape, ReqT
<1>6. ASSUME NEW q \in Requests \ {r} PROVE CountsFor(q)'
  BY <1>1, <1>2, <1>3, CountsKept DEF SameCounts, EarlierPhase, IsFinished
<1>7. CountsFor(r)'
  BY <1>1, <1>2, <1>3, <1>4, <1>5, OffloadAssumption DEF Counts, CountsFor, IsFinished, Shape, ReqT
<1> QED BY <1>6, <1>7 DEF Counts

LEMMA SendMetaCounts == ASSUME Shape, Counts, SendMeta PROVE Counts'
<1>1. ASSUME NEW r \in Requests PROVE CountsFor(r)'
  <2>1. /\ req'[r].status = req[r].status /\ req'[r].tokens = req[r].tokens
        /\ req'[r].computed = req[r].computed + step.tokens[r]
    BY DEF SendMeta, Shape, ReqT
  <2>2. step.phase = "store" /\ step'.phase = "flush" /\ step'.tokens = step.tokens
    BY DEF SendMeta, Shape, StepT
  <2>3. CountsFor(r) /\ req[r] \in ReqT /\ step.tokens[r] \in Int BY DEF Counts, Shape, StepT
  <2> QED BY <2>1, <2>2, <2>3, OffloadAssumption DEF CountsFor, IsFinished, ReqT
<1> QED BY <1>1 DEF Counts

LEMMA UpdateCounts ==
    ASSUME Shape, Sched, Counts, NEW stop \in SUBSET Requests, Update(stop) PROVE Counts'
<1>1. /\ \A r \in Requests : /\ req'[r].computed = req[r].computed
                             /\ req'[r].tokens = IF r \in Sampled THEN req[r].tokens + 1
                                                 ELSE req[r].tokens
                             /\ req'[r].status = IF r \in stop THEN "stopped" ELSE req[r].status
  BY DEF Update, Shape, ReqT
<1>2. step'.phase = "idle" /\ \A r \in Requests : step'.tokens[r] = 0
  BY DEF Update, Shape, StepT
<1>3. stop \subseteq Sampled /\ \A r \in Sampled \ stop : req[r].tokens + 1 < MaxTokens
  BY DEF Update
<1>4. \A r \in Sampled : req[r].status = "running" BY DEF Sampled, Sched, Shape, StepT
<1>5. ASSUME NEW r \in Requests PROVE CountsFor(r)'
  BY <1>1, <1>2, <1>3, <1>4, OffloadAssumption DEF Counts, Shape, CountsFor, IsFinished, ReqT
<1> QED BY <1>5 DEF Counts

LEMMA ResetCounts ==
    ASSUME Shape, Sched, Counts, NEW force \in BOOLEAN, Reset(force) PROVE Counts'
<1>1. step.phase = "idle" /\ step' = step BY DEF Reset
<1>2. \/ req' = req
      \/ req' = Preempted(Running)
  BY DEF Reset
<1>3. ASSUME NEW r \in Requests PROVE CountsFor(r)'
  <2>2. CountsFor(r) /\ req[r] \in ReqT BY DEF Counts, Shape
  <2>3. CASE req'[r] = req[r] BY <1>1, <2>2, <2>3 DEF CountsFor, IsFinished
  <2>4. CASE /\ req[r].status = "running"
             /\ req'[r] = [req[r] EXCEPT !.status = "waiting", !.computed = 0, !.table = <<>>]
    BY <1>1, <2>2, <2>4, OffloadAssumption DEF ReqT, CountsFor, IsFinished
  <2>5. req'[r] = req[r] \/ <2>4!1 BY <1>2 DEF Preempted, Running
  <2> QED BY <2>3, <2>4, <2>5
<1> QED BY <1>3 DEF Counts

LEMMA CountsStep == ASSUME Shape, Sched, Counts, [Next]_vars PROVE Counts'
<1>1. ASSUME NEW r \in Requests, NEW p \in Prompts, Arrive(r, p) PROVE Counts'
  BY <1>1, CountsKept DEF Arrive, SameCounts, IsFinished, Shape, ReqT, EarlierPhase, Counts
<1>2. ASSUME NEW r \in Requests, Abort(r) PROVE Counts'
  BY <1>2, CountsKept DEF Abort, SameCounts, IsFinished, Active, Shape, ReqT, EarlierPhase, Counts
<1>3. CASE UNCHANGED req /\ step'.tokens = step.tokens /\ EarlierPhase
  BY <1>3, CountsKept DEF Counts, SameCounts, IsFinished
<1>4. Begin => UNCHANGED req /\ step'.tokens = step.tokens /\ EarlierPhase
  <2> SUFFICES ASSUME Begin PROVE UNCHANGED req /\ step'.tokens = step.tokens /\ EarlierPhase
    OBVIOUS
  <2>1. step.phase = "idle" /\ \A r \in Requests : step.tokens[r] = 0 BY DEF Begin, Sched
  <2> QED BY <2>1 DEF Begin, EarlierPhase, engine, Shape, StepT
<1>5. EndSchedule => UNCHANGED req /\ step'.tokens = step.tokens /\ EarlierPhase
  BY DEF EndSchedule, EarlierPhase, engine, Shape, StepT
<1>6. Forward => UNCHANGED req /\ step'.tokens = step.tokens /\ EarlierPhase
  BY DEF Forward, EarlierPhase, engine, Shape, StepT
<1>7. \A r \in Requests : Store(r) \/ Delay(r) =>
         UNCHANGED req /\ step'.tokens = step.tokens /\ EarlierPhase
  BY DEF Store, Delay, Considers, Turn, EarlierPhase, engine, Shape, StepT
<1>8. CopyNext \/ UNCHANGED vars => UNCHANGED req /\ step'.tokens = step.tokens /\ EarlierPhase
  BY DEF CopyNext, Copy, vars, engine, EarlierPhase
<1>9. CASE Step
  BY <1>3, <1>4, <1>5, <1>6, <1>7, <1>9, SendMetaCounts, ScheduleRunningCounts, LoadingCounts,
     AdmitCounts, LoadCounts, UpdateCounts DEF Step
<1> QED BY <1>1, <1>2, <1>3, <1>8, <1>9, ResetCounts DEF Next

LEMMA InitCounts == Init => Counts
BY OffloadAssumption DEF Init, Counts, CountsFor, IsFinished

-------------------------------------------------------------------------------
\* Transfers, their ids in the status of their request and in the fences, and loads: a load
\* is alone, for a request that has no blocks to store and is not queued or running.
Unique == \A j, l \in transfers : j.id = l.id => j = l
JobsFor ==
    /\ \A r \in Requests : \A i \in 1..MaxJobs :
          i \in track[r].jobs <=> \E j \in transfers : j.known /\ j.req = r /\ j.id = i
    /\ \A j \in transfers : j.known => track[j.req].on
Loader(q) == /\ req[q].status \in {"loading", "aborted"} /\ q \notin received
             /\ track[q].blocks = <<>> /\ step.blocks[q] = <<>>
Loads == \A j \in transfers : ~j.store =>
            /\ Loader(j.req)
            /\ \A l \in transfers : l.req = j.req /\ (~l.store \/ (j.known /\ l.known)) => l = j
Fencing(j, b) == /\ j.known /\ j.store /\ b \in BlocksOf(j)
                 /\ window # 0 \/ IsFinished(j.req)
FencesFor == \A b \in Blocks : \A i \in 1..MaxJobs :
                i \in fences[b] <=> \E j \in transfers : Fencing(j, b) /\ j.id = i
Received == \A q \in received : req[q].status = "loading"
Linked   == Unique /\ JobsFor /\ Loads /\ FencesFor /\ Received

SameJob(j, l) == /\ l.id = j.id /\ l.req = j.req /\ l.store = j.store /\ l.known = j.known
                 /\ l.moves = j.moves
SameLink(q) == /\ track'[q].jobs = track[q].jobs
               /\ track[q].on /\ track[q].jobs # {} => track'[q].on
               /\ IsFinished(q)' <=> IsFinished(q)
               /\ Loader(q) => Loader(q)'
               /\ q \in received' => q \in received /\ req'[q].status = req[q].status

\* A step that at most moves the transfers on.
LEMMA SameLinked ==
    ASSUME Shape, Linked, transfers' \subseteq JobT, fences' = fences, window' = window,
           \A q \in Requests : SameLink(q),
           \A j \in transfers : \E l \in transfers' : SameJob(j, l),
           \A l \in transfers' : \E j \in transfers : SameJob(j, l),
           Unique', received' \subseteq Requests
    PROVE  Linked'
<1>1. \A j \in transfers : j.req \in Requests /\ j.id \in 1..MaxJobs BY DEF Shape, JobT
<1>2. JobsFor'
  <2>1. ASSUME NEW r \in Requests, NEW i \in 1..MaxJobs
        PROVE  i \in track'[r].jobs <=> \E j \in transfers' : j.known /\ j.req = r /\ j.id = i
    BY DEF Linked, JobsFor, SameLink, SameJob
  <2>2. ASSUME NEW l \in transfers', l.known PROVE track'[l.req].on
    <3>1. PICK j \in transfers : SameJob(j, l)
      OBVIOUS
    <3>2. j.known /\ j.req = l.req /\ track[j.req].on /\ j.id \in track[j.req].jobs
      BY <1>1, <2>2, <3>1 DEF SameJob, Linked, JobsFor
    <3> QED BY <1>1, <3>2 DEF SameLink
  <2> QED BY <2>1, <2>2 DEF JobsFor
<1>3. Loads'
  <2> SUFFICES ASSUME NEW j \in transfers', ~j.store
               PROVE  /\ Loader(j.req)'
                      /\ \A l \in transfers' :
                            l.req = j.req /\ (~l.store \/ (j.known /\ l.known)) => l = j
    BY DEF Loads
  <2>1. PICK i \in transfers : SameJob(i, j)
    OBVIOUS
  <2>2. Loader(i.req) /\ i.req = j.req BY <2>1 DEF Linked, Loads, SameJob
  <2>3. ASSUME NEW l \in transfers', l.req = j.req, ~l.store \/ (j.known /\ l.known)
        PROVE  l = j
    <3>1. PICK k \in transfers : SameJob(k, l)
      OBVIOUS
    <3>2. k.req = i.req /\ ~i.store /\ (~k.store \/ (i.known /\ k.known))
      BY <2>1, <2>3, <3>1 DEF SameJob
    <3>3. k = i BY <3>2 DEF Linked, Loads
    <3>4. l.id = j.id BY <2>1, <3>1, <3>3 DEF SameJob
    <3> QED BY <3>4 DEF Unique
  <2> QED BY <1>1, <2>2, <2>3 DEF SameLink
<1>4. FencesFor' BY <1>1 DEF SameJob, Fencing, BlocksOf, SameLink, Linked, FencesFor
<1>5. Received' BY DEF Linked, Received, SameLink
<1> QED BY <1>2, <1>3, <1>4, <1>5 DEF Linked

LEMMA KeptLinked ==
    ASSUME Shape, Linked, transfers' = transfers, fences' = fences, window' = window,
           \A q \in Requests : SameLink(q), received' \subseteq Requests
    PROVE  Linked'
BY SameLinked DEF SameJob, Linked, Unique, Shape

LEMMA SameLinkFields ==
    ASSUME NEW q, track'[q].jobs = track[q].jobs, track'[q].on = track[q].on,
           track[q].blocks = <<>> => track'[q].blocks = <<>>,
           step.blocks[q] = <<>> => step'.blocks[q] = <<>>,
           req'[q].status = req[q].status, received' = received
    PROVE  SameLink(q)
BY DEF SameLink, Loader, IsFinished

\* A transfer is created, with a fresh id.
LEMMA GrownLinked ==
    ASSUME Shape, Linked, NEW t \in JobT, t.known, transfers' = transfers \cup {t},
           \A j \in transfers : j.id # t.id,
           window' = window,
           \A b \in Blocks : fences'[b] = IF t.store /\ b \in BlocksOf(t)
                                              /\ (window # 0 \/ IsFinished(t.req))
                                          THEN fences[b] \cup {t.id} ELSE fences[b],
           \A q \in Requests : /\ track'[q].on <=> track[q].on
                               /\ track'[q].jobs = IF q = t.req THEN track[q].jobs \cup {t.id}
                                                   ELSE track[q].jobs
                               /\ IsFinished(q)' <=> IsFinished(q)
                               /\ q # t.req \/ t.store => (Loader(q) => Loader(q)'),
           \A q \in received' : q \in received /\ req'[q].status = req[q].status,
           track[t.req].on,
           \A j \in transfers : j.req = t.req => j.store /\ (j.known => t.store),
           ~t.store => Loader(t.req)'
    PROVE  Linked'
<1>1. \A j \in transfers : j.req \in Requests /\ j.id \in 1..MaxJobs BY DEF Shape, JobT
<1>2. t.req \in Requests /\ t.id \in 1..MaxJobs BY DEF JobT
<1>3. Unique' BY DEF Linked, Unique
<1>4. JobsFor'
  <2>1. ASSUME NEW r \in Requests, NEW i \in 1..MaxJobs
        PROVE  i \in track'[r].jobs <=> \E j \in transfers' : j.known /\ j.req = r /\ j.id = i
    <3>1. CASE r = t.req /\ i = t.id BY <3>1
    <3>2. CASE ~(r = t.req /\ i = t.id)
      <4>1. i \in track'[r].jobs <=> i \in track[r].jobs
        <5>1. track'[r].jobs = IF r = t.req THEN track[r].jobs \cup {t.id} ELSE track[r].jobs
          OBVIOUS
        <5> QED BY <3>2, <5>1
      <4>2. i \in track[r].jobs <=> \E j \in transfers : j.known /\ j.req = r /\ j.id = i
        BY DEF Linked, JobsFor
      <4> QED BY <3>2, <4>1, <4>2
    <3> QED BY <3>1, <3>2
  <2>2. \A j \in transfers' : j.known => track'[j.req].on BY <1>1, <1>2 DEF Linked, JobsFor
  <2> QED BY <2>1, <2>2 DEF JobsFor
<1>5. Loads'
  <2>1. ASSUME NEW j \in transfers', ~j.store PROVE Loader(j.req)'
    BY <1>1, <1>2, <2>1 DEF Linked, Loads
  <2>2. ASSUME NEW j \in transfers', ~j.store, NEW l \in transfers', l.req = j.req,
               ~l.store \/ (j.known /\ l.known)
        PROVE  l = j
    <3>1. CASE j \in transfers /\ l \in transfers BY <2>2, <3>1 DEF Linked, Loads
    <3>2. CASE j = t /\ l \in transfers BY <2>2, <3>2
    <3>3. CASE j \in transfers /\ l = t BY <2>2, <3>3
    <3> QED BY <3>1, <3>2, <3>3
  <2> QED BY <2>1, <2>2 DEF Loads
<1>6. FencesFor'
  <2>1. \A j \in transfers, b \in Blocks : Fencing(j, b)' <=> Fencing(j, b)
    BY <1>1 DEF Fencing, BlocksOf
  <2>2. \A b \in Blocks : Fencing(t, b)' <=> /\ t.store /\ b \in BlocksOf(t)
                                             /\ window # 0 \/ IsFinished(t.req)
    BY <1>2 DEF Fencing, BlocksOf
  <2>3. ASSUME NEW b \in Blocks, NEW i \in 1..MaxJobs
        PROVE  i \in fences'[b] <=> \E j \in transfers' : Fencing(j, b)' /\ j.id = i
    <3>1. CASE i = t.id /\ Fencing(t, b)' BY <2>2, <3>1
    <3>2. CASE ~(i = t.id /\ Fencing(t, b)')
      <4>1. i \in fences'[b] <=> i \in fences[b]
        <5>1. CASE Fencing(t, b)'
          <6>1. fences'[b] = fences[b] \cup {t.id} BY <2>2, <5>1
          <6>2. i # t.id BY <3>2, <5>1
          <6> QED BY <6>1, <6>2
        <5>2. CASE ~Fencing(t, b)' BY <2>2, <5>2
        <5> QED BY <5>1, <5>2
      <4>2. i \in fences[b] <=> \E j \in transfers : Fencing(j, b) /\ j.id = i
        BY DEF Linked, FencesFor
      <4>3. \A j \in transfers' : Fencing(j, b)' /\ j.id = i => j \in transfers
        <5> SUFFICES ASSUME NEW j \in transfers', Fencing(j, b)', j.id = i, j \notin transfers
                     PROVE  FALSE
          OBVIOUS
        <5>1. j = t
          OBVIOUS
        <5> QED BY ONLY <3>2, <5>1, Fencing(j, b)', j.id = i
      <4> QED BY <2>1, <4>1, <4>2, <4>3
    <3> QED BY <3>1, <3>2
  <2> QED BY <2>3 DEF FencesFor
<1>7. Received' BY DEF Linked, Received
<1> QED BY <1>3, <1>4, <1>5, <1>6, <1>7 DEF Linked

LEMMA InitLinked == Init => Linked
BY DEF Init, Linked, Unique, JobsFor, Loads, FencesFor, Received, NoTrack

LEMMA ArriveLinked ==
    ASSUME Shape, Closed, Linked, NEW r \in Requests, NEW p \in Prompts, Arrive(r, p)
    PROVE  Linked'
<1>1. /\ \A q \in Requests \ {r} : req'[q] = req[q] /\ track'[q] = track[q]
      /\ req'[r].status = "waiting" /\ req[r].status = "absent" /\ track'[r].jobs = {}
      /\ UNCHANGED <<window, step, received, transfers, fences>>
  BY DEF Arrive, Shape, ReqT, NoTrack
<1>2. track[r].jobs = {} BY <1>1 DEF Closed, ClosedFor, Linked, JobsFor, Shape, TrackT
<1>3. SameLink(r) BY <1>1, <1>2 DEF SameLink, Loader, IsFinished, Linked, Received
<1>4. \A q \in Requests \ {r} : SameLink(q) BY <1>1, SameLinkFields
<1> QED BY <1>1, <1>3, <1>4, KeptLinked DEF Shape

LEMMA AbortLinked ==
    ASSUME Shape, Linked, NEW r \in Requests, Abort(r) PROVE Linked'
<1>1. /\ \A q \in Requests \ {r} : req'[q] = req[q]
      /\ req'[r].status = "aborted" /\ Active(r)
      /\ UNCHANGED <<window, step, track, transfers>> /\ received' = received \ {r}
      /\ \A b \in Blocks : fences'[b] = fences[b] \cup Watched({r}, b)
  BY DEF Abort, Shape, ReqT
<1>2. \A j \in transfers : j.req \in Requests /\ j.id \in 1..MaxJobs BY DEF Shape, JobT
<1>3. Unique' /\ JobsFor' BY <1>1 DEF Linked, Unique, JobsFor
<1>4. \A q \in Requests : Loader(q) => Loader(q)' BY <1>1 DEF Loader
<1>5. Loads' BY <1>1, <1>2, <1>4 DEF Linked, Loads
<1>6. FencesFor'
  <2>1. \A j \in transfers, b \in Blocks :
            Fencing(j, b)' <=> \/ Fencing(j, b)
                               \/ /\ window = 0 /\ j.known /\ j.store /\ j.req = r
                                  /\ b \in BlocksOf(j)
    BY <1>1, <1>2 DEF Fencing, BlocksOf, IsFinished, Active
  <2>2. \A b \in Blocks, i \in 1..MaxJobs :
            i \in Watched({r}, b) <=> /\ window = 0
                                      /\ \E j \in transfers : /\ j.known /\ j.store /\ j.req = r
                                                              /\ b \in BlocksOf(j) /\ j.id = i
    BY DEF Watched, Ids, Known, KnownOf
  <2>3. ASSUME NEW b \in Blocks, NEW i \in 1..MaxJobs
        PROVE  i \in fences'[b] <=> \E j \in transfers : Fencing(j, b)' /\ j.id = i
    <3>1. i \in fences'[b] <=> i \in fences[b] \/ i \in Watched({r}, b) BY <1>1
    <3>2. i \in fences[b] <=> \E j \in transfers : Fencing(j, b) /\ j.id = i
      BY DEF Linked, FencesFor
    <3> QED BY <2>1, <2>2, <3>1, <3>2
  <2> QED BY <1>1, <2>3 DEF FencesFor
<1>7. Received' BY <1>1 DEF Linked, Received, Shape
<1> QED BY <1>3, <1>5, <1>6, <1>7 DEF Linked

LEMMA ResetLinked ==
    ASSUME Shape, Linked, NEW force \in BOOLEAN, Reset(force) PROVE Linked'
<1>1. UNCHANGED <<window, step, received>> BY DEF Reset
<1>2. \A q \in Requests : /\ IsFinished(q)' <=> IsFinished(q)
                          /\ req[q].status \in {"loading", "aborted"} =>
                                req'[q].status = req[q].status
  <2>1. CASE force
    <3>1. req' = Preempted(Running) BY <2>1 DEF Reset
    <3> QED BY <3>1 DEF Preempted, Running, IsFinished, Shape, ReqT
  <2>2. CASE ~force BY <2>2 DEF Reset, IsFinished
  <2> QED BY <2>1, <2>2
<1>3. CASE UNCHANGED <<connector, manager>>
  BY <1>1, <1>2, <1>3, KeptLinked DEF SameLink, Loader, Linked, Received, connector, Shape
<1>4. CASE ResetConnector
  <2>1. /\ \A q \in Requests : track'[q].jobs = {}
        /\ \A q \in Requests : track[q].blocks = <<>> => track'[q].blocks = <<>>
    BY <1>4 DEF ResetConnector, NoTrack, Shape, TrackT
  <2>2. /\ transfers' = {[j EXCEPT !.known = FALSE] : j \in transfers}
        /\ \A b \in Blocks : fences'[b] = {}
    BY <1>4 DEF ResetConnector
  <2>3. \A l \in transfers' : ~l.known BY <2>2 DEF Shape, JobT
  <2>4. \A l \in transfers' : \E j \in transfers :
            l = [j EXCEPT !.known = FALSE] /\ l.id = j.id /\ l.req = j.req /\ l.store = j.store
    BY <2>2 DEF Shape, JobT
  <2>5. Unique'
    <3>1. ASSUME NEW l \in transfers', NEW m \in transfers', l.id = m.id PROVE l = m
      <4>1. PICK j \in transfers : l = [j EXCEPT !.known = FALSE] /\ l.id = j.id BY <2>4
      <4>2. PICK k \in transfers : m = [k EXCEPT !.known = FALSE] /\ m.id = k.id BY <2>4
      <4>3. j = k BY <3>1, <4>1, <4>2 DEF Linked, Unique
      <4> QED BY <4>1, <4>2, <4>3
    <3> QED BY <3>1 DEF Unique
  <2>6. JobsFor' /\ FencesFor' BY <2>1, <2>2, <2>3 DEF JobsFor, FencesFor, Fencing
  <2>7. \A q \in Requests : Loader(q) => Loader(q)' BY <1>1, <1>2, <2>1 DEF Loader
  <2>8. Loads'
    <3> SUFFICES ASSUME NEW l \in transfers', ~l.store
                 PROVE  /\ Loader(l.req)'
                        /\ \A m \in transfers' :
                              m.req = l.req /\ (~m.store \/ (l.known /\ m.known)) => m = l
      BY DEF Loads
    <3>1. PICK j \in transfers :
              l = [j EXCEPT !.known = FALSE] /\ l.id = j.id /\ l.req = j.req /\ l.store = j.store
      BY <2>4
    <3>2. j.req \in Requests /\ Loader(j.req) BY <3>1 DEF Linked, Loads, Shape, JobT
    <3>3. ASSUME NEW m \in transfers', m.req = l.req, ~m.store PROVE m = l
      <4>1. PICK k \in transfers :
                m = [k EXCEPT !.known = FALSE] /\ m.req = k.req /\ m.store = k.store
        BY <2>4
      <4>2. k = j BY <3>1, <3>3, <4>1 DEF Linked, Loads
      <4> QED BY <3>1, <4>1, <4>2
    <3> QED BY <2>3, <2>7, <3>1, <3>2, <3>3
  <2>9. Received' BY <1>1, <1>2 DEF Linked, Received, Shape
  <2> QED BY <2>5, <2>6, <2>8, <2>9 DEF Linked
<1> QED BY <1>3, <1>4 DEF Reset

LEMMA ScheduleLinked ==
    ASSUME Shape, Linked, UNCHANGED <<window, received, transfers, fences>>,
           \A q \in Requests : /\ track'[q].jobs = track[q].jobs /\ track'[q].on = track[q].on
                               /\ track[q].blocks = <<>> => track'[q].blocks = <<>>,
           NEW r \in Requests, req[r].status \in {"waiting", "running"},
           \A q \in Requests : req'[q].status = req[q].status
                               \/ (req[q].status = "running" /\ req'[q].status = "waiting")
                               \/ (q = r /\ req'[q].status \in {"waiting", "running"}),
           \A q \in Requests \ {r} : step'.blocks[q] = step.blocks[q]
    PROVE  Linked'
BY KeptLinked DEF SameLink, Loader, IsFinished, Linked, Received, Shape

LEMMA ScheduleRunningLinked ==
    ASSUME Shape, Linked, NEW r \in Requests, ScheduleRunning(r) PROVE Linked'
<1>1. /\ req[r].status = "running"
      /\ UNCHANGED <<window, received, track, transfers, fences>>
  BY DEF ScheduleRunning, Turn, Running, connector
<1>2. CASE \E n \in Amounts(r) : \E new \in Picks(Need(r, n), FreeFor(r)) :
              /\ req' = [req EXCEPT ![r].table = Kept(r) \o new]
              /\ step' = [step EXCEPT !.visited = @ \cup {r}, !.tokens[r] = n, !.blocks[r] = new]
  <2>1. /\ \A q \in Requests : req'[q].status = req[q].status
        /\ \A q \in Requests \ {r} : step'.blocks[q] = step.blocks[q]
    BY <1>2 DEF Shape, ReqT, StepT
  <2> QED BY <1>1, <2>1, ScheduleLinked
<1>3. CASE /\ \E v \in Running :
                 req' = [Preempted({v}) EXCEPT ![r].table = IF r = v THEN <<>> ELSE Kept(r)]
           /\ step' = [step EXCEPT !.cut = TRUE]
  <2>1. PICK v \in Running :
            req' = [Preempted({v}) EXCEPT ![r].table = IF r = v THEN <<>> ELSE Kept(r)]
    BY <1>3
  <2>2. /\ \A q \in Requests \ {v} : req'[q].status = req[q].status
        /\ req'[v].status = "waiting" /\ req[v].status = "running"
    BY <2>1 DEF Preempted, Shape, ReqT, Running
  <2>3. \A q \in Requests : step'.blocks[q] = step.blocks[q] BY <1>3 DEF Shape, StepT
  <2> QED BY <1>1, <2>2, <2>3, ScheduleLinked
<1> QED BY <1>2, <1>3 DEF ScheduleRunning

LEMMA AdmitLinked == ASSUME Shape, Linked, NEW r \in Requests, Admit(r) PROVE Linked'
<1>1. req[r].status = "waiting" /\ UNCHANGED <<window, received, transfers, fences>>
  BY DEF Admit, Considers, Turn
<1>2. /\ \A q \in Requests \ {r} : req'[q].status = req[q].status
      /\ req'[r].status = "running"
      /\ \A q \in Requests \ {r} : step'.blocks[q] = step.blocks[q]
  BY DEF Admit, Shape, ReqT, StepT
<1>3. \A q \in Requests : /\ track'[q].jobs = track[q].jobs /\ track'[q].on = track[q].on
                          /\ track[q].blocks = <<>> => track'[q].blocks = <<>>
  BY ForgetBlocks DEF Admit
<1> QED BY <1>1, <1>2, <1>3, ScheduleLinked

LEMMA DelayLinked == ASSUME Shape, Linked, NEW r \in Requests, Delay(r) PROVE Linked'
BY ForgetBlocks, ScheduleLinked DEF Delay, Considers, Turn, Shape, StepT

LEMMA LoadingLinked == ASSUME Shape, Linked, NEW r \in Requests, Loading(r) PROVE Linked'
<1>1. /\ req[r].status = "loading"
      /\ UNCHANGED <<window, track, transfers, fences>>
  BY DEF Loading, Considers, connector
<1>2. /\ \A q \in Requests \ {r} : req'[q] = req[q] /\ (q \in received' <=> q \in received)
      /\ r \notin received => req' = req /\ received' = received
      /\ r \in received => r \notin received'
      /\ req'[r].status \in {"loading", "waiting"}
  BY <1>1 DEF Loading, Shape, ReqT
<1>3. \A q \in Requests : step'.blocks[q] = step.blocks[q] BY DEF Loading, Shape, StepT
<1>4. \A q \in Requests : SameLink(q) BY <1>1, <1>2, <1>3 DEF SameLink, Loader, IsFinished
<1>5. received' \subseteq Requests BY DEF Loading, Shape
<1> QED BY <1>1, <1>4, <1>5, KeptLinked

LEMMA BeginLinked == ASSUME Shape, Linked, Begin PROVE Linked'
BY SameLinkFields, KeptLinked DEF Begin, engine, connector, Shape, StepT

LEMMA EndScheduleLinked == ASSUME Shape, Linked, EndSchedule PROVE Linked'
<1>1. UNCHANGED <<window, req, received, transfers, fences>> BY DEF EndSchedule, engine
<1>2. track' = [r \in Requests |-> [track[r] EXCEPT !.blocks = KeptIds(r) \o step.blocks[r]]]
  BY DEF EndSchedule
<1>3. ASSUME NEW q \in Requests, track[q].blocks = <<>>, step.blocks[q] = <<>>
      PROVE  KeptIds(q) \o step.blocks[q] = <<>>
  <2>1. KeptIds(q) = <<>> BY <1>3 DEF KeptIds
  <2> QED BY <1>3, <2>1
<1>4. \A q \in Requests : /\ track'[q].jobs = track[q].jobs /\ track'[q].on = track[q].on
                          /\ track'[q].blocks = KeptIds(q) \o step.blocks[q]
  BY <1>2 DEF Shape, TrackT
<1>5. \A q \in Requests : step'.blocks[q] = <<>> BY DEF EndSchedule, Shape, StepT
<1>6. \A q \in Requests : SameLink(q) BY <1>1, <1>3, <1>4, <1>5 DEF SameLink, Loader, IsFinished
<1> QED BY <1>1, <1>6, KeptLinked DEF Shape

\* Load and Store create a transfer.
LEMMA LoadLinked ==
    ASSUME Shape, Sched, Closed, Linked, Short, NEW r \in Requests, Load(r) PROVE Linked'
<1>1. /\ req[r].status = "waiting" /\ Hit(r) > 0
      /\ UNCHANGED <<window, received, fences>>
  BY DEF Load, Considers, Turn
<1>2. PICK new \in Picks(LoadBlocks(Hit(r)), Free), id \in NextIds :
          LET load == Transfer(id, r, FALSE, "built", LoadMoves(r, Hit(r), new))
          IN  /\ req' = [req EXCEPT ![r].table = LoadTable(Hit(r), new), ![r].computed = Hit(r),
                                    ![r].status = "loading"]
              /\ track' = [track EXCEPT ![r].blocks = <<>>, ![r].next = CDiv(Hit(r), ChunkTokens),
                                        ![r].jobs = {id}]
              /\ transfers' = transfers \cup {load}
  BY DEF Load
<1> DEFINE moves == LoadMoves(r, Hit(r), new)
           t == Transfer(id, r, FALSE, "built", moves)
<1>3. moves \subseteq MoveT BY <1>1, LoadTypes DEF Short
<1> HIDE DEF moves
<1>4. /\ id \in 1..MaxJobs /\ \A j \in transfers : j.id # id BY IdsType
<1>5. /\ t \in JobT /\ t.known /\ ~t.store /\ t.req = r /\ t.id = id
  BY <1>3, <1>4 DEF Transfer, JobT, Places
<1>6. transfers' = transfers \cup {t} BY <1>2 DEF moves
<1> HIDE DEF t
<1>7. track[r].jobs = {} BY <1>1 DEF Hit, Wait
<1>8. \A j \in transfers : j.req = r => j.store /\ ~j.known
  <2> SUFFICES ASSUME NEW j \in transfers, j.req = r PROVE j.store /\ ~j.known
    OBVIOUS
  <2>1. j.store BY <1>1 DEF Linked, Loads, Loader
  <2>2. j.id \in 1..MaxJobs BY DEF Shape, JobT
  <2>3. ~j.known BY <1>7, <2>2 DEF Linked, JobsFor
  <2> QED BY <2>1, <2>3
<1>9. /\ \A q \in Requests \ {r} : req'[q] = req[q] /\ track'[q] = track[q]
      /\ track'[r].on = track[r].on /\ track'[r].jobs = {id} /\ track'[r].blocks = <<>>
      /\ req'[r].status = "loading"
  BY <1>2 DEF Shape, ReqT, TrackT
<1>10. step'.blocks = step.blocks /\ step.blocks[r] = <<>> BY <1>1 DEF Load, Shape, StepT, Sched
<1>11. track[r].on /\ r \notin received BY <1>1 DEF Closed, ClosedFor, Active, Linked, Received
<1>12. Loader(r)' BY <1>1, <1>9, <1>10, <1>11 DEF Loader
<1>13. \A q \in Requests : /\ track'[q].on <=> track[q].on
                           /\ track'[q].jobs = IF q = r THEN track[q].jobs \cup {id}
                                               ELSE track[q].jobs
                           /\ IsFinished(q)' <=> IsFinished(q)
                           /\ q # r => (Loader(q) => Loader(q)')
  BY <1>1, <1>7, <1>9, <1>10 DEF IsFinished, Loader
<1>14. \A q \in received' : q \in received /\ req'[q].status = req[q].status
  BY <1>1, <1>9, <1>11 DEF Shape
<1> QED BY <1>1, <1>4, <1>5, <1>6, <1>8, <1>11, <1>12, <1>13, <1>14, GrownLinked

LEMMA AddStoreLinked ==
    ASSUME Shape, Linked, NEW r \in Requests, NEW id \in NextIds, NEW moves \in SUBSET MoveT,
           AddStore(r, id, moves), track[r].on, track[r].blocks # <<>>,
           UNCHANGED <<window, req, received>>, step'.blocks = step.blocks
    PROVE  Linked'
<1>1. PICK at \in Places : transfers' = transfers \cup {Transfer(id, r, TRUE, at, moves)}
  BY DEF AddStore, Places
<1> DEFINE t == Transfer(id, r, TRUE, at, moves)
<1>2. /\ id \in 1..MaxJobs /\ \A j \in transfers : j.id # id BY IdsType
<1>3. /\ t \in JobT /\ t.known /\ t.store /\ t.req = r /\ t.id = id
      /\ BlocksOf(t) = {m.block : m \in moves}
  BY <1>2 DEF Transfer, JobT, BlocksOf
<1>4. transfers' = transfers \cup {t} BY <1>1
<1> HIDE DEF t
<1>5. \A j \in transfers : j.req = r => j.store BY DEF Linked, Loads, Loader
<1>6. \A q \in Requests : /\ track'[q].on = track[q].on /\ track'[q].blocks = track[q].blocks
                          /\ track'[q].jobs = IF q = r THEN track[q].jobs \cup {id}
                                              ELSE track[q].jobs
  BY DEF AddStore, Shape, TrackT
<1>7. \A q \in Requests : /\ IsFinished(q)' <=> IsFinished(q)
                          /\ Loader(q) => Loader(q)'
  BY <1>6 DEF IsFinished, Loader
<1>8. \A b \in Blocks : fences'[b] = IF b \in BlocksOf(t) /\ (window # 0 \/ IsFinished(r))
                                     THEN fences[b] \cup {id} ELSE fences[b]
  BY <1>3 DEF AddStore
<1>9. \A q \in received' : q \in received /\ req'[q].status = req[q].status
  OBVIOUS
<1> QED BY <1>2, <1>3, <1>4, <1>5, <1>6, <1>7, <1>8, <1>9, GrownLinked

LEMMA StoreLinked ==
    ASSUME Shape, Sched, Linked, NEW r \in Requests, Store(r) PROVE Linked'
<1> DEFINE ks  == KeysToStore(r)
           new == NewKeys(ks)
<1>1. UNCHANGED <<window, req, received>> /\ step'.blocks = step.blocks /\ track[r].on
  BY DEF Store, engine, Shape, StepT, Sched
<1>2. CASE /\ track' = track \/ track' = [track EXCEPT ![r].next = Most(@, Storable(r))]
           /\ UNCHANGED <<transfers, fences>>
  <2>1. \A q \in Requests : /\ track'[q].jobs = track[q].jobs /\ track'[q].on = track[q].on
                            /\ track'[q].blocks = track[q].blocks
    BY <1>2 DEF Shape, TrackT
  <2> QED BY <1>1, <1>2, <2>1, SameLinkFields, KeptLinked DEF Shape
<1>3. CASE /\ new # {}
           /\ \E evicted \in SUBSET Evictable(ks), slot \in [new -> Slots], id \in NextIds :
                 AddStore(r, id, StoreMoves(r, slot))
  <2>1. PICK slot \in [new -> Slots], id \in NextIds : AddStore(r, id, StoreMoves(r, slot))
    BY <1>3
  <2>2. StoreMoves(r, slot) \subseteq MoveT BY StoreTypes DEF MoveT, StoreMoves
  <2>3. track[r].blocks # <<>>
    <3>1. PICK k \in KeysToStore(r) : TRUE BY <1>3, StoreTypes
    <3>2. PICK c \in Chunks : c <= Storable(r) BY <3>1 DEF KeysToStore
    <3>3. c \in Nat /\ c >= 1 BY ChunksFinite DEF Chunks
    <3> QED BY <3>2, <3>3, StoreTypes
  <2> QED BY <1>1, <2>1, <2>2, <2>3, AddStoreLinked
<1> QED BY <1>2, <1>3 DEF Store

\* The worker moves the transfers on.
LEMMA SendMetaLinked == ASSUME Shape, Sched, Linked, SendMeta PROVE Linked'
<1> DEFINE at(j) == IF j.store /\ j.at = "built" THEN "deferred"
                    ELSE IF j.at \in {"deferred", "urgent"} THEN "queued" ELSE j.at
<1>1. transfers' = {[j EXCEPT !.at = at(j)] : j \in transfers} BY DEF SendMeta
<1> HIDE DEF at
<1>2. transfers' \subseteq JobT BY SendMetaShape DEF Shape
<1>3. \A j \in transfers : SameJob(j, [j EXCEPT !.at = at(j)]) BY DEF SameJob, Shape, JobT
<1>4. \A j \in transfers : \E l \in transfers' : SameJob(j, l) BY <1>1, <1>3
<1>5. \A l \in transfers' : \E j \in transfers : SameJob(j, l) /\ l = [j EXCEPT !.at = at(j)]
  BY <1>1, <1>3
<1>6. Unique'
  <2>1. ASSUME NEW l \in transfers', NEW m \in transfers', l.id = m.id PROVE l = m
    <3>1. PICK j \in transfers : SameJob(j, l) /\ l = [j EXCEPT !.at = at(j)] BY <1>5
    <3>2. PICK k \in transfers : SameJob(k, m) /\ m = [k EXCEPT !.at = at(k)] BY <1>5
    <3>3. j = k BY <2>1, <3>1, <3>2 DEF SameJob, Linked, Unique
    <3> QED BY <3>1, <3>2, <3>3
  <2> QED BY <2>1 DEF Unique
<1>7. UNCHANGED <<window, received, fences>> /\ step'.blocks = step.blocks
  BY DEF SendMeta, Shape, StepT
<1>8. \A q \in Requests : req'[q].status = req[q].status BY DEF SendMeta, Shape, ReqT
<1>9. ASSUME NEW q \in Requests PROVE SameLink(q)
  BY <1>7, <1>8 DEF SendMeta, Signal, NoTrack, Shape, TrackT, SameLink, Loader, IsFinished
<1> QED BY <1>2, <1>4, <1>5, <1>6, <1>7, <1>9, SameLinked DEF Shape

LEMMA CopyLinked == ASSUME Shape, Linked, NEW j \in transfers, Copy(j) PROVE Linked'
<1> DEFINE c == [j EXCEPT !.at = "done"]
<1>1. /\ UNCHANGED <<window, req, received, step, track, fences>>
      /\ transfers' = (transfers \ {j}) \cup {c}
  BY DEF Copy, engine
<1>2. SameJob(j, c) /\ \A l \in transfers : SameJob(l, l) BY DEF SameJob, Shape, JobT
<1> HIDE DEF c
<1>3. /\ \A l \in transfers : \E m \in transfers' : SameJob(l, m)
      /\ \A m \in transfers' : \E l \in transfers : SameJob(l, m)
  BY <1>1, <1>2
<1>4. Unique' BY <1>1, <1>2 DEF Linked, Unique, SameJob
<1>5. transfers' \subseteq JobT BY CopyShape DEF Shape
<1> QED BY <1>1, <1>3, <1>4, <1>5, SameLinkFields, SameLinked DEF Shape

LEMMA ForwardLinked == ASSUME Shape, Linked, Forward PROVE Linked'
<1> DEFINE at(j) == IF j.at = "built" THEN "queued" ELSE j.at
<1>1. transfers' = {[j EXCEPT !.at = at(j)] : j \in transfers} BY DEF Forward
<1> HIDE DEF at
<1>2. transfers' \subseteq JobT BY ForwardShape DEF Shape
<1>3. \A j \in transfers : SameJob(j, [j EXCEPT !.at = at(j)]) BY DEF SameJob, Shape, JobT
<1>4. \A j \in transfers : \E l \in transfers' : SameJob(j, l) BY <1>1, <1>3
<1>5. \A l \in transfers' : \E j \in transfers : SameJob(j, l) /\ l = [j EXCEPT !.at = at(j)]
  BY <1>1, <1>3
<1>6. Unique'
  <2>1. ASSUME NEW l \in transfers', NEW m \in transfers', l.id = m.id PROVE l = m
    <3>1. PICK j \in transfers : SameJob(j, l) /\ l = [j EXCEPT !.at = at(j)] BY <1>5
    <3>2. PICK k \in transfers : SameJob(k, m) /\ m = [k EXCEPT !.at = at(k)] BY <1>5
    <3>3. j = k BY <2>1, <3>1, <3>2 DEF SameJob, Linked, Unique
    <3> QED BY <3>1, <3>2, <3>3
  <2> QED BY <2>1 DEF Unique
<1>7. UNCHANGED <<window, req, received, track, fences>> /\ step'.blocks = step.blocks
  BY DEF Forward, engine, Shape, StepT
<1> QED BY <1>2, <1>4, <1>5, <1>6, <1>7, SameLinkFields, SameLinked DEF Shape

\* What is done is reported and forgotten.
LEMMA UpdateLinked ==
    ASSUME Shape, Sched, Linked, NEW stop \in SUBSET Requests, Update(stop) PROVE Linked'
<1> DEFINE done    == {j \in transfers : j.at = "done"}
           live    == KnownOf(done)
           over(r) == IsFinished(r) \/ r \in stop
           got(r)  == \E j \in done : ~j.store /\ j.req = r
           left(r) == track[r].jobs \ Ids(live)
<1>1. /\ transfers' = transfers \ done /\ window' = window
      /\ received' = received \cup {r \in Requests : req[r].status = "loading" /\ got(r)}
      /\ fences' = [b \in Blocks |->
             (fences[b] \cup Watched(stop, b))
                 \ Ids({j \in live : b \in BlocksOf(j) /\ (window # 0 \/ over(j.req))})]
      /\ track' = [r \in Requests |-> IF track[r].signaled /\ left(r) = {} THEN NoTrack
                                      ELSE [track[r] EXCEPT !.jobs = left(r)]]
  BY DEF Update
<1>2. \A r \in stop : req[r].status = "running"
  <2>1. stop \subseteq Sampled BY DEF Update
  <2>2. \A r \in Sampled : step.tokens[r] # 0 BY DEF Sampled, Shape, StepT
  <2> QED BY <2>1, <2>2 DEF Sampled, Sched
<1>3. /\ \A r \in Requests : req'[r].status = IF r \in stop THEN "stopped" ELSE req[r].status
      /\ step'.blocks = step.blocks
  <2>1. \A r \in Requests :
            req'[r].status = IF r \in stop THEN "stopped" ELSE req[r].status
    BY DEF Update, Shape, ReqT
  <2>2. step'.blocks = step.blocks BY DEF Update, Shape, StepT
  <2> QED BY <2>1, <2>2
<1>4. \A j \in transfers : j.req \in Requests /\ j.id \in 1..MaxJobs BY DEF Shape, JobT
<1>5. /\ done \subseteq transfers /\ live = {j \in done : j.known}
      /\ \A j \in transfers : j.id \in Ids(live) <=> j \in live
  BY DEF KnownOf, Ids, Linked, Unique
<1> HIDE DEF done, live, left, got, over
<1>6. Unique' BY <1>1 DEF Linked, Unique
<1>7. \A r \in Requests : /\ track'[r].jobs = left(r)
                          /\ track'[r].on \/ left(r) = {} \/ ~track[r].on
                          /\ track[r].blocks = <<>> => track'[r].blocks = <<>>
  <2>1. ASSUME NEW r \in Requests, track[r].signaled, left(r) = {}
        PROVE  track'[r].jobs = {} /\ track'[r].blocks = <<>>
    BY <1>1, <2>1 DEF NoTrack
  <2>2. ASSUME NEW r \in Requests, ~(track[r].signaled /\ left(r) = {})
        PROVE  /\ track'[r].jobs = left(r) /\ track'[r].on = track[r].on
               /\ track'[r].blocks = track[r].blocks
    BY <1>1, <2>2 DEF Shape, TrackT
  <2> QED BY <2>1, <2>2
<1>8. JobsFor'
  <2>1. ASSUME NEW r \in Requests, NEW i \in 1..MaxJobs
        PROVE  i \in track'[r].jobs <=> \E j \in transfers' : j.known /\ j.req = r /\ j.id = i
    <3>1. i \in track'[r].jobs <=> i \in track[r].jobs /\ i \notin Ids(live) BY <1>7 DEF left
    <3>2. i \in track[r].jobs <=> \E j \in transfers : j.known /\ j.req = r /\ j.id = i
      BY DEF Linked, JobsFor
    <3>3. \A j \in transfers : j.known => (j \in transfers' <=> j.id \notin Ids(live))
      BY <1>1, <1>5
    <3>4. transfers' \subseteq transfers BY <1>1
    <3> QED BY <3>1, <3>2, <3>3, <3>4
  <2>2. ASSUME NEW j \in transfers', j.known PROVE track'[j.req].on
    BY <1>1, <1>4, <1>5, <1>7, <2>2 DEF left, Linked, JobsFor
  <2> QED BY <2>1, <2>2 DEF JobsFor
<1>9. Loads'
  <2>1. ASSUME NEW j \in transfers', ~j.store PROVE Loader(j.req)'
    <3>1. j \in transfers /\ j \notin done /\ Loader(j.req) BY <1>1, <2>1 DEF Linked, Loads
    <3>2. ~got(j.req) BY <1>5, <2>1, <3>1 DEF Linked, Loads, got
    <3> QED BY <1>1, <1>2, <1>3, <1>4, <1>7, <3>1, <3>2 DEF Loader
  <2> QED BY <1>1, <2>1 DEF Linked, Loads
<1>10. FencesFor'
  <2>1. \A j \in transfers, b \in Blocks :
            Fencing(j, b)' <=> /\ j.known /\ j.store /\ b \in BlocksOf(j)
                               /\ window # 0 \/ over(j.req)
    BY <1>1, <1>3, <1>4 DEF Fencing, BlocksOf, IsFinished, over
  <2>2. \A b \in Blocks, i \in 1..MaxJobs :
            i \in Watched(stop, b) <=>
                /\ window = 0
                /\ \E j \in transfers : /\ j.known /\ j.store /\ j.req \in stop
                                        /\ b \in BlocksOf(j) /\ j.id = i
    BY DEF Watched, Ids, Known, KnownOf
  <2>3. ASSUME NEW b \in Blocks, NEW i \in 1..MaxJobs
        PROVE  i \in fences'[b] <=> \E j \in transfers' : Fencing(j, b)' /\ j.id = i
    <3> DEFINE ended == {j \in live : b \in BlocksOf(j) /\ (window # 0 \/ over(j.req))}
    <3>1. i \in fences'[b] <=> /\ i \in fences[b] \/ i \in Watched(stop, b)
                               /\ i \notin Ids(ended)
      BY <1>1
    <3>2. i \in fences[b] <=> \E j \in transfers : Fencing(j, b) /\ j.id = i
      BY DEF Linked, FencesFor
    <3>3. i \in fences[b] \/ i \in Watched(stop, b)
             <=> \E j \in transfers : Fencing(j, b)' /\ j.id = i
      BY <1>4, <2>1, <2>2, <3>2 DEF Fencing, over
    <3>4. ASSUME NEW j \in transfers, Fencing(j, b)', j.id = i
          PROVE  i \in Ids(ended) <=> j \notin transfers'
      BY <1>1, <1>5, <2>1, <3>4 DEF Ids, Linked, Unique
    <3> HIDE DEF ended
    <3>5. transfers' \subseteq transfers BY <1>1
    <3> QED BY <3>1, <3>3, <3>4, <3>5
  <2> QED BY <2>3 DEF FencesFor
<1>11. Received' BY <1>1, <1>2, <1>3 DEF Linked, Received, Shape
<1> QED BY <1>6, <1>8, <1>9, <1>10, <1>11 DEF Linked

LEMMA LinkedStep == ASSUME Shape, Short, Sched, Closed, Linked, [Next]_vars PROVE Linked'
<1>1. CASE Step
  BY <1>1, BeginLinked, EndScheduleLinked, SendMetaLinked, ForwardLinked, ScheduleRunningLinked,
     LoadingLinked, DelayLinked, AdmitLinked, LoadLinked, StoreLinked, UpdateLinked DEF Step
<1>2. CASE CopyNext BY <1>2, CopyLinked DEF CopyNext
<1>3. CASE \E r \in Requests : Abort(r) \/ \E p \in Prompts : Arrive(r, p)
  BY <1>3, AbortLinked, ArriveLinked
<1>4. CASE \E force \in BOOLEAN : Reset(force) BY <1>4, ResetLinked
<1>5. CASE UNCHANGED vars BY <1>5, SameLinkFields, KeptLinked DEF vars, engine, connector, Shape
<1> QED BY <1>1, <1>2, <1>3, <1>4, <1>5 DEF Next

-------------------------------------------------------------------------------
\* What a lookup answers.
LEMMA DivBounds ==
    ASSUME NEW a \in Int, NEW c \in Int
    PROVE  /\ CDiv(a, ChunkTokens) <= c <=> a <= ChunkTokens * c
           /\ c <= a \div ChunkTokens <=> ChunkTokens * c <= a
<1> DEFINE T == ChunkTokens
<1>1. T \in Int /\ T > 0 BY OffloadAssumption
<1> HIDE DEF T
<1>2. ASSUME NEW b \in Int PROVE c <= b \div T <=> T * c <= b
  <2> DEFINE q == b \div T
  <2>1. q \in Int /\ T * q <= b /\ b < T * q + T BY <1>1
  <2> HIDE DEF q
  <2>2. ASSUME c <= q PROVE T * c <= b BY <1>1, <2>1, <2>2
  <2>3. ASSUME T * c <= b, q < c PROVE FALSE BY <1>1, <2>1, <2>3
  <2>4. c <= q <=> T * c <= b BY <2>1, <2>2, <2>3
  <2> QED BY <2>4 DEF q
<1>3. c + 1 <= (a + T - 1) \div T <=> T * (c + 1) <= a + T - 1
  <2> DEFINE q == (a + T - 1) \div T
  <2>1. q \in Int /\ T * q <= a + T - 1 /\ a + T - 1 < T * q + T BY <1>1
  <2> HIDE DEF q
  <2>2. ASSUME c + 1 <= q PROVE T * (c + 1) <= a + T - 1 BY <1>1, <2>1, <2>2
  <2>3. ASSUME T * (c + 1) <= a + T - 1, q < c + 1 PROVE FALSE BY <1>1, <2>1, <2>3
  <2>4. c + 1 <= q <=> T * (c + 1) <= a + T - 1 BY <2>1, <2>2, <2>3
  <2> QED BY <2>4 DEF q
<1>4. T * (c + 1) <= a + T - 1 <=> T * c < a BY <1>1
<1>5. (a + T - 1) \div T \in Int /\ T * c \in Int BY <1>1
<1>6. CDiv(a, T) <= c <=> a <= T * c BY <1>1, <1>3, <1>4, <1>5 DEF CDiv
<1> QED BY <1>2, <1>6 DEF T

LEMMA Downward ==
    ASSUME NEW N \in Int, NEW S \in SUBSET (1..N), \A i \in S : \A j \in 1..i : j \in S
    PROVE  S = 1..Cardinality(S)
<1> DEFINE c == Cardinality(S)
<1>1. IsFiniteSet(1..N) /\ \A i \in Int : IsFiniteSet(1..i) /\ (i >= 0 => Cardinality(1..i) = i)
  BY FS_Interval
<1>2. IsFiniteSet(S) /\ c \in Nat BY <1>1, FS_Subset, FS_CardinalityType
<1>3. ASSUME NEW i \in 1..c, i \notin S PROVE FALSE
  <2>1. S \subseteq 1..(i - 1) /\ i - 1 \in Int /\ i - 1 >= 0 BY <1>2, <1>3
  <2>2. IsFiniteSet(1..(i - 1)) BY <1>1, <2>1
  <2>3. Cardinality(S) <= Cardinality(1..(i - 1)) BY <2>1, <2>2, FS_Subset
  <2>4. Cardinality(1..(i - 1)) = i - 1 BY <1>1, <2>1
  <2> QED BY <1>2, <1>3, <2>1, <2>3, <2>4
<1>4. ASSUME NEW i \in S, i \notin 1..c PROVE FALSE
  <2>1. 1..i \subseteq S /\ i \in Int /\ i >= 1 BY <1>4
  <2>2. Cardinality(1..i) <= c BY <1>2, <2>1, FS_Subset
  <2>3. Cardinality(1..i) = i BY <1>1, <2>1
  <2> QED BY <1>2, <1>4, <2>1, <2>2, <2>3
<1>5. S \subseteq 1..c /\ 1..c \subseteq S BY <1>3, <1>4
<1> QED BY <1>5

\* What a lookup offers is there and readable: a load reads no chunk that is being written.
LEMMA LookupOffers ==
    ASSUME Shape, NEW r \in Requests, Hit(r) > 0,
           NEW i \in Skipped(Hit(r)) + 1..CDiv(Hit(r), ChunkTokens)
    PROVE  Present(KeyOf(r, i)) /\ host[KeyOf(r, i)].ready
<1> DEFINE T == ChunkTokens
           n == req[r].tokens
           limit  == IF window = 0 THEN n ELSE n - 1
           chunks == n \div T
           most   == Least(limit, chunks * T)
           asked  == {c \in Chunks : c <= chunks /\ (c - 1) * T < most}
           size   == CDiv(window, T)
           here(c) == Present(KeyOf(r, c))
           prefix == {c \in asked : \A j \in 1..c : here(j)}
           whole  == {c \in asked : c >= size /\ \A j \in c - size + 1..c : here(j)}
           upTo   == {c \in asked : \E j \in whole : c <= j}
           hits   == IF window = 0 \/ whole = {} THEN prefix ELSE upTo
           seen   == IF window = 0 THEN prefix ELSE {c \in asked : \A j \in whole : c > j - size}
           last   == Cardinality(hits)
           h      == Least(most, T * last)
           used   == {c \in hits : window = 0 \/ c > last - size}
           N      == CDiv(MaxTokens, T)
<1>1. /\ T \in Int /\ T > 0 /\ n \in Int /\ window \in Nat /\ MaxTokens \in Int
  BY OffloadAssumption DEF Shape, ReqT
<1>2. chunks \in Int /\ limit \in Int /\ most \in Int /\ size \in Int /\ N \in Int
  BY <1>1, DivType, OffloadAssumption DEF Least
<1>3. Hit(r) = h /\ \A c \in seen : here(c) => host[KeyOf(r, c)].ready
  <2>1. Hit(r) = Lookup(r) /\ Lookup(r) > 0 BY DEF Hit, Wait
  <2>2. Lookup(r) = IF most < T THEN 0
                    ELSE IF \E c \in seen : here(c) /\ ~host[KeyOf(r, c)].ready THEN Wait
                    ELSE IF h < T THEN 0
                    ELSE IF \E c \in used : KeyOf(r, c) \in loading THEN Wait
                    ELSE h
    BY DEF Lookup
  <2> HIDE DEF most, seen, here, h, used
  <2> QED BY <2>1, <2>2 DEF Wait
<1>4. Chunks = 1..N BY DEF Chunks
<1> HIDE DEF n, limit, chunks, size, here, N
<1>5. \A c \in asked : \A j \in 1..c : j \in asked
  <2> SUFFICES ASSUME NEW c \in asked, NEW j \in 1..c PROVE j \in asked
    OBVIOUS
  <2>1. c \in Int /\ c >= 1 /\ c <= N /\ c <= chunks /\ (c - 1) * T < most BY <1>2, <1>4
  <2>2. j \in Chunks /\ j <= chunks BY <1>2, <1>4, <2>1
  <2>3. (j - 1) * T <= (c - 1) * T BY <1>1, <2>1
  <2>4. (j - 1) * T < most
    <3>1. (j - 1) * T \in Int /\ (c - 1) * T \in Int BY <1>1, <2>1
    <3> HIDE DEF most
    <3> QED BY <1>2, <2>1, <2>3, <3>1
  <2> QED BY <2>2, <2>4
<1>6. asked \subseteq 1..N /\ asked \subseteq Int BY <1>2, <1>4
<1>7. \A c \in asked : c >= 1 /\ c <= chunks BY <1>4
<1> HIDE DEF most, asked
<1>8. hits \in SUBSET (1..N) /\ hits \subseteq asked /\ \A c \in hits : \A j \in 1..c : j \in hits
  <2>1. ASSUME NEW c \in prefix, NEW j \in 1..c PROVE j \in prefix BY <1>5, <1>6, <2>1
  <2>2. ASSUME NEW c \in upTo, NEW j \in 1..c PROVE j \in upTo
    <3>1. j \in asked /\ c \in Int /\ j <= c BY <1>5, <1>6, <2>2
    <3>2. PICK w \in whole : c <= w BY <2>2
    <3>3. w \in Int BY <1>6, <3>2
    <3> QED BY <3>1, <3>2, <3>3
  <2> HIDE DEF prefix, upTo, whole
  <2>3. prefix \subseteq asked /\ upTo \subseteq asked BY DEF prefix, upTo
  <2> QED BY <1>6, <2>1, <2>2, <2>3
<1>9. hits = 1..last /\ last \in Nat
  <2>1. hits = 1..Cardinality(hits)
    <3> HIDE DEF hits
    <3> QED BY <1>2, <1>8, Downward
  <2>2. Cardinality(hits) \in Nat
    <3> HIDE DEF hits
    <3> QED BY <1>4, <1>8, ChunksFinite
  <2> QED BY <2>1, <2>2
<1> HIDE DEF last
<1>10. h \in Int /\ h <= T * last /\ T * last \in Int /\ (h = T * last \/ h = most)
  BY <1>1, <1>2, <1>9 DEF Least
<1>11. Skipped(h) \in Nat /\ CDiv(h, T) \in Int /\ CDiv(h, T) <= last
  BY <1>9, <1>10, SkippedType, DivType, DivBounds
<1> HIDE DEF h
<1>12. i \in Int /\ i > Skipped(h) /\ i <= CDiv(h, T) /\ i >= 1 BY <1>3, <1>11
<1>13. i \in hits /\ i \in asked
  <2> HIDE DEF hits
  <2>1. i \in 1..last BY <1>9, <1>11, <1>12
  <2> QED BY <1>8, <1>9, <2>1
<1>14. CASE window = 0 \/ whole = {} BY <1>3, <1>12, <1>13, <1>14 DEF here
<1>15. CASE window # 0 /\ whole # {}
  <2>1. hits = upTo BY <1>15
  <2>2. \A j \in whole : j \in Int /\ 1 <= j /\ j <= last
    <3> SUFFICES ASSUME NEW j \in whole PROVE j \in Int /\ 1 <= j /\ j <= last
      OBVIOUS
    <3>1. j \in asked /\ j \in Int BY <1>6
    <3>2. j \in upTo BY <3>1
    <3>3. j \in 1..last
      <4> HIDE DEF hits, upTo
      <4> QED BY <1>9, <2>1, <3>2
    <3> QED BY <1>9, <3>1, <3>3
  <2>3. last \in whole
    <3>1. last \in upTo BY <1>9, <1>11, <1>12, <2>1
    <3>2. PICK j \in whole : last <= j BY <3>1
    <3> QED BY <1>9, <2>2, <3>2
  <2>4. last >= size /\ \A j \in last - size + 1..last : here(j) BY <2>3
  <2> HIDE DEF whole
  <2>5. last - size <= Skipped(h)
    <3>1. T * (last - size) <= h - window + 1
      <4>1. window <= T * size BY <1>1, <1>2, DivBounds DEF size
      <4>2. T * last - 1 <= h
        <5>1. CASE h = T * last BY <1>10, <5>1
        <5>2. CASE h = most
          <6>1. last \in asked /\ last <= chunks BY <1>7, <2>3 DEF whole
          <6>2. T * last <= n BY <1>1, <1>2, <1>9, <6>1, DivBounds DEF chunks
          <6>3. T * last <= chunks * T BY <1>1, <1>2, <1>9, <6>1
          <6>4. chunks * T \in Int BY <1>1, <1>2
          <6>5. most >= T * last - 1
            BY <1>1, <1>2, <1>10, <6>2, <6>3, <6>4 DEF most, limit, Least
          <6> QED BY <5>2, <6>5
        <5> QED BY <1>10, <5>1, <5>2
      <4>3. T * (last - size) = T * last - T * size /\ T * size \in Int BY <1>1, <1>2, <1>9
      <4> QED BY <1>1, <1>10, <4>1, <4>2, <4>3
    <3>2. CASE last - size <= 0 BY <1>2, <1>9, <1>11, <3>2
    <3>3. CASE last - size > 0
      BY <1>1, <1>2, <1>9, <1>10, <1>15, <3>1, <3>3, DivBounds DEF Most, Skipped
    <3> QED BY <1>2, <1>9, <3>2, <3>3
  <2>6. i > last - size /\ i <= last BY <1>2, <1>9, <1>11, <1>12, <2>5
  <2>7. here(i) BY <1>2, <1>9, <1>12, <2>4, <2>6
  <2>8. i \in seen BY <1>2, <1>9, <1>12, <1>13, <1>15, <2>2, <2>6
  <2> QED BY <1>3, <2>7, <2>8 DEF here
<1> QED BY <1>14, <1>15

-------------------------------------------------------------------------------
\* The host tier and the transfers that the scheduler knows: a key has a reader for each
\* load of it, an entry without a slot is absent, no two share one, a transfer names the slots
\* of its keys, which are readable just if it is a load, and no chunk is stored twice.
Readers(k) == Ids({j \in transfers : j.known /\ ~j.store /\ k \in KeysOf(j)})
ReadersCounted == \A k \in Keys : host[k].readers = Cardinality(Readers(k))
SlotsOwned ==
    /\ \A k \in Keys : host[k].slot = Null => host[k] = Absent
    /\ \A k, l \in Keys : host[k].slot = host[l].slot => k = l \/ host[k].slot = Null
Naming(j) == \A m \in j.moves :
    /\ m.slot # Null
    /\ j.known => host[m.key].slot = m.slot /\ (host[m.key].ready <=> ~j.store)
MovesNamed == \A j \in transfers : Naming(j)
StoredOnce == \A j, l \in transfers :
    /\ j.known /\ l.known /\ j.store /\ l.store
    /\ \E m \in j.moves, n \in l.moves : m.key = n.key
    => j = l
Pinned == ReadersCounted /\ SlotsOwned /\ MovesNamed /\ StoredOnce

LEMMA ReadersType ==
    ASSUME Shape, NEW k \in Keys
    PROVE  /\ Readers(k) \subseteq 1..MaxJobs
           /\ \A S \in SUBSET (1..MaxJobs) : IsFiniteSet(S) /\ Cardinality(S) \in Nat
           /\ Cardinality({}) = 0
<1>1. Readers(k) \subseteq 1..MaxJobs BY DEF Shape, JobT, Readers, Ids
<1>2. IsFiniteSet(1..MaxJobs) BY OffloadAssumption, FS_Interval
<1> QED BY <1>1, <1>2, FS_Subset, FS_CardinalityType, FS_EmptySet

LEMMA MoveTypes ==
    ASSUME Shape, NEW j \in transfers, NEW m \in j.moves
    PROVE  m \in MoveT /\ m.key \in Keys /\ m.block \in Blocks /\ m.slot \in Slots \cup {Null}
BY DEF Shape, JobT, MoveT

LEMMA HostFields ==
    ASSUME NEW h \in HostT
    PROVE  h = Absent <=> h.slot = Null /\ h.ready = FALSE /\ h.readers = 0
BY DEF HostT, Absent

\* Transfers are at most moved on.
LEMMA PinnedKept ==
    ASSUME Shape, Pinned, host' = host, Unique',
           \A j \in transfers : \E l \in transfers' : SameJob(j, l),
           \A l \in transfers' : \E j \in transfers : SameJob(j, l)
    PROVE  Pinned'
<1>1. \A k \in Keys : Readers(k)' = Readers(k) BY DEF Readers, Ids, KeysOf, SameJob
<1>2. ReadersCounted' /\ SlotsOwned' BY <1>1 DEF Pinned, ReadersCounted, SlotsOwned
<1>3. MovesNamed' BY DEF Pinned, MovesNamed, Naming, SameJob
<1>4. StoredOnce'
  <2> SUFFICES ASSUME NEW j \in transfers', NEW l \in transfers',
                      j.known, l.known, j.store, l.store,
                      NEW m \in j.moves, NEW n \in l.moves, m.key = n.key
               PROVE  j = l
    BY DEF StoredOnce
  <2>1. PICK i \in transfers : SameJob(i, j)
    OBVIOUS
  <2>2. PICK k \in transfers : SameJob(k, l)
    OBVIOUS
  <2>3. i = k BY <2>1, <2>2 DEF SameJob, Pinned, StoredOnce
  <2> QED BY <2>1, <2>2, <2>3 DEF SameJob, Unique
<1> QED BY <1>2, <1>3, <1>4 DEF Pinned

LEMMA PinnedSame ==
    ASSUME Shape, Linked, Pinned, host' = host, transfers' = transfers PROVE Pinned'
BY PinnedKept DEF SameJob, Linked, Unique

LEMMA LoadPinned ==
    ASSUME Shape, Short, Pinned, NEW r \in Requests, Load(r) PROVE Pinned'
<1>1. Hit(r) > 0 BY DEF Load
<1>2. PICK new \in Picks(LoadBlocks(Hit(r)), Free), id \in NextIds :
          LET load == Transfer(id, r, FALSE, "built", LoadMoves(r, Hit(r), new))
          IN  /\ transfers' = transfers \cup {load}
              /\ host' = [k \in Keys |-> [host[k] EXCEPT
                             !.readers = @ + (IF k \in KeysOf(load) THEN 1 ELSE 0)]]
  BY DEF Load
<1> DEFINE moves == LoadMoves(r, Hit(r), new)
<1>3. id \in 1..MaxJobs /\ \A j \in transfers : j.id # id BY IdsType
<1>4. moves \subseteq MoveT BY <1>1, LoadTypes DEF Short
<1>5. ASSUME NEW m \in moves
      PROVE  Present(m.key) /\ host[m.key].ready /\ m.slot = host[m.key].slot
  <2>1. PICK i \in Skipped(Hit(r)) + 1..CDiv(Hit(r), ChunkTokens) :
            m = [key |-> KeyOf(r, i), slot |-> host[KeyOf(r, i)].slot,
                 block |-> new[i - Skipped(Hit(r))]]
    BY <1>5 DEF LoadMoves
  <2>2. Present(KeyOf(r, i)) /\ host[KeyOf(r, i)].ready BY <1>1, LookupOffers
  <2> QED BY <2>1, <2>2
<1> HIDE DEF moves
<1>6. PICK t : t = Transfer(id, r, FALSE, "built", moves)
  OBVIOUS
<1>7. t.id = id /\ t.known /\ ~t.store /\ t.moves = moves BY <1>6 DEF Transfer
<1> DEFINE d(k) == IF k \in KeysOf(t) THEN 1 ELSE 0
<1>8. transfers' = transfers \cup {t} BY <1>6, <1>2 DEF moves
<1>9. host' = [k \in Keys |-> [host[k] EXCEPT !.readers = @ + d(k)]] BY <1>6, <1>2 DEF moves
<1>10. ASSUME NEW k \in Keys
      PROVE  /\ host'[k].slot = host[k].slot /\ host'[k].ready = host[k].ready
             /\ host'[k].readers = host[k].readers + d(k)
             /\ host[k] \in HostT /\ host'[k] \in HostT
  <2>1. host[k] \in HostT BY DEF Shape
  <2>2. d(k) \in Int
    OBVIOUS
  <2>3. host'[k] = [host[k] EXCEPT !.readers = @ + d(k)] BY <1>9
  <2> HIDE DEF d
  <2> QED BY <2>1, <2>2, <2>3 DEF HostT
<1>11. ReadersCounted'
  <2> SUFFICES ASSUME NEW k \in Keys PROVE host'[k].readers = Cardinality(Readers(k)')
    BY DEF ReadersCounted
  <2>1. host[k].readers = Cardinality(Readers(k)) BY DEF Pinned, ReadersCounted
  <2>2. IsFiniteSet(Readers(k)) /\ id \notin Readers(k) BY <1>3, ReadersType DEF Readers, Ids
  <2>3. CASE k \in KeysOf(t)
    <3>1. Readers(k)' = Readers(k) \cup {id} BY <1>7, <1>8, <2>3 DEF Readers, Ids
    <3>2. Cardinality(Readers(k) \cup {id}) = Cardinality(Readers(k)) + 1 BY <2>2, FS_AddElement
    <3> QED BY <1>10, <2>1, <2>3, <3>1, <3>2
  <2>4. CASE k \notin KeysOf(t)
    <3>1. Readers(k)' = Readers(k) BY <1>7, <1>8, <2>4 DEF Readers, Ids
    <3>2. host[k].readers \in Int BY <1>10 DEF HostT
    <3> QED BY <1>10, <2>1, <2>4, <3>1, <3>2
  <2> QED BY <2>3, <2>4
<1>12. SlotsOwned'
  <2>1. ASSUME NEW k \in Keys, host'[k].slot = Null PROVE host'[k] = Absent
    <3>1. host[k] = Absent BY <1>10, <2>1 DEF Pinned, SlotsOwned
    <3>2. k \notin KeysOf(t) BY <1>5, <1>7, <3>1 DEF KeysOf, Present
    <3>3. host[k].slot = Null /\ host[k].ready = FALSE /\ host[k].readers = 0 BY <3>1 DEF Absent
    <3>4. host'[k].slot = Null /\ host'[k].ready = FALSE /\ host'[k].readers = 0
      BY <1>10, <3>2, <3>3
    <3> QED BY <1>10, <3>4, HostFields
  <2>2. \A k, l \in Keys : host'[k].slot = host'[l].slot => k = l \/ host'[k].slot = Null
    BY <1>10 DEF Pinned, SlotsOwned
  <2> QED BY <2>1, <2>2 DEF SlotsOwned
<1>13. MovesNamed'
  <2>1. ASSUME NEW j \in transfers PROVE Naming(j)'
    BY <1>10, MoveTypes DEF Pinned, MovesNamed, Naming
  <2>2. Naming(t)'
    <3> SUFFICES ASSUME NEW m \in t.moves
                 PROVE  /\ m.slot # Null
                        /\ host'[m.key].slot = m.slot /\ (host'[m.key].ready <=> ~t.store)
      BY DEF Naming
    <3>1. m \in moves /\ m.key \in Keys BY <1>4, <1>7 DEF MoveT
    <3>2. m.slot # Null BY <1>5, <3>1 DEF Pinned, SlotsOwned, Present
    <3>3. host'[m.key].ready /\ host'[m.key].slot = m.slot BY <1>5, <1>10, <3>1
    <3> QED BY <1>7, <3>2, <3>3
  <2> QED BY <1>8, <2>1, <2>2 DEF MovesNamed
<1>14. StoredOnce' BY <1>7, <1>8 DEF Pinned, StoredOnce
<1> QED BY <1>11, <1>12, <1>13, <1>14 DEF Pinned

\* New chunks get slots that no other chunk has and no transfer of the scheduler names.
LEMMA NewSlots ==
    ASSUME Shape, NEW r \in Requests, NEW evicted \in SUBSET Evictable(KeysToStore(r)),
           NEW slot \in [NewKeys(KeysToStore(r)) -> Slots],
           PrepareStore(KeysToStore(r), evicted, slot)
    PROVE  /\ \A k \in NewKeys(KeysToStore(r)) :
                 /\ k \in Keys /\ slot[k] # Null /\ host[k] = Absent
                 /\ slot[k] \in FreeSlots \cup {host[q].slot : q \in evicted}
           /\ \A k, l \in NewKeys(KeysToStore(r)) : slot[k] = slot[l] => k = l
<1>1. /\ slot \in [NewKeys(KeysToStore(r)) -> FreeSlots \cup {host[k].slot : k \in evicted}]
      /\ \A k, l \in NewKeys(KeysToStore(r)) : k[2] < l[2] => slot[k] < slot[l]
  BY DEF PrepareStore
<1>2. \A k \in NewKeys(KeysToStore(r)) : slot[k] \in Slots
  OBVIOUS
<1>3. \A s \in Slots : s \in Int /\ s # Null BY OffloadAssumption
<1>4. ASSUME NEW k \in NewKeys(KeysToStore(r)), NEW l \in NewKeys(KeysToStore(r)),
             slot[k] = slot[l]
      PROVE  k = l
  <2>1. k \in KeysToStore(r) /\ l \in KeysToStore(r) BY StoreTypes
  <2>2. k[2] \in Chunks /\ l[2] \in Chunks /\ k = KeyOf(r, k[2]) /\ l = KeyOf(r, l[2])
    BY <2>1, StoreTypes
  <2>3. k[2] \in Int /\ l[2] \in Int
    <3>1. \A c \in Chunks : c \in Int BY ChunksFinite
    <3> QED BY <2>2, <3>1
  <2>4. ~(slot[k] < slot[l]) /\ ~(slot[l] < slot[k])
    <3>1. slot[k] \in Int BY <1>2, <1>3
    <3> QED BY <1>4, <3>1
  <2>5. ~(k[2] < l[2]) /\ ~(l[2] < k[2]) BY <1>1, <2>4
  <2>6. k[2] = l[2] BY <2>3, <2>5
  <2> QED BY <2>2, <2>6
<1>5. NewKeys(KeysToStore(r)) \subseteq Keys BY StoreTypes
<1>6. \A k \in NewKeys(KeysToStore(r)) : host[k] = Absent BY DEF NewKeys, Present
<1>7. \A k \in NewKeys(KeysToStore(r)) : slot[k] \in FreeSlots \cup {host[q].slot : q \in evicted}
  BY <1>1
<1> QED BY <1>2, <1>3, <1>4, <1>5, <1>6, <1>7

LEMMA PrepareStorePinned ==
    ASSUME Shape, Pinned, NEW r \in Requests, NEW evicted \in SUBSET Evictable(KeysToStore(r)),
           NEW slot \in [NewKeys(KeysToStore(r)) -> Slots],
           PrepareStore(KeysToStore(r), evicted, slot)
    PROVE  /\ \A k \in NewKeys(KeysToStore(r)) :
                 /\ k \in Keys /\ slot[k] # Null /\ host'[k].slot = slot[k]
                 /\ ~host'[k].ready /\ host'[k].readers = 0
           /\ \A k \in evicted : k \in Keys /\ host'[k] = Absent
           /\ \A k \in Keys : k \notin NewKeys(KeysToStore(r)) \cup evicted => host'[k] = host[k]
           /\ \A k \in NewKeys(KeysToStore(r)) \cup evicted : Readers(k) = {}
           /\ \A j \in transfers : j.known =>
                 \A m \in j.moves : m.key \notin NewKeys(KeysToStore(r)) \cup evicted
           /\ SlotsOwned'
<1>1. PICK new : new = NewKeys(KeysToStore(r))
  OBVIOUS
<1>2. host' = [k \in Keys |->
                     IF k \in new THEN [slot |-> slot[k], ready |-> FALSE, readers |-> 0]
                     ELSE IF k \in evicted THEN Absent ELSE host[k]]
  BY <1>1 DEF PrepareStore
<1>3. /\ \A k \in new : /\ k \in Keys /\ slot[k] # Null /\ host[k] = Absent
                        /\ slot[k] \in FreeSlots \cup {host[q].slot : q \in evicted}
      /\ \A k, l \in new : slot[k] = slot[l] => k = l
  BY <1>1, NewSlots
<1>4. \A k \in evicted : k \in Keys /\ Present(k) /\ host[k].ready /\ host[k].readers = 0
  BY DEF Evictable
<1>5. Absent.slot = Null /\ Absent.ready = FALSE /\ Absent.readers = 0 BY DEF Absent
<1>6. \A k \in evicted : k \notin new BY <1>3, <1>4 DEF Present
<1>7. ASSUME NEW k \in new
      PROVE  host'[k].slot = slot[k] /\ ~host'[k].ready /\ host'[k].readers = 0
  BY <1>2, <1>3
<1>8. \A k \in evicted : k \in Keys /\ host'[k] = Absent BY <1>2, <1>4, <1>6
<1>9. \A k \in Keys : k \notin new \cup evicted => host'[k] = host[k] BY <1>2
<1>10. ASSUME NEW k \in new \cup evicted PROVE Readers(k) = {}
  BY <1>3, <1>4, <1>5, ReadersType, FS_EmptySet DEF Pinned, ReadersCounted
<1>11. ASSUME NEW j \in transfers, j.known, NEW m \in j.moves PROVE m.key \notin new \cup evicted
  <2>1. m.slot # Null /\ host[m.key].slot = m.slot /\ (host[m.key].ready <=> ~j.store)
    BY <1>11 DEF Pinned, MovesNamed, Naming
  <2>2. m.key \notin new BY <1>3, <1>5, <2>1
  <2>3. ASSUME m.key \in evicted PROVE FALSE
    BY <1>4, <1>10, <1>11, <2>1, <2>3 DEF Readers, Ids, KeysOf
  <2> QED BY <2>2, <2>3
<1>12. SlotsOwned'
  <2>1. ASSUME NEW k \in Keys, host'[k].slot = Null PROVE host'[k] = Absent
    <3>1. k \notin new BY <1>3, <1>7, <2>1
    <3> QED BY <1>8, <1>9, <2>1, <3>1 DEF Pinned, SlotsOwned
  <2>2. ASSUME NEW k \in Keys, NEW l \in Keys, k \in new, l \notin new,
               host'[k].slot = host'[l].slot
        PROVE  FALSE
    <3>1. host'[k].slot = slot[k] /\ slot[k] # Null BY <1>3, <1>7, <2>2
    <3>2. l \notin evicted /\ host'[l] = host[l] /\ slot[k] = host[l].slot
      BY <1>5, <1>8, <1>9, <2>2, <3>1
    <3>3. slot[k] \in {host[q].slot : q \in evicted} BY <1>3, <2>2, <3>2 DEF FreeSlots
    <3>4. PICK q \in evicted : slot[k] = host[q].slot BY <3>3
    <3>5. q = l BY <1>4, <2>2, <3>1, <3>2, <3>4 DEF Pinned, SlotsOwned
    <3> QED BY <3>2, <3>5
  <2>3. ASSUME NEW k \in Keys, NEW l \in Keys, host'[k].slot = host'[l].slot, k # l
        PROVE  host'[k].slot = Null
    BY <1>3, <1>5, <1>7, <1>8, <1>9, <2>2, <2>3 DEF Pinned, SlotsOwned
  <2> QED BY <2>1, <2>3 DEF SlotsOwned
<1>13. \A k \in new : k \in Keys /\ slot[k] # Null BY <1>3
<1> QED BY <1>1, <1>7, <1>8, <1>9, <1>10, <1>11, <1>12, <1>13

LEMMA AddStorePinned ==
    ASSUME Shape, Pinned, NEW r \in Requests, NEW evicted \in SUBSET Evictable(KeysToStore(r)),
           NEW slot \in [NewKeys(KeysToStore(r)) -> Slots], NEW id \in NextIds,
           PrepareStore(KeysToStore(r), evicted, slot), AddStore(r, id, StoreMoves(r, slot))
    PROVE  Pinned'
<1>1. PICK new, moves : new = NewKeys(KeysToStore(r)) /\ moves = StoreMoves(r, slot)
  OBVIOUS
<1>2. /\ \A k \in new : /\ k \in Keys /\ slot[k] # Null /\ host'[k].slot = slot[k]
                        /\ ~host'[k].ready /\ host'[k].readers = 0
      /\ \A k \in evicted : k \in Keys /\ host'[k] = Absent
      /\ \A k \in Keys : k \notin new \cup evicted => host'[k] = host[k]
      /\ \A k \in new \cup evicted : Readers(k) = {}
      /\ \A j \in transfers : j.known => \A m \in j.moves : m.key \notin new \cup evicted
      /\ SlotsOwned'
  BY <1>1, PrepareStorePinned
<1>3. PICK at \in Places : transfers' = transfers \cup {Transfer(id, r, TRUE, at, moves)}
  BY <1>1 DEF AddStore, Places
<1>4. PICK t : t = Transfer(id, r, TRUE, at, moves)
  OBVIOUS
<1>5. t.known /\ t.store /\ t.moves = moves /\ transfers' = transfers \cup {t}
  BY <1>3, <1>4 DEF Transfer
<1>6. \A m \in moves : m.key \in new /\ m.slot = slot[m.key] BY <1>1 DEF StoreMoves
<1>7. ReadersCounted'
  <2> SUFFICES ASSUME NEW k \in Keys PROVE host'[k].readers = Cardinality(Readers(k)')
    BY DEF ReadersCounted
  <2>1. Readers(k)' = Readers(k) BY <1>5 DEF Readers, Ids
  <2>2. CASE k \in new \cup evicted
    <3>1. Absent.readers = 0 BY DEF Absent
    <3>2. host'[k].readers = 0 BY <1>2, <2>2, <3>1
    <3>3. Readers(k) = {} BY <1>2, <2>2
    <3> QED BY <2>1, <3>2, <3>3, FS_EmptySet
  <2>3. CASE k \notin new \cup evicted BY <1>2, <2>1, <2>3 DEF Pinned, ReadersCounted
  <2> QED BY <2>2, <2>3
<1>8. MovesNamed'
  <2>1. ASSUME NEW j \in transfers PROVE Naming(j)'
    BY <1>2, MoveTypes DEF Pinned, MovesNamed, Naming
  <2>2. Naming(t)'
    <3> SUFFICES ASSUME NEW m \in t.moves
                 PROVE  /\ m.slot # Null
                        /\ host'[m.key].slot = m.slot /\ (host'[m.key].ready <=> ~t.store)
      BY DEF Naming
    <3>1. m.key \in new /\ m.slot = slot[m.key] BY <1>5, <1>6
    <3>2. host'[m.key].slot = m.slot /\ ~host'[m.key].ready /\ m.slot # Null BY <1>2, <3>1
    <3> QED BY <1>5, <3>2
  <2> QED BY <1>5, <2>1, <2>2 DEF MovesNamed
<1>9. StoredOnce'
  <2> SUFFICES ASSUME NEW j \in transfers', NEW l \in transfers',
                      j.known, l.known, j.store, l.store,
                      NEW m \in j.moves, NEW n \in l.moves, m.key = n.key
               PROVE  j = l
    BY DEF StoredOnce
  <2>1. j \in transfers => m.key \notin new BY <1>2
  <2>2. l \in transfers => n.key \notin new BY <1>2
  <2>3. CASE j \in transfers /\ l \in transfers BY <2>3 DEF Pinned, StoredOnce
  <2> QED BY <1>5, <1>6, <2>1, <2>2, <2>3
<1> QED BY <1>2, <1>7, <1>8, <1>9 DEF Pinned

LEMMA StorePinned ==
    ASSUME Shape, Linked, Pinned, NEW r \in Requests, Store(r) PROVE Pinned'
BY PinnedSame, AddStorePinned DEF Store

LEMMA UpdatePinned ==
    ASSUME Shape, Linked, Pinned, NEW stop \in SUBSET Requests, Update(stop) PROVE Pinned'
<1>1. PICK done, live : done = {j \in transfers : j.at = "done"} /\ live = KnownOf(done)
  OBVIOUS
<1>2. transfers' = transfers \ done /\ CompleteTransfers(live) BY <1>1 DEF Update
<1>3. live = {j \in done : j.known} /\ done \subseteq transfers BY <1>1 DEF KnownOf
<1>4. \A j \in transfers : /\ j \in transfers' /\ j.known => j \notin live
                           /\ j.known /\ j \notin live => j \in transfers'
  BY <1>2, <1>3
<1> DEFINE own(k) == Ids({j \in live : ~j.store /\ k \in KeysOf(j)})
           stored(k) == \E j \in live : j.store /\ k \in KeysOf(j)
<1>5. ASSUME NEW k \in Keys
      PROVE  /\ host'[k] \in HostT /\ host[k] \in HostT /\ host'[k].slot = host[k].slot
             /\ host'[k].ready <=> host[k].ready \/ stored(k)
             /\ host'[k].readers = host[k].readers - Cardinality(own(k))
  <2>1. host[k] \in HostT BY DEF Shape
  <2>2. host' \in [Keys -> HostT] BY <1>2, <1>3, CompleteType
  <2>3. host'[k] = [host[k] EXCEPT !.ready = host[k].ready \/ stored(k),
                                   !.readers = host[k].readers - Cardinality(own(k))]
    BY <1>2 DEF CompleteTransfers
  <2> HIDE DEF own, stored
  <2> QED BY <2>1, <2>2, <2>3 DEF HostT
<1>6. ASSUME NEW k \in Keys
      PROVE  own(k) \subseteq Readers(k) /\ Readers(k)' = Readers(k) \ own(k)
  <2>1. own(k) \subseteq Readers(k) BY <1>3 DEF Readers, Ids
  <2>2. \A i \in Readers(k)' : i \in Readers(k) \ own(k)
    <3> SUFFICES ASSUME NEW j \in transfers', j.known, ~j.store, k \in KeysOf(j)
                 PROVE  j.id \in Readers(k) /\ j.id \notin own(k)
      BY DEF Readers, Ids
    <3>1. j \in transfers /\ j \notin live BY <1>2, <1>4
    <3>2. \A l \in live : l.id # j.id BY <1>3, <3>1 DEF Linked, Unique
    <3> QED BY <3>1, <3>2 DEF Readers, Ids
  <2>3. \A i \in Readers(k) \ own(k) : i \in Readers(k)'
    <3> SUFFICES ASSUME NEW i \in Readers(k), i \notin own(k) PROVE i \in Readers(k)'
      OBVIOUS
    <3>1. PICK j \in transfers : j.known /\ ~j.store /\ k \in KeysOf(j) /\ j.id = i
      BY DEF Readers, Ids
    <3>2. j \notin live BY <3>1 DEF Ids
    <3>3. j \in transfers' BY <1>4, <3>1, <3>2
    <3> QED BY <3>1, <3>3 DEF Readers, Ids
  <2> HIDE DEF own
  <2> QED BY <2>1, <2>2, <2>3
<1> HIDE DEF own, stored
<1>7. ASSUME NEW j \in transfers, j.known, NEW m \in j.moves
      PROVE  /\ m.key \in Keys /\ m.key \in KeysOf(j) /\ m.slot # Null
             /\ host[m.key].slot = m.slot /\ (host[m.key].ready <=> ~j.store)
  BY <1>7, MoveTypes DEF Pinned, MovesNamed, Naming, KeysOf
<1>8. ReadersCounted'
  <2> SUFFICES ASSUME NEW k \in Keys PROVE host'[k].readers = Cardinality(Readers(k)')
    BY DEF ReadersCounted
  <2>1. IsFiniteSet(Readers(k)) /\ Readers(k) \cap own(k) = own(k) BY <1>6, ReadersType
  <2>2. Cardinality(Readers(k) \ own(k)) = Cardinality(Readers(k)) - Cardinality(own(k))
    BY <2>1, FS_Difference
  <2> QED BY <1>5, <1>6, <2>2 DEF Pinned, ReadersCounted
<1>9. SlotsOwned'
  <2>1. ASSUME NEW k \in Keys, host'[k].slot = Null PROVE host'[k] = Absent
    <3>1. host[k] = Absent BY <1>5, <2>1 DEF Pinned, SlotsOwned
    <3>2. host[k].slot = Null /\ host[k].ready = FALSE /\ host[k].readers = 0 BY <3>1 DEF Absent
    <3>3. \A j \in transfers : j.known => k \notin KeysOf(j) BY <1>7, <3>2 DEF KeysOf
    <3>4. ~stored(k) /\ own(k) = {} BY <1>3, <3>3 DEF stored, own, Ids
    <3>5. host'[k].ready = FALSE /\ host'[k].readers = 0
      <4>1. host'[k].ready \in BOOLEAN BY <1>5 DEF HostT
      <4>2. Cardinality({}) = 0 BY FS_EmptySet
      <4> QED BY <1>5, <3>2, <3>4, <4>1, <4>2
    <3> QED BY <1>5, <2>1, <3>5, HostFields
  <2>2. \A k, l \in Keys : host'[k].slot = host'[l].slot => k = l \/ host'[k].slot = Null
    BY <1>5 DEF Pinned, SlotsOwned
  <2> QED BY <2>1, <2>2 DEF SlotsOwned
<1>10. MovesNamed'
  <2> SUFFICES ASSUME NEW j \in transfers', NEW m \in j.moves
               PROVE  /\ m.slot # Null
                      /\ j.known => host'[m.key].slot = m.slot /\ (host'[m.key].ready <=> ~j.store)
    BY Zenon DEF MovesNamed, Naming
  <2>1. j \in transfers /\ m.slot # Null BY <1>2 DEF Pinned, MovesNamed, Naming
  <2>2. ASSUME j.known, j.store PROVE ~stored(m.key)
    <3> SUFFICES ASSUME NEW l \in live, l.store, m.key \in KeysOf(l) PROVE FALSE BY DEF stored
    <3>1. l \in transfers /\ l.known BY <1>3
    <3>2. PICK n \in l.moves : n.key = m.key BY DEF KeysOf
    <3>3. j = l BY <2>1, <2>2, <3>1, <3>2 DEF Pinned, StoredOnce
    <3>4. l \notin live BY <1>4, <2>1, <2>2, <3>3
    <3> QED BY <3>4
  <2>3. ASSUME j.known
        PROVE  host'[m.key].slot = m.slot /\ (host'[m.key].ready <=> ~j.store)
    BY <1>5, <1>7, <2>1, <2>2, <2>3
  <2> QED BY <2>1, <2>3
<1>11. StoredOnce' BY <1>2 DEF Pinned, StoredOnce
<1> QED BY <1>8, <1>9, <1>10, <1>11 DEF Pinned

LEMMA ResetPinned ==
    ASSUME Shape, Linked, Pinned, NEW force \in BOOLEAN, Reset(force) PROVE Pinned'
<1>1. CASE UNCHANGED <<connector, manager>> BY <1>1, PinnedSame DEF connector, manager
<1>2. CASE ResetConnector
  <2>1. /\ transfers' = {[j EXCEPT !.known = FALSE] : j \in transfers}
        /\ \A k \in Keys : host'[k] = Absent
    BY <1>2 DEF ResetConnector
  <2>2. \A l \in transfers' : ~l.known /\ \E j \in transfers : l.moves = j.moves
    BY <2>1 DEF Shape, JobT
  <2>3. ReadersCounted'
    <3>1. \A k \in Keys : Readers(k)' = {} BY <2>2 DEF Readers, Ids
    <3>2. Absent.readers = 0 /\ Cardinality({}) = 0 BY FS_EmptySet DEF Absent
    <3> QED BY <2>1, <3>1, <3>2 DEF ReadersCounted
  <2>4. SlotsOwned'
    <3>1. Absent.slot = Null BY DEF Absent
    <3> QED BY <2>1, <3>1 DEF SlotsOwned
  <2>5. MovesNamed' /\ StoredOnce' BY <2>2 DEF Pinned, MovesNamed, Naming, StoredOnce
  <2> QED BY <2>3, <2>4, <2>5 DEF Pinned
<1> QED BY <1>1, <1>2 DEF Reset

\* The worker moves the transfers on.
LEMMA WorkerPinned ==
    ASSUME Shape, Linked, Linked', Pinned,
           SendMeta \/ Forward \/ \E j \in transfers : Copy(j)
    PROVE  Pinned'
<1>1. Unique' BY DEF Linked
<1>2. CASE SendMeta
  <2> DEFINE at(j) == IF j.store /\ j.at = "built" THEN "deferred"
                      ELSE IF j.at \in {"deferred", "urgent"} THEN "queued" ELSE j.at
  <2>1. host' = host /\ transfers' = {[j EXCEPT !.at = at(j)] : j \in transfers}
    BY <1>2 DEF SendMeta
  <2> HIDE DEF at
  <2>2. \A j \in transfers : SameJob(j, [j EXCEPT !.at = at(j)]) BY DEF SameJob, Shape, JobT
  <2> QED BY <1>1, <2>1, <2>2, PinnedKept
<1>3. CASE Forward
  <2> DEFINE at(j) == IF j.at = "built" THEN "queued" ELSE j.at
  <2>1. host' = host /\ transfers' = {[j EXCEPT !.at = at(j)] : j \in transfers}
    BY <1>3 DEF Forward, manager
  <2> HIDE DEF at
  <2>2. \A j \in transfers : SameJob(j, [j EXCEPT !.at = at(j)]) BY DEF SameJob, Shape, JobT
  <2> QED BY <1>1, <2>1, <2>2, PinnedKept
<1>4. CASE \E j \in transfers : Copy(j)
  <2>1. PICK j \in transfers : Copy(j) BY <1>4
  <2>2. host' = host /\ transfers' = (transfers \ {j}) \cup {[j EXCEPT !.at = "done"]}
    BY <2>1 DEF Copy, manager
  <2>3. SameJob(j, [j EXCEPT !.at = "done"]) /\ \A l \in transfers : SameJob(l, l)
    BY DEF SameJob, Shape, JobT
  <2> QED BY <1>1, <2>2, <2>3, PinnedKept
<1> QED BY <1>2, <1>3, <1>4

LEMMA InitPinned == Init => Pinned
<1>1. Cardinality({}) = 0 /\ Absent.readers = 0 /\ Absent.slot = Null BY FS_EmptySet DEF Absent
<1>2. ASSUME Init, NEW k \in Keys PROVE host[k] = Absent /\ Readers(k) = {}
  BY <1>2 DEF Init, Readers, Ids
<1>3. ASSUME Init PROVE ReadersCounted /\ SlotsOwned
  BY <1>1, <1>2, <1>3 DEF ReadersCounted, SlotsOwned
<1> QED BY <1>3 DEF Init, Pinned, MovesNamed, StoredOnce

LEMMA PinnedStep ==
    ASSUME Shape, Short, Linked, Linked', Pinned, [Next]_vars PROVE Pinned'
<1>1. CASE UNCHANGED <<host, transfers>> BY <1>1, PinnedSame
<1>2. CASE Begin \/ EndSchedule \/ UNCHANGED vars
           \/ \E r \in Requests : \/ ScheduleRunning(r) \/ Loading(r) \/ Delay(r) \/ Admit(r)
                                  \/ Abort(r) \/ \E p \in Prompts : Arrive(r, p)
  BY <1>1, <1>2 DEF Begin, EndSchedule, vars, ScheduleRunning, Loading, Delay, Admit, Abort,
     Arrive, connector, manager
<1>3. CASE \E r \in Requests : Load(r) \/ Store(r) BY <1>3, LoadPinned, StorePinned
<1>4. CASE SendMeta \/ Forward \/ CopyNext BY <1>4, WorkerPinned DEF CopyNext
<1>5. CASE \E stop \in SUBSET Requests : Update(stop) BY <1>5, UpdatePinned
<1>6. CASE \E force \in BOOLEAN : Reset(force) BY <1>6, ResetPinned
<1> QED BY <1>2, <1>3, <1>4, <1>5, <1>6 DEF Next, Step

-------------------------------------------------------------------------------
\* The block table of a request is not longer than its tokens need, those of this step
\* included, and a request that waits has a token to compute: so a step that gives it tokens
\* takes a block for each chunk it reaches, and what it computes is in them.
Ahead(r) == IF step.phase \in {"schedule", "store"} THEN step.tokens[r] ELSE 0
SizedFor(r) ==
    /\ req[r].status \in {"absent", "waiting"} =>
          /\ req[r].computed < req[r].tokens
          /\ Len(req[r].table) <= CDiv(req[r].computed + 1, ChunkTokens)
    /\ req[r].status = "loading" => Len(req[r].table) <= CDiv(req[r].computed, ChunkTokens)
    /\ req[r].status = "running" =>
          Len(req[r].table) <= CDiv(req[r].computed + Ahead(r), ChunkTokens)
Sized   == \A r \in Requests : SizedFor(r)
Indexed == \A r \in Requests : track[r].next >= 0

LEMMA SizedKept ==
    ASSUME Sized, NEW r \in Requests,
           req'[r].status \in {req[r].status, "stopped", "aborted"},
           req'[r].status = req[r].status =>
              /\ req'[r].computed = req[r].computed /\ req'[r].tokens = req[r].tokens
              /\ req'[r].table = req[r].table,
           Ahead(r)' = Ahead(r)
    PROVE  SizedFor(r)'
BY DEF Sized, SizedFor

\* A request starts again.
LEMMA SizedNew ==
    ASSUME NEW r \in Requests, req'[r].status \in {"absent", "waiting"}, req'[r].computed = 0,
           req'[r].tokens > 0, req'[r].table = <<>>
    PROVE  SizedFor(r)'
BY OffloadAssumption DEF CDiv, SizedFor

\* Tokens for a request whose blocks are enough for less.
LEMMA NeedType ==
    ASSUME Shape, Counts, NEW r \in Requests, NEW n \in Amounts(r),
           \/ Len(req[r].table) <= CDiv(req[r].computed, ChunkTokens)
           \/ /\ Len(req[r].table) <= CDiv(req[r].computed + 1, ChunkTokens)
              /\ req[r].computed < req[r].tokens,
           NEW new \in Picks(Need(r, n), FreeFor(r))
    PROVE  Len(Kept(r) \o new) = CDiv(req[r].computed + n, ChunkTokens)
<1>1. /\ n \in Int /\ 0 <= n /\ Need(r, n) \in Int
      /\ req[r].computed < req[r].tokens => 1 <= n
  <2>1. PICK t \in StepTokens : n = Least(t, req[r].tokens - req[r].computed) BY DEF Amounts
  <2>2. t \in Int /\ 1 <= t BY OffloadAssumption
  <2>3. req[r].tokens \in Int /\ req[r].computed \in Int /\ req[r].computed <= req[r].tokens
    BY DEF Shape, ReqT, Counts, CountsFor
  <2> QED BY <2>1, <2>2, <2>3, AmountsType DEF Least
<1>2. req[r].computed \in Int /\ Len(req[r].table) \in Int BY DEF Shape, ReqT, BlockSeq
<1>3. /\ CDiv(req[r].computed + n, ChunkTokens) \in Int
      /\ CDiv(req[r].computed, ChunkTokens) \in Int /\ CDiv(req[r].computed + 1, ChunkTokens) \in Int
      /\ CDiv(req[r].computed, ChunkTokens) <= CDiv(req[r].computed + n, ChunkTokens)
      /\ 1 <= n => CDiv(req[r].computed + 1, ChunkTokens) <= CDiv(req[r].computed + n, ChunkTokens)
  <2>1. /\ req[r].computed + n \in Int /\ req[r].computed + 1 \in Int
        /\ req[r].computed <= req[r].computed + n
        /\ 1 <= n => req[r].computed + 1 <= req[r].computed + n
    BY <1>1, <1>2
  <2> QED BY <1>2, <2>1, DivType, DivMonotone
<1>4. Need(r, n) >= 0 BY <1>1, <1>2, <1>3 DEF Need
<1>5. /\ Len(Kept(r) \o new) = Len(Kept(r)) + Len(new)
      /\ Len(Kept(r)) = Len(req[r].table) /\ Len(new) = Need(r, n)
  BY <1>1, <1>4, KeptType, PicksType, ConcatType
<1> QED BY SMTT(30), <1>2, <1>3, <1>5 DEF Need

LEMMA ScheduleRunningSized ==
    ASSUME Shape, Sched, Counts, Sized, NEW r \in Requests, ScheduleRunning(r) PROVE Sized'
<1>1. /\ step.phase = "schedule" /\ req[r].status = "running" /\ r \notin step.visited
      /\ step.tokens[r] = 0
  BY DEF ScheduleRunning, Turn, Running, Sched
<1>2. Ahead(r) = 0 /\ req[r].computed \in Int /\ req[r].tokens \in Int
  BY <1>1 DEF Ahead, Shape, ReqT
<1>3. Len(req[r].table) <= CDiv(req[r].computed, ChunkTokens) BY <1>1, <1>2 DEF Sized, SizedFor
<1>4. CASE \E n \in Amounts(r) : \E new \in Picks(Need(r, n), FreeFor(r)) :
              /\ req' = [req EXCEPT ![r].table = Kept(r) \o new]
              /\ step' = [step EXCEPT !.visited = @ \cup {r}, !.tokens[r] = n, !.blocks[r] = new]
  <2>1. PICK n \in Amounts(r) : \E new \in Picks(Need(r, n), FreeFor(r)) :
              /\ req' = [req EXCEPT ![r].table = Kept(r) \o new]
              /\ step' = [step EXCEPT !.visited = @ \cup {r}, !.tokens[r] = n, !.blocks[r] = new]
    BY <1>4
  <2>2. PICK new \in Picks(Need(r, n), FreeFor(r)) :
              /\ req' = [req EXCEPT ![r].table = Kept(r) \o new]
              /\ step' = [step EXCEPT !.visited = @ \cup {r}, !.tokens[r] = n, !.blocks[r] = new]
    BY <2>1
  <2>3. /\ \A q \in Requests \ {r} : req'[q] = req[q] /\ step'.tokens[q] = step.tokens[q]
        /\ req'[r].status = "running" /\ req'[r].computed = req[r].computed
        /\ req'[r].table = Kept(r) \o new /\ step'.tokens[r] = n /\ step'.phase = "schedule"
    BY <1>1, <2>2 DEF Shape, ReqT, StepT
  <2>4. Len(Kept(r) \o new) = CDiv(req[r].computed + n, ChunkTokens) /\ n \in Int
    BY <1>3, NeedType, AmountsType
  <2>5. CDiv(req[r].computed + n, ChunkTokens) \in Int BY <1>2, <2>4, DivType
  <2>6. SizedFor(r)' BY <2>3, <2>4, <2>5 DEF SizedFor, Ahead
  <2>7. \A q \in Requests \ {r} : SizedFor(q)' BY <1>1, <2>3, SizedKept DEF Ahead
  <2> QED BY <2>6, <2>7 DEF Sized
<1>5. CASE /\ \E v \in Running :
                /\ req' = [Preempted({v}) EXCEPT ![r].table = IF r = v THEN <<>> ELSE Kept(r)]
           /\ step' = [step EXCEPT !.cut = TRUE]
  <2>1. PICK v \in Running :
                /\ req' = [Preempted({v}) EXCEPT ![r].table = IF r = v THEN <<>> ELSE Kept(r)]
    BY <1>5
  <2>2. /\ \A q \in Requests \ {v, r} : req'[q] = req[q]
        /\ \A q \in Requests : /\ q # v => req'[q].status = req[q].status
                               /\ q # v => req'[q].computed = req[q].computed
                               /\ req'[q].tokens = req[q].tokens
        /\ req'[v].status = "waiting" /\ req'[v].computed = 0 /\ req'[v].table = <<>>
        /\ v # r => req'[r].table = Kept(r)
    BY ZenonT(40), <1>1, <2>1 DEF Preempted, Shape, ReqT, Running
  <2>3. step'.phase = "schedule" /\ step'.tokens = step.tokens BY <1>1, <1>5 DEF Shape, StepT
  <2>4. \A q \in Requests : Ahead(q)' = Ahead(q) BY <1>1, <2>3 DEF Ahead
  <2>5. SizedFor(v)'
    <3>1. v \in Requests /\ req[v].tokens > 0
      BY OffloadAssumption DEF Running, Counts, CountsFor, Shape, ReqT
    <3> QED BY <2>2, <3>1, SizedNew
  <2>6. ASSUME r # v PROVE SizedFor(r)'
    BY <1>1, <1>2, <1>3, <2>2, <2>4, <2>6, KeptType DEF SizedFor
  <2>7. \A q \in Requests \ {v, r} : SizedFor(q)' BY <2>2, <2>4, SizedKept
  <2> QED BY <2>5, <2>6, <2>7 DEF Sized
<1> QED BY <1>4, <1>5 DEF ScheduleRunning

LEMMA LoadingSized ==
    ASSUME Shape, Sched, Counts, Sized, NEW r \in Requests, Loading(r) PROVE Sized'
<1>1. step.phase = "schedule" /\ req[r].status = "loading" BY DEF Loading, Considers, Turn
<1>2. /\ \A q \in Requests \ {r} : req'[q] = req[q]
      /\ req'[r].tokens = req[r].tokens /\ req'[r].table = req[r].table
      /\ \/ req'[r] = req[r]
         \/ /\ req'[r].status = "waiting"
            /\ req'[r].computed = IF req[r].computed = req[r].tokens THEN req[r].computed - 1
                                  ELSE req[r].computed
      /\ step'.phase = "schedule" /\ step'.tokens = step.tokens
  BY <1>1 DEF Loading, Shape, ReqT, StepT
<1>3. \A q \in Requests : Ahead(q)' = Ahead(q) BY <1>1, <1>2 DEF Ahead
<1>4. /\ Len(req[r].table) <= CDiv(req[r].computed, ChunkTokens)
      /\ req[r].computed \in Int /\ req[r].tokens \in Int /\ req[r].computed <= req[r].tokens
      /\ Len(req[r].table) \in Int
  BY <1>1 DEF Sized, SizedFor, Counts, CountsFor, Shape, ReqT, BlockSeq
<1>5. CASE req'[r] = req[r] BY <1>2, <1>3, <1>5, SizedKept DEF Sized
<1>6. CASE /\ req'[r].status = "waiting"
           /\ req'[r].computed = IF req[r].computed = req[r].tokens THEN req[r].computed - 1
                                 ELSE req[r].computed
  <2>1. req'[r].computed < req'[r].tokens /\ req[r].computed <= req'[r].computed + 1
        /\ req'[r].computed + 1 \in Int
    BY <1>2, <1>4, <1>6
  <2>2. /\ CDiv(req[r].computed, ChunkTokens) <= CDiv(req'[r].computed + 1, ChunkTokens)
        /\ CDiv(req[r].computed, ChunkTokens) \in Int
        /\ CDiv(req'[r].computed + 1, ChunkTokens) \in Int
    BY <1>4, <2>1, DivMonotone, DivType
  <2>3. SizedFor(r)' BY <1>2, <1>4, <1>6, <2>1, <2>2 DEF SizedFor
  <2> QED BY <1>2, <1>3, <2>3, SizedKept DEF Sized
<1> QED BY <1>2, <1>5, <1>6

LEMMA AdmitSized ==
    ASSUME Shape, Sched, Counts, Sized, NEW r \in Requests, Admit(r) PROVE Sized'
<1>1. step.phase = "schedule" /\ req[r].status = "waiting" BY DEF Admit, Considers, Turn
<1>2. PICK n \in Amounts(r) : \E new \in Picks(Need(r, n), FreeFor(r)) :
          /\ req' = [req EXCEPT ![r].table = Kept(r) \o new, ![r].status = "running"]
          /\ step' = [step EXCEPT !.visited = @ \cup {r}, !.tokens[r] = n,
                                  !.blocks[r] = Kept(r) \o new]
  BY DEF Admit
<1>3. PICK new \in Picks(Need(r, n), FreeFor(r)) :
          /\ req' = [req EXCEPT ![r].table = Kept(r) \o new, ![r].status = "running"]
          /\ step' = [step EXCEPT !.visited = @ \cup {r}, !.tokens[r] = n,
                                  !.blocks[r] = Kept(r) \o new]
  BY <1>2
<1>4. /\ \A q \in Requests \ {r} : req'[q] = req[q] /\ step'.tokens[q] = step.tokens[q]
      /\ req'[r].status = "running" /\ req'[r].computed = req[r].computed
      /\ req'[r].table = Kept(r) \o new /\ step'.tokens[r] = n /\ step'.phase = "schedule"
  BY <1>1, <1>3 DEF Shape, ReqT, StepT
<1>5. /\ Len(req[r].table) <= CDiv(req[r].computed + 1, ChunkTokens)
      /\ req[r].computed < req[r].tokens /\ req[r].computed \in Int
  BY <1>1 DEF Sized, SizedFor, Shape, ReqT
<1>6. Len(Kept(r) \o new) = CDiv(req[r].computed + n, ChunkTokens) /\ n \in Int
  BY <1>5, NeedType, AmountsType
<1>7. CDiv(req[r].computed + n, ChunkTokens) \in Int BY <1>5, <1>6, DivType
<1>8. SizedFor(r)' BY <1>4, <1>6, <1>7 DEF SizedFor, Ahead
<1>9. \A q \in Requests \ {r} : SizedFor(q)' BY <1>1, <1>4, SizedKept DEF Ahead
<1> QED BY <1>8, <1>9 DEF Sized

LEMMA LoadSized ==
    ASSUME Shape, Counts, Sized, NEW r \in Requests, Load(r) PROVE Sized'
<1>1. step.phase = "schedule" /\ Hit(r) > 0 BY DEF Load, Considers, Turn
<1>2. PICK new \in Picks(LoadBlocks(Hit(r)), Free) :
          req' = [req EXCEPT ![r].table = LoadTable(Hit(r), new), ![r].computed = Hit(r),
                             ![r].status = "loading"]
  BY DEF Load
<1>3. /\ \A q \in Requests \ {r} : req'[q] = req[q]
      /\ req'[r].status = "loading" /\ req'[r].computed = Hit(r)
      /\ req'[r].table = LoadTable(Hit(r), new)
  BY <1>2 DEF Shape, ReqT
<1>4. step'.phase = "schedule" /\ step'.tokens = step.tokens BY <1>1 DEF Load, Shape, StepT
<1>5. CDiv(Hit(r), ChunkTokens) \in Int /\ CDiv(Hit(r), ChunkTokens) >= 0
  BY <1>1, LookupType, OffloadAssumption DEF CDiv
<1>6. Len(LoadTable(Hit(r), new)) = CDiv(Hit(r), ChunkTokens)
  BY <1>1, <1>5, CountsShort, LoadTypes DEF LoadTable, Short, BlockSeq
<1>7. SizedFor(r)' BY <1>3, <1>5, <1>6 DEF SizedFor
<1>8. \A q \in Requests \ {r} : SizedFor(q)' BY <1>1, <1>3, <1>4, SizedKept DEF Ahead
<1> QED BY <1>7, <1>8 DEF Sized

LEMMA SendMetaSized == ASSUME Shape, Sched, Counts, Sized, SendMeta PROVE Sized'
<1>1. ASSUME NEW r \in Requests PROVE SizedFor(r)'
  <2>1. /\ req'[r].status = req[r].status /\ req'[r].tokens = req[r].tokens
        /\ req'[r].computed = req[r].computed + step.tokens[r] /\ req'[r].table = req[r].table
        /\ req[r].computed \in Int /\ step.tokens[r] \in Int
    BY DEF SendMeta, Shape, ReqT, StepT
  <2>2. step.phase = "store" /\ step'.phase = "flush" BY DEF SendMeta, Shape, StepT
  <2>3. SizedFor(r) /\ (req[r].status # "running" => step.tokens[r] = 0) BY DEF Sized, Sched
  <2>4. Ahead(r) = step.tokens[r] /\ Ahead(r)' = 0 BY <2>2 DEF Ahead
  <2>5. CASE req[r].status = "running" BY <2>1, <2>3, <2>4, <2>5 DEF SizedFor
  <2>6. CASE req[r].status # "running" BY <2>1, <2>3, <2>6 DEF SizedFor
  <2> QED BY <2>5, <2>6
<1> QED BY <1>1 DEF Sized

LEMMA UpdateSized ==
    ASSUME Shape, Sched, Sized, NEW stop \in SUBSET Requests, Update(stop) PROVE Sized'
<1>1. ASSUME NEW r \in Requests PROVE SizedFor(r)'
  <2>1. /\ req'[r].computed = req[r].computed
        /\ r \notin Sampled => req'[r].tokens = req[r].tokens
        /\ req'[r].status = IF r \in stop THEN "stopped" ELSE req[r].status
        /\ ~IsFinished(r) /\ r \notin stop => req'[r].table = req[r].table
    BY DEF Update, Shape, ReqT
  <2>2. step.phase = "output" /\ step'.phase = "idle" BY DEF Update, Shape, StepT
  <2>3. Ahead(r) = 0 /\ Ahead(r)' = 0 BY <2>2 DEF Ahead
  <2>4. stop \subseteq Sampled /\ (r \in Sampled => req[r].status = "running")
    <3>1. r \in Sampled => req[r].status = "running" BY DEF Sampled, Sched, Shape, StepT
    <3> QED BY <3>1 DEF Update
  <2>5. CASE r \in stop BY <2>1, <2>5 DEF SizedFor
  <2>6. CASE r \notin stop /\ IsFinished(r) BY <2>1, <2>6 DEF SizedFor, IsFinished
  <2>7. CASE r \notin stop /\ ~IsFinished(r) BY <2>1, <2>3, <2>4, <2>7 DEF Sized, SizedFor
  <2> QED BY <2>5, <2>6, <2>7
<1> QED BY <1>1 DEF Sized

LEMMA ResetSized ==
    ASSUME Shape, Counts, Sized, NEW force \in BOOLEAN, Reset(force) PROVE Sized'
<1>1. step' = step /\ (req' = req \/ req' = Preempted(Running)) BY DEF Reset
<1>2. ASSUME NEW r \in Requests PROVE SizedFor(r)'
  <2>1. req[r] \in ReqT /\ Ahead(r)' = Ahead(r) BY <1>1 DEF Shape, Ahead
  <2>2. CASE req'[r] = req[r] BY <2>1, <2>2, SizedKept
  <2>3. CASE req'[r] = [req[r] EXCEPT !.status = "waiting", !.computed = 0, !.table = <<>>]
    <3>1. /\ req'[r].status = "waiting" /\ req'[r].computed = 0 /\ req'[r].table = <<>>
          /\ req'[r].tokens = req[r].tokens /\ req[r].tokens > 0
      BY <2>1, <2>3, OffloadAssumption DEF ReqT, Counts, CountsFor
    <3> QED BY <3>1, SizedNew
  <2> QED BY <1>1, <2>2, <2>3 DEF Preempted
<1> QED BY <1>2 DEF Sized

LEMMA InitSized == Init => Sized /\ Indexed
<1> SUFFICES ASSUME Init, NEW r \in Requests PROVE SizedFor(r) /\ track[r].next >= 0
  BY DEF Sized, Indexed
<1>1. CDiv(1, ChunkTokens) \in Int /\ CDiv(1, ChunkTokens) >= 0 BY OffloadAssumption DEF CDiv
<1>2. Len(<<>>) = 0 /\ 0 + 1 = 1
  OBVIOUS
<1>3. /\ req[r].status = "absent" /\ req[r].computed = 0 /\ req[r].table = <<>>
      /\ req[r].tokens > 0 /\ track[r].next = 0
  BY OffloadAssumption DEF Init, NoTrack
<1>4. Len(req[r].table) <= CDiv(req[r].computed + 1, ChunkTokens) BY <1>1, <1>2, <1>3
<1> QED BY <1>3, <1>4 DEF SizedFor

LEMMA SizedStep == ASSUME Shape, Sched, Counts, Sized, [Next]_vars PROVE Sized'
<1>1. ASSUME NEW r \in Requests, NEW p \in Prompts, Arrive(r, p) PROVE Sized'
  BY <1>1, SizedKept DEF Arrive, Shape, ReqT, Sized, SizedFor, Ahead
<1>2. ASSUME NEW r \in Requests, Abort(r) PROVE Sized'
  BY <1>2, SizedKept DEF Abort, Shape, ReqT, Sized, Active, Ahead
<1>3. CASE UNCHANGED req /\ \A q \in Requests : Ahead(q)' = Ahead(q)
  BY <1>3, SizedKept DEF Sized
<1>4. Begin => UNCHANGED req /\ \A q \in Requests : Ahead(q)' = Ahead(q)
  <2> SUFFICES ASSUME Begin PROVE UNCHANGED req /\ \A q \in Requests : Ahead(q)' = Ahead(q)
    OBVIOUS
  <2>1. step.phase = "idle" /\ \A r \in Requests : step.tokens[r] = 0 BY DEF Begin, Sched
  <2> QED BY <2>1 DEF Begin, Ahead, engine, Shape, StepT
<1>5. EndSchedule => UNCHANGED req /\ \A q \in Requests : Ahead(q)' = Ahead(q)
  BY DEF EndSchedule, Ahead, engine, Shape, StepT
<1>6. Forward => UNCHANGED req /\ \A q \in Requests : Ahead(q)' = Ahead(q)
  BY DEF Forward, Ahead, engine, Shape, StepT
<1>7. \A r \in Requests : Store(r) \/ Delay(r) =>
         UNCHANGED req /\ \A q \in Requests : Ahead(q)' = Ahead(q)
  BY DEF Store, Delay, Considers, Turn, Ahead, engine, Shape, StepT
<1>8. CopyNext \/ UNCHANGED vars => UNCHANGED req /\ \A q \in Requests : Ahead(q)' = Ahead(q)
  BY DEF CopyNext, Copy, vars, engine, Ahead
<1>9. CASE Step
  BY <1>3, <1>4, <1>5, <1>6, <1>7, <1>9, SendMetaSized, ScheduleRunningSized, LoadingSized,
     AdmitSized, LoadSized, UpdateSized DEF Step
<1> QED BY <1>1, <1>2, <1>3, <1>8, <1>9, ResetSized DEF Next

LEMMA IndexedStep == ASSUME Shape, Counts, Indexed, [Next]_vars PROVE Indexed'
<1>1. CASE \A r \in Requests : track'[r].next \in {track[r].next, 0} BY <1>1 DEF Indexed
<1>2. CASE \/ Begin \/ Forward \/ CopyNext \/ UNCHANGED vars
           \/ \E r \in Requests : ScheduleRunning(r) \/ Loading(r) \/ Abort(r)
  <2>1. track' = track
    BY <1>2 DEF Begin, Forward, CopyNext, Copy, ScheduleRunning, Loading, Abort, connector, vars
  <2> QED BY <1>1, <2>1
<1>3. CASE \E r \in Requests : Delay(r) \/ Admit(r)
  <2>1. PICK r \in Requests :
            track' = [track EXCEPT ![r].blocks = IF req[r].computed = 0 THEN <<>> ELSE @]
    BY <1>3 DEF Delay, Admit
  <2>2. \A q \in Requests : track'[q].next = track[q].next BY <2>1 DEF Shape, TrackT
  <2> QED BY <1>1, <2>2
<1>4. CASE EndSchedule BY <1>1, <1>4 DEF EndSchedule, Shape, TrackT
<1>5. CASE SendMeta BY <1>1, <1>5 DEF SendMeta, Signal, NoTrack, Shape, TrackT
<1>6. ASSUME NEW r \in Requests, NEW p \in Prompts, Arrive(r, p) PROVE Indexed'
  BY <1>1, <1>6 DEF Arrive, NoTrack, Shape
<1>7. ASSUME NEW r \in Requests, Load(r) PROVE Indexed'
  <2>1. \A q \in Requests : track'[q].next \in {track[q].next, CDiv(Hit(r), ChunkTokens)}
    <3>1. PICK id : track' = [track EXCEPT ![r].blocks = <<>>,
                                           ![r].next = CDiv(Hit(r), ChunkTokens), ![r].jobs = {id}]
      BY <1>7 DEF Load
    <3> QED BY <3>1 DEF Shape, TrackT
  <2>2. Hit(r) \in Int /\ Hit(r) > 0 BY <1>7, LookupType DEF Load
  <2>3. CDiv(Hit(r), ChunkTokens) \in Int /\ CDiv(Hit(r), ChunkTokens) >= 0
    BY <2>2, OffloadAssumption DEF CDiv
  <2> QED BY <2>1, <2>3 DEF Indexed
<1>8. ASSUME NEW r \in Requests, Store(r) PROVE Indexed'
  <2>1. \/ track' = track
        \/ track' = [track EXCEPT ![r].next = Most(@, Storable(r))]
        \/ \E id : track' = [track EXCEPT ![r].next = Most(@, Storable(r)), ![r].jobs = @ \cup {id}]
    BY <1>8 DEF Store, AddStore
  <2>2. \A q \in Requests :
            track'[q].next \in {track[q].next, Most(track[q].next, Storable(q))}
    <3>1. CASE track' = track BY <3>1
    <3>2. CASE track' = [track EXCEPT ![r].next = Most(@, Storable(r))]
      BY <3>2 DEF Shape, TrackT
    <3>3. ASSUME NEW id, track' = [track EXCEPT ![r].next = Most(@, Storable(r)),
                                                ![r].jobs = @ \cup {id}]
          PROVE  \A q \in Requests :
                    track'[q].next \in {track[q].next, Most(track[q].next, Storable(q))}
      BY <3>3 DEF Shape, TrackT
    <3> QED BY <2>1, <3>1, <3>2, <3>3
  <2>3. \A q \in Requests : Storable(q) \in Int /\ track[q].next \in Int
    BY StoreTypes DEF Shape, TrackT
  <2> QED BY <2>2, <2>3 DEF Indexed, Most
<1>9. ASSUME NEW stop \in SUBSET Requests, Update(stop) PROVE Indexed'
  BY <1>1, <1>9 DEF Update, NoTrack, Shape, TrackT
<1>10. ASSUME NEW force \in BOOLEAN, Reset(force) PROVE Indexed'
  <2>1. CASE ResetConnector BY <1>1, <2>1 DEF ResetConnector, NoTrack, Shape, TrackT
  <2>2. CASE UNCHANGED connector BY <1>1, <2>2 DEF connector
  <2> QED BY <1>10, <2>1, <2>2 DEF Reset
<1> QED BY <1>2, <1>3, <1>4, <1>5, <1>6, <1>7, <1>8, <1>9, <1>10 DEF Next, Step

-------------------------------------------------------------------------------
\* What GPU blocks and host slots hold.
KVT == [key : Keys \cup {<<>>}, n : 0..ChunkTokens]
Memory == gpuKV \in [Blocks -> KVT] /\ slotKV \in [Slots -> KVT]

LEMMA NoKVType == NoKV \in KVT
BY OffloadAssumption DEF NoKV, KVT

\* The forward pass writes chunks that the computed tokens reach.
LEMMA WrittenType ==
    ASSUME Shape, Sched, Counts, Sized, step.phase = "flush", NEW b \in Blocks, gpuKV[b] \in KVT,
           NEW w \in WritesTo(b)
    PROVE  /\ Written(w[1], w[2], b) \in KVT
           /\ (w[2] - 1) * ChunkTokens \in Int /\ (w[2] - 1) * ChunkTokens < req[w[1]].computed
<1>1. PICK r, i : r = w[1] /\ i = w[2]
  OBVIOUS
<1>2. /\ r \in Requests /\ i \in Chunks /\ step.tokens[r] > 0
      /\ i \in DOMAIN req[r].table
  BY <1>1 DEF WritesTo
<1>3. req[r].status = "running" /\ Ahead(r) = 0 BY <1>2 DEF Sched, Ahead, Shape, StepT
<1>4. req[r].computed \in Int /\ i \in Int /\ req[r].table \in BlockSeq /\ step.tokens[r] \in Int
  BY <1>2, ChunksFinite DEF Shape, ReqT, StepT
<1>5. i <= CDiv(req[r].computed, ChunkTokens) /\ CDiv(req[r].computed, ChunkTokens) \in Int
  <2>1. CDiv(req[r].computed, ChunkTokens) \in Int BY <1>4, DivType
  <2>2. i <= Len(req[r].table) /\ Len(req[r].table) \in Int BY <1>2, <1>4 DEF BlockSeq
  <2>3. Len(req[r].table) <= CDiv(req[r].computed, ChunkTokens)
    BY <1>2, <1>3, <1>4 DEF Sized, SizedFor
  <2> QED BY <1>4, <2>1, <2>2, <2>3
<1>6. ChunkTokens * (i - 1) < req[r].computed
  <2>1. i - 1 \in Int /\ ~(CDiv(req[r].computed, ChunkTokens) <= i - 1) BY <1>4, <1>5
  <2>2. ChunkTokens * (i - 1) \in Int BY <2>1, OffloadAssumption
  <2> QED BY <1>4, <2>1, <2>2, DivBounds
<1>7. (i - 1) * ChunkTokens \in Int /\ (i - 1) * ChunkTokens < req[r].computed
  BY <1>4, <1>6, OffloadAssumption
<1>8. Least(ChunkTokens, req[r].computed - (i - 1) * ChunkTokens) \in 0..ChunkTokens
  BY <1>4, <1>7, OffloadAssumption DEF Least
<1>9. KeyOf(r, i) \in Keys BY <1>2, KeyType
<1>10. Written(r, i, b) \in {NoKV, [key |-> KeyOf(r, i),
                       n |-> Least(ChunkTokens, req[r].computed - (i - 1) * ChunkTokens)]}
  BY DEF Written
<1>11. Written(r, i, b) \in KVT BY <1>8, <1>9, <1>10, NoKVType DEF KVT
<1> QED BY <1>1, <1>7, <1>11

LEMMA ForwardMemory == ASSUME Shape, Sched, Counts, Sized, Memory, Forward PROVE Memory'
<1>1. /\ step.phase = "flush" /\ slotKV' = slotKV
      /\ gpuKV' = [b \in Blocks |->
                     IF WritesTo(b) = {} THEN gpuKV[b]
                     ELSE LET w == CHOOSE w \in WritesTo(b) : TRUE IN Written(w[1], w[2], b)]
  BY DEF Forward
<1>2. ASSUME NEW b \in Blocks PROVE gpuKV'[b] \in KVT
  <2>1. gpuKV[b] \in KVT BY DEF Memory
  <2>2. CASE WritesTo(b) = {} BY <1>1, <2>1, <2>2
  <2>3. CASE WritesTo(b) # {}
    <3>1. PICK w : w = CHOOSE v \in WritesTo(b) : TRUE
      OBVIOUS
    <3>2. w \in WritesTo(b) /\ gpuKV'[b] = Written(w[1], w[2], b) BY <1>1, <2>3, <3>1
    <3> QED BY <1>1, <2>1, <3>2, WrittenType
  <2> QED BY <2>2, <2>3
<1> QED BY <1>1, <1>2 DEF Memory

LEMMA CopyMemory ==
    ASSUME Shape, Pinned, Memory, NEW j \in transfers, Copy(j) PROVE Memory'
<1>1. \A m \in j.moves : m.block \in Blocks /\ m.slot \in Slots
  BY MoveTypes DEF Pinned, MovesNamed, Naming
<1>2. CASE j.store
  <2>1. ASSUME NEW s \in Slots PROVE slotKV'[s] \in KVT
    <3>1. CASE s \in SlotsOf(j)
      <4>1. PICK m : m = CHOOSE n \in j.moves : n.slot = s
        OBVIOUS
      <4>2. m \in j.moves BY <3>1, <4>1 DEF SlotsOf
      <4>3. slotKV'[s] = gpuKV[m.block] BY <1>2, <3>1, <4>1 DEF Copy
      <4> QED BY <1>1, <4>2, <4>3 DEF Memory
    <3>2. CASE s \notin SlotsOf(j) BY <1>2, <3>2 DEF Copy, Memory
    <3> QED BY <3>1, <3>2
  <2> QED BY <1>2, <2>1 DEF Copy, Memory
<1>3. CASE ~j.store
  <2>1. ASSUME NEW b \in Blocks PROVE gpuKV'[b] \in KVT
    <3>1. CASE b \in BlocksOf(j)
      <4>1. PICK m : m = CHOOSE n \in j.moves : n.block = b
        OBVIOUS
      <4>2. m \in j.moves BY <3>1, <4>1 DEF BlocksOf
      <4>3. gpuKV'[b] = slotKV[m.slot] BY <1>3, <3>1, <4>1 DEF Copy
      <4> QED BY <1>1, <4>2, <4>3 DEF Memory
    <3>2. CASE b \notin BlocksOf(j) BY <1>3, <3>2 DEF Copy, Memory
    <3> QED BY <3>1, <3>2
  <2> QED BY <1>3, <2>1 DEF Copy, Memory
<1> QED BY <1>2, <1>3

LEMMA InitMemory == Init => Memory
BY NoKVType DEF Init, Memory

LEMMA MemoryStep ==
    ASSUME Shape, Sched, Counts, Pinned, Sized, Memory, [Next]_vars PROVE Memory'
<1>1. CASE UNCHANGED memory BY <1>1 DEF memory, Memory
<1>2. ASSUME NEW stop \in SUBSET Requests, Update(stop) PROVE Memory'
  BY <1>2, NoKVType DEF Update, Forget, Memory
<1>3. CASE \/ Begin \/ EndSchedule \/ SendMeta \/ UNCHANGED vars
           \/ \E r \in Requests : \/ ScheduleRunning(r) \/ Loading(r) \/ Delay(r) \/ Admit(r)
                                  \/ Load(r) \/ Store(r) \/ Abort(r)
                                  \/ \E p \in Prompts : Arrive(r, p)
           \/ \E force \in BOOLEAN : Reset(force)
  BY <1>1, <1>3 DEF Begin, EndSchedule, SendMeta, vars, ScheduleRunning, Loading, Delay, Admit,
     Load, Store, Abort, Arrive, Reset
<1> QED BY <1>2, <1>3, ForwardMemory, CopyMemory DEF Next, Step, CopyNext

-------------------------------------------------------------------------------
\* The invariant, and what follows from it.
IInv == Shape /\ Sched /\ Counts /\ Closed /\ Linked /\ Pinned /\ Sized /\ Indexed /\ Memory

LEMMA IInvHolds == Spec => []IInv
<1>1. Init => IInv
  BY InitShape, InitSchedClosed, InitCounts, InitLinked, InitPinned, InitSized, InitMemory DEF IInv
<1>2. IInv /\ [Next]_vars => IInv'
  <2> SUFFICES ASSUME IInv, [Next]_vars PROVE IInv'
    OBVIOUS
  <2>1. Short BY CountsShort DEF IInv
  <2>2. Shape' /\ Sched' /\ Counts' /\ Closed' /\ Linked'
    BY <2>1, ShapeStep, SchedClosedStep, CountsStep, LinkedStep DEF IInv
  <2>3. Pinned' /\ Sized' /\ Indexed' /\ Memory'
    BY <2>1, <2>2, PinnedStep, SizedStep, IndexedStep, MemoryStep DEF IInv
  <2> QED BY <2>2, <2>3 DEF IInv
<1> QED BY <1>1, <1>2, PTL DEF Spec

\* The manager hears exactly once that a request has finished, whether build_connector_meta
\* or a reset tells it, and not before the connector stores no more chunks of it.
THEOREM ClosedOnceAlways == Spec => []ClosedOnce
<1>1. ASSUME IInv PROVE ClosedOnce
  <2> SUFFICES ASSUME NEW r \in Requests
               PROVE  /\ closed[r] <= 1
                      /\ closed[r] = 1 <=> /\ req[r].status # "absent"
                                           /\ ~track[r].on \/ track[r].signaled
    BY DEF ClosedOnce
  <2>1. ClosedFor(r) /\ req[r].status \in Statuses BY <1>1 DEF IInv, Closed, Shape, ReqT
  <2> QED BY <2>1 DEF ClosedFor, Active, IsFinished, Statuses
<1> QED BY <1>1, IInvHolds, PTL

\* transfer_jobs of a request and _jobs agree, a request is tracked while it has transfers,
\* and a load is alone.
THEOREM JobsTrackedAlways == Spec => []JobsTracked
<1>1. ASSUME IInv PROVE JobsTracked
  <2>1. \A j \in transfers : j.req \in Requests /\ j.id \in 1..MaxJobs
    BY <1>1 DEF IInv, Shape, JobT
  <2>2. ASSUME NEW r \in Requests PROVE track[r].jobs = Ids({j \in Known : j.req = r})
    BY <1>1, <2>1 DEF IInv, Shape, TrackT, Linked, JobsFor, Ids, Known, KnownOf
  <2>3. \A j \in Known : track[j.req].on BY <1>1 DEF IInv, Linked, JobsFor, Known, KnownOf
  <2>4. \A j \in Known : ~j.store => \A l \in Known : l.req = j.req => l = j
    BY <1>1 DEF IInv, Linked, Loads, Known, KnownOf
  <2> QED BY <2>2, <2>3, <2>4 DEF JobsTracked
<1> QED BY <1>1, IInvHolds, PTL

\* _block_id_to_pending_jobs has, for each block, exactly the stores in flight that read it
\* though it may be given away.
THEOREM FencesExactAlways == Spec => []FencesExact
<1>1. ASSUME IInv PROVE FencesExact
  <2> SUFFICES ASSUME NEW b \in Blocks
               PROVE  fences[b] = Ids({j \in Known : /\ j.store /\ b \in BlocksOf(j)
                                                     /\ window # 0 \/ IsFinished(j.req)})
    BY DEF FencesExact
  <2> DEFINE js == {j \in Known : j.store /\ b \in BlocksOf(j) /\ (window # 0 \/ IsFinished(j.req))}
  <2>1. fences[b] \subseteq 1..MaxJobs BY <1>1 DEF IInv, Shape
  <2>2. Ids(js) \subseteq 1..MaxJobs BY <1>1 DEF IInv, Shape, JobT, Ids, Known, KnownOf
  <2>3. \A i \in 1..MaxJobs : i \in fences[b] <=> i \in Ids(js)
    BY <1>1 DEF IInv, Linked, FencesFor, Fencing, Ids, Known, KnownOf
  <2> QED BY <2>1, <2>2, <2>3
<1> QED BY <1>1, IInvHolds, PTL

\* The state has its types: the numbers of tokens, ids of transfers and contents stay in
\* their ranges, no reader count or cursor becomes negative, and every copy has a slot.
THEOREM TypesAlways == Spec => []TypeOK
<1>1. ASSUME IInv PROVE TypeOK
  <2>1. Shape /\ Counts /\ Pinned /\ Memory BY <1>1 DEF IInv
  <2>2. req \in [Requests -> [status : {"absent", "waiting", "loading", "running",
                                        "stopped", "aborted"}, prompt : Prompts,
                              tokens : PromptTokens..MaxTokens, computed : 0..MaxTokens,
                              table : Seq(Blocks \cup {Null})]]
    BY <2>1, OffloadAssumption DEF Shape, ReqT, Statuses, BlockSeq, Counts, CountsFor
  <2>3. step \in [phase : {"idle", "schedule", "store", "flush", "output"}, cut : BOOLEAN,
                  visited : SUBSET Requests, todo : SUBSET Requests,
                  tokens : [Requests -> 0..MaxTokens],
                  blocks : [Requests -> Seq(Blocks \cup {Null})]]
    BY <2>1, OffloadAssumption DEF Shape, StepT, Counts, CountsFor, BlockSeq
  <2>4. track \in [Requests -> [on : BOOLEAN, blocks : Seq(Blocks \cup {Null}), next : Nat,
                                jobs : SUBSET (1..MaxJobs), signaled : BOOLEAN]]
    <3>1. ASSUME NEW r \in Requests
          PROVE  track[r] \in [on : BOOLEAN, blocks : Seq(Blocks \cup {Null}), next : Nat,
                               jobs : SUBSET (1..MaxJobs), signaled : BOOLEAN]
      BY <1>1 DEF IInv, Shape, Indexed, TrackT, BlockSeq
    <3> QED BY <2>1, <3>1 DEF Shape
  <2>5. ASSUME NEW j \in transfers
        PROVE  j \in [id : 1..MaxJobs, req : Requests, store : BOOLEAN,
                      at : {"built", "urgent", "deferred", "queued", "done"}, known : BOOLEAN,
                      moves : SUBSET [key : Keys, slot : Slots, block : Blocks]]
    BY <2>1 DEF Shape, JobT, MoveT, Pinned, MovesNamed, Naming, Places
  <2>6. host \in [Keys -> [slot : Slots \cup {Null}, ready : BOOLEAN, readers : Nat]]
    <3>1. ASSUME NEW k \in Keys
          PROVE  host[k] \in [slot : Slots \cup {Null}, ready : BOOLEAN, readers : Nat]
      BY <2>1, ReadersType DEF Pinned, ReadersCounted, Shape, HostT
    <3> QED BY <2>1, <3>1 DEF Shape
  <2>7. closed \in [Requests -> Nat] BY <1>1 DEF IInv, Shape, Closed, ClosedFor
  <2>8. /\ gpuKV \in [Blocks -> [key : Keys \cup {<<>>}, n : 0..ChunkTokens]]
        /\ slotKV \in [Slots -> [key : Keys \cup {<<>>}, n : 0..ChunkTokens]]
    BY <2>1 DEF Memory, KVT
  <2> QED BY <2>1, <2>2, <2>3, <2>4, <2>5, <2>6, <2>7, <2>8 DEF TypeOK, Shape
<1> QED BY <1>1, IInvHolds, PTL

\* What prepare_load, prepare_store and their completions rely on: the readers of a chunk are
\* the loads in flight that read it, so none of them loses its slot to another chunk; no two
\* chunks share a slot; and a transfer that the scheduler knows names the slots of its chunks,
\* which a lookup may offer exactly if it is a load.
THEOREM PinnedAlways == Spec => []Pinned
<1>1. IInv => Pinned BY DEF IInv
<1> QED BY <1>1, IInvHolds, PTL
-------------------------------------------------------------------------------
\* What the actions do to block tables: entries go, or r gets new blocks at its end.
Shrunk(q) == \A i \in DOMAIN req'[q].table : /\ i \in DOMAIN req[q].table
                                             /\ req'[q].table[i] \in {req[q].table[i], Null}

\* What ScheduleRunning and Admit do when they give tokens and blocks to r.
Granted(r) ==
    /\ step.phase = "schedule" /\ step'.phase = "schedule" /\ req'[r].status = "running"
    /\ req'[r].computed = req[r].computed /\ req'[r].tokens = req[r].tokens
    /\ req'[r].prompt = req[r].prompt
    /\ \A q \in Requests \ {r} : /\ req'[q] = req[q] /\ step'.tokens[q] = step.tokens[q]
                                 /\ step'.blocks[q] = step.blocks[q]
    /\ step.tokens[r] = 0 /\ step.blocks[r] = <<>> /\ step'.tokens[r] >= 0
    /\ Len(req[r].table) <= Len(req'[r].table)
    /\ Len(req'[r].table) = CDiv(req[r].computed + step'.tokens[r], ChunkTokens)
    /\ \A i \in 1..Len(req[r].table) : req'[r].table[i] = Kept(r)[i]
    /\ \A i \in Len(req[r].table) + 1..Len(req'[r].table) : req'[r].table[i] \in FreeFor(r)
    /\ \A i, j \in Len(req[r].table) + 1..Len(req'[r].table) :
          req'[r].table[i] = req'[r].table[j] => i = j
    /\ UNCHANGED <<window, finished, transfers, fences, flush, allocated, loading, manager, memory>>

LEMMA ConcatAt ==
    ASSUME NEW s \in BlockSeq, NEW t \in BlockSeq
    PROVE  /\ Len(s) \in Nat /\ Len(t) \in Nat
           /\ \A i \in 1..Len(s) : (s \o t)[i] = s[i]
           /\ \A i \in Len(s) + 1..Len(s) + Len(t) :
                 i - Len(s) \in 1..Len(t) /\ (s \o t)[i] = t[i - Len(s)]
BY DEF BlockSeq

GrownBy(r, n, new, t) ==
    /\ t \in BlockSeq /\ new \in BlockSeq
    /\ Len(req[r].table) \in Nat /\ Len(req[r].table) <= Len(t) /\ n >= 0
    /\ Len(t) = CDiv(req[r].computed + n, ChunkTokens)
    /\ Len(new) = Len(t) - Len(req[r].table)
    /\ \A i \in 1..Len(req[r].table) : t[i] = Kept(r)[i]
    /\ \A i \in Len(req[r].table) + 1..Len(t) :
          /\ i - Len(req[r].table) \in 1..Len(new)
          /\ t[i] = new[i - Len(req[r].table)] /\ t[i] \in FreeFor(r)
    /\ \A i, j \in Len(req[r].table) + 1..Len(t) : t[i] = t[j] => i = j

LEMMA GrownTable ==
    ASSUME Shape, Counts, NEW r \in Requests, NEW n \in Amounts(r),
           \/ Len(req[r].table) <= CDiv(req[r].computed, ChunkTokens)
           \/ /\ Len(req[r].table) <= CDiv(req[r].computed + 1, ChunkTokens)
              /\ req[r].computed < req[r].tokens,
           NEW new \in Picks(Need(r, n), FreeFor(r))
    PROVE  GrownBy(r, n, new, Kept(r) \o new)
<1>0. PICK t : t = Kept(r) \o new
  OBVIOUS
<1>1. PICK k : k = Len(req[r].table)
  OBVIOUS
<1>2. Kept(r) \in BlockSeq /\ Len(Kept(r)) = k /\ FreeFor(r) \subseteq Blocks BY <1>1, KeptType
<1>3. n \in Int /\ Need(r, n) \in Int BY AmountsType
<1>4. new \in BlockSeq /\ new \in [1..Need(r, n) -> FreeFor(r)]
      /\ \A i, j \in 1..Need(r, n) : new[i] = new[j] => i = j
  BY <1>2, <1>3, PicksType DEF Picks
<1>5. /\ t \in BlockSeq /\ Len(t) = k + Len(new) /\ Len(new) \in Nat /\ k \in Nat
      /\ \A i \in 1..k : t[i] = Kept(r)[i]
      /\ \A i \in k + 1..k + Len(new) : i - k \in 1..Len(new) /\ t[i] = new[i - k]
  BY <1>0, <1>2, <1>4, ConcatType, ConcatAt
<1>6. Len(t) = CDiv(req[r].computed + n, ChunkTokens) BY <1>0, NeedType
<1>7. n >= 0 BY OffloadAssumption DEF Amounts, Least, Shape, ReqT, Counts, CountsFor
<1>8. 1..Len(new) = 1..Need(r, n) BY <1>4 DEF BlockSeq
<1>9. \A i \in k + 1..k + Len(new) : t[i] \in FreeFor(r) BY <1>4, <1>5, <1>8
<1>10. \A i, j \in k + 1..k + Len(new) : t[i] = t[j] => i = j
  <2> SUFFICES ASSUME NEW i \in k + 1..k + Len(new), NEW j \in k + 1..k + Len(new), t[i] = t[j]
               PROVE  i = j
    OBVIOUS
  <2>1. /\ i - k \in 1..Need(r, n) /\ t[i] = new[i - k]
        /\ j - k \in 1..Need(r, n) /\ t[j] = new[j - k]
    BY <1>5, <1>8
  <2>2. i - k = j - k BY <1>4, <2>1
  <2> QED BY <1>5, <2>2
<1>11. Len(new) = Len(t) - k /\ k <= Len(t) BY <1>5
<1> QED BY <1>0, <1>1, <1>4, <1>5, <1>6, <1>7, <1>9, <1>10, <1>11 DEF GrownBy

\* The blocks that a request in Running has are those of what is computed.
LEMMA AdmitGranted ==
    ASSUME Shape, Sched, Counts, Sized, NEW r \in Requests, Admit(r)
    PROVE  /\ Granted(r) /\ req[r].status = "waiting"
           /\ step'.blocks[r] = req'[r].table
           /\ track' = [track EXCEPT ![r].blocks = IF req[r].computed = 0 THEN <<>> ELSE @]
           /\ preempted' = preempted /\ received' = received
<1>1. /\ step.phase = "schedule" /\ req[r].status = "waiting"
      /\ step.tokens[r] = 0 /\ step.blocks[r] = <<>>
  BY DEF Admit, Considers, Turn, Sched
<1>2. PICK n \in Amounts(r) : \E new \in Picks(Need(r, n), FreeFor(r)) :
          /\ req' = [req EXCEPT ![r].table = Kept(r) \o new, ![r].status = "running"]
          /\ step' = [step EXCEPT !.visited = @ \cup {r}, !.tokens[r] = n,
                                  !.blocks[r] = Kept(r) \o new]
  BY DEF Admit
<1>3. PICK new \in Picks(Need(r, n), FreeFor(r)) :
          /\ req' = [req EXCEPT ![r].table = Kept(r) \o new, ![r].status = "running"]
          /\ step' = [step EXCEPT !.visited = @ \cup {r}, !.tokens[r] = n,
                                  !.blocks[r] = Kept(r) \o new]
  BY <1>2
<1>4. PICK t : t = Kept(r) \o new
  OBVIOUS
<1>5. /\ \A q \in Requests \ {r} : /\ req'[q] = req[q] /\ step'.tokens[q] = step.tokens[q]
                                   /\ step'.blocks[q] = step.blocks[q]
      /\ req'[r].status = "running" /\ req'[r].computed = req[r].computed
      /\ req'[r].tokens = req[r].tokens /\ req'[r].prompt = req[r].prompt
      /\ req'[r].table = t /\ step'.tokens[r] = n /\ step'.blocks[r] = t
      /\ step'.phase = "schedule"
  BY <1>1, <1>3, <1>4 DEF Shape, ReqT, StepT
<1>6. /\ Len(req[r].table) <= CDiv(req[r].computed + 1, ChunkTokens)
      /\ req[r].computed < req[r].tokens
  BY <1>1 DEF Sized, SizedFor
<1>7. /\ Len(req[r].table) <= Len(t) /\ n >= 0 /\ Len(t) = CDiv(req[r].computed + n, ChunkTokens)
      /\ \A i \in 1..Len(req[r].table) : t[i] = Kept(r)[i]
      /\ \A i \in Len(req[r].table) + 1..Len(t) : t[i] \in FreeFor(r)
      /\ \A i, j \in Len(req[r].table) + 1..Len(t) : t[i] = t[j] => i = j
  <2>1. \/ Len(req[r].table) <= CDiv(req[r].computed, ChunkTokens)
        \/ /\ Len(req[r].table) <= CDiv(req[r].computed + 1, ChunkTokens)
           /\ req[r].computed < req[r].tokens
    BY <1>6
  <2>2. GrownBy(r, n, new, t) BY <1>4, <2>1, GrownTable
  <2> QED BY <2>2 DEF GrownBy
<1>8. Granted(r)
  <2>1. UNCHANGED <<window, finished, transfers, fences, flush, allocated, loading, manager, memory>>
    BY DEF Admit
  <2> QED BY <1>1, <1>5, <1>7, <2>1 DEF Granted
<1> QED BY <1>1, <1>5, <1>8 DEF Admit

\* ScheduleRunning gives r tokens, or takes the blocks of the last of Running.
Grants(r) ==
    /\ Granted(r) /\ req[r].status = "running" /\ Len(req[r].table) \in Nat
    /\ Len(step'.blocks[r]) = Len(req'[r].table) - Len(req[r].table)
    /\ \A i \in 1..Len(step'.blocks[r]) :
          req'[r].table[Len(req[r].table) + i] = step'.blocks[r][i]
    /\ preempted' = preempted
Preempts(r) ==
    /\ step.phase = "schedule" /\ step'.phase = "schedule"
    /\ step'.tokens = step.tokens /\ step'.blocks = step.blocks
    /\ req[r].status = "running" /\ step.tokens[r] = 0 /\ step.blocks[r] = <<>>
    /\ UNCHANGED <<window, finished, transfers, fences, flush, allocated, loading, manager, memory>>
    /\ \E v \in Running :
          /\ req'[v].status = "waiting" /\ req'[v].computed = 0 /\ req'[v].table = <<>>
          /\ req'[v].tokens = req[v].tokens /\ req'[v].prompt = req[v].prompt
          /\ preempted' = preempted \cup {v}
          /\ step.tokens[v] = 0 /\ step.blocks[v] = <<>>
          /\ \A q \in Requests \ {v} : 
                /\ req'[q].status = req[q].status /\ req'[q].computed = req[q].computed
                /\ req'[q].tokens = req[q].tokens /\ req'[q].prompt = req[q].prompt
                /\ req'[q].table = IF q = r THEN Kept(r) ELSE req[q].table

LEMMA ScheduleRunningCases ==
    ASSUME Shape, Sched, Counts, Sized, NEW r \in Requests, ScheduleRunning(r)
    PROVE  (Grants(r) \/ Preempts(r)) /\ track' = track /\ received' = received
<1>1. /\ step.phase = "schedule" /\ req[r].status = "running" /\ r \notin step.visited
      /\ step.tokens[r] = 0 /\ step.blocks[r] = <<>>
  BY DEF ScheduleRunning, Turn, Running, Sched
<1>2. /\ track' = track /\ received' = received
      /\ UNCHANGED <<window, finished, transfers, fences, flush, allocated, loading, manager, memory>>
  BY DEF ScheduleRunning, connector
<1>3. CASE /\ \E n \in Amounts(r) : \E new \in Picks(Need(r, n), FreeFor(r)) :
                /\ req' = [req EXCEPT ![r].table = Kept(r) \o new]
                /\ step' = [step EXCEPT !.visited = @ \cup {r}, !.tokens[r] = n, !.blocks[r] = new]
           /\ UNCHANGED <<order, preempted>>
  <2>1. PICK n \in Amounts(r) : \E new \in Picks(Need(r, n), FreeFor(r)) :
                /\ req' = [req EXCEPT ![r].table = Kept(r) \o new]
                /\ step' = [step EXCEPT !.visited = @ \cup {r}, !.tokens[r] = n, !.blocks[r] = new]
    BY <1>3
  <2>2. PICK new \in Picks(Need(r, n), FreeFor(r)) :
                /\ req' = [req EXCEPT ![r].table = Kept(r) \o new]
                /\ step' = [step EXCEPT !.visited = @ \cup {r}, !.tokens[r] = n, !.blocks[r] = new]
    BY <2>1
  <2>3. PICK t : t = Kept(r) \o new
    OBVIOUS
  <2>4. /\ \A q \in Requests \ {r} : /\ req'[q] = req[q] /\ step'.tokens[q] = step.tokens[q]
                                     /\ step'.blocks[q] = step.blocks[q]
        /\ req'[r].status = "running" /\ req'[r].computed = req[r].computed
        /\ req'[r].tokens = req[r].tokens /\ req'[r].prompt = req[r].prompt
        /\ req'[r].table = t /\ step'.tokens[r] = n /\ step'.blocks[r] = new
        /\ step'.phase = "schedule"
    BY <1>1, <2>2, <2>3 DEF Shape, ReqT, StepT
  <2>5. Len(req[r].table) <= CDiv(req[r].computed, ChunkTokens)
    BY <1>1 DEF Ahead, Shape, ReqT, Sized, SizedFor
  <2>6. /\ Len(req[r].table) <= Len(t) /\ n >= 0
        /\ Len(t) = CDiv(req[r].computed + n, ChunkTokens)
        /\ Len(req[r].table) \in Nat /\ Len(new) = Len(t) - Len(req[r].table) /\ t \in BlockSeq
        /\ \A i \in 1..Len(req[r].table) : t[i] = Kept(r)[i]
        /\ \A i \in Len(req[r].table) + 1..Len(t) :
               t[i] = new[i - Len(req[r].table)] /\ t[i] \in FreeFor(r)
        /\ \A i, j \in Len(req[r].table) + 1..Len(t) : t[i] = t[j] => i = j
    <3>1. \/ Len(req[r].table) <= CDiv(req[r].computed, ChunkTokens)
          \/ /\ Len(req[r].table) <= CDiv(req[r].computed + 1, ChunkTokens)
             /\ req[r].computed < req[r].tokens
      BY <2>5
    <3>2. GrownBy(r, n, new, t) BY <2>3, <3>1, GrownTable
    <3> QED BY <3>2 DEF GrownBy
  <2>7. Granted(r) BY <1>1, <1>2, <2>4, <2>6 DEF Granted
  <2>8. ASSUME NEW i \in 1..Len(new) PROVE t[Len(req[r].table) + i] = new[i]
    <3>1. /\ Len(req[r].table) + i \in Len(req[r].table) + 1..Len(t)
          /\ (Len(req[r].table) + i) - Len(req[r].table) = i
      <4>1. PICK k, l, m : k = Len(req[r].table) /\ l = Len(new) /\ m = Len(t)
        OBVIOUS
      <4>2. k \in Nat /\ l = m - k /\ i \in 1..l /\ m \in Nat BY <2>6, <2>8, <4>1 DEF BlockSeq
      <4> QED BY <4>1, <4>2
    <3> QED BY <2>6, <3>1
  <2> QED BY <1>1, <1>2, <1>3, <2>4, <2>6, <2>7, <2>8 DEF Grants
<1>4. CASE /\ \E v \in Running :
                /\ \A q \in Running : <<v, q>> \notin order
                /\ req' = [Preempted({v}) EXCEPT ![r].table = IF r = v THEN <<>> ELSE Kept(r)]
                /\ PutBack({v})
           /\ step' = [step EXCEPT !.cut = TRUE]
  <2>1. PICK v \in Running :
                /\ \A q \in Running : <<v, q>> \notin order
                /\ req' = [Preempted({v}) EXCEPT ![r].table = IF r = v THEN <<>> ELSE Kept(r)]
                /\ PutBack({v})
    BY <1>4
  <2>2. v \in Requests /\ step'.phase = "schedule" /\ step'.tokens = step.tokens
        /\ step'.blocks = step.blocks
    BY <1>1, <1>4 DEF Running, Shape, StepT
  <2>3. /\ req'[v].status = "waiting" /\ req'[v].computed = 0 /\ req'[v].table = <<>>
        /\ req'[v].tokens = req[v].tokens /\ req'[v].prompt = req[v].prompt
    BY <2>1, <2>2 DEF Preempted, Shape, ReqT
  <2>4. ASSUME NEW q \in Requests \ {v}
        PROVE  /\ req'[q].status = req[q].status /\ req'[q].computed = req[q].computed
               /\ req'[q].tokens = req[q].tokens /\ req'[q].prompt = req[q].prompt
               /\ req'[q].table = IF q = r THEN Kept(r) ELSE req[q].table
    BY <2>1, <2>2, <2>4 DEF Preempted, Shape, ReqT
  <2>5. step.tokens[v] = 0 /\ step.blocks[v] = <<>> BY <1>1, <2>1, <2>2 DEF Sched, Running
  <2>6. preempted' = preempted \cup {v} BY <2>1 DEF PutBack
  <2> QED BY <1>1, <1>2, <2>2, <2>3, <2>4, <2>5, <2>6 DEF Preempts
<1> QED BY <1>2, <1>3, <1>4 DEF ScheduleRunning

\* What Load does: a new table for r, a transfer that fills it, and its blocks given away.
Filled(r, j) ==
    /\ j \in JobT /\ j.id \in NextIds /\ j.req = r /\ ~j.store /\ j.at = "built" /\ j.known
    /\ \A m \in j.moves : \E i \in Skipped(Hit(r)) + 1..CDiv(Hit(r), ChunkTokens) :
          m = [key |-> KeyOf(r, i), slot |-> host[KeyOf(r, i)].slot, block |-> req'[r].table[i]]
    /\ \A i \in Skipped(Hit(r)) + 1..CDiv(Hit(r), ChunkTokens) :
          \E m \in j.moves : m.key = KeyOf(r, i)
LoadsNow(r) ==
    /\ step.phase = "schedule" /\ step'.phase = "schedule"
    /\ step'.tokens = step.tokens /\ step'.blocks = step.blocks
    /\ step.tokens[r] = 0 /\ step.blocks[r] = <<>>
    /\ req[r].status = "waiting" /\ req'[r].status = "loading" /\ req'[r].computed = Hit(r)
    /\ req'[r].tokens = req[r].tokens /\ req'[r].prompt = req[r].prompt
    /\ \A q \in Requests \ {r} : req'[q] = req[q] /\ track'[q] = track[q]
    /\ track'[r].blocks = <<>>
    /\ DOMAIN req'[r].table = 1..CDiv(Hit(r), ChunkTokens)
    /\ \A i \in DOMAIN req'[r].table :
          IF i <= Skipped(Hit(r)) THEN req'[r].table[i] = Null
          ELSE req'[r].table[i] \in Free /\ req'[r].table[i] \in allocated'
    /\ \A i, j \in DOMAIN req'[r].table :
          req'[r].table[i] = req'[r].table[j] => i = j \/ req'[r].table[i] = Null
    /\ allocated \subseteq allocated'
    /\ \E j : transfers' = transfers \cup {j} /\ Filled(r, j)
    /\ \A k \in Keys : host'[k].slot = host[k].slot /\ host'[k].ready = host[k].ready
    /\ UNCHANGED <<window, finished, preempted, received, fences, flush, memory>>

LEMMA LoadNow ==
    ASSUME Shape, Short, Sched, NEW r \in Requests, Load(r) PROVE LoadsNow(r)
<1>1. /\ step.phase = "schedule" /\ req[r].status = "waiting" /\ Hit(r) > 0
      /\ step.tokens[r] = 0 /\ step.blocks[r] = <<>>
  BY DEF Load, Considers, Turn, Sched
<1>2. PICK h : h = Hit(r)
  OBVIOUS
<1>3. PICK new \in Picks(LoadBlocks(Hit(r)), Free), id \in NextIds :
          LET load == Transfer(id, r, FALSE, "built", LoadMoves(r, Hit(r), new))
          IN  /\ req' = [req EXCEPT ![r].table = LoadTable(Hit(r), new), ![r].computed = Hit(r),
                                    ![r].status = "loading"]
              /\ track' = [track EXCEPT ![r].blocks = <<>>, ![r].next = CDiv(Hit(r), ChunkTokens),
                                        ![r].jobs = {id}]
              /\ transfers' = transfers \cup {load}
              /\ allocated' = allocated \cup Range(new)
              /\ host' = [k \in Keys |-> [host[k] EXCEPT
                             !.readers = @ + (IF k \in KeysOf(load) THEN 1 ELSE 0)]]
  BY DEF Load
<1>4. /\ step'.phase = "schedule" /\ step'.tokens = step.tokens /\ step'.blocks = step.blocks
  BY <1>1 DEF Load, Shape, StepT
<1>5. /\ req'[r].status = "loading" /\ req'[r].computed = h /\ req'[r].table = LoadTable(h, new)
      /\ req'[r].tokens = req[r].tokens /\ req'[r].prompt = req[r].prompt
      /\ \A q \in Requests \ {r} : req'[q] = req[q] /\ track'[q] = track[q]
      /\ track'[r].blocks = <<>>
  BY <1>2, <1>3 DEF Shape, ReqT, TrackT
<1>6. PICK all : all = CDiv(h, ChunkTokens)
  OBVIOUS
<1>7. PICK s : s = Skipped(h)
  OBVIOUS
<1>8. /\ h \in Int /\ all \in Int /\ s \in Nat /\ LoadBlocks(h) = all - s
      /\ LoadMoves(r, h, new) \subseteq MoveT
  BY <1>1, <1>2, <1>3, <1>6, <1>7, LoadTypes, SkippedType DEF Short
<1>9. /\ new \in [1..all - s -> Free]
      /\ \A i, j \in 1..all - s : new[i] = new[j] => i = j
      /\ Null \notin Free
  BY <1>2, <1>3, <1>8, OffloadAssumption DEF Picks, Free
<1>10. req'[r].table = [i \in 1..all |-> IF i <= s THEN Null ELSE new[i - s]]
  BY <1>5, <1>6, <1>7 DEF LoadTable
<1>11. DOMAIN req'[r].table = 1..all BY <1>10
<1>12. ASSUME NEW i \in 1..all
       PROVE  /\ i <= s => req'[r].table[i] = Null
              /\ ~(i <= s) => /\ i - s \in 1..all - s /\ req'[r].table[i] = new[i - s]
                              /\ req'[r].table[i] \in Free
                              /\ req'[r].table[i] \in Range(new)
  BY <1>8, <1>9, <1>10 DEF Range
<1>13. ASSUME NEW i \in 1..all, NEW j \in 1..all, req'[r].table[i] = req'[r].table[j],
              req'[r].table[i] # Null
       PROVE  i = j
  <2>1. i - s \in 1..all - s /\ j - s \in 1..all - s /\ new[i - s] = new[j - s]
    BY <1>9, <1>12, <1>13
  <2>2. i - s = j - s BY <1>9, <2>1
  <2> QED BY <1>8, <2>2
<1>14. PICK j : j = Transfer(id, r, FALSE, "built", LoadMoves(r, h, new))
  OBVIOUS
<1>15. /\ j.id = id /\ j.req = r /\ j.store = FALSE /\ j.at = "built" /\ j.known = TRUE
       /\ j.moves = LoadMoves(r, h, new)
       /\ j = [id |-> id, req |-> r, store |-> FALSE, at |-> "built", known |-> TRUE,
               moves |-> LoadMoves(r, h, new)]
  BY <1>14 DEF Transfer
<1>16. Filled(r, j)
  <2>1. j \in JobT
    <3>1. id \in 1..MaxJobs BY <1>3, IdsType
    <3> QED BY <1>8, <1>15, <3>1 DEF JobT, Places
  <2>2. ASSUME NEW m \in j.moves
        PROVE  \E i \in s + 1..all :
                  m = [key |-> KeyOf(r, i), slot |-> host[KeyOf(r, i)].slot,
                       block |-> req'[r].table[i]]
    <3>1. PICK i \in s + 1..all :
              m = [key |-> KeyOf(r, i), slot |-> host[KeyOf(r, i)].slot, block |-> new[i - s]]
      BY <1>6, <1>7, <1>15, <2>2 DEF LoadMoves
    <3>2. i \in 1..all /\ ~(i <= s) BY <1>8, <3>1
    <3>3. req'[r].table[i] = new[i - s] BY <1>12, <3>2
    <3> QED BY <3>1, <3>3
  <2>3. ASSUME NEW i \in s + 1..all PROVE \E m \in j.moves : m.key = KeyOf(r, i)
    <3>1. [key |-> KeyOf(r, i), slot |-> host[KeyOf(r, i)].slot, block |-> new[i - s]]
             \in j.moves
      BY <1>6, <1>7, <1>15 DEF LoadMoves
    <3> QED BY <3>1
  <2> QED BY <1>2, <1>6, <1>7, <1>15, <2>1, <2>2, <2>3 DEF Filled
<1>17. transfers' = transfers \cup {j} /\ allocated' = allocated \cup Range(new)
  BY <1>2, <1>3, <1>14
<1>18. ASSUME NEW k \in Keys PROVE host'[k].slot = host[k].slot /\ host'[k].ready = host[k].ready
  BY <1>2, <1>3, <1>14 DEF Shape, HostT
<1>19. UNCHANGED <<window, finished, preempted, received, fences, flush, memory>> BY DEF Load
<1>20. \A i \in DOMAIN req'[r].table :
          IF i <= s THEN req'[r].table[i] = Null
          ELSE req'[r].table[i] \in Free /\ req'[r].table[i] \in allocated'
  BY <1>11, <1>12, <1>17
<1>21. \A i, k \in DOMAIN req'[r].table :
          req'[r].table[i] = req'[r].table[k] => i = k \/ req'[r].table[i] = Null
  BY <1>11, <1>13
<1>22. allocated \subseteq allocated' /\ \E k : transfers' = transfers \cup {k} /\ Filled(r, k)
  BY <1>16, <1>17
<1> QED
  BY <1>1, <1>2, <1>4, <1>5, <1>6, <1>7, <1>11, <1>18, <1>19, <1>20, <1>21, <1>22 DEF LoadsNow

-------------------------------------------------------------------------------
\* No block is in two tables, or twice in one.
Apart == \A q, r \in Requests : \A i \in DOMAIN req[q].table, j \in DOMAIN req[r].table :
            req[q].table[i] = req[r].table[j] => req[q].table[i] = Null \/ (q = r /\ i = j)

\* Steps in which no table gets new blocks.
LEMMA Shrinking ==
    ASSUME Shape, Short, Sched, Counts, Sized, [Next]_vars,
           ~ \E r \in Requests : Granted(r) \/ LoadsNow(r)
    PROVE  \A q \in Requests : Shrunk(q)
<1> USE DEF Shrunk
<1>1. CASE req' = req BY <1>1
<1>2. ASSUME NEW r \in Requests, NEW p \in Prompts, Arrive(r, p)
      PROVE  \A q \in Requests : req'[q].table = req[q].table
  BY <1>2 DEF Arrive, Shape, ReqT
<1>3. ASSUME NEW r \in Requests, Abort(r)
      PROVE  \A q \in Requests : req'[q].table \in {<<>>, req[q].table}
  BY <1>3 DEF Abort, Held, Shape, ReqT
<1>4. ASSUME NEW force \in BOOLEAN, Reset(force)
      PROVE  \A q \in Requests : req'[q].table \in {<<>>, req[q].table}
  BY <1>4 DEF Reset, Preempted, Shape, ReqT
<1>5. ASSUME NEW r \in Requests, Preempts(r) PROVE \A q \in Requests : Shrunk(q)
  <2>1. \A q \in Requests : req'[q].table \in {<<>>, req[q].table, Kept(q)} BY <1>5 DEF Preempts
  <2>2. \A q \in Requests : DOMAIN Kept(q) = DOMAIN req[q].table BY DEF Kept
  <2>3. \A q \in Requests : \A i \in DOMAIN req[q].table : Kept(q)[i] \in {req[q].table[i], Null}
    BY DEF Kept
  <2> QED BY <2>1, <2>2, <2>3
<1>6. ASSUME NEW r \in Requests, Loading(r)
      PROVE  \A q \in Requests : req'[q].table = req[q].table
  BY <1>6 DEF Loading, Shape, ReqT
<1>7. ASSUME SendMeta PROVE \A q \in Requests : req'[q].table = req[q].table
  BY <1>7 DEF SendMeta, Shape, ReqT
<1>8. ASSUME NEW stop \in SUBSET Requests, Update(stop)
      PROVE  \A q \in Requests : req'[q].table \in {<<>>, req[q].table}
  BY <1>8 DEF Update, Shape, ReqT
<1>9. CASE \/ Begin \/ EndSchedule \/ Forward \/ CopyNext \/ UNCHANGED vars
           \/ \E r \in Requests : Delay(r) \/ Store(r)
  <2>1. req' = req
    BY <1>9 DEF Begin, EndSchedule, Forward, CopyNext, Copy, vars, engine, Delay, Store
  <2> QED BY <2>1
<1>10. \A r \in Requests : ~Admit(r) /\ ~Load(r) /\ ~Grants(r)
  BY AdmitGranted, LoadNow DEF Grants
<1>11. ASSUME \A q \in Requests : req'[q].table \in {<<>>, req[q].table}
       PROVE  \A q \in Requests : Shrunk(q)
  BY <1>11
<1> QED BY <1>2, <1>3, <1>4, <1>5, <1>6, <1>7, <1>8, <1>9, <1>10, <1>11, ScheduleRunningCases
     DEF Next, Step

LEMMA FreeForNew ==
    ASSUME Shape, Apart, NEW r \in Requests, NEW b \in FreeFor(r)
    PROVE  /\ b \in Blocks /\ b # Null
           /\ \A q \in Requests \ {r} : \A i \in DOMAIN req[q].table : req[q].table[i] # b
           /\ \A i \in DOMAIN req[r].table : Kept(r)[i] # b
<1>1. b \in Blocks /\ b # Null BY KeptType, OffloadAssumption
<1>2. DOMAIN Kept(r) = DOMAIN req[r].table
        /\ \A i \in DOMAIN req[r].table : Kept(r)[i] \in {req[r].table[i], Null}
  BY DEF Kept
<1>3. CASE b \in Free BY <1>1, <1>2, <1>3 DEF Free, Range
<1>4. CASE b \in Range(req[r].table) /\ b \notin Range(Kept(r))
  <2>1. PICK i \in DOMAIN req[r].table : req[r].table[i] = b BY <1>4 DEF Range
  <2>2. \A q \in Requests \ {r} : \A j \in DOMAIN req[q].table : req[q].table[j] # b
    BY <1>1, <2>1 DEF Apart
  <2> QED BY <1>1, <1>2, <1>4, <2>2 DEF Range
<1> QED BY <1>1, <1>3, <1>4 DEF FreeFor

LEMMA TableType ==
    ASSUME Shape, NEW r \in Requests
    PROVE  /\ req[r].table \in BlockSeq /\ Len(req[r].table) \in Nat
           /\ DOMAIN req[r].table = 1..Len(req[r].table)
           /\ \A i \in DOMAIN req[r].table : req[r].table[i] \in Blocks \cup {Null}
BY DEF Shape, ReqT, BlockSeq

\* Where an entry of the new table of r comes from.
LEMMA GrantedTable ==
    ASSUME Shape, Shape', NEW r \in Requests, Granted(r), NEW i \in DOMAIN req'[r].table
    PROVE  \/ /\ i \in DOMAIN req[r].table /\ i <= Len(req[r].table)
              /\ req'[r].table[i] = Kept(r)[i] /\ req'[r].table[i] \in {req[r].table[i], Null}
           \/ i \in Len(req[r].table) + 1..Len(req'[r].table) /\ req'[r].table[i] \in FreeFor(r)
<1>1. PICK k, l : k = Len(req[r].table) /\ l = Len(req'[r].table)
  OBVIOUS
<1>2. /\ k \in Nat /\ l \in Nat /\ DOMAIN req[r].table = 1..k /\ DOMAIN req'[r].table = 1..l
  BY <1>1 DEF Shape, ReqT, BlockSeq
<1>3. CASE i <= k
  <2>1. i \in 1..k BY <1>2, <1>3
  <2>2. req'[r].table[i] = Kept(r)[i] BY <1>1, <2>1 DEF Granted
  <2>3. Kept(r)[i] \in {req[r].table[i], Null} BY <1>2, <2>1 DEF Kept
  <2> QED BY <1>1, <1>2, <1>3, <2>1, <2>2, <2>3
<1>4. CASE ~(i <= k)
  <2>1. i \in k + 1..l BY <1>2, <1>4
  <2> QED BY <1>1, <2>1 DEF Granted
<1> QED BY <1>3, <1>4

LEMMA ApartStep ==
    ASSUME Shape, Shape', Short, Sched, Counts, Sized, Apart, [Next]_vars PROVE Apart'
<1>1. CASE \A q \in Requests : Shrunk(q) BY <1>1 DEF Apart, Shrunk
<1>2. ASSUME NEW r \in Requests, Granted(r) PROVE Apart'
  <2>1. ASSUME NEW i \in DOMAIN req'[r].table, NEW j \in DOMAIN req'[r].table,
               req'[r].table[i] = req'[r].table[j], req'[r].table[i] # Null
        PROVE  i = j
    <3>1. PICK k : k = Len(req[r].table)
      OBVIOUS
    <3>2. CASE i \in DOMAIN req[r].table /\ j \in DOMAIN req[r].table
               /\ req'[r].table[i] = req[r].table[i] /\ req'[r].table[j] = req[r].table[j]
      BY ZenonT(40), <2>1, <3>2 DEF Apart
    <3>3. CASE i \in k + 1..Len(req'[r].table) /\ j \in k + 1..Len(req'[r].table)
      BY <1>2, <2>1, <3>1, <3>3 DEF Granted
    <3>4. \A b \in FreeFor(r), h \in DOMAIN req[r].table : Kept(r)[h] # b BY FreeForNew
    <3> QED BY <1>2, <2>1, <3>1, <3>2, <3>3, <3>4, GrantedTable
  <2>2. ASSUME NEW q \in Requests \ {r}, NEW i \in DOMAIN req'[r].table,
               NEW j \in DOMAIN req[q].table, req'[r].table[i] = req[q].table[j]
        PROVE  req'[r].table[i] = Null
    BY <1>2, <2>2, FreeForNew, GrantedTable DEF Apart
  <2>3. \A q \in Requests \ {r} : req'[q] = req[q] BY <1>2 DEF Granted
  <2> QED BY <2>1, <2>2, <2>3 DEF Apart
<1>3. ASSUME NEW r \in Requests, LoadsNow(r) PROVE Apart'
  <2>1. \A i, j \in DOMAIN req'[r].table :
            req'[r].table[i] = req'[r].table[j] => i = j \/ req'[r].table[i] = Null
    BY <1>3 DEF LoadsNow
  <2>2. ASSUME NEW q \in Requests \ {r}, NEW i \in DOMAIN req'[r].table,
               NEW j \in DOMAIN req[q].table, req'[r].table[i] = req[q].table[j]
        PROVE  req'[r].table[i] = Null
    BY <1>3, <2>2 DEF LoadsNow, Free, Range
  <2>3. \A q \in Requests \ {r} : req'[q] = req[q] BY <1>3 DEF LoadsNow
  <2> QED BY <2>1, <2>2, <2>3 DEF Apart
<1> QED BY <1>1, <1>2, <1>3, Shrinking
-------------------------------------------------------------------------------
\* Tables are long enough for what is computed and scheduled, and an entry without a block is
\* one that the tokens of this step and later ones do not attend to.
Base(r) == IF step.phase \in {"flush", "output"} THEN req[r].computed - step.tokens[r]
           ELSE req[r].computed
Out(r, i) == window # 0 /\ i * ChunkTokens <= Base(r) - window + 1
FittedFor(r) ==
    /\ req[r].status = "running" =>
          Len(req[r].table) >= CDiv(req[r].computed + Ahead(r), ChunkTokens)
    /\ req[r].status \in {"absent", "waiting", "loading"} =>
          Len(req[r].table) >= CDiv(req[r].computed, ChunkTokens)
    /\ req[r].status = "loading" /\ window # 0 => req[r].computed < req[r].tokens
    /\ ~IsFinished(r) => \A i \in DOMAIN req[r].table : req[r].table[i] = Null => Out(r, i)
Fitted == \A r \in Requests : FittedFor(r)

LEMMA FittedKept ==
    ASSUME Fitted, NEW r \in Requests, window' = window,
           req'[r].status \in {req[r].status, "stopped", "aborted"},
           req'[r].status = req[r].status =>
              /\ req'[r].computed = req[r].computed /\ req'[r].table = req[r].table
              /\ req[r].status = "loading" => req'[r].tokens = req[r].tokens,
           Ahead(r)' = Ahead(r), Base(r)' = Base(r)
    PROVE  FittedFor(r)'
BY DEF Fitted, FittedFor, IsFinished, Out

\* A request starts again.
LEMMA FittedNew ==
    ASSUME NEW r \in Requests, req'[r].status \in {"absent", "waiting"}, req'[r].computed = 0,
           req'[r].table = <<>>
    PROVE  FittedFor(r)'
<1>1. CDiv(0, ChunkTokens) \in Int /\ CDiv(0, ChunkTokens) <= 0
  BY DivBounds, DivType, OffloadAssumption
<1>2. Len(<<>>) = 0 /\ DOMAIN <<>> = {}
  OBVIOUS
<1> QED BY <1>1, <1>2 DEF FittedFor

\* Blocks that are given up.
LEMMA KeptOut ==
    ASSUME Shape, NEW r \in Requests, NEW i \in DOMAIN req[r].table, Kept(r)[i] = Null,
           req[r].table[i] = Null => window # 0 /\ i * ChunkTokens <= req[r].computed - window + 1
    PROVE  window # 0 /\ i * ChunkTokens <= req[r].computed - window + 1
<1>1. CASE window # 0 /\ i <= (req[r].computed - window + 1) \div ChunkTokens
  <2>1. i \in Int /\ req[r].computed - window + 1 \in Int
    <3>1. i \in Int BY TableType
    <3>2. req[r].computed \in Int /\ window \in Int BY OffloadAssumption DEF Shape, ReqT
    <3> QED BY <3>1, <3>2
  <2>2. ChunkTokens * i <= req[r].computed - window + 1 BY <1>1, <2>1, DivBounds
  <2> QED BY <1>1, <2>1, <2>2, OffloadAssumption
<1>2. CASE ~(window # 0 /\ i <= (req[r].computed - window + 1) \div ChunkTokens)
  BY <1>2 DEF Kept
<1> QED BY <1>1, <1>2

LEMMA GrantedFitted ==
    ASSUME Shape, Shape', Apart, Fitted, NEW r \in Requests, ~IsFinished(r), Granted(r)
    PROVE  Fitted'
<1>1. /\ step.phase = "schedule" /\ step'.phase = "schedule" /\ req'[r].status = "running"
      /\ req'[r].computed = req[r].computed /\ window' = window
      /\ \A q \in Requests \ {r} : /\ req'[q] = req[q] /\ step'.tokens[q] = step.tokens[q]
                                   /\ step'.blocks[q] = step.blocks[q]
      /\ Len(req'[r].table) = CDiv(req[r].computed + step'.tokens[r], ChunkTokens)
  BY DEF Granted
<1>2. \A q \in Requests \ {r} : FittedFor(q)' BY <1>1, FittedKept DEF Ahead, Base
<1>3. Base(r) = req[r].computed /\ Base(r)' = req[r].computed /\ Ahead(r)' = step'.tokens[r]
  BY <1>1 DEF Base, Ahead
<1>4. ASSUME NEW i \in DOMAIN req'[r].table, req'[r].table[i] = Null PROVE Out(r, i)'
  BY <1>1, <1>3, <1>4, GrantedTable, FreeForNew, KeptOut DEF Fitted, FittedFor, Out
<1>5. Len(req'[r].table) >= CDiv(req'[r].computed + Ahead(r)', ChunkTokens)
  BY <1>1, <1>3, DivType DEF Shape, ReqT, StepT
<1>6. FittedFor(r)' BY <1>1, <1>4, <1>5 DEF FittedFor
<1> QED BY <1>2, <1>6 DEF Fitted

LEMMA PreemptsFitted ==
    ASSUME Shape, Fitted, NEW r \in Requests, Preempts(r) PROVE Fitted'
<1>1. PICK v \in Running :
          /\ req'[v].status = "waiting" /\ req'[v].computed = 0 /\ req'[v].table = <<>>
          /\ \A q \in Requests \ {v} :
                /\ req'[q].status = req[q].status /\ req'[q].computed = req[q].computed
                /\ req'[q].tokens = req[q].tokens
                /\ req'[q].table = IF q = r THEN Kept(r) ELSE req[q].table
  BY DEF Preempts
<1>2. /\ window' = window /\ step.phase = "schedule" /\ req[r].status = "running"
      /\ \A q \in Requests \ {v} : Ahead(q)' = Ahead(q) /\ Base(q)' = Base(q)
      /\ \A q \in Requests : Base(q) = req[q].computed
  BY <1>1 DEF Preempts, Ahead, Base
<1>3. FittedFor(v)' BY <1>1, FittedNew DEF Running
<1>4. \A q \in Requests \ {v, r} : FittedFor(q)' BY <1>1, <1>2, FittedKept
<1>5. ASSUME r # v PROVE FittedFor(r)'
  <2>1. Len(req'[r].table) = Len(req[r].table) /\ req'[r].table = Kept(r)
        /\ DOMAIN Kept(r) = DOMAIN req[r].table
    BY <1>1, <1>5, KeptType DEF Kept
  <2>2. ASSUME NEW i \in DOMAIN req[r].table, Kept(r)[i] = Null PROVE Out(r, i)'
    BY <1>2, <1>5, <2>2, KeptOut DEF Fitted, FittedFor, Out, IsFinished
  <2> QED BY <1>1, <1>2, <1>5, <2>1, <2>2 DEF Fitted, FittedFor
<1> QED BY <1>3, <1>4, <1>5 DEF Fitted

LEMMA LoadFitted ==
    ASSUME Shape, Shape', Fitted, NEW r \in Requests, Hit(r) > 0, LoadsNow(r) PROVE Fitted'
<1>1. /\ step.phase = "schedule" /\ step'.phase = "schedule" /\ step'.tokens = step.tokens
      /\ req'[r].status = "loading" /\ req'[r].computed = Hit(r) /\ req'[r].tokens = req[r].tokens
      /\ \A q \in Requests \ {r} : req'[q] = req[q]
      /\ DOMAIN req'[r].table = 1..CDiv(Hit(r), ChunkTokens)
      /\ window' = window
  BY DEF LoadsNow
<1>2. \A q \in Requests \ {r} : FittedFor(q)' BY <1>1, FittedKept DEF Ahead, Base
<1>3. Hit(r) \in Int /\ (window # 0 => Hit(r) < req[r].tokens) /\ window \in Nat
  BY LookupType, OffloadAssumption DEF Shape
<1>4. Len(req'[r].table) = CDiv(Hit(r), ChunkTokens)
  <2>1. CDiv(Hit(r), ChunkTokens) \in Nat BY <1>3, OffloadAssumption DEF CDiv
  <2>2. req'[r].table \in BlockSeq BY DEF Shape, ReqT
  <2> QED BY <1>1, <2>1, <2>2 DEF BlockSeq
<1>5. ASSUME NEW i \in DOMAIN req'[r].table, req'[r].table[i] = Null PROVE Out(r, i)'
  <2>1. i <= Skipped(Hit(r)) /\ i \in Int /\ i >= 1
    <3>1. req'[r].table[i] \notin Free BY <1>5, OffloadAssumption DEF Free
    <3>2. CDiv(Hit(r), ChunkTokens) \in Int BY <1>3, DivType
    <3> QED BY <1>1, <1>5, <3>1, <3>2 DEF LoadsNow
  <2>2. window # 0 /\ i <= Most(0, Hit(r) - window + 1) \div ChunkTokens BY <2>1 DEF Skipped
  <2>3. Most(0, Hit(r) - window + 1) \in Int BY <1>3 DEF Most
  <2>4. ChunkTokens * i <= Most(0, Hit(r) - window + 1) BY <2>1, <2>2, <2>3, DivBounds
  <2>5. ChunkTokens * i \in Int /\ ChunkTokens * i > 0 /\ ChunkTokens * i = i * ChunkTokens
    BY <2>1, OffloadAssumption
  <2>6. i * ChunkTokens <= Hit(r) - window + 1 BY <1>3, <2>3, <2>4, <2>5 DEF Most
  <2>7. Base(r)' = Hit(r) BY <1>1 DEF Base
  <2> QED BY <1>1, <2>2, <2>6, <2>7 DEF Out
<1>6. Len(req'[r].table) >= CDiv(req'[r].computed, ChunkTokens) BY <1>1, <1>3, <1>4, DivType
<1>7. FittedFor(r)' BY <1>1, <1>3, <1>5, <1>6 DEF FittedFor
<1> QED BY <1>2, <1>7 DEF Fitted

LEMMA LoadingFitted ==
    ASSUME Shape, Counts, Fitted, NEW r \in Requests, Loading(r) PROVE Fitted'
<1>1. step.phase = "schedule" /\ req[r].status = "loading" /\ window' = window
  BY DEF Loading, Considers, Turn
<1>2. /\ \A q \in Requests \ {r} : req'[q] = req[q]
      /\ req'[r].tokens = req[r].tokens /\ req'[r].table = req[r].table
      /\ \/ req'[r] = req[r]
         \/ /\ req'[r].status = "waiting"
            /\ req'[r].computed = IF req[r].computed = req[r].tokens THEN req[r].computed - 1
                                  ELSE req[r].computed
      /\ step'.phase = "schedule" /\ step'.tokens = step.tokens
  BY <1>1 DEF Loading, Shape, ReqT, StepT
<1>3. \A q \in Requests : Ahead(q)' = Ahead(q) /\ Base(q) = req[q].computed
                          /\ Base(q)' = req'[q].computed
  BY <1>1, <1>2 DEF Ahead, Base
<1>4. \A q \in Requests : req'[q] = req[q] => FittedFor(q)' BY <1>1, <1>3, FittedKept
<1>5. CASE /\ req'[r].status = "waiting"
           /\ req'[r].computed = IF req[r].computed = req[r].tokens THEN req[r].computed - 1
                                 ELSE req[r].computed
  <2>1. req[r].computed \in Int /\ req'[r].computed \in Int /\ req'[r].computed <= req[r].computed
    BY <1>5 DEF Shape, ReqT
  <2>2. CDiv(req'[r].computed, ChunkTokens) <= CDiv(req[r].computed, ChunkTokens)
        /\ CDiv(req'[r].computed, ChunkTokens) \in Int /\ CDiv(req[r].computed, ChunkTokens) \in Int
    BY <2>1, DivMonotone, DivType
  <2>3. Len(req'[r].table) >= CDiv(req'[r].computed, ChunkTokens)
    BY <1>1, <1>2, <2>2, TableType DEF Fitted, FittedFor
  <2>4. ASSUME NEW i \in DOMAIN req[r].table, req[r].table[i] = Null PROVE Out(r, i)'
    <3>1. Out(r, i) /\ (window # 0 => req[r].computed < req[r].tokens)
      BY <1>1, <2>4 DEF Fitted, FittedFor, IsFinished
    <3>2. req'[r].computed = req[r].computed BY <1>5, <3>1 DEF Out, Shape, ReqT
    <3> QED BY <1>1, <1>3, <3>1, <3>2 DEF Out
  <2>5. FittedFor(r)' BY <1>2, <1>5, <2>3, <2>4 DEF FittedFor
  <2> QED BY <1>2, <1>4, <2>5 DEF Fitted
<1> QED BY <1>2, <1>4, <1>5 DEF Fitted

LEMMA SendMetaFitted == ASSUME Shape, Sched, Fitted, SendMeta PROVE Fitted'
<1> SUFFICES ASSUME NEW r \in Requests PROVE FittedFor(r)' BY DEF Fitted
<1>1. /\ req'[r].status = req[r].status /\ req'[r].tokens = req[r].tokens
      /\ req'[r].computed = req[r].computed + step.tokens[r] /\ req'[r].table = req[r].table
      /\ req[r].computed \in Int /\ step.tokens[r] \in Int /\ window' = window
  BY DEF SendMeta, Shape, ReqT, StepT
<1>2. step.phase = "store" /\ step'.phase = "flush" /\ step'.tokens = step.tokens
  BY DEF SendMeta, Shape, StepT
<1>3. req[r].status # "running" => step.tokens[r] = 0 BY DEF Sched
<1>4. Ahead(r) = step.tokens[r] /\ Ahead(r)' = 0 /\ Base(r)' = Base(r)
  BY <1>1, <1>2 DEF Ahead, Base
<1>5. CASE req[r].status = "running" BY <1>1, <1>4, <1>5 DEF Fitted, FittedFor, IsFinished, Out
<1>6. CASE req[r].status # "running"
  BY <1>1, <1>3, <1>4, <1>6 DEF Fitted, FittedFor, IsFinished, Out
<1> QED BY <1>5, <1>6

LEMMA UpdateFitted ==
    ASSUME Shape, Sched, Counts, Fitted, NEW stop \in SUBSET Requests, Update(stop) PROVE Fitted'
<1> SUFFICES ASSUME NEW r \in Requests PROVE FittedFor(r)' BY DEF Fitted
<1>1. /\ req'[r].computed = req[r].computed
      /\ r \notin Sampled => req'[r].tokens = req[r].tokens
      /\ req'[r].status = IF r \in stop THEN "stopped" ELSE req[r].status
      /\ ~IsFinished(r) /\ r \notin stop => req'[r].table = req[r].table
      /\ window' = window
  BY DEF Update, Shape, ReqT
<1>2. step.phase = "output" /\ step'.phase = "idle" BY DEF Update, Shape, StepT
<1>3. Ahead(r) = 0 /\ Ahead(r)' = 0 BY <1>2 DEF Ahead
<1>4. r \in Sampled => req[r].status = "running" BY DEF Sampled, Sched, Shape, StepT
<1>5. Base(r) \in Int /\ Base(r)' \in Int /\ Base(r) <= Base(r)'
  BY <1>1, <1>2 DEF Base, Shape, ReqT, StepT, Counts, CountsFor
<1>6. CASE r \in stop \/ IsFinished(r) BY <1>1, <1>6 DEF IsFinished, FittedFor
<1>7. CASE r \notin stop /\ ~IsFinished(r)
  <2>1. ASSUME NEW i \in DOMAIN req[r].table, req[r].table[i] = Null PROVE Out(r, i)'
    <3>1. Out(r, i) /\ i * ChunkTokens \in Int /\ window \in Int
      <4>1. i \in Int /\ ChunkTokens \in Int BY TableType, OffloadAssumption
      <4>2. i * ChunkTokens \in Int BY <4>1
      <4> QED BY <1>7, <2>1, <4>2, OffloadAssumption DEF Fitted, FittedFor, Shape
    <3> QED BY <1>1, <1>5, <3>1 DEF Out
  <2> QED BY <1>1, <1>3, <1>4, <1>7, <2>1 DEF Fitted, FittedFor, IsFinished
<1> QED BY <1>6, <1>7

LEMMA InitFitted == Init => Apart /\ Fitted
<1> SUFFICES ASSUME Init PROVE Apart /\ Fitted
  OBVIOUS
<1>1. \A r \in Requests : /\ req[r].status = "absent" /\ req[r].computed = 0
                          /\ req[r].table = <<>>
  BY DEF Init
<1>2. CDiv(0, ChunkTokens) \in Int /\ CDiv(0, ChunkTokens) <= 0
  BY DivBounds, DivType, OffloadAssumption
<1>3. Len(<<>>) = 0 /\ DOMAIN <<>> = {}
  OBVIOUS
<1> QED BY <1>1, <1>2, <1>3 DEF Apart, Fitted, FittedFor

LEMMA FittedStep ==
    ASSUME Shape, Shape', Short, Sched, Counts, Sized, Apart, Fitted, [Next]_vars PROVE Fitted'
<1>1. ASSUME NEW r \in Requests, NEW p \in Prompts, Arrive(r, p) PROVE Fitted'
  <2>1. /\ \A q \in Requests \ {r} : req'[q] = req[q]
        /\ req'[r].status = "waiting" /\ req[r].status = "absent"
        /\ req'[r].computed = req[r].computed /\ req'[r].tokens = req[r].tokens
        /\ req'[r].table = req[r].table /\ step' = step /\ window' = window
    BY <1>1 DEF Arrive, Shape, ReqT
  <2>2. FittedFor(r)' BY <2>1 DEF Fitted, FittedFor, Out, Base, IsFinished
  <2>3. \A q \in Requests \ {r} : FittedFor(q)' BY <2>1, FittedKept DEF Ahead, Base
  <2> QED BY <2>2, <2>3 DEF Fitted
<1>2. ASSUME NEW r \in Requests, Abort(r) PROVE Fitted'
  <2>1. /\ \A q \in Requests \ {r} : req'[q] = req[q]
        /\ req'[r].status = "aborted" /\ Active(r) /\ step' = step /\ window' = window
        /\ req'[r].computed = req[r].computed
    BY <1>2 DEF Abort, Shape, ReqT
  <2> QED BY <2>1, FittedKept DEF Fitted, Active, Ahead, Base
<1>3. ASSUME NEW force \in BOOLEAN, Reset(force) PROVE Fitted'
  <2>1. step' = step /\ window' = window /\ (req' = req \/ req' = Preempted(Running))
    BY <1>3 DEF Reset
  <2> SUFFICES ASSUME NEW r \in Requests PROVE FittedFor(r)' BY DEF Fitted
  <2>2. CASE req'[r] = req[r] BY <2>1, <2>2, FittedKept DEF Ahead, Base
  <2>3. CASE req'[r] = [req[r] EXCEPT !.status = "waiting", !.computed = 0, !.table = <<>>]
    <3>1. req'[r].status = "waiting" /\ req'[r].computed = 0 /\ req'[r].table = <<>>
      BY <2>3 DEF Shape, ReqT
    <3> QED BY <3>1, FittedNew
  <2> QED BY <2>1, <2>2, <2>3 DEF Preempted
<1>4. CASE /\ req' = req /\ window' = window
           /\ \A q \in Requests : Ahead(q)' = Ahead(q) /\ Base(q)' = Base(q)
  BY <1>4, FittedKept DEF Fitted
<1>5. CASE Begin BY <1>4, <1>5 DEF Begin, Sched, Ahead, Base, engine, Shape, StepT
<1>6. CASE EndSchedule BY <1>4, <1>6 DEF EndSchedule, Ahead, Base, engine, Shape, StepT
<1>7. CASE Forward BY <1>4, <1>7 DEF Forward, Ahead, Base, engine, Shape, StepT
<1>8. CASE \E r \in Requests : Store(r) \/ Delay(r)
  BY ZenonT(40), <1>4, <1>8 DEF Store, Delay, Considers, Turn, Ahead, Base, engine, Shape, StepT
<1>9. CASE CopyNext \/ UNCHANGED vars
  BY <1>4, <1>9 DEF CopyNext, Copy, vars, engine, Ahead, Base
<1>10. ASSUME NEW r \in Requests, ScheduleRunning(r) PROVE Fitted'
  BY <1>10, ScheduleRunningCases, GrantedFitted, PreemptsFitted DEF Grants, IsFinished
<1>11. ASSUME NEW r \in Requests, Admit(r) PROVE Fitted'
  BY <1>11, AdmitGranted, GrantedFitted DEF IsFinished
<1>12. ASSUME NEW r \in Requests, Load(r) PROVE Fitted' BY <1>12, LoadNow, LoadFitted DEF Load
<1> QED BY <1>1, <1>2, <1>3, <1>5, <1>6, <1>7, <1>8, <1>9, <1>10, <1>11, <1>12, LoadingFitted,
     SendMetaFitted, UpdateFitted DEF Next, Step
-------------------------------------------------------------------------------
\* What Store does when it creates a transfer: slots that are not readable for the new keys.
Added(r, j) ==
    /\ j \in JobT /\ j.id \in NextIds /\ j.req = r /\ j.store /\ j.known
    /\ j.at = IF window = 0 /\ IsFinished(r) /\ BlocksOf(j) \cap allocated # {}
              THEN "urgent" ELSE "built"
    /\ \A m \in j.moves :
          /\ m.key \in NewKeys(KeysToStore(r)) /\ m.block = track[r].blocks[m.key[2]]
          /\ m.slot # Null /\ host'[m.key].slot = m.slot /\ ~host'[m.key].ready
    /\ \A m, n \in j.moves : m.slot = n.slot \/ m.key = n.key => m = n
StoresNow(r) ==
    \E j : /\ transfers' = transfers \cup {j} /\ Added(r, j)
           /\ flush' = IF j.at = "urgent" THEN flush \cup {j.id} ELSE flush
           /\ track'[r].next = Most(track[r].next, Storable(r))
StoredAll(r) ==
    /\ UNCHANGED <<transfers, flush>>
    /\ \/ track'[r].next = Most(track[r].next, Storable(r)) /\ NewKeys(KeysToStore(r)) = {}
       \/ track'[r].next = track[r].next

LEMMA StoreNow ==
    ASSUME IInv, IInv', NEW r \in Requests, Store(r)
    PROVE  /\ StoresNow(r) \/ StoredAll(r)
           /\ step.phase = "store" /\ step'.phase = "store" /\ r \in step.todo
           /\ step'.todo = step.todo \ {r} /\ step'.tokens = step.tokens
           /\ step'.blocks = step.blocks
           /\ \A q \in Requests : track'[q].blocks = track[q].blocks /\ track'[q].on = track[q].on
           /\ \A q \in Requests \ {r} : track'[q] = track[q]
           /\ \A k \in Keys : host'[k].ready => host'[k] = host[k]
           /\ UNCHANGED <<window, engine, allocated, loading, closed, memory>>
<1>1. Shape /\ Pinned BY DEF IInv
<1>2. /\ step.phase = "store" /\ step'.phase = "store" /\ r \in step.todo
      /\ step'.todo = step.todo \ {r} /\ step'.tokens = step.tokens
      /\ step'.blocks = step.blocks
      /\ UNCHANGED <<window, engine, allocated, loading, closed, memory>>
  BY <1>1 DEF Store, Shape, StepT
<1>3. CASE NewKeys(KeysToStore(r)) = {} /\ track' = [track EXCEPT ![r].next = Most(@, Storable(r))]
           /\ UNCHANGED <<host, transfers, fences, flush>>
  BY <1>1, <1>2, <1>3 DEF Shape, TrackT, StoredAll
<1>4. CASE UNCHANGED <<host, track, transfers, fences, flush>> BY <1>2, <1>4 DEF StoredAll
<1>5. CASE \E evicted \in SUBSET Evictable(KeysToStore(r)),
              slot \in [NewKeys(KeysToStore(r)) -> Slots], id \in NextIds :
                 PrepareStore(KeysToStore(r), evicted, slot) /\ AddStore(r, id, StoreMoves(r, slot))
  <2>1. PICK evicted \in SUBSET Evictable(KeysToStore(r)),
              slot \in [NewKeys(KeysToStore(r)) -> Slots], id \in NextIds :
                 PrepareStore(KeysToStore(r), evicted, slot) /\ AddStore(r, id, StoreMoves(r, slot))
    BY <1>5
  <2>2. PICK moves : moves = StoreMoves(r, slot)
    OBVIOUS
  <2>3. PICK now : now = (window = 0 /\ IsFinished(r)
                           /\ {m.block : m \in moves} \cap allocated # {})
    OBVIOUS
  <2>4. PICK j : j = Transfer(id, r, TRUE, IF now THEN "urgent" ELSE "built", moves)
    OBVIOUS
  <2>5. /\ transfers' = transfers \cup {j}
        /\ track' = [track EXCEPT ![r].next = Most(@, Storable(r)), ![r].jobs = @ \cup {id}]
        /\ flush' = IF now THEN flush \cup {id} ELSE flush
    BY <2>1, <2>2, <2>3, <2>4 DEF AddStore
  <2>6. /\ j.id = id /\ j.req = r /\ j.store /\ j.known /\ j.moves = moves
        /\ j.at = IF now THEN "urgent" ELSE "built"
    BY <2>4 DEF Transfer
  <2>7. /\ \A k \in NewKeys(KeysToStore(r)) :
               /\ k \in Keys /\ slot[k] # Null /\ host'[k].slot = slot[k] /\ ~host'[k].ready
        /\ \A k \in evicted : k \in Keys /\ host'[k] = Absent
        /\ \A k \in Keys : k \notin NewKeys(KeysToStore(r)) \cup evicted => host'[k] = host[k]
    <3>1. PrepareStore(KeysToStore(r), evicted, slot) BY <2>1
    <3>2. /\ \A k \in NewKeys(KeysToStore(r)) :
                /\ k \in Keys /\ slot[k] # Null /\ host'[k].slot = slot[k]
                /\ ~host'[k].ready /\ host'[k].readers = 0
          /\ \A k \in evicted : k \in Keys /\ host'[k] = Absent
          /\ \A k \in Keys : k \notin NewKeys(KeysToStore(r)) \cup evicted => host'[k] = host[k]
          /\ \A k \in NewKeys(KeysToStore(r)) \cup evicted : Readers(k) = {}
          /\ \A j1 \in transfers : j1.known =>
                \A m \in j1.moves : m.key \notin NewKeys(KeysToStore(r)) \cup evicted
          /\ SlotsOwned'
      BY <1>1, <3>1, PrepareStorePinned
    <3> QED BY <3>2
  <2>8. \A k, l \in NewKeys(KeysToStore(r)) : slot[k] = slot[l] => k = l BY <1>1, <2>1, NewSlots
  <2>9. ASSUME NEW m \in moves
        PROVE  /\ m.key \in NewKeys(KeysToStore(r)) /\ m.block = track[r].blocks[m.key[2]]
               /\ m.slot = slot[m.key]
               /\ m = [key |-> m.key, slot |-> slot[m.key], block |-> track[r].blocks[m.key[2]]]
    <3>1. PICK k \in NewKeys(KeysToStore(r)) :
              m = [key |-> k, slot |-> slot[k], block |-> track[r].blocks[k[2]]]
      BY <2>2, <2>9 DEF StoreMoves
    <3>2. m.key = k /\ m.slot = slot[k] /\ m.block = track[r].blocks[k[2]] BY <3>1
    <3> QED BY <3>1, <3>2
  <2>10. \A m, n \in moves : m.slot = n.slot \/ m.key = n.key => m = n BY <2>8, <2>9
  <2>11. j \in JobT BY <2>5 DEF IInv, Shape
  <2>12. Added(r, j)
    <3>1. j.at = IF window = 0 /\ IsFinished(r) /\ BlocksOf(j) \cap allocated # {}
                 THEN "urgent" ELSE "built"
      BY <2>3, <2>6 DEF BlocksOf
    <3>2. \A m \in j.moves :
             /\ m.key \in NewKeys(KeysToStore(r)) /\ m.block = track[r].blocks[m.key[2]]
             /\ m.slot # Null /\ host'[m.key].slot = m.slot /\ ~host'[m.key].ready
      BY <2>6, <2>7, <2>9
    <3> QED BY <2>1, <2>6, <2>10, <2>11, <3>1, <3>2 DEF Added
  <2>13. /\ \A q \in Requests : track'[q].blocks = track[q].blocks /\ track'[q].on = track[q].on
         /\ \A q \in Requests \ {r} : track'[q] = track[q]
         /\ track'[r].next = Most(track[r].next, Storable(r))
    <3> DEFINE u == [track EXCEPT ![r].next = Most(track[r].next, Storable(r))]
    <3>1. u \in [Requests -> TrackT] BY <1>1, StoreTypes DEF Shape, TrackT, Most
    <3>2. track' = [u EXCEPT ![r].jobs = track[r].jobs \cup {id}] BY <1>1, <2>5 DEF Shape
    <3>3. /\ u[r].next = Most(track[r].next, Storable(r)) /\ u[r].blocks = track[r].blocks
          /\ u[r].on = track[r].on /\ \A q \in Requests \ {r} : u[q] = track[q]
      BY <1>1 DEF Shape, TrackT
    <3> HIDE DEF u
    <3> QED BY <3>1, <3>2, <3>3 DEF TrackT
  <2>14. StoresNow(r) BY <2>5, <2>6, <2>12, <2>13 DEF StoresNow
  <2>15. \A k \in Keys : host'[k].ready => host'[k] = host[k]
    <3>1. ~Absent.ready BY DEF Absent
    <3> QED BY <2>7, <3>1
  <2> QED BY <1>2, <2>13, <2>14, <2>15
<1> QED BY <1>3, <1>4, <1>5 DEF Store
-------------------------------------------------------------------------------
\* A transfer after a step is one that was there before, or the new one of Load or Store.
Moved(j, l) == /\ l.id = j.id /\ l.req = j.req /\ l.store = j.store /\ l.moves = j.moves
               /\ l.known => j.known
               /\ j.known => l.known \/ \A k \in Keys : host'[k] = Absent
               /\ j.at = "done" => l.at = "done"
Created(r, l) == /\ transfers' = transfers \cup {l}
                 /\ (Load(r) /\ LoadsNow(r) /\ Filled(r, l)) \/ (Store(r) /\ Added(r, l))

LEMMA Origin ==
    ASSUME IInv, IInv', [Next]_vars, NEW l \in transfers'
    PROVE  (\E j \in transfers : Moved(j, l)) \/ \E r \in Requests : Created(r, l)
<1>1. Shape /\ Short /\ Sched BY CountsShort DEF IInv
<1>2. CASE l \in transfers BY <1>2 DEF Moved
<1>3. CASE SendMeta
  <2> DEFINE at(j) == IF j.store /\ j.at = "built" THEN "deferred"
                      ELSE IF j.at \in {"deferred", "urgent"} THEN "queued" ELSE j.at
  <2>1. transfers' = {[j EXCEPT !.at = at(j)] : j \in transfers} BY <1>3 DEF SendMeta
  <2>2. \A j \in transfers : j.at = "done" => at(j) = "done"
    OBVIOUS
  <2> HIDE DEF at
  <2>3. \A j \in transfers : Moved(j, [j EXCEPT !.at = at(j)])
    BY <1>1, <2>2 DEF Moved, Shape, JobT
  <2> QED BY <2>1, <2>3
<1>4. CASE Forward
  <2> DEFINE at(j) == IF j.at = "built" THEN "queued" ELSE j.at
  <2>1. transfers' = {[j EXCEPT !.at = at(j)] : j \in transfers} BY <1>4 DEF Forward
  <2>2. \A j \in transfers : j.at = "done" => at(j) = "done"
    OBVIOUS
  <2> HIDE DEF at
  <2>3. \A j \in transfers : Moved(j, [j EXCEPT !.at = at(j)])
    BY <1>1, <2>2 DEF Moved, Shape, JobT
  <2> QED BY <2>1, <2>3
<1>5. ASSUME NEW j \in transfers, Copy(j) PROVE \E i \in transfers : Moved(i, l)
  BY <1>1, <1>5 DEF Copy, Moved, Shape, JobT
<1>6. ASSUME NEW force \in BOOLEAN, Reset(force) PROVE \E j \in transfers : Moved(j, l)
  <2>1. UNCHANGED <<connector, manager>> \/ ResetConnector BY <1>6 DEF Reset
  <2>2. CASE UNCHANGED <<connector, manager>> BY <1>2, <2>2 DEF connector, Moved
  <2>3. CASE ResetConnector
    <3>1. PICK j \in transfers : l = [j EXCEPT !.known = FALSE] BY <2>3 DEF ResetConnector
    <3>2. \A k \in Keys : host'[k] = Absent BY <2>3 DEF ResetConnector
    <3>3. Moved(j, l) BY <1>1, <3>1, <3>2 DEF Moved, Shape, JobT
    <3> QED BY <3>3
  <2> QED BY <2>1, <2>2, <2>3
<1>7. ASSUME NEW stop \in SUBSET Requests, Update(stop) PROVE l \in transfers BY <1>7 DEF Update
<1>8. ASSUME NEW r \in Requests, Load(r) PROVE l \in transfers \/ Created(r, l)
  BY <1>1, <1>8, LoadNow DEF LoadsNow, Created
<1>9. ASSUME NEW r \in Requests, Store(r) PROVE l \in transfers \/ Created(r, l)
  BY <1>9, StoreNow DEF StoresNow, StoredAll, Created
<1>10. CASE \/ Begin \/ EndSchedule \/ UNCHANGED vars
            \/ \E r \in Requests : \/ ScheduleRunning(r) \/ Loading(r) \/ Delay(r) \/ Admit(r)
                                   \/ Abort(r) \/ \E p \in Prompts : Arrive(r, p)
  BY <1>2, <1>10 DEF Begin, EndSchedule, vars, ScheduleRunning, Loading, Delay, Admit, Abort,
     Arrive, connector
<1> QED BY <1>2, <1>3, <1>4, <1>5, <1>6, <1>7, <1>8, <1>9, <1>10 DEF Next, Step, CopyNext

\* The blocks of a request that loads stay what they are until the load is reported.
LEMMA LoaderKept ==
    ASSUME IInv, IInv', [Next]_vars, NEW j \in transfers, ~j.store,
           \E l \in transfers' : l.id = j.id
    PROVE  /\ req'[j.req].table = req[j.req].table /\ req'[j.req].prompt = req[j.req].prompt
           /\ req'[j.req].status \in {"loading", "aborted"}
<1>1. Shape /\ Short /\ Sched /\ Counts /\ Sized /\ Unique /\ Loads
  BY CountsShort DEF IInv, Linked
<1>2. PICK q \in Requests : q = j.req BY <1>1 DEF Shape, JobT
<1>3. req[q].status \in {"loading", "aborted"} /\ q \notin received
  BY <1>1, <1>2 DEF Loads, Loader
<1> SUFFICES req'[q].table = req[q].table /\ req'[q].prompt = req[q].prompt
             /\ req'[q].status \in {"loading", "aborted"}
  BY <1>2
<1>4. CASE req' = req BY <1>3, <1>4
<1>5. ASSUME NEW r \in Requests, NEW p \in Prompts, Arrive(r, p)
      PROVE  req'[q] = req[q]
  BY <1>1, <1>3, <1>5 DEF Arrive, Shape
<1>6. ASSUME NEW r \in Requests, Abort(r)
      PROVE  req'[q].table = req[q].table /\ req'[q].prompt = req[q].prompt
             /\ req'[q].status \in {"loading", "aborted"}
  <2>1. CASE r = q BY <1>1, <1>3, <1>6, <2>1 DEF Abort, Active, Held, Shape, ReqT
  <2>2. CASE r # q BY <1>1, <1>3, <1>6, <2>2 DEF Abort, Shape
  <2> QED BY <2>1, <2>2
<1>7. ASSUME NEW force \in BOOLEAN, Reset(force) PROVE req'[q] = req[q]
  BY <1>3, <1>7 DEF Reset, Preempted, Running
<1>8. ASSUME NEW r \in Requests, ScheduleRunning(r)
      PROVE  req'[q].table = req[q].table /\ req'[q].prompt = req[q].prompt
             /\ req'[q].status = req[q].status
  <2>1. CASE Grants(r) BY <1>3, <2>1 DEF Grants, Granted
  <2>2. CASE Preempts(r) BY <1>3, <2>2 DEF Preempts, Running
  <2> QED BY <1>1, <1>8, <2>1, <2>2, ScheduleRunningCases
<1>9. ASSUME NEW r \in Requests, Loading(r)
      PROVE  req'[q] = req[q]
  BY <1>1, <1>3, <1>9 DEF Loading, Shape
<1>10. ASSUME NEW r \in Requests, Admit(r) PROVE req'[q] = req[q]
  BY <1>1, <1>3, <1>10, AdmitGranted DEF Granted
<1>11. ASSUME NEW r \in Requests, Load(r) PROVE req'[q] = req[q]
  BY <1>1, <1>3, <1>11, LoadNow DEF LoadsNow
<1>12. ASSUME SendMeta PROVE req'[q].table = req[q].table /\ req'[q].prompt = req[q].prompt
                             /\ req'[q].status = req[q].status
  BY <1>1, <1>12 DEF SendMeta, Shape, ReqT
<1>13. ASSUME NEW stop \in SUBSET Requests, Update(stop)
       PROVE  req'[q].table = req[q].table /\ req'[q].prompt = req[q].prompt
              /\ req'[q].status = req[q].status
  <2>1. j.at # "done" BY <1>1, <1>13 DEF Update, Unique
  <2>2. q \notin stop
    <3>1. stop \subseteq Sampled BY <1>13 DEF Update
    <3> QED BY SMTT(30), <1>1, <1>3, <3>1 DEF Sampled, Sched, Shape, StepT
  <2>3. ~ \E l \in {i \in transfers : i.at = "done"} : ~l.store /\ l.req = q
    BY <1>1, <1>2, <2>1 DEF Loads
  <2>4. /\ req'[q].prompt = req[q].prompt
        /\ req'[q].status = IF q \in stop THEN "stopped" ELSE req[q].status
        /\ req'[q].table = IF \/ q \in stop
                              \/ /\ IsFinished(q)
                                 /\ \E l \in {i \in transfers : i.at = "done"} :
                                       ~l.store /\ l.req = q
                           THEN <<>> ELSE req[q].table
    BY <1>1, <1>13 DEF Update, Shape, ReqT
  <2> QED BY <2>2, <2>3, <2>4
<1>14. CASE \/ Begin \/ EndSchedule \/ Forward \/ UNCHANGED vars \/ CopyNext
            \/ \E r \in Requests : Delay(r) \/ Store(r)
  <2>1. req' = req
    BY <1>14 DEF Begin, EndSchedule, Forward, CopyNext, Copy, vars, engine, Delay, Store
  <2> QED BY <1>4, <2>1
<1> QED BY <1>3, <1>5, <1>6, <1>7, <1>8, <1>9, <1>10, <1>11, <1>12, <1>13, <1>14 DEF Next, Step

\* A request keeps its prompt, and its tokens once it has stopped.
Lasting(q) ==
    /\ req[q].status # "absent" =>
          req'[q].status # "absent" /\ req'[q].prompt = req[q].prompt
    /\ req[q].status = "stopped" =>
          req'[q].status = "stopped" /\ req'[q].tokens = req[q].tokens
LEMMA RequestsLast ==
    ASSUME IInv, IInv', [Next]_vars, NEW q \in Requests PROVE Lasting(q)
<1>1. Shape /\ Short /\ Sched /\ Counts /\ Sized BY CountsShort DEF IInv
<1>2. CASE req' = req BY <1>2 DEF Lasting
<1>3. ASSUME NEW r \in Requests, NEW p \in Prompts, Arrive(r, p) PROVE Lasting(q)
  BY <1>1, <1>3 DEF Arrive, Shape, ReqT, Lasting
<1>4. ASSUME NEW r \in Requests, Abort(r) PROVE Lasting(q)
  BY <1>1, <1>4 DEF Abort, Active, Shape, ReqT, Lasting
<1>5. ASSUME NEW force \in BOOLEAN, Reset(force) PROVE Lasting(q)
  <2>1. req' = req \/ req' = Preempted(Running) BY <1>5 DEF Reset
  <2>2. CASE req' = Preempted(Running)
    BY <1>1, <2>2 DEF Preempted, Running, Shape, ReqT, Lasting
  <2> QED BY <1>2, <2>1, <2>2
<1>6. ASSUME NEW r \in Requests, ScheduleRunning(r) PROVE Lasting(q)
  <2>1. CASE Grants(r) BY <2>1 DEF Grants, Granted, Lasting
  <2>2. CASE Preempts(r) BY <2>2 DEF Preempts, Running, Lasting
  <2> QED BY <1>1, <1>6, <2>1, <2>2, ScheduleRunningCases
<1>7. ASSUME NEW r \in Requests, Loading(r) PROVE Lasting(q)
  BY <1>1, <1>7 DEF Loading, Considers, Shape, ReqT, Lasting
<1>8. ASSUME NEW r \in Requests, Admit(r) PROVE Lasting(q)
  BY <1>1, <1>8, AdmitGranted DEF Granted, Lasting
<1>9. ASSUME NEW r \in Requests, Load(r) PROVE Lasting(q)
  BY <1>1, <1>9, LoadNow DEF LoadsNow, Lasting
<1>10. ASSUME SendMeta PROVE Lasting(q) BY <1>1, <1>10 DEF SendMeta, Shape, ReqT, Lasting
<1>11. ASSUME NEW stop \in SUBSET Requests, Update(stop) PROVE Lasting(q)
  <2>1. /\ req'[q].prompt = req[q].prompt
        /\ req'[q].status = IF q \in stop THEN "stopped" ELSE req[q].status
        /\ q \notin Sampled => req'[q].tokens = req[q].tokens
    BY ZenonT(40), <1>1, <1>11 DEF Update, Shape, ReqT
  <2>2. q \in Sampled => req[q].status = "running" BY <1>1 DEF Sampled, Sched, Shape, StepT
  <2>3. stop \subseteq Sampled BY <1>11 DEF Update
  <2> QED BY <2>1, <2>2, <2>3 DEF Lasting
<1>12. CASE \/ Begin \/ EndSchedule \/ Forward \/ UNCHANGED vars \/ CopyNext
            \/ \E r \in Requests : Delay(r) \/ Store(r)
  <2>1. req' = req
    BY <1>12 DEF Begin, EndSchedule, Forward, CopyNext, Copy, vars, engine, Delay, Store
  <2> QED BY <1>2, <2>1
<1> QED BY <1>3, <1>4, <1>5, <1>6, <1>7, <1>8, <1>9, <1>10, <1>11, <1>12 DEF Next, Step

-------------------------------------------------------------------------------
\* What transfers move: chunks of their request, each once, and a load fills just the blocks
\* that its request has.
Has(r, i, b) == i \in DOMAIN req[r].table /\ req[r].table[i] = b
FilledFor(j) ==
    /\ \A m \in j.moves : m.key = KeyOf(j.req, m.key[2]) /\ Has(j.req, m.key[2], m.block)
    /\ \A i \in DOMAIN req[j.req].table : req[j.req].table[i] # Null =>
          \E m \in j.moves : m.key = KeyOf(j.req, i)
NamedFor(j) ==
    /\ req[j.req].status # "absent"
    /\ \A m \in j.moves : m.key = KeyOf(j.req, m.key[2]) /\ m.key[2] \in Chunks
    /\ \A m, n \in j.moves : m.slot = n.slot \/ m.key = n.key => m = n
Moving == \A j \in transfers : NamedFor(j) /\ (~j.store => FilledFor(j))

LEMMA LoadMoving ==
    ASSUME IInv, IInv', NEW r \in Requests, NEW l, l \in transfers', Hit(r) > 0,
           LoadsNow(r), Filled(r, l)
    PROVE  NamedFor(l)' /\ FilledFor(l)'
<1>1. PICK h, s, all : h = Hit(r) /\ s = Skipped(Hit(r)) /\ all = CDiv(Hit(r), ChunkTokens)
  OBVIOUS
<1>2. Shape /\ Pinned /\ Short BY CountsShort DEF IInv
<1>3. /\ l \in JobT /\ l.req = r /\ ~l.store
      /\ \A m \in l.moves : \E i \in s + 1..all :
            m = [key |-> KeyOf(r, i), slot |-> host[KeyOf(r, i)].slot, block |-> req'[r].table[i]]
      /\ \A i \in s + 1..all : \E m \in l.moves : m.key = KeyOf(r, i)
  BY <1>1 DEF Filled
<1>4. /\ req'[r].status = "loading" /\ req'[r].prompt = req[r].prompt
      /\ DOMAIN req'[r].table = 1..all
      /\ \A i \in 1..all : IF i <= s THEN req'[r].table[i] = Null ELSE req'[r].table[i] \in Free
  BY <1>1 DEF LoadsNow
<1>5. \A i \in s + 1..all : Present(KeyOf(r, i)) /\ host[KeyOf(r, i)].ready
  BY <1>1, <1>2, LookupOffers
<1>6. s \in Nat /\ all \in Int
  <2>1. Hit(r) \in Int BY <1>2, LookupType
  <2> QED BY <1>1, <1>2, <2>1, SkippedType, DivType
<1>7. \A i : KeyOf(r, i)' = KeyOf(r, i) /\ KeyOf(r, i)[2] = i BY <1>4 DEF KeyOf
<1>8. ASSUME NEW m \in l.moves
      PROVE  /\ m.key[2] \in s + 1..all /\ m.key = KeyOf(r, m.key[2])
             /\ m.slot = host[KeyOf(r, m.key[2])].slot /\ m.block = req'[r].table[m.key[2]]
             /\ m.slot # Null /\ m.key \in Keys
             /\ m = [key |-> m.key, slot |-> m.slot, block |-> m.block]
  <2>1. PICK i \in s + 1..all :
            m = [key |-> KeyOf(r, i), slot |-> host[KeyOf(r, i)].slot, block |-> req'[r].table[i]]
    BY <1>3
  <2>2. m.key = KeyOf(r, i) /\ m.slot = host[KeyOf(r, i)].slot /\ m.block = req'[r].table[i]
        /\ m.key[2] = i
    BY <1>7, <2>1
  <2>3. m.key \in Keys BY <1>3 DEF JobT, MoveT
  <2>4. m.slot # Null BY <1>2, <1>5, <2>2, <2>3 DEF Pinned, SlotsOwned, Present
  <2> QED BY <2>1, <2>2, <2>3, <2>4
<1>9. ASSUME NEW m \in l.moves, NEW n \in l.moves, m.slot = n.slot \/ m.key = n.key
      PROVE  m = n
  <2>1. m.key = n.key
    <3>1. CASE m.slot = n.slot BY <1>2, <1>8, <3>1 DEF Pinned, SlotsOwned
    <3> QED BY <1>9, <3>1
  <2> QED BY <1>8, <2>1
<1>10. \A m \in l.moves : m.key[2] \in Chunks BY <1>8 DEF Keys
<1>11. NamedFor(l)' BY <1>3, <1>4, <1>7, <1>8, <1>9, <1>10 DEF NamedFor
<1>12. \A m \in l.moves : Has(r, m.key[2], m.block)' BY <1>4, <1>6, <1>8 DEF Has
<1>13. ASSUME NEW i \in 1..all, req'[r].table[i] # Null
       PROVE  \E m \in l.moves : m.key = KeyOf(r, i)'
  <2>1. i \in s + 1..all BY <1>4, <1>6, <1>13
  <2> QED BY <1>3, <1>7, <2>1
<1> QED BY <1>3, <1>4, <1>7, <1>8, <1>11, <1>12, <1>13 DEF FilledFor

LEMMA MovingStep ==
    ASSUME IInv, IInv', Moving, [Next]_vars PROVE Moving'
<1>1. Shape /\ Short /\ Sched /\ Closed /\ Shape' BY CountsShort DEF IInv
<1> SUFFICES ASSUME NEW l \in transfers' PROVE NamedFor(l)' /\ (~l.store => FilledFor(l)')
  BY DEF Moving
<1>2. ASSUME NEW j \in transfers, Moved(j, l)
      PROVE  NamedFor(l)' /\ (~l.store => FilledFor(l)')
  <2>1. /\ l.req = j.req /\ l.store = j.store /\ l.moves = j.moves /\ l.id = j.id
        /\ j.req \in Requests
    BY <1>1, <1>2 DEF Moved, Shape, JobT
  <2>2. NamedFor(j) /\ (~j.store => FilledFor(j)) BY DEF Moving
  <2>3. req'[j.req].prompt = req[j.req].prompt /\ req'[j.req].status # "absent"
    BY <2>1, <2>2, RequestsLast DEF Lasting, NamedFor
  <2>4. \A i : KeyOf(j.req, i)' = KeyOf(j.req, i) BY <2>3 DEF KeyOf
  <2>5. NamedFor(l)' BY <2>1, <2>2, <2>3, <2>4 DEF NamedFor
  <2>6. ASSUME ~l.store PROVE FilledFor(l)'
    BY <2>1, <2>2, <2>4, <2>6, LoaderKept DEF FilledFor, Has
  <2> QED BY <2>5, <2>6
<1>3. ASSUME NEW r \in Requests, Created(r, l)
      PROVE  NamedFor(l)' /\ (~l.store => FilledFor(l)')
  <2>1. CASE Load(r) /\ LoadsNow(r) /\ Filled(r, l)
    <3>1. Hit(r) > 0 BY <2>1 DEF Load
    <3> QED BY <2>1, <3>1, LoadMoving
  <2>2. CASE Store(r) /\ Added(r, l)
    BY <1>1, <2>2, StoreTypes DEF Added, Store, engine, Sched, Closed, ClosedFor, KeyOf, NamedFor
  <2> QED BY <1>3, <2>1, <2>2 DEF Created
<1> QED BY <1>2, <1>3, Origin
-------------------------------------------------------------------------------
\* Where transfers are in each phase of a step.  Those from before a reset are flushed in the
\* next step, and run before any that were created later.
PlaceFor(j) ==
    /\ j.at = "built" => j.known /\ IF j.store THEN step.phase = "store"
                                    ELSE step.phase \in {"schedule", "store", "flush"}
    /\ j.at = "urgent" => j.store /\ step.phase = "store" /\ j.known
    /\ j.at = "deferred" => j.store /\ (step.phase = "flush" => j.known)
    /\ j.at = "done" => step.phase \in {"flush", "output"}
    /\ ~j.known /\ j.at # "done" => j.id \in flush
    /\ j.store /\ (j.at = "built" \/ (j.at = "deferred" /\ step.phase = "flush")) =>
          j.id \notin flush
Older(l, k) ==
    /\ l.id < k.id
    /\ l.store /\ k.store => /\ k.at = "done" => l.at = "done"
                             /\ l.at = "deferred" => k.at \in {"built", "urgent"}
Placed ==
    /\ \A j \in transfers : PlaceFor(j)
    /\ \A l, k \in transfers : ~l.known /\ k.known => Older(l, k)
    /\ flush \subseteq Ids(transfers)
    /\ step.phase = "output" => flush = {}

LEMMA PlacedKept ==
    ASSUME Placed, transfers' = transfers, flush' = flush, step'.phase = step.phase
    PROVE  Placed'
BY DEF Placed, PlaceFor, Older, Ids

\* A new transfer.
LEMMA PlacedGrown ==
    ASSUME Shape, Placed, NEW t \in JobT, t.id \in NextIds, t.known, transfers' = transfers \cup {t},
           \/ t.at = "built" /\ flush' = flush
           \/ t.at = "urgent" /\ t.store /\ flush' = flush \cup {t.id},
           step'.phase = step.phase,
           step.phase = "store" \/ (step.phase = "schedule" /\ ~t.store)
    PROVE  Placed'
<1>1. /\ \A j \in transfers : j.id # t.id /\ j.id \in Int /\ j.id < t.id
      /\ t.id \in Int
  BY OffloadAssumption DEF Shape, JobT, NextIds, NewIds
<1>2. t.id \notin flush BY <1>1 DEF Placed, Ids
<1>3. \A j \in transfers : PlaceFor(j)' BY <1>1 DEF Placed, PlaceFor
<1>4. PlaceFor(t)' BY <1>2 DEF PlaceFor
<1>5. \A l \in transfers : Older(l, t) BY <1>1 DEF Older
<1>6. \A l, k \in transfers' : ~l.known /\ k.known => Older(l, k) BY <1>5 DEF Placed
<1>7. \A l, k \in transfers' : ~l.known /\ k.known => Older(l, k)' BY <1>6 DEF Older
<1>8. flush' \subseteq Ids(transfers') BY DEF Placed, Ids
<1> QED BY <1>3, <1>4, <1>7, <1>8 DEF Placed, Ids

LEMMA ResetPlaced ==
    ASSUME Shape, Placed, NEW force \in BOOLEAN, Reset(force) PROVE Placed'
<1>1. step.phase = "idle" /\ step' = step BY DEF Reset
<1>2. CASE UNCHANGED <<connector, manager>> BY <1>1, <1>2, PlacedKept DEF connector
<1>3. CASE ResetConnector
  <2>1. /\ flush = {} /\ flush' = Ids(Known)
        /\ transfers' = {[j EXCEPT !.known = FALSE] : j \in transfers}
    BY <1>3 DEF ResetConnector
  <2>2. \A j \in transfers : j.known /\ j.at \notin {"built", "urgent", "done"}
    BY <1>1, <2>1 DEF Placed, PlaceFor
  <2>3. \A l \in transfers' : \E j \in transfers :
            /\ ~l.known /\ l.id = j.id /\ l.at = j.at /\ l.store = j.store
    BY <2>1 DEF Shape, JobT
  <2>4. ASSUME NEW j \in transfers PROVE \E l \in transfers' : l.id = j.id
    <3>1. [j EXCEPT !.known = FALSE] \in transfers' /\ [j EXCEPT !.known = FALSE].id = j.id
      BY <2>1 DEF Shape, JobT
    <3> QED BY <3>1
  <2>5. \A j \in transfers : j.id \in flush' BY <2>1, <2>2 DEF Ids, Known, KnownOf
  <2>6. \A l \in transfers' : PlaceFor(l)' BY <1>1, <2>2, <2>3, <2>5 DEF Placed, PlaceFor
  <2>7. flush' \subseteq Ids(transfers')
    <3>1. \A i \in flush' : \E j \in transfers : i = j.id BY <2>1 DEF Ids, Known, KnownOf
    <3> QED BY <2>4, <3>1 DEF Ids
  <2> QED BY <1>1, <2>3, <2>6, <2>7 DEF Placed, Ids
<1> QED BY <1>2, <1>3 DEF Reset

LEMMA EndSchedulePlaced ==
    ASSUME Shape, Linked, Placed, EndSchedule PROVE Placed'
<1>1. /\ step.phase = "schedule" /\ step'.phase = "store" /\ transfers' = transfers
      /\ flush' = flush \cup (UNION {track[r].jobs : r \in preempted})
                        \cup (UNION {fences[b] : b \in Given})
  BY DEF EndSchedule, Shape, StepT
<1>2. ASSUME NEW r \in preempted PROVE track[r].jobs \subseteq Ids(transfers)
  BY <1>2 DEF Linked, JobsFor, Ids, Shape, TrackT
<1>3. ASSUME NEW b \in Given PROVE fences[b] \subseteq Ids(transfers)
  <2>1. b \in Blocks BY <1>3 DEF Given, Shape, StepT, BlockSeq, Range
  <2> QED BY <2>1 DEF Linked, FencesFor, Ids, Shape
<1>4. flush' \subseteq Ids(transfers) BY <1>1, <1>2, <1>3 DEF Placed
<1>5. flush \subseteq flush' BY <1>1
<1>6. \A j \in transfers : PlaceFor(j)' BY <1>1, <1>5 DEF Placed, PlaceFor
<1> QED BY <1>1, <1>4, <1>6 DEF Placed, Older, Ids

LEMMA SendMetaPlaced == ASSUME Shape, Placed, SendMeta PROVE Placed'
<1> DEFINE at(j) == IF j.store /\ j.at = "built" THEN "deferred"
                    ELSE IF j.at \in {"deferred", "urgent"} THEN "queued" ELSE j.at
<1>1. /\ transfers' = {[j EXCEPT !.at = at(j)] : j \in transfers}
      /\ step.phase = "store" /\ step'.phase = "flush" /\ flush' = flush
  BY DEF SendMeta, Shape, StepT
<1>2. ASSUME NEW j \in transfers
      PROVE  /\ [j EXCEPT !.at = at(j)].at = at(j) /\ [j EXCEPT !.at = at(j)].id = j.id
             /\ [j EXCEPT !.at = at(j)].store = j.store /\ [j EXCEPT !.at = at(j)].known = j.known
  <2> HIDE DEF at
  <2> QED BY DEF Shape, JobT
<1>3. \A l \in transfers' : \E j \in transfers :
          /\ l.id = j.id /\ l.at = at(j) /\ l.store = j.store /\ l.known = j.known
  <2> HIDE DEF at
  <2> QED BY <1>1, <1>2
<1>4. ASSUME NEW l \in transfers' PROVE PlaceFor(l)'
  <2>1. PICK j \in transfers :
            /\ l.id = j.id /\ l.at = at(j) /\ l.store = j.store /\ l.known = j.known
    BY <1>3
  <2>2. PlaceFor(j) BY DEF Placed
  <2> QED BY <1>1, <2>1, <2>2 DEF PlaceFor
<1>5. ASSUME NEW l \in transfers', NEW k \in transfers', ~l.known, k.known PROVE Older(l, k)'
  <2>1. PICK i \in transfers :
            /\ l.id = i.id /\ l.at = at(i) /\ l.store = i.store /\ l.known = i.known
    BY <1>3
  <2>2. PICK j \in transfers :
            /\ k.id = j.id /\ k.at = at(j) /\ k.store = j.store /\ k.known = j.known
    BY <1>3
  <2>3. PlaceFor(i) /\ PlaceFor(j) /\ Older(i, j) BY <1>5, <2>1, <2>2 DEF Placed
  <2> QED BY <1>1, <1>5, <2>1, <2>2, <2>3 DEF PlaceFor, Older
<1>6. flush' \subseteq Ids(transfers')
  <2>1. \A j \in transfers : \E l \in transfers' : l.id = j.id
    <3> HIDE DEF at
    <3> QED BY <1>1, <1>2
  <2>2. \A i \in flush' : \E j \in transfers : i = j.id BY <1>1 DEF Placed, Ids
  <2> QED BY <2>1, <2>2 DEF Ids
<1> QED BY <1>1, <1>4, <1>5, <1>6 DEF Placed, Ids

LEMMA CopyPlaced == ASSUME Shape, Placed, NEW j \in transfers, Copy(j) PROVE Placed'
<1>1. /\ transfers' = (transfers \ {j}) \cup {[j EXCEPT !.at = "done"]}
      /\ step.phase \in {"flush", "output"} /\ step' = step /\ flush' = flush
      /\ \A l \in transfers : l.at = "queued" /\ l.store = j.store => j.id <= l.id
  BY DEF Copy
<1>2. PICK d : d = [j EXCEPT !.at = "done"]
  OBVIOUS
<1>3. d.id = j.id /\ d.store = j.store /\ d.known = j.known /\ d.at = "done"
  BY <1>2 DEF Shape, JobT
<1>4. \A l \in transfers' : PlaceFor(l)' BY <1>1, <1>2, <1>3 DEF Placed, PlaceFor
<1>5. \A l \in transfers : l.id \in Int /\ l.at \in Places /\ l.store \in BOOLEAN
  BY DEF Shape, JobT
<1>6. ASSUME NEW l \in transfers, l.store, j.store, ~l.known, j.known PROVE l.at = "done"
  <2>1. l.id < j.id /\ PlaceFor(l) BY <1>6 DEF Placed, Older
  <2>2. l.at # "queued"
    <3>1. l.store = j.store BY <1>5, <1>6
    <3>2. l.id \in Int /\ j.id \in Int BY <1>5
    <3> QED BY <1>1, <2>1, <3>1, <3>2
  <2>3. step.phase = "output" => l.at = "done" BY <1>6, <2>1 DEF Placed, PlaceFor
  <2>4. step.phase = "flush" => l.at \notin {"built", "urgent", "deferred"}
    BY <1>6, <2>1 DEF PlaceFor
  <2> QED BY <1>1, <1>5, <2>2, <2>3, <2>4 DEF Places
<1>7. ASSUME NEW l \in transfers', NEW k \in transfers', ~l.known, k.known PROVE Older(l, k)'
  BY <1>1, <1>2, <1>3, <1>6, <1>7 DEF Placed, Older
<1>8. flush' \subseteq Ids(transfers') BY <1>1, <1>2, <1>3 DEF Placed, Ids
<1> QED BY <1>1, <1>4, <1>7, <1>8 DEF Placed, Ids

\* When the model runs, all transfers from before the last reset are done.
LEMMA ForwardPlaced ==
    ASSUME Shape, Placed, Forward
    PROVE  Placed' /\ \A j \in transfers : (~j.known \/ (j.store /\ j.id \in flush)) => j.at = "done"
<1> DEFINE at(j) == IF j.at = "built" THEN "queued" ELSE j.at
<1>1. /\ transfers' = {[j EXCEPT !.at = at(j)] : j \in transfers}
      /\ step.phase = "flush" /\ step'.phase = "output" /\ flush' = {}
      /\ \A j \in transfers : j.at = "queued" => j.id \notin flush
  BY DEF Forward, Flushed, Shape, StepT
<1>2. ASSUME NEW j \in transfers
      PROVE  /\ [j EXCEPT !.at = at(j)].at = at(j) /\ [j EXCEPT !.at = at(j)].id = j.id
             /\ [j EXCEPT !.at = at(j)].store = j.store /\ [j EXCEPT !.at = at(j)].known = j.known
  <2> HIDE DEF at
  <2> QED BY DEF Shape, JobT
<1>3. \A l \in transfers' : \E j \in transfers :
          /\ l.id = j.id /\ l.at = at(j) /\ l.store = j.store /\ l.known = j.known
  <2> HIDE DEF at
  <2> QED BY <1>1, <1>2
<1>4. ASSUME NEW j \in transfers, ~j.known \/ (j.store /\ j.id \in flush) PROVE j.at = "done"
  BY <1>1, <1>4 DEF Placed, Shape, JobT, PlaceFor, Places
<1>5. ASSUME NEW l \in transfers' PROVE PlaceFor(l)'
  <2>1. PICK j \in transfers :
            /\ l.id = j.id /\ l.at = at(j) /\ l.store = j.store /\ l.known = j.known
    BY <1>3
  <2>2. PlaceFor(j) BY DEF Placed
  <2> QED BY <1>1, <1>4, <2>1, <2>2 DEF PlaceFor
<1>6. ASSUME NEW l \in transfers', NEW k \in transfers', ~l.known, k.known PROVE Older(l, k)'
  <2>1. PICK i \in transfers :
            /\ l.id = i.id /\ l.at = at(i) /\ l.store = i.store /\ l.known = i.known
    BY <1>3
  <2>2. PICK j \in transfers :
            /\ k.id = j.id /\ k.at = at(j) /\ k.store = j.store /\ k.known = j.known
    BY <1>3
  <2>3. Older(i, j) /\ i.at = "done" BY <1>4, <1>6, <2>1, <2>2 DEF Placed
  <2> QED BY <1>6, <2>1, <2>2, <2>3 DEF Older
<1> QED BY <1>1, <1>4, <1>5, <1>6 DEF Placed

LEMMA PlacedStep == ASSUME IInv, IInv', Placed, [Next]_vars PROVE Placed'
<1>1. Shape /\ Short /\ Sched /\ Linked BY CountsShort DEF IInv
<1>2. CASE \/ UNCHANGED vars
           \/ \E r \in Requests : \/ ScheduleRunning(r) \/ Loading(r) \/ Delay(r) \/ Admit(r)
                                  \/ Abort(r) \/ \E p \in Prompts : Arrive(r, p)
  <2>1. transfers' = transfers /\ flush' = flush
    BY <1>2 DEF vars, ScheduleRunning, Loading, Delay, Admit, Abort, Arrive, connector
  <2>2. step'.phase = step.phase
    <3>1. ASSUME NEW r \in Requests, ScheduleRunning(r) PROVE step'.phase = step.phase
      BY <1>1, <3>1 DEF ScheduleRunning, Shape, StepT
    <3>2. ASSUME NEW r \in Requests, Loading(r) \/ Delay(r) PROVE step'.phase = step.phase
      BY <1>1, <3>2 DEF Loading, Delay, Shape, StepT
    <3>3. ASSUME NEW r \in Requests, Admit(r) PROVE step'.phase = step.phase
      BY <1>1, <3>3 DEF Admit, Shape, StepT
    <3> QED BY <1>2, <3>1, <3>2, <3>3 DEF vars, Abort, Arrive
  <2> QED BY <2>1, <2>2, PlacedKept
<1>3. CASE Begin BY <1>1, <1>3 DEF Begin, connector, Shape, StepT, Placed, PlaceFor, Older, Ids
<1>4. ASSUME NEW r \in Requests, Load(r) PROVE Placed'
  <2>1. LoadsNow(r) BY <1>1, <1>4, LoadNow
  <2>2. PICK t : transfers' = transfers \cup {t} /\ Filled(r, t) BY <2>1 DEF LoadsNow
  <2>3. /\ t \in JobT /\ t.id \in NextIds /\ t.known /\ t.at = "built" /\ ~t.store
        /\ step.phase = "schedule" /\ step'.phase = "schedule" /\ flush' = flush
    BY <2>1, <2>2 DEF LoadsNow, Filled
  <2> QED BY <1>1, <2>2, <2>3, PlacedGrown
<1>5. ASSUME NEW r \in Requests, Store(r) PROVE Placed'
  <2>1. /\ StoresNow(r) \/ StoredAll(r)
        /\ step.phase = "store" /\ step'.phase = "store"
    BY <1>5, StoreNow
  <2>2. CASE StoresNow(r)
    <3>1. PICK t : transfers' = transfers \cup {t} /\ Added(r, t)
                   /\ flush' = IF t.at = "urgent" THEN flush \cup {t.id} ELSE flush
      BY <2>2 DEF StoresNow
    <3>2. /\ t \in JobT /\ t.id \in NextIds /\ t.known /\ t.at \in {"built", "urgent"} /\ t.store
      BY <3>1 DEF Added
    <3> QED BY <1>1, <2>1, <3>1, <3>2, PlacedGrown
  <2>3. CASE StoredAll(r) BY <2>1, <2>3, PlacedKept DEF StoredAll
  <2> QED BY <2>1, <2>2, <2>3
<1>6. ASSUME NEW stop \in SUBSET Requests, Update(stop) PROVE Placed'
  BY <1>1, <1>6 DEF Update, Shape, StepT, Placed, PlaceFor, Older, Ids
<1> QED BY <1>1, <1>2, <1>3, <1>4, <1>5, <1>6, ResetPlaced, EndSchedulePlaced, SendMetaPlaced,
     CopyPlaced, ForwardPlaced DEF Next, Step, CopyNext
-------------------------------------------------------------------------------
\* A chunk becomes readable when its store is reported, and keeps its slot while it is.
StoredNow(k) ==
    /\ step.phase = "output"
    /\ \E j \in transfers : /\ j.store /\ j.known /\ j.at = "done"
                            /\ \E m \in j.moves : m.key = k /\ m.slot = host[k].slot

LEMMA ReadyFrom ==
    ASSUME IInv, IInv', [Next]_vars, NEW k \in Keys, host'[k].ready
    PROVE  (host[k].ready \/ StoredNow(k)) /\ host'[k].slot = host[k].slot
<1>1. Shape /\ Short /\ Sched /\ Pinned BY CountsShort DEF IInv
<1>2. CASE host' = host BY <1>2
<1>3. ASSUME NEW r \in Requests, Load(r)
      PROVE  host[k].ready /\ host'[k].slot = host[k].slot
  BY <1>1, <1>3, LoadNow DEF LoadsNow
<1>4. ASSUME NEW r \in Requests, Store(r)
      PROVE  host[k].ready /\ host'[k].slot = host[k].slot
  <2>1. host'[k] = host[k] BY <1>4, StoreNow
  <2> QED BY <2>1
<1>5. ASSUME NEW force \in BOOLEAN, Reset(force) PROVE host' = host
  <2>1. ASSUME ResetConnector PROVE FALSE BY <2>1 DEF ResetConnector, Absent
  <2> QED BY <1>5, <2>1 DEF Reset, manager
<1>6. ASSUME NEW stop \in SUBSET Requests, Update(stop)
      PROVE  (host[k].ready \/ StoredNow(k)) /\ host'[k].slot = host[k].slot
  <2>1. PICK live : live = KnownOf({j \in transfers : j.at = "done"})
    OBVIOUS
  <2>2. CompleteTransfers(live) /\ step.phase = "output" BY <1>6, <2>1 DEF Update
  <2>3. \A j \in live : j \in transfers /\ j.known /\ j.at = "done" BY <2>1 DEF KnownOf
  <2>4. PICK c : c = (\E j \in live : j.store /\ k \in KeysOf(j))
    OBVIOUS
  <2>5. PICK n : n = host[k].readers - Cardinality(Ids({j \in live : ~j.store /\ k \in KeysOf(j)}))
    OBVIOUS
  <2>6. host'[k] = [host[k] EXCEPT !.ready = host[k].ready \/ c, !.readers = n]
    BY <2>2, <2>4, <2>5 DEF CompleteTransfers
  <2>7. host[k] \in HostT BY <1>1 DEF Shape
  <2>8. host'[k].slot = host[k].slot /\ (host'[k].ready = (host[k].ready \/ c))
    BY <2>6, <2>7 DEF HostT
  <2>9. ASSUME c PROVE StoredNow(k)
    <3>1. PICK j \in live : j.store /\ k \in KeysOf(j) BY <2>4, <2>9
    <3>2. PICK m \in j.moves : m.key = k BY <3>1 DEF KeysOf
    <3>3. m.slot = host[k].slot BY <1>1, <2>3, <3>2 DEF Pinned, MovesNamed, Naming
    <3> QED BY <2>2, <2>3, <3>1, <3>2, <3>3 DEF StoredNow
  <2> QED BY <2>8, <2>9
<1>7. CASE \/ Begin \/ EndSchedule \/ SendMeta \/ Forward \/ UNCHANGED vars \/ CopyNext
           \/ \E r \in Requests : \/ ScheduleRunning(r) \/ Loading(r) \/ Delay(r) \/ Admit(r)
                                  \/ Abort(r) \/ \E p \in Prompts : Arrive(r, p)
  BY <1>7 DEF Begin, EndSchedule, SendMeta, Forward, CopyNext, Copy, vars, ScheduleRunning, Loading,
              Delay, Admit, Abort, Arrive, manager
<1> QED BY <1>2, <1>3, <1>4, <1>5, <1>6, <1>7 DEF Next, Step

\* Stores from before a reset write no slot of a readable chunk.
ReadySafe == \A l \in transfers : l.store /\ ~l.known /\ l.at # "done" =>
    \A k \in Keys : host[k].ready => host[k].slot \notin SlotsOf(l)

LEMMA ReadySafeStep ==
    ASSUME IInv, IInv', Placed, ReadySafe, [Next]_vars PROVE ReadySafe'
<1> SUFFICES ASSUME NEW l \in transfers', l.store, ~l.known, l.at # "done",
                    NEW k \in Keys, host'[k].ready
             PROVE  host'[k].slot \notin SlotsOf(l)
  BY DEF ReadySafe
<1>1. \A r \in Requests : ~Created(r, l) BY DEF Created, Filled, Added
<1>2. PICK j \in transfers : Moved(j, l) BY <1>1, Origin
<1>3. j.store /\ ~j.known /\ j.at # "done" /\ SlotsOf(l) = SlotsOf(j)
  BY <1>2 DEF Moved, SlotsOf, Absent
<1>4. ~StoredNow(k) BY <1>3 DEF StoredNow, Placed, Older
<1> QED BY <1>3, <1>4, ReadyFrom DEF ReadySafe
-------------------------------------------------------------------------------
\* The block ids that the connector keeps of a running request, with those that this step adds,
\* are those of its table, but for blocks given up; it keeps none of a request that has a load.
TrackFitFor(r) ==
    /\ req[r].status = "running" =>
          /\ Len(track[r].blocks) + Len(step.blocks[r]) = Len(req[r].table)
          /\ \A i \in DOMAIN track[r].blocks :
                track[r].blocks[i] = Null \/ req[r].table[i] \in {Null, track[r].blocks[i]}
          /\ \A i \in DOMAIN step.blocks[r] :
                req[r].table[Len(track[r].blocks) + i] = step.blocks[r][i]
    /\ req[r].status = "loading" \/ (req[r].status = "waiting" /\ req[r].computed > 0) =>
          track[r].blocks = <<>>
TrackFit == \A r \in Requests : TrackFitFor(r)

LEMMA TrackFitKept ==
    ASSUME NEW q, TrackFitFor(q), req'[q].status = req[q].status,
           req'[q].computed = req[q].computed, req'[q].table = req[q].table,
           \/ track'[q].blocks = track[q].blocks
           \/ track'[q].blocks = <<>> /\ req[q].status # "running",
           step'.blocks[q] = step.blocks[q]
    PROVE  TrackFitFor(q)'
BY DEF TrackFitFor

LEMMA TableDomain ==
    ASSUME NEW s \in BlockSeq PROVE DOMAIN s = 1..Len(s) /\ Len(s) \in Nat
BY DEF BlockSeq

LEMMA GrantsTrackFit ==
    ASSUME IInv, IInv', TrackFit, NEW r \in Requests, Grants(r), track' = track PROVE TrackFit'
<1>1. /\ req[r].status = "running" /\ req'[r].status = "running" /\ step.blocks[r] = <<>>
      /\ \A q \in Requests \ {r} : req'[q] = req[q] /\ step'.blocks[q] = step.blocks[q]
      /\ Len(step'.blocks[r]) = Len(req'[r].table) - Len(req[r].table)
      /\ \A i \in 1..Len(step'.blocks[r]) :
            req'[r].table[Len(req[r].table) + i] = step'.blocks[r][i]
  BY DEF Grants, Granted
<1>2. \A q \in Requests \ {r} : TrackFitFor(q)' BY <1>1, TrackFitKept DEF TrackFit
<1>3. PICK k, l, n : k = Len(req[r].table) /\ l = Len(req'[r].table) /\ n = Len(step'.blocks[r])
  OBVIOUS
<1>4. /\ k \in Nat /\ l \in Nat /\ n \in Nat /\ DOMAIN req[r].table = 1..k
      /\ DOMAIN step'.blocks[r] = 1..n /\ DOMAIN track[r].blocks = 1..Len(track[r].blocks)
      /\ Len(track[r].blocks) \in Nat
  BY <1>3, TableDomain DEF IInv, Shape, ReqT, StepT, TrackT
<1>5. Len(track[r].blocks) = k
  <2>1. Len(track[r].blocks) + Len(step.blocks[r]) = k BY <1>1, <1>3 DEF TrackFit, TrackFitFor
  <2>2. Len(step.blocks[r]) = 0 BY <1>1
  <2> QED BY <1>4, <2>1, <2>2
<1>6. Len(track[r].blocks) + n = l BY <1>1, <1>3, <1>4, <1>5
<1>7. ASSUME NEW i \in DOMAIN track[r].blocks
      PROVE  track[r].blocks[i] = Null \/ req'[r].table[i] \in {Null, track[r].blocks[i]}
  BY <1>1, <1>3, <1>4, <1>5 DEF Grants, Granted, Kept, TrackFit, TrackFitFor
<1>8. TrackFitFor(r)' BY <1>1, <1>3, <1>4, <1>5, <1>6, <1>7 DEF TrackFitFor
<1> QED BY <1>2, <1>8 DEF TrackFit

LEMMA PreemptsTrackFit ==
    ASSUME IInv, TrackFit, NEW r \in Requests, Preempts(r), track' = track PROVE TrackFit'
<1>1. PICK v \in Running :
          /\ req'[v].status = "waiting" /\ req'[v].computed = 0
          /\ \A q \in Requests \ {v} :
                /\ req'[q].status = req[q].status /\ req'[q].computed = req[q].computed
                /\ req'[q].table = IF q = r THEN Kept(r) ELSE req[q].table
  BY DEF Preempts
<1>2. step'.blocks = step.blocks /\ req[r].status = "running" /\ step.blocks[r] = <<>>
  BY DEF Preempts
<1>3. TrackFitFor(v)' BY <1>1 DEF TrackFitFor
<1>4. \A q \in Requests \ {v, r} : TrackFitFor(q)' BY <1>1, <1>2, TrackFitKept DEF TrackFit
<1>5. ASSUME r # v PROVE TrackFitFor(r)'
  <2>1. req'[r].table = Kept(r) /\ Len(Kept(r)) = Len(req[r].table)
        /\ req'[r].status = "running" /\ TrackFitFor(r)
    BY <1>1, <1>2, <1>5, KeptType DEF IInv, TrackFit
  <2>2. \A i \in DOMAIN track[r].blocks : i \in DOMAIN req[r].table
    <3>1. /\ DOMAIN track[r].blocks = 1..Len(track[r].blocks) /\ Len(track[r].blocks) \in Nat
          /\ DOMAIN req[r].table = 1..Len(req[r].table)
      BY DEF IInv, Shape, ReqT, TrackT, BlockSeq
    <3>2. Len(step.blocks[r]) = 0 BY <1>2
    <3>3. Len(track[r].blocks) = Len(req[r].table) BY <1>2, <2>1, <3>1, <3>2 DEF TrackFitFor
    <3> QED BY <3>1, <3>3
  <2>3. \A i \in DOMAIN req[r].table : Kept(r)[i] \in {req[r].table[i], Null} BY DEF Kept
  <2>4. DOMAIN step'.blocks[r] = {} BY <1>2
  <2>5. \A i \in DOMAIN track[r].blocks :
            track[r].blocks[i] = Null \/ req'[r].table[i] \in {Null, track[r].blocks[i]}
    BY <1>2, <2>1, <2>2, <2>3 DEF TrackFitFor
  <2> QED BY <1>2, <2>1, <2>4, <2>5 DEF TrackFitFor
<1> QED BY <1>3, <1>4, <1>5 DEF TrackFit

LEMMA AdmitTrackFit ==
    ASSUME IInv, IInv', TrackFit, NEW r \in Requests, Admit(r) PROVE TrackFit'
<1>1. Shape /\ Short /\ Sched /\ Counts /\ Sized BY CountsShort DEF IInv
<1>2. /\ Granted(r) /\ req[r].status = "waiting" /\ step'.blocks[r] = req'[r].table
      /\ track' = [track EXCEPT ![r].blocks = IF req[r].computed = 0 THEN <<>> ELSE @]
  BY <1>1, AdmitGranted
<1>3. /\ \A q \in Requests \ {r} : /\ req'[q] = req[q] /\ step'.blocks[q] = step.blocks[q]
                                   /\ track'[q] = track[q]
      /\ req'[r].status = "running"
  BY <1>1, <1>2 DEF Granted, Shape
<1>4. track'[r].blocks = <<>>
  <2>1. req[r].computed \in Int /\ req[r].computed >= 0
    BY <1>1 DEF Shape, ReqT, Counts, CountsFor
  <2>2. CASE req[r].computed = 0 BY <1>1, <1>2, <2>2 DEF Shape, TrackT
  <2>3. CASE req[r].computed > 0 BY <1>1, <1>2, <2>3 DEF TrackFit, TrackFitFor, Shape, TrackT
  <2> QED BY <2>1, <2>2, <2>3
<1>5. \A q \in Requests \ {r} : TrackFitFor(q)' BY <1>3, TrackFitKept DEF TrackFit
<1>6. TrackFitFor(r)'
  <2>1. PICK t : t = req'[r].table
    OBVIOUS
  <2>2. t \in BlockSeq BY <2>1 DEF IInv, Shape, ReqT
  <2>3. Len(<<>>) = 0 /\ DOMAIN <<>> = {} /\ Len(t) \in Nat /\ DOMAIN t = 1..Len(t)
    BY <2>2 DEF BlockSeq
  <2>4. Len(<<>>) + Len(t) = Len(t) /\ \A i \in DOMAIN t : Len(<<>>) + i = i BY <2>3
  <2> QED BY <1>2, <1>3, <1>4, <2>1, <2>3, <2>4 DEF TrackFitFor
<1> QED BY <1>5, <1>6 DEF TrackFit

LEMMA EndScheduleTrackFit ==
    ASSUME IInv, IInv', TrackFit, EndSchedule PROVE TrackFit'
<1>1. Shape /\ Shape' /\ Sched BY DEF IInv
<1> SUFFICES ASSUME NEW r \in Requests PROVE TrackFitFor(r)' BY DEF TrackFit
<1>2. /\ req' = req /\ step'.blocks[r] = <<>> /\ track'[r].blocks = KeptIds(r) \o step.blocks[r]
  <2>1. req' = req /\ step'.blocks[r] = <<>> BY <1>1 DEF EndSchedule, engine, Shape, StepT
  <2>2. track' = [q \in Requests |-> [track[q] EXCEPT !.blocks = KeptIds(q) \o step.blocks[q]]]
    BY DEF EndSchedule
  <2>3. track[r] \in TrackT BY <1>1 DEF Shape
  <2> QED BY <2>1, <2>2, <2>3 DEF TrackT
<1>3. /\ track[r].blocks \in BlockSeq /\ step.blocks[r] \in BlockSeq /\ req[r].table \in BlockSeq
  BY <1>1 DEF Shape, StepT, TrackT, ReqT
<1>4. /\ KeptIds(r) \in BlockSeq /\ Len(KeptIds(r)) = Len(track[r].blocks)
      /\ \A i \in 1..Len(track[r].blocks) : KeptIds(r)[i] \in {Null, track[r].blocks[i]}
  BY <1>3 DEF KeptIds, BlockSeq
<1>5. PICK t, k, n : t = track'[r].blocks /\ k = Len(track[r].blocks) /\ n = Len(step.blocks[r])
  OBVIOUS
<1>6. /\ k \in Nat /\ n \in Nat /\ t \in BlockSeq /\ Len(t) = k + n /\ DOMAIN t = 1..(k + n)
      /\ \A i \in 1..k : t[i] = KeptIds(r)[i]
      /\ \A i \in k + 1..k + n : i - k \in 1..n /\ t[i] = step.blocks[r][i - k]
      /\ DOMAIN step.blocks[r] = 1..n /\ DOMAIN track[r].blocks = 1..k
  <2> DEFINE s == KeptIds(r)
             u == step.blocks[r]
  <2>1. s \in BlockSeq /\ u \in BlockSeq /\ t = s \o u /\ k = Len(s) /\ n = Len(u)
        /\ track[r].blocks \in BlockSeq
    BY <1>2, <1>3, <1>4, <1>5
  <2> HIDE DEF s, u
  <2>2. t \in BlockSeq /\ Len(t) = k + n BY <2>1, ConcatType
  <2>3. /\ k \in Nat /\ n \in Nat
        /\ \A i \in 1..k : t[i] = s[i]
        /\ \A i \in k + 1..k + n : i - k \in 1..n /\ t[i] = u[i - k]
    BY <2>1, ConcatAt
  <2>4. DOMAIN t = 1..(k + n) /\ DOMAIN u = 1..n /\ DOMAIN track[r].blocks = 1..k
    BY <1>5, <2>1, <2>2, TableDomain
  <2> QED BY <2>2, <2>3, <2>4 DEF s, u
<1>7. CASE req[r].status = "running"
  <2>1. /\ k + n = Len(req[r].table)
        /\ \A i \in 1..k : track[r].blocks[i] = Null \/ req[r].table[i] \in {Null, track[r].blocks[i]}
        /\ \A i \in 1..n : req[r].table[k + i] = step.blocks[r][i]
    BY <1>5, <1>6, <1>7 DEF TrackFit, TrackFitFor
  <2>2. ASSUME NEW i \in 1..(k + n) PROVE t[i] = Null \/ req[r].table[i] \in {Null, t[i]}
    <3>1. CASE i \in 1..k BY <1>4, <1>5, <1>6, <2>1, <3>1
    <3>2. CASE i \in k + 1..k + n
      <4>1. i - k \in 1..n /\ t[i] = step.blocks[r][i - k] /\ k + (i - k) = i BY <1>6, <3>2
      <4> QED BY <2>1, <4>1
    <3> QED BY <1>6, <3>1, <3>2
  <2>3. Len(t) + Len(<<>>) = Len(req[r].table) /\ DOMAIN <<>> = {} BY <1>6, <2>1
  <2> QED BY <1>2, <1>5, <1>6, <1>7, <2>2, <2>3 DEF TrackFitFor
<1>8. CASE req[r].status # "running"
  <2>1. step.blocks[r] = <<>> BY <1>1, <1>8 DEF Sched
  <2>2. ASSUME track[r].blocks = <<>> PROVE t = <<>>
    <3>1. k = 0 /\ n = 0 BY <1>5, <2>1, <2>2
    <3> QED BY <1>6, <3>1 DEF BlockSeq
  <2> QED BY <1>2, <1>5, <1>8, <2>2 DEF TrackFit, TrackFitFor
<1> QED BY <1>7, <1>8

LEMMA TrackFitStep == ASSUME IInv, IInv', TrackFit, [Next]_vars PROVE TrackFit'
<1>1. Shape /\ Short /\ Sched /\ Closed /\ Counts /\ Sized /\ Shape' BY CountsShort DEF IInv
<1>2. CASE UNCHANGED <<req, track, step>> BY <1>2, TrackFitKept DEF TrackFit
<1>3. ASSUME NEW r \in Requests, NEW p \in Prompts, Arrive(r, p) PROVE TrackFit'
  <2>1. /\ \A q \in Requests \ {r} : req'[q] = req[q] /\ track'[q] = track[q]
        /\ req'[r].status = "waiting" /\ track'[r].blocks = <<>> /\ step' = step
    BY <1>1, <1>3 DEF Arrive, Shape, ReqT, NoTrack
  <2>2. \A q \in Requests \ {r} : TrackFitFor(q)' BY <2>1, TrackFitKept DEF TrackFit
  <2> QED BY <2>1, <2>2 DEF TrackFit, TrackFitFor
<1>4. ASSUME NEW r \in Requests, Abort(r) PROVE TrackFit'
  <2>1. /\ \A q \in Requests \ {r} : req'[q] = req[q] /\ track'[q] = track[q]
        /\ req'[r].status = "aborted" /\ step' = step
    BY <1>1, <1>4 DEF Abort, Shape, ReqT
  <2>2. \A q \in Requests \ {r} : TrackFitFor(q)' BY <2>1, TrackFitKept DEF TrackFit
  <2> QED BY <2>1, <2>2 DEF TrackFit, TrackFitFor
<1>5. ASSUME NEW force \in BOOLEAN, Reset(force) PROVE TrackFit'
  <2>1. step' = step /\ (req' = req \/ req' = Preempted(Running)) BY <1>5 DEF Reset
  <2> SUFFICES ASSUME NEW q \in Requests PROVE TrackFitFor(q)' BY DEF TrackFit
  <2>2. track'[q].blocks = track[q].blocks \/ (track'[q].blocks = <<>> /\ req[q].status # "running")
    <3>1. CASE UNCHANGED <<connector, manager>> BY <3>1 DEF connector
    <3>2. CASE ResetConnector
      <4>1. track'[q] = IF track[q].on /\ ~IsFinished(q)
                        THEN [track[q] EXCEPT !.next = 0, !.jobs = {}] ELSE NoTrack
        BY <3>2 DEF ResetConnector
      <4>2. req[q].status = "running" => track[q].on /\ ~IsFinished(q)
        BY <1>1 DEF Closed, ClosedFor, Active, IsFinished
      <4>3. CASE track[q].on /\ ~IsFinished(q) BY <1>1, <4>1, <4>3 DEF Shape, TrackT
      <4>4. CASE ~(track[q].on /\ ~IsFinished(q)) BY <4>1, <4>2, <4>4 DEF NoTrack
      <4> QED BY <4>3, <4>4
    <3> QED BY <1>5, <3>1, <3>2 DEF Reset
  <2>3. CASE req'[q] = req[q] BY <2>1, <2>2, <2>3, TrackFitKept DEF TrackFit
  <2>4. CASE req'[q] = [req[q] EXCEPT !.status = "waiting", !.computed = 0, !.table = <<>>]
    BY <1>1, <2>4 DEF Shape, ReqT, TrackFitFor
  <2> QED BY <2>1, <2>3, <2>4 DEF Preempted
<1>6. ASSUME NEW r \in Requests, ScheduleRunning(r) PROVE TrackFit'
  BY <1>1, <1>6, ScheduleRunningCases, GrantsTrackFit, PreemptsTrackFit
<1>7. ASSUME NEW r \in Requests, Loading(r) PROVE TrackFit'
  <2>1. /\ \A q \in Requests \ {r} : req'[q] = req[q]
        /\ req[r].status = "loading" /\ req'[r].status \in {"loading", "waiting"}
        /\ track' = track /\ step'.blocks = step.blocks
    BY <1>1, <1>7 DEF Loading, Considers, connector, Shape, ReqT, StepT
  <2>2. \A q \in Requests \ {r} : TrackFitFor(q)' BY <2>1, TrackFitKept DEF TrackFit
  <2>3. TrackFitFor(r)' BY <2>1 DEF TrackFit, TrackFitFor
  <2> QED BY <2>2, <2>3 DEF TrackFit
<1>8. ASSUME NEW r \in Requests, Delay(r) PROVE TrackFit'
  <2>1. req' = req /\ step'.blocks = step.blocks /\ req[r].status = "waiting"
        /\ \A q \in Requests : track'[q].blocks = track[q].blocks \/ (q = r /\ track'[q].blocks = <<>>)
    <3>1. req' = req /\ step'.blocks = step.blocks /\ req[r].status = "waiting"
      BY <1>1, <1>8 DEF Delay, Considers, Shape, StepT
    <3>2. track' = [track EXCEPT ![r].blocks = IF req[r].computed = 0 THEN <<>> ELSE @]
      BY <1>8 DEF Delay
    <3>3. track \in [Requests -> TrackT] BY <1>1 DEF Shape
    <3>4. \A q \in Requests \ {r} : track'[q] = track[q] BY <3>2, <3>3
    <3>5. track'[r].blocks \in {track[r].blocks, <<>>} BY <3>2, <3>3 DEF TrackT
    <3> QED BY <3>1, <3>4, <3>5
  <2>2. req[r].status # "running" BY <2>1
  <2> SUFFICES ASSUME NEW q \in Requests PROVE TrackFitFor(q)' BY DEF TrackFit
  <2> QED BY <2>1, <2>2, TrackFitKept DEF TrackFit
<1>9. ASSUME NEW r \in Requests, Load(r) PROVE TrackFit'
  <2>1. LoadsNow(r) BY <1>1, <1>9, LoadNow
  <2>2. \A q \in Requests \ {r} : TrackFitFor(q)' BY <2>1, TrackFitKept DEF TrackFit, LoadsNow
  <2>3. TrackFitFor(r)' BY <2>1 DEF TrackFitFor, LoadsNow
  <2> QED BY <2>2, <2>3 DEF TrackFit
<1>10. ASSUME NEW r \in Requests, Store(r) PROVE TrackFit'
  BY <1>10, StoreNow, TrackFitKept DEF engine, TrackFit
<1>11. ASSUME SendMeta PROVE TrackFit'
  <2> SUFFICES ASSUME NEW q \in Requests PROVE TrackFitFor(q)' BY DEF TrackFit
  <2>1. /\ req'[q].status = req[q].status /\ req'[q].table = req[q].table
        /\ req'[q].computed = req[q].computed + step.tokens[q] /\ step'.blocks = step.blocks
        /\ track'[q] = IF q \in finished /\ track[q].on THEN Signal(track[q]) ELSE track[q]
        /\ req[q].computed \in Int /\ step.tokens[q] \in Int
    BY <1>1, <1>11 DEF SendMeta, Shape, ReqT, StepT
  <2>2. track'[q].blocks \in {<<>>, track[q].blocks}
        /\ (req[q].status = "running" => track'[q].blocks = track[q].blocks)
    BY <1>1, <2>1 DEF Closed, ClosedFor, Active, Signal, NoTrack, Shape, TrackT
  <2>3. req[q].status # "running" => req'[q].computed = req[q].computed BY <1>1, <2>1 DEF Sched
  <2> QED BY <2>1, <2>2, <2>3 DEF TrackFit, TrackFitFor
<1>12. ASSUME NEW stop \in SUBSET Requests, Update(stop) PROVE TrackFit'
  <2> SUFFICES ASSUME NEW q \in Requests PROVE TrackFitFor(q)' BY DEF TrackFit
  <2>1. /\ req'[q].status = IF q \in stop THEN "stopped" ELSE req[q].status
        /\ q \notin stop /\ ~IsFinished(q) => req'[q].table = req[q].table
        /\ req'[q].computed = req[q].computed
    BY <1>1, <1>12 DEF Update, Shape, ReqT
  <2>2. track'[q].blocks = track[q].blocks \/ (track'[q].blocks = <<>> /\ track[q].signaled)
    <3>1. PICK js : track'[q] = IF track[q].signaled /\ js = {} THEN NoTrack
                                ELSE [track[q] EXCEPT !.jobs = js]
      BY <1>12 DEF Update
    <3> QED BY <1>1, <3>1 DEF NoTrack, Shape, TrackT
  <2>3. step'.blocks = step.blocks BY <1>1, <1>12 DEF Update, Shape, StepT
  <2>4. req[q].status = "running" => ~track[q].signaled BY <1>1 DEF Closed, ClosedFor, Active
  <2>5. CASE q \in stop \/ IsFinished(q) BY <2>1, <2>5 DEF TrackFitFor, IsFinished
  <2>6. CASE q \notin stop /\ ~IsFinished(q)
    BY <2>1, <2>2, <2>3, <2>4, <2>6, TrackFitKept DEF TrackFit
  <2> QED BY <2>5, <2>6
<1>13. CASE Begin \/ Forward \/ UNCHANGED vars \/ CopyNext
  BY <1>1, <1>13, TrackFitKept DEF Begin, Forward, CopyNext, Copy, vars, engine, connector, Shape,
     StepT, TrackFit
<1> QED BY <1>3, <1>4, <1>5, <1>6, <1>7, <1>8, <1>9, <1>10, <1>11, <1>12, <1>13, AdmitTrackFit,
     EndScheduleTrackFit DEF Next, Step
-------------------------------------------------------------------------------
\* How the steps of the engine follow each other, and what the requests in Running keep.
\* The tokens of r whose KV has been written.
Past(r) == IF step.phase = "flush" THEN req[r].computed - step.tokens[r] ELSE req[r].computed

LEMMA Phases ==
    ASSUME IInv, [Next]_vars
    PROVE  \/ step'.phase = step.phase
           \/ Begin \/ EndSchedule \/ SendMeta \/ Forward
           \/ \E stop \in SUBSET Requests : Update(stop)
<1>1. Shape /\ Short /\ Sched /\ Counts /\ Sized BY CountsShort DEF IInv
<1>2. step \in StepT BY <1>1 DEF Shape
<1>3. CASE UNCHANGED vars \/ CopyNext BY <1>3 DEF vars, CopyNext, Copy
<1>4. ASSUME NEW r \in Requests, Abort(r) \/ \E p \in Prompts : Arrive(r, p)
      PROVE  step'.phase = step.phase
  BY <1>4 DEF Abort, Arrive
<1>5. ASSUME NEW force \in BOOLEAN, Reset(force) PROVE step'.phase = step.phase
  BY <1>5 DEF Reset
<1>6. ASSUME NEW r \in Requests, ScheduleRunning(r) PROVE step'.phase = step.phase
  BY <1>1, <1>6, ScheduleRunningCases DEF Grants, Granted, Preempts
<1>7. ASSUME NEW r \in Requests, Loading(r) PROVE step'.phase = step.phase
  BY <1>2, <1>7 DEF Loading, StepT
<1>8. ASSUME NEW r \in Requests, Delay(r) PROVE step'.phase = step.phase
  BY <1>2, <1>8 DEF Delay, StepT
<1>9. ASSUME NEW r \in Requests, Admit(r) PROVE step'.phase = step.phase
  BY <1>1, <1>9, AdmitGranted DEF Granted
<1>10. ASSUME NEW r \in Requests, Load(r) PROVE step'.phase = step.phase
  BY <1>1, <1>10, LoadNow DEF LoadsNow
<1>11. ASSUME NEW r \in Requests, Store(r) PROVE step'.phase = step.phase
  BY <1>2, <1>11 DEF Store, StepT
<1> QED BY <1>3, <1>4, <1>5, <1>6, <1>7, <1>8, <1>9, <1>10, <1>11 DEF Next, Step

\* What is to be flushed stays so until it is through.
LEMMA FlushLasts ==
    ASSUME IInv, IInv', Placed, [Next]_vars, NEW l \in transfers', l.store, l.id \in flush,
           l.at # "done"
    PROVE  l.id \in flush'
<1>1. Shape /\ Short /\ Sched /\ Counts /\ Sized /\ Linked' BY CountsShort DEF IInv
<1>2. CASE UNCHANGED flush BY <1>2
<1>3. CASE EndSchedule BY <1>3 DEF EndSchedule
<1>4. ASSUME NEW r \in Requests, Store(r) PROVE flush \subseteq flush'
  BY <1>4, StoreNow DEF StoresNow, StoredAll
<1>5. ASSUME NEW force \in BOOLEAN, Reset(force) PROVE flush \subseteq flush'
  BY <1>5 DEF connector, ResetConnector, Reset
<1>6. CASE Forward
  <2>1. PICK j \in transfers : j.id = l.id /\ j.store /\ j.at # "done"
    <3>1. PICK j \in transfers : l = [j EXCEPT !.at = IF @ = "built" THEN "queued" ELSE @]
      BY <1>6 DEF Forward
    <3> QED BY <1>1, <3>1 DEF Shape, JobT
  <2> QED BY <1>1, <1>6, <2>1, ForwardPlaced
<1>7. ASSUME NEW r \in Requests, ScheduleRunning(r) PROVE UNCHANGED flush
  BY <1>7 DEF ScheduleRunning, connector
<1> QED BY <1>2, <1>3, <1>4, <1>5, <1>6, <1>7
     DEF Next, Step, Begin, SendMeta, Loading, Delay, Admit, Load, Update, CopyNext, Copy, Abort,
         Arrive, vars, connector

\* A request that is over stays over, and the window is what it is.
LEMMA FinishedLasts ==
    ASSUME IInv, IInv', [Next]_vars, NEW q \in Requests
    PROVE  (IsFinished(q) => IsFinished(q)') /\ window' = window
<1>1. Shape /\ Short /\ Sched /\ Counts /\ Sized BY CountsShort DEF IInv
<1>2. CASE req' = req /\ window' = window BY <1>2 DEF IsFinished
<1>3. ASSUME NEW r \in Requests, Arrive(r, req'[r].prompt) \/ Abort(r) \/ Loading(r) \/ Load(r)
      PROVE  (IsFinished(q) => IsFinished(q)') /\ window' = window
  BY <1>1, <1>3 DEF Arrive, Abort, Active, Loading, Load, Considers, IsFinished, Shape, ReqT
<1>4. ASSUME NEW force \in BOOLEAN, Reset(force)
      PROVE  (IsFinished(q) => IsFinished(q)') /\ window' = window
  BY <1>1, <1>4 DEF Reset, Preempted, Running, IsFinished, Shape
<1>5. ASSUME NEW r \in Requests, Granted(r), ~IsFinished(r)
      PROVE  (IsFinished(q) => IsFinished(q)') /\ window' = window
  BY <1>5 DEF Granted, IsFinished
<1>6. ASSUME NEW r \in Requests, Preempts(r)
      PROVE  (IsFinished(q) => IsFinished(q)') /\ window' = window
  BY <1>6 DEF Preempts, IsFinished, Running
<1>7. CASE SendMeta BY <1>1, <1>7 DEF SendMeta, IsFinished, Shape, ReqT
<1>8. ASSUME NEW stop \in SUBSET Requests, Update(stop)
      PROVE  (IsFinished(q) => IsFinished(q)') /\ window' = window
  <2>1. req'[q].status = (IF q \in stop THEN "stopped" ELSE req[q].status) /\ window' = window
    BY <1>1, <1>8 DEF Update, Shape, ReqT
  <2> QED BY <2>1 DEF IsFinished
<1>9. ASSUME NEW r \in Requests, ScheduleRunning(r)
      PROVE  (IsFinished(q) => IsFinished(q)') /\ window' = window
  BY <1>1, <1>5, <1>6, <1>9, ScheduleRunningCases DEF Grants, IsFinished
<1>10. ASSUME NEW r \in Requests, Admit(r)
       PROVE  (IsFinished(q) => IsFinished(q)') /\ window' = window
  BY <1>1, <1>5, <1>10, AdmitGranted DEF IsFinished
<1>11. ASSUME NEW r \in Requests, NEW p \in Prompts, Arrive(r, p)
       PROVE  (IsFinished(q) => IsFinished(q)') /\ window' = window
  BY <1>1, <1>11 DEF Arrive, IsFinished, Shape, ReqT
<1>12. ASSUME NEW r \in Requests, Store(r) PROVE req' = req /\ window' = window
  BY <1>12, StoreNow DEF engine
<1> QED BY <1>2, <1>3, <1>4, <1>7, <1>8, <1>9, <1>10, <1>11, <1>12
     DEF Next, Step, Begin, EndSchedule, Forward, Delay, CopyNext, Copy, vars, engine

\* A request in Running goes on, or it ends or is preempted and gives back its blocks.
RunsOn(q) ==
    \/ /\ req'[q].status = "running" /\ Past(q)' >= Past(q)
       /\ \A i \in DOMAIN req[q].table :
             /\ i \in DOMAIN req'[q].table
             /\ req'[q].table[i] = req[q].table[i] \/ (req'[q].table[i] = Null /\ window # 0)
    \/ IsFinished(q)' /\ req'[q].table = <<>>
    \/ /\ req'[q].status = "waiting" /\ req'[q].table = <<>>
       /\ q \in preempted' /\ step'.phase \in {"idle", "schedule"}

LEMMA RunsSame ==
    ASSUME IInv, NEW q \in Requests, req[q].status = "running", req'[q].status = req[q].status,
           req'[q].computed = req[q].computed, req'[q].table = req[q].table,
           \/ step'.phase = step.phase /\ step'.tokens = step.tokens
           \/ step'.phase # "flush"
    PROVE  RunsOn(q)
<1>1. /\ req[q].computed \in Int /\ step.tokens[q] \in Int /\ step.tokens[q] >= 0
      /\ req[q].computed >= 0
  BY DEF IInv, Shape, ReqT, StepT, Counts, CountsFor
<1>2. Past(q)' >= Past(q)
  <2>1. CASE step'.phase = step.phase /\ step'.tokens = step.tokens BY <1>1, <2>1 DEF Past
  <2>2. CASE step'.phase # "flush" BY <1>1, <2>2 DEF Past
  <2> QED BY <2>1, <2>2
<1> QED BY <1>2 DEF RunsOn

LEMMA GrantsRunsOn ==
    ASSUME IInv, IInv', NEW r \in Requests, Granted(r), req[r].status = "running" PROVE RunsOn(r)
<1>1. /\ req[r].computed \in Int /\ req[r].table \in BlockSeq /\ req'[r].table \in BlockSeq
  BY DEF IInv, Shape, ReqT
<1>2. Past(r)' >= Past(r) BY <1>1 DEF Granted, Past
<1>3. ASSUME NEW i \in DOMAIN req[r].table
      PROVE  /\ i \in DOMAIN req'[r].table
             /\ req'[r].table[i] = req[r].table[i] \/ (req'[r].table[i] = Null /\ window # 0)
  <2>1. i \in 1..Len(req[r].table) /\ i \in DOMAIN req'[r].table
    BY <1>1, TableDomain DEF Granted
  <2>2. req'[r].table[i] = Kept(r)[i] BY <2>1 DEF Granted
  <2>3. Kept(r)[i] = req[r].table[i] \/ (Kept(r)[i] = Null /\ window # 0) BY DEF Kept
  <2> QED BY <2>1, <2>2, <2>3
<1> QED BY <1>2, <1>3 DEF RunsOn, Granted

LEMMA RunningStep ==
    ASSUME IInv, IInv', [Next]_vars, NEW q \in Requests, req[q].status = "running" PROVE RunsOn(q)
<1>1. Shape /\ Shape' /\ Short /\ Sched /\ Sched' /\ Counts /\ Sized /\ Linked
  BY CountsShort DEF IInv
<1>2. ASSUME req'[q] = req[q], \/ step'.phase = step.phase /\ step'.tokens = step.tokens
                               \/ step'.phase # "flush"
      PROVE  RunsOn(q)
  BY <1>2, RunsSame
<1>3. CASE UNCHANGED vars \/ CopyNext BY <1>2, <1>3 DEF CopyNext, Copy, vars, engine
<1>4. ASSUME NEW r \in Requests, NEW p \in Prompts, Arrive(r, p) PROVE RunsOn(q)
  BY <1>1, <1>2, <1>4 DEF Arrive, Shape
<1>5. ASSUME NEW r \in Requests, Abort(r) PROVE RunsOn(q)
  <2>1. CASE q = r BY <1>1, <1>5, <2>1 DEF Abort, Shape, ReqT, Held, RunsOn, IsFinished
  <2>2. CASE q # r BY <1>1, <1>2, <1>5, <2>2 DEF Abort, Shape
  <2> QED BY <2>1, <2>2
<1>6. ASSUME NEW force \in BOOLEAN, Reset(force) PROVE RunsOn(q)
  <2>1. step.phase = "idle" /\ step' = step BY <1>6 DEF Reset
  <2>2. CASE force
    <3>1. req'[q] = [req[q] EXCEPT !.status = "waiting", !.computed = 0, !.table = <<>>]
          /\ preempted' = preempted \cup Running
      BY <1>6, <2>2 DEF Reset, Preempted, PutBack, Running
    <3>2. req'[q].status = "waiting" /\ req'[q].table = <<>> BY <1>1, <3>1 DEF Shape, ReqT
    <3> QED BY <2>1, <3>1, <3>2 DEF RunsOn, Running
  <2>3. CASE ~force BY <1>2, <1>6, <2>1, <2>3 DEF Reset
  <2> QED BY <2>2, <2>3
<1>7. CASE Begin \/ EndSchedule \/ Forward
  BY <1>1, <1>2, <1>7 DEF Begin, EndSchedule, Forward, engine, Shape, StepT
<1>8. CASE SendMeta
  <2>1. /\ req'[q].status = "running" /\ req'[q].table = req[q].table
        /\ req'[q].computed = req[q].computed + step.tokens[q]
        /\ step.phase = "store" /\ step'.phase = "flush" /\ step'.tokens = step.tokens
    BY <1>1, <1>8 DEF SendMeta, Shape, ReqT, StepT
  <2>2. req[q].computed \in Int /\ step.tokens[q] \in Int BY <1>1 DEF Shape, ReqT, StepT
  <2>3. Past(q)' = Past(q) /\ Past(q) \in Int BY <2>1, <2>2 DEF Past
  <2> QED BY <2>1, <2>3 DEF RunsOn
<1>9. ASSUME NEW stop \in SUBSET Requests, Update(stop) PROVE RunsOn(q)
  <2>1. /\ req'[q].status = IF q \in stop THEN "stopped" ELSE req[q].status
        /\ q \in stop => req'[q].table = <<>>
        /\ q \notin stop /\ ~IsFinished(q) => req'[q].table = req[q].table
        /\ req'[q].computed = req[q].computed /\ step'.phase # "flush"
    BY ZenonT(40), <1>1, <1>9 DEF Update, Shape, ReqT, StepT
  <2>2. CASE q \in stop BY <2>1, <2>2 DEF RunsOn, IsFinished
  <2>3. CASE q \notin stop BY <2>1, <2>3, RunsSame DEF IsFinished
  <2> QED BY <2>2, <2>3
<1>10. ASSUME NEW r \in Requests, ScheduleRunning(r) PROVE RunsOn(q)
  <2>1. CASE Grants(r) BY <1>2, <2>1, GrantsRunsOn DEF Grants, Granted
  <2>2. CASE Preempts(r)
    <3>1. PICK v \in Running :
            /\ req'[v].status = "waiting" /\ req'[v].table = <<>> /\ preempted' = preempted \cup {v}
            /\ \A p \in Requests \ {v} : 
                  /\ req'[p].status = req[p].status /\ req'[p].computed = req[p].computed
                  /\ req'[p].table = IF p = r THEN Kept(r) ELSE req[p].table
      BY <2>2 DEF Preempts
    <3>2. step'.phase = "schedule" /\ step.phase = "schedule" BY <2>2 DEF Preempts
    <3>3. CASE q = v BY <3>1, <3>2, <3>3 DEF RunsOn
    <3>4. CASE q # v /\ q # r BY <3>1, <3>2, <3>4, RunsSame
    <3>5. CASE q # v /\ q = r
      <4>1. req'[q].status = "running" /\ req'[q].table = Kept(q) /\ Past(q)' = Past(q)
            /\ Past(q) \in Int
        BY <1>1, <3>1, <3>2, <3>5 DEF Past, Shape, ReqT
      <4>2. \A i \in DOMAIN req[q].table :
               /\ i \in DOMAIN Kept(q)
               /\ Kept(q)[i] = req[q].table[i] \/ (Kept(q)[i] = Null /\ window # 0)
        BY DEF Kept
      <4> QED BY <4>1, <4>2 DEF RunsOn
    <3> QED BY <3>3, <3>4, <3>5
  <2> QED BY <1>1, <1>10, <2>1, <2>2, ScheduleRunningCases
<1>11. ASSUME NEW r \in Requests, Loading(r) PROVE RunsOn(q)
  <2>1. req[r].status = "loading" /\ step.phase = "schedule"
    BY <1>11 DEF Loading, Considers, Turn
  <2>2. req'[q] = req[q] BY <1>1, <1>11, <2>1 DEF Loading, Shape
  <2>3. step'.phase # "flush" BY <1>1, <1>11, <2>1 DEF Loading, Shape, StepT
  <2> QED BY <1>2, <2>2, <2>3
<1>12. ASSUME NEW r \in Requests, Delay(r) PROVE RunsOn(q)
  BY <1>1, <1>2, <1>12 DEF Delay, Considers, Turn, Shape, StepT
<1>13. ASSUME NEW r \in Requests, Admit(r) PROVE RunsOn(q)
  BY <1>1, <1>2, <1>13, AdmitGranted DEF Granted
<1>14. ASSUME NEW r \in Requests, Load(r) PROVE RunsOn(q)
  BY <1>1, <1>2, <1>14, LoadNow DEF LoadsNow
<1>15. ASSUME NEW r \in Requests, Store(r) PROVE RunsOn(q) BY <1>2, <1>15, StoreNow DEF engine
<1> QED BY <1>3, <1>4, <1>5, <1>6, <1>7, <1>8, <1>9, <1>10, <1>11, <1>12, <1>13, <1>14, <1>15
     DEF Next, Step
-------------------------------------------------------------------------------
\* Blocks that are given away in this step: what they hold is not yet that of their new chunk.
BuiltLoad(r) == \E j \in transfers : j.req = r /\ ~j.store /\ j.at = "built"
Fresh(r, i) ==
    /\ step.phase \in {"schedule", "store", "flush"}
    /\ \/ step.tokens[r] > 0 /\ i * ChunkTokens > Past(r)
       \/ req[r].status = "loading" /\ BuiltLoad(r)

LEMMA InSchedule ==
    ASSUME IInv, [Next]_vars, step.phase = "schedule", step'.phase = "schedule"
    PROVE  \/ UNCHANGED vars
           \/ \E r \in Requests : \/ ScheduleRunning(r) \/ Loading(r) \/ Delay(r)
                                  \/ Admit(r) \/ Load(r)
<1>1. ASSUME Begin \/ EndSchedule \/ SendMeta \/ Forward PROVE FALSE
  <2>1. step \in StepT BY DEF IInv, Shape
  <2>2. CASE Begin BY <2>2 DEF Begin
  <2>3. CASE EndSchedule BY <2>1, <2>3 DEF EndSchedule, StepT
  <2>4. CASE SendMeta BY <2>4 DEF SendMeta
  <2>5. CASE Forward BY <2>5 DEF Forward
  <2> QED BY <1>1, <2>2, <2>3, <2>4, <2>5
<1>2. ASSUME \E stop \in SUBSET Requests : Update(stop) PROVE FALSE BY <1>2 DEF Update
<1>3. ASSUME CopyNext PROVE FALSE BY <1>3 DEF CopyNext, Copy
<1>4. ASSUME NEW r \in Requests, Abort(r) \/ (\E p \in Prompts : Arrive(r, p)) \/ Store(r)
      PROVE  FALSE
  BY <1>4 DEF Abort, Arrive, Store
<1>5. ASSUME NEW force \in BOOLEAN, Reset(force) PROVE FALSE BY <1>5 DEF Reset
<1> QED BY <1>1, <1>2, <1>3, <1>4, <1>5 DEF Next, Step

\* What is scheduled in a step stays so.
ScheduledFor(q) ==
    /\ allocated \subseteq allocated' /\ transfers \subseteq transfers'
    /\ step.blocks[q] = <<>> \/ step'.blocks[q] = step.blocks[q]
    /\ step.tokens[q] # 0 =>
          step'.tokens[q] = step.tokens[q] /\ req'[q].computed = req[q].computed
    /\ req[q].status = "loading" /\ q \notin received => req'[q].status = "loading"

LEMMA ScheduleKeeps ==
    ASSUME IInv, IInv', [Next]_vars, step.phase = "schedule", step'.phase = "schedule",
           NEW q \in Requests
    PROVE  ScheduledFor(q)
<1>1. Shape /\ Shape' /\ Short /\ Sched /\ Counts /\ Sized BY CountsShort DEF IInv
<1>2. CASE UNCHANGED vars BY <1>2 DEF ScheduledFor, vars, engine, connector
<1>3. ASSUME NEW r \in Requests, Granted(r), req[r].status \in {"waiting", "running"} PROVE ScheduledFor(q)
  BY <1>3 DEF Granted, ScheduledFor
<1>4. ASSUME NEW r \in Requests, ScheduleRunning(r) PROVE ScheduledFor(q)
  <2>1. CASE Preempts(r)
    <3>1. PICK v \in Running : /\ step.tokens[v] = 0
                               /\ \A p \in Requests \ {v} : /\ req'[p].computed = req[p].computed
                                                             /\ req'[p].status = req[p].status
      BY <2>1 DEF Preempts
    <3> QED BY <2>1, <3>1 DEF Preempts, Running, ScheduledFor
  <2> QED BY <1>1, <1>3, <1>4, <2>1, ScheduleRunningCases DEF Grants
<1>5. ASSUME NEW r \in Requests, Admit(r) PROVE ScheduledFor(q)
  BY <1>1, <1>3, <1>5, AdmitGranted
<1>6. ASSUME NEW r \in Requests, Load(r) PROVE ScheduledFor(q)
  BY <1>1, <1>6, LoadNow DEF LoadsNow, ScheduledFor
<1>7. ASSUME NEW r \in Requests, Loading(r) PROVE ScheduledFor(q)
  <2>1. req[r].status = "loading" /\ allocated' = allocated /\ transfers' = transfers
    BY <1>7 DEF Loading, Considers, connector
  <2>2. CASE r \in received
    <3>1. step' = step /\ (q = r \/ req'[q] = req[q]) BY <1>1, <1>7, <2>2 DEF Loading, Shape
    <3>2. step.tokens[r] = 0 BY <1>1, <2>1 DEF Sched
    <3> QED BY <2>1, <2>2, <3>1, <3>2 DEF ScheduledFor
  <2>3. CASE r \notin received BY <1>1, <1>7, <2>1, <2>3 DEF Loading, Shape, StepT, ScheduledFor
  <2> QED BY <2>2, <2>3
<1>8. ASSUME NEW r \in Requests, Delay(r) PROVE ScheduledFor(q)
  BY <1>1, <1>8 DEF Delay, Shape, StepT, ScheduledFor
<1> QED BY <1>2, <1>4, <1>5, <1>6, <1>7, <1>8, InSchedule

LEMMA GivenGrows ==
    ASSUME IInv, IInv', [Next]_vars, step.phase = "schedule", step'.phase = "schedule"
    PROVE  Given \subseteq Given'
<1> SUFFICES ASSUME NEW b \in Given PROVE b \in Given'
  OBVIOUS
<1>1. CASE b \in allocated
  <2>1. Given # {} /\ \A q \in Requests : ScheduledFor(q) BY ScheduleKeeps
  <2>2. CASE Requests = {} BY <1>1, <2>2, InSchedule DEF vars, connector, Given
  <2>3. CASE \E r \in Requests : TRUE BY <1>1, <2>1, <2>3 DEF ScheduledFor, Given
  <2> QED BY <2>2, <2>3
<1>2. ASSUME NEW q \in Requests, b \in Range(step.blocks[q]) \ {Null} PROVE b \in Given'
  <2>1. step.blocks[q] # <<>>
    <3>1. PICK i \in DOMAIN step.blocks[q] : TRUE BY <1>2 DEF Range
    <3>2. step.blocks[q] \in BlockSeq BY DEF IInv, Shape, StepT
    <3> QED BY <3>1, <3>2 DEF BlockSeq
  <2>2. step'.blocks[q] = step.blocks[q] BY <2>1, ScheduleKeeps DEF ScheduledFor
  <2> QED BY <1>2, <2>2 DEF Given
<1> QED BY <1>1, <1>2 DEF Given

\* A block that is fresh stays so until the model runs.
LEMMA FreshStep ==
    ASSUME IInv, IInv', [Next]_vars, NEW r \in Requests, NEW i, Fresh(r, i), ~Forward
    PROVE  Fresh(r, i)'
<1>1. Shape /\ Shape' /\ Short /\ Sched /\ Counts /\ Sized /\ Linked BY CountsShort DEF IInv
<1>2. step.phase \in {"schedule", "store", "flush"} BY DEF Fresh
<1>3. ASSUME step'.phase \in {"schedule", "store", "flush"}, step'.tokens[r] = step.tokens[r],
             Past(r)' = Past(r), req'[r].status = req[r].status, BuiltLoad(r) => BuiltLoad(r)'
      PROVE  Fresh(r, i)'
  BY <1>3 DEF Fresh
<1>4. CASE step.phase = "schedule" /\ step'.phase = "schedule"
  <2>1. ScheduledFor(r) BY <1>4, ScheduleKeeps
  <2>2. CASE step.tokens[r] > 0 /\ i * ChunkTokens > Past(r)
    BY <1>1, <1>4, <2>1, <2>2 DEF Shape, StepT, ScheduledFor, Past, Fresh
  <2>3. CASE req[r].status = "loading" /\ BuiltLoad(r)
    BY <1>1, <1>4, <2>1, <2>3 DEF BuiltLoad, Linked, Loads, Loader, ScheduledFor, Fresh
  <2> QED BY <2>2, <2>3 DEF Fresh
<1>5. CASE EndSchedule
  BY <1>1, <1>3, <1>5 DEF EndSchedule, engine, Shape, StepT, Past, BuiltLoad
<1>6. CASE SendMeta
  <2>1. /\ step'.phase = "flush" /\ step.phase = "store" /\ step'.tokens = step.tokens
        /\ req'[r].status = req[r].status
        /\ req'[r].computed = req[r].computed + step.tokens[r]
    BY <1>1, <1>6 DEF SendMeta, Shape, ReqT, StepT
  <2>2. req[r].computed \in Int /\ step.tokens[r] \in Int BY <1>1 DEF Shape, ReqT, StepT
  <2>3. Past(r)' = Past(r) BY <2>1, <2>2 DEF Past
  <2>4. ASSUME NEW j \in transfers, j.req = r, ~j.store, j.at = "built" PROVE BuiltLoad(r)'
    <3>1. PICK l \in transfers' :
            l = [j EXCEPT !.at = IF j.store /\ @ = "built" THEN "deferred"
                                      ELSE IF @ \in {"deferred", "urgent"} THEN "queued" ELSE @]
      BY <1>6 DEF SendMeta
    <3>2. l.req = r /\ ~l.store /\ l.at = "built" BY <1>1, <2>4, <3>1 DEF Shape, JobT
    <3> QED BY <3>2 DEF BuiltLoad
  <2> QED BY <1>3, <2>1, <2>3, <2>4 DEF BuiltLoad
<1>7. ASSUME NEW q \in Requests, Store(q) PROVE Fresh(r, i)'
  BY <1>3, <1>7, StoreNow DEF engine, StoresNow, StoredAll, Past, BuiltLoad
<1>8. CASE CopyNext
  <2>1. PICK j \in transfers : Copy(j) BY <1>8 DEF CopyNext
  <2>2. step' = step /\ req' = req BY <2>1 DEF Copy, engine
  <2>3. ASSUME NEW l \in transfers, l.req = r, ~l.store, l.at = "built" PROVE BuiltLoad(r)'
    BY <2>1, <2>3 DEF Copy, BuiltLoad
  <2> QED BY <1>2, <1>3, <2>2, <2>3 DEF Past, BuiltLoad
<1>9. CASE UNCHANGED vars BY <1>2, <1>3, <1>9 DEF vars, engine, connector, Past, BuiltLoad
<1>10. CASE step.phase = "schedule" /\ ~(EndSchedule \/ UNCHANGED vars)
  BY <1>4, <1>10, Phases DEF Begin, SendMeta, Update, Forward
<1>11. CASE step.phase \in {"store", "flush"} /\ ~(SendMeta \/ CopyNext \/ UNCHANGED vars)
  <2>1. \E q \in Requests : Store(q)
    BY <1>11 DEF Next, Step, Begin, EndSchedule, ScheduleRunning, Loading, Delay, Admit, Load,
                 Considers, Turn, Update, Abort, Arrive, Reset
  <2> QED BY <1>7, <2>1
<1> QED BY <1>2, <1>5, <1>6, <1>8, <1>9, <1>10, <1>11
-------------------------------------------------------------------------------
\* An entry of a table is an old one, or fresh.
FreshEntry(r, i) ==
    /\ step.phase = "schedule" /\ Fresh(r, i) /\ req[r].table[i] \in Given
    /\ req[r].status = "running" => (i - 1) * ChunkTokens >= Past(r)
    /\ req[r].status \in {"running", "loading"}

LEMMA GrantedFresh ==
    ASSUME IInv, IInv', Fitted, Apart, NEW r \in Requests, Granted(r), ~IsFinished(r),
           \/ req[r].status = "running" /\ Grants(r)
           \/ req[r].status # "running" /\ step'.blocks[r] = req'[r].table,
           NEW i \in Len(req[r].table) + 1..Len(req'[r].table), req'[r].table[i] \in FreeFor(r)
    PROVE  FreshEntry(r, i)'
<1>1. Shape /\ Shape' BY DEF IInv
<1>2. PICK k, l, c, n : /\ k = Len(req[r].table) /\ l = Len(req'[r].table)
                        /\ c = req[r].computed /\ n = step'.tokens[r]
  OBVIOUS
<1>3. k \in Nat /\ l \in Nat /\ c \in Int /\ n \in Int /\ i \in Int /\ ChunkTokens \in Nat \ {0}
  <2>1. req[r].table \in BlockSeq /\ req'[r].table \in BlockSeq BY <1>1 DEF Shape, ReqT
  <2>2. k \in Nat /\ l \in Nat BY <1>2, <2>1, TableDomain
  <2>3. c \in Int /\ n \in Int BY <1>1, <1>2 DEF Shape, ReqT, StepT
  <2>4. i \in k + 1..l BY <1>2
  <2> QED BY <2>2, <2>3, <2>4, OffloadAssumption
<1>4. /\ step'.phase = "schedule" /\ step.phase = "schedule" /\ req'[r].status = "running"
      /\ req'[r].computed = c /\ l = CDiv(c + n, ChunkTokens) /\ n >= 0
  BY <1>2 DEF Granted
<1>5. k >= CDiv(c, ChunkTokens)
  <2>1. Ahead(r) = 0 BY <1>4 DEF Ahead, Granted
  <2>2. FittedFor(r) /\ req[r].status \in {"absent", "waiting", "loading", "running"}
    BY <1>1 DEF Fitted, Shape, ReqT, IsFinished, Statuses
  <2>3. CASE req[r].status = "running" BY <1>2, <1>3, <2>1, <2>2, <2>3 DEF FittedFor
  <2>4. CASE req[r].status # "running" BY <1>2, <2>2, <2>4 DEF FittedFor
  <2> QED BY <2>3, <2>4
<1>6. k + 1 <= i /\ i <= l BY <1>2, <1>3
<1>7. CDiv(c, ChunkTokens) \in Int /\ CDiv(c, ChunkTokens) <= i - 1 BY <1>3, <1>5, <1>6, DivType
<1>8. c <= ChunkTokens * (i - 1) BY <1>3, <1>7, DivBounds
<1>9. n > 0
  <2>1. SUFFICES ASSUME n = 0 PROVE FALSE BY <1>3, <1>4
  <2>2. c + n = c BY <1>3, <2>1
  <2>3. l = CDiv(c, ChunkTokens) BY <1>4, <2>2
  <2> QED BY <1>3, <1>6, <1>7, <2>3
<1>10. (i - 1) * ChunkTokens >= c /\ i * ChunkTokens > c
  <2>1. PICK K \in Nat \ {0} : K = ChunkTokens BY <1>3
  <2>2. c <= K * (i - 1) BY <1>8, <2>1
  <2>3. (i - 1) * K >= c /\ i * K > c BY <1>3, <2>2
  <2> QED BY <2>1, <2>3
<1>11. Past(r)' = c BY <1>4 DEF Past
<1>12. req'[r].table[i] \in Given'
  <2>1. req'[r].table[i] # Null BY <1>1, FreeForNew
  <2>2. req'[r].table[i] \in Range(step'.blocks[r])
    <3>1. CASE step'.blocks[r] = req'[r].table
      <4>1. i \in DOMAIN req'[r].table BY <1>1, <1>2, <1>3, <1>6, TableDomain DEF Shape, ReqT
      <4> QED BY <3>1, <4>1 DEF Range
    <3>2. CASE Grants(r)
      <4>1. step'.blocks[r] \in BlockSeq BY <1>1 DEF Shape, StepT
      <4>2. Len(step'.blocks[r]) = l - k /\ DOMAIN step'.blocks[r] = 1..Len(step'.blocks[r])
        BY <1>2, <3>2, <4>1, TableDomain DEF Grants
      <4>3. i - k \in 1..Len(step'.blocks[r]) /\ k + (i - k) = i BY <1>3, <1>6, <4>2
      <4>4. req'[r].table[i] = step'.blocks[r][i - k] BY <1>2, <3>2, <4>3 DEF Grants
      <4> QED BY <4>2, <4>3, <4>4 DEF Range
    <3> QED BY <3>1, <3>2
  <2> QED BY <2>1, <2>2 DEF Given
<1>13. Fresh(r, i)' BY <1>2, <1>4, <1>9, <1>10, <1>11 DEF Fresh
<1> QED BY <1>4, <1>10, <1>11, <1>12, <1>13 DEF FreshEntry

LEMMA LoadFresh ==
    ASSUME IInv, IInv', NEW r \in Requests, LoadsNow(r), NEW i \in DOMAIN req'[r].table,
           req'[r].table[i] # Null
    PROVE  FreshEntry(r, i)'
<1>1. PICK j : transfers' = transfers \cup {j} /\ Filled(r, j) BY DEF LoadsNow
<1>2. BuiltLoad(r)' BY <1>1 DEF BuiltLoad, Filled
<1>3. req'[r].table[i] \in allocated' BY DEF LoadsNow
<1> QED BY <1>2, <1>3 DEF FreshEntry, Fresh, LoadsNow, Given

LEMMA EntryFrom ==
    ASSUME IInv, IInv', Apart, Fitted, [Next]_vars, NEW r \in Requests,
           NEW i \in DOMAIN req'[r].table, req'[r].table[i] # Null
    PROVE  \/ i \in DOMAIN req[r].table /\ req'[r].table[i] = req[r].table[i]
           \/ FreshEntry(r, i)'
<1>1. Shape /\ Shape' /\ Short /\ Sched /\ Counts /\ Sized BY CountsShort DEF IInv
<1>2. ASSUME Shrunk(r) PROVE i \in DOMAIN req[r].table /\ req'[r].table[i] = req[r].table[i]
  BY <1>2 DEF Shrunk
<1>3. CASE ~ \E q \in Requests : Granted(q) \/ LoadsNow(q) BY <1>1, <1>2, <1>3, Shrinking
<1>4. ASSUME NEW q \in Requests, LoadsNow(q)
      PROVE  \/ i \in DOMAIN req[r].table /\ req'[r].table[i] = req[r].table[i]
             \/ FreshEntry(r, i)'
  <2>1. CASE q = r BY <1>4, <2>1, LoadFresh
  <2>2. CASE q # r
    <3>1. req'[r] = req[r] BY <1>4, <2>2 DEF LoadsNow
    <3> QED BY <3>1
  <2> QED BY <2>1, <2>2
<1>5. ASSUME NEW q \in Requests, Granted(q), ~IsFinished(q),
             \/ req[q].status = "running" /\ Grants(q)
             \/ req[q].status # "running" /\ step'.blocks[q] = req'[q].table
      PROVE  \/ i \in DOMAIN req[r].table /\ req'[r].table[i] = req[r].table[i]
             \/ FreshEntry(r, i)'
  <2>1. CASE q = r BY <1>1, <1>5, <2>1, GrantedTable, GrantedFresh
  <2>2. CASE q # r
    <3>1. req'[r] = req[r] BY <1>5, <2>2 DEF Granted
    <3> QED BY <3>1
  <2> QED BY <2>1, <2>2
<1>6. CASE step.phase = "schedule" /\ step'.phase = "schedule"
  <2>1. CASE UNCHANGED vars BY <2>1 DEF vars, engine
  <2>2. ASSUME NEW q \in Requests, ScheduleRunning(q)
        PROVE  \/ i \in DOMAIN req[r].table /\ req'[r].table[i] = req[r].table[i]
               \/ FreshEntry(r, i)'
    <3>1. CASE Grants(q) BY <1>5, <3>1 DEF Grants, IsFinished
    <3>2. CASE Preempts(q)
      <4>1. PICK v \in Running : 
              /\ req'[v].table = <<>>
              /\ \A p \in Requests \ {v} : req'[p].table = IF p = q THEN Kept(q) ELSE req[p].table
        BY <3>2 DEF Preempts
      <4>2. CASE r = v BY <4>1, <4>2
      <4>3. CASE r # v /\ r = q BY <4>1, <4>3 DEF Kept
      <4>4. CASE r # v /\ r # q BY <4>1, <4>4
      <4> QED BY <4>2, <4>3, <4>4
    <3> QED BY <1>1, <2>2, <3>1, <3>2, ScheduleRunningCases
  <2>3. ASSUME NEW q \in Requests, Loading(q) \/ Delay(q)
        PROVE  i \in DOMAIN req[r].table /\ req'[r].table[i] = req[r].table[i]
    <3>1. req'[r].table = req[r].table
      <4>1. CASE q \in received /\ Loading(q) BY SMTT(30), <1>1, <4>1 DEF Loading, Shape, ReqT
      <4>2. CASE q \notin received /\ Loading(q) BY <4>2 DEF Loading
      <4>3. CASE Delay(q) BY <4>3 DEF Delay
      <4> QED BY <2>3, <4>1, <4>2, <4>3
    <3> QED BY <3>1
  <2>4. ASSUME NEW q \in Requests, Admit(q)
        PROVE  \/ i \in DOMAIN req[r].table /\ req'[r].table[i] = req[r].table[i]
               \/ FreshEntry(r, i)'
    BY <1>1, <1>5, <2>4, AdmitGranted DEF IsFinished
  <2>5. ASSUME NEW q \in Requests, Load(q)
        PROVE  \/ i \in DOMAIN req[r].table /\ req'[r].table[i] = req[r].table[i]
               \/ FreshEntry(r, i)'
    BY <1>1, <1>4, <2>5, LoadNow
  <2> QED BY <1>6, <2>1, <2>2, <2>3, <2>4, <2>5, InSchedule
<1>7. CASE \E q \in Requests : Granted(q) BY <1>6, <1>7 DEF Granted
<1> QED BY <1>3, <1>4, <1>7
-------------------------------------------------------------------------------
\* Stores that are under way, and who else may write to the blocks they read.
\* A store that was built in this step, of a chunk that this step completes.
Young(l, m) ==
    \/ /\ step.phase = "store" /\ l.at = "built"
       /\ m.key[2] * ChunkTokens <= req[l.req].computed + step.tokens[l.req]
    \/ /\ step.phase = "flush" /\ l.at = "deferred"
       /\ m.key[2] * ChunkTokens <= req[l.req].computed
\* The block is still that of its request, which does not write to it again.
Owned(l, m) ==
    /\ req[l.req].status = "running" /\ Has(l.req, m.key[2], m.block)
    /\ m.key[2] * ChunkTokens <= Past(l.req) \/ Young(l, m)
\* Otherwise it will be flushed if the block is given away.
Guarded(l, m) ==
    \/ l.id \in flush
    \/ Owned(l, m)
    \/ l.known /\ (window # 0 \/ IsFinished(l.req))
    \/ l.known /\ l.req \in preempted /\ step.phase \in {"idle", "schedule"}

LEMMA TimesType == \A i \in Chunks : i \in Nat \ {0} /\ i * ChunkTokens \in Int
<1>1. PICK K \in Nat \ {0} : K = ChunkTokens BY OffloadAssumption
<1>2. ASSUME NEW i \in Nat PROVE i * K \in Int
  OBVIOUS
<1>3. ASSUME NEW i \in Chunks PROVE i \in Nat \ {0} BY ChunksFinite DEF Chunks
<1> QED BY <1>1, <1>2, <1>3

LEMMA LateSteps ==
    ASSUME [Next]_vars, step.phase \in {"store", "flush"}
    PROVE  UNCHANGED vars \/ CopyNext \/ SendMeta \/ Forward \/ \E q \in Requests : Store(q)
BY DEF Next, Step, Begin, EndSchedule, ScheduleRunning, Loading, Delay, Admit, Load, Considers,
       Turn, Update, Abort, Arrive, Reset

LEMMA YoungStep ==
    ASSUME IInv, IInv', [Next]_vars, NEW j \in transfers, NEW l \in transfers', Moved(j, l), j.store,
           l.at # "done", NEW m, Young(j, m)
    PROVE  Young(l, m)' \/ m.key[2] * ChunkTokens <= Past(l.req)'
<1>1. Shape /\ Shape' /\ Linked /\ Linked' BY DEF IInv
<1>2. l.id = j.id /\ l.req = j.req /\ j.req \in Requests BY <1>1 DEF Moved, Shape, JobT
<1>3. step.phase \in {"store", "flush"} BY DEF Young
<1>4. ASSUME l \in transfers PROVE l = j BY <1>1, <1>2, <1>4 DEF Linked, Unique
<1>5. CASE UNCHANGED vars
  <2>1. l = j BY <1>4, <1>5 DEF vars, connector
  <2> QED BY <1>5, <2>1 DEF vars, engine, Young
<1>6. ASSUME NEW x \in transfers, Copy(x) PROVE Young(l, m)'
  <2>1. l = j BY <1>1, <1>4, <1>6 DEF Copy, Shape, JobT
  <2> QED BY <1>6, <2>1 DEF Copy, engine, Young
<1>7. ASSUME NEW q \in Requests, Store(q) PROVE Young(l, m)'
  <2>1. step'.phase = step.phase /\ step'.tokens = step.tokens /\ req' = req /\ step.phase = "store"
    BY <1>7, StoreNow DEF engine
  <2>2. l = j BY <1>1, <1>2, <1>4, <1>7, StoreNow, IdsType DEF StoresNow, StoredAll, Added
  <2> QED BY <2>1, <2>2 DEF Young
<1>8. CASE SendMeta
  <2>1. PICK x \in transfers :
            l = [x EXCEPT !.at = IF x.store /\ @ = "built" THEN "deferred"
                                 ELSE IF @ \in {"deferred", "urgent"} THEN "queued" ELSE @]
    BY <1>8 DEF SendMeta
  <2>2. x.id = l.id /\ x \in JobT BY <1>1, <2>1 DEF Shape, JobT
  <2>3. x = j BY <1>1, <1>2, <2>2 DEF Linked, Unique
  <2>4. step.phase = "store" /\ step'.phase = "flush" BY <1>1, <1>8 DEF SendMeta, Shape, StepT
  <2>5. req'[j.req].computed = req[j.req].computed + step.tokens[j.req]
    BY <1>1, <1>2, <1>8 DEF SendMeta, Shape, ReqT
  <2>6. j.at = "built" /\ m.key[2] * ChunkTokens <= req[j.req].computed + step.tokens[j.req]
    BY <2>4 DEF Young
  <2>7. l.at = "deferred" BY <2>1, <2>2, <2>3, <2>6 DEF JobT
  <2> QED BY <1>2, <2>4, <2>5, <2>6, <2>7 DEF Young
<1>9. CASE Forward BY <1>1, <1>2, <1>9 DEF Forward, engine, Shape, StepT, Young, Past
<1> QED BY <1>3, <1>5, <1>6, <1>7, <1>8, <1>9, LateSteps DEF CopyNext

\* A store loses its block only to a sliding window, or with its request.
Disowned(l, m) ==
    /\ ~Has(l.req, m.key[2], m.block)
    /\ window # 0 \/ IsFinished(l.req) \/ (l.req \in preempted /\ step.phase \in {"idle", "schedule"})

LEMMA OwnedStep ==
    ASSUME IInv, IInv', [Next]_vars, NEW j \in transfers, NEW l \in transfers', Moved(j, l), j.store,
           l.at # "done", NEW m \in j.moves, m.key[2] \in Chunks, Owned(j, m)
    PROVE  Owned(l, m)' \/ Disowned(l, m)'
<1>1. Shape /\ Shape' BY DEF IInv
<1>2. l.id = j.id /\ l.req = j.req /\ j.req \in Requests /\ m.block \in Blocks /\ m.block # Null
  BY <1>1, MoveTypes, OffloadAssumption DEF Moved, Shape, JobT
<1>3. RunsOn(j.req) /\ window' = window BY <1>2, RunningStep, FinishedLasts DEF Owned
<1>4. PICK r, i : r = j.req /\ i = m.key[2]
  OBVIOUS
<1>5. CASE /\ req'[r].status = "running" /\ Past(r)' >= Past(r)
           /\ i \in DOMAIN req'[r].table
           /\ req'[r].table[i] = req[r].table[i] \/ (req'[r].table[i] = Null /\ window # 0)
  <2>1. CASE req'[r].table[i] = req[r].table[i]
    <3>1. Has(r, i, m.block)' BY <1>4, <1>5, <2>1 DEF Owned, Has
    <3>2. i * ChunkTokens <= Past(r)' \/ Young(l, m)'
      <4>1. CASE i * ChunkTokens <= Past(r)
        BY <1>1, <1>2, <1>4, <1>5, <4>1, TimesType DEF Shape, ReqT, StepT, Past
      <4>2. CASE Young(j, m) BY <1>2, <1>4, <4>2, YoungStep
      <4> QED BY <1>4, <4>1, <4>2 DEF Owned
    <3> QED BY <1>2, <1>4, <1>5, <3>1, <3>2 DEF Owned
  <2>2. CASE req'[r].table[i] # req[r].table[i]
    BY <1>2, <1>3, <1>4, <1>5, <2>2 DEF Disowned, Has
  <2> QED BY <2>1, <2>2
<1>6. CASE IsFinished(r)' /\ req'[r].table = <<>> BY <1>2, <1>4, <1>6 DEF Disowned, Has
<1>7. CASE req'[r].table = <<>> /\ r \in preempted' /\ step'.phase \in {"idle", "schedule"}
  BY <1>2, <1>4, <1>7 DEF Disowned, Has
<1> QED BY <1>3, <1>4, <1>5, <1>6, <1>7 DEF RunsOn, Owned, Has

LEMMA GuardedStep ==
    ASSUME IInv, IInv', Placed, Placed', Moving, [Next]_vars, NEW j \in transfers,
           NEW l \in transfers', Moved(j, l), j.store, l.at # "done", NEW m \in j.moves,
           Guarded(j, m)
    PROVE  Guarded(l, m)'
<1>1. Shape /\ Shape' /\ Linked BY DEF IInv
<1>2. /\ l.id = j.id /\ l.req = j.req /\ j.req \in Requests /\ l.store /\ j.id \in 1..MaxJobs
      /\ window' = window /\ (IsFinished(j.req) => IsFinished(j.req)')
      /\ m.key[2] \in Chunks
  BY <1>1, FinishedLasts DEF Moved, Shape, JobT, Moving, NamedFor
<1>3. CASE ~l.known BY <1>3 DEF Placed, PlaceFor, Guarded
<1>4. CASE l.known /\ j.id \in flush
  <2>1. l.id \in flush' BY <1>2, <1>4, FlushLasts
  <2> QED BY <2>1 DEF Guarded
<1>5. CASE l.known /\ Owned(j, m) BY <1>2, <1>5, OwnedStep DEF Guarded, Disowned
<1>6. CASE l.known /\ (window # 0 \/ IsFinished(j.req)) BY <1>2, <1>6 DEF Guarded
<1>7. CASE l.known /\ j.known /\ j.req \in preempted /\ step.phase \in {"idle", "schedule"}
  <2>1. CASE EndSchedule BY <1>1, <1>2, <1>7, <2>1 DEF Linked, JobsFor, EndSchedule, Guarded
  <2>2. CASE ~EndSchedule
    <3>1. step'.phase \in {"idle", "schedule"}
      BY <1>1, <1>7, <2>2, Phases DEF Begin, Shape, StepT, SendMeta, Forward, Update
    <3>2. preempted \subseteq preempted'
      BY <1>7, <2>2 DEF ScheduleRunning, PutBack, Loading, Delay, Admit, Load, CopyNext, Copy,
         SendMeta, Forward, Store, Update, Reset, Begin, vars, engine, Abort, Arrive, Next, Step
    <3> QED BY <1>2, <1>7, <3>1, <3>2 DEF Guarded
  <2> QED BY <2>1, <2>2
<1> QED BY <1>2, <1>3, <1>4, <1>5, <1>6, <1>7 DEF Guarded, Moved
-------------------------------------------------------------------------------
\* A block that a store reads is in no table but that of its request, or it was given away in
\* this step and the store is flushed first.
Covered(r, i, b, l) ==
    Fresh(r, i) /\ IF step.phase = "schedule" THEN b \in Given ELSE l.id \in flush
Clear(l, m) == \A r \in Requests : \A i \in DOMAIN req[r].table : req[r].table[i] = m.block =>
    \/ r = l.req /\ i = m.key[2] /\ Owned(l, m)
    \/ Covered(r, i, m.block, l)
Undisturbed == \A l \in transfers : l.store /\ l.at # "done" =>
    \A m \in l.moves : Guarded(l, m) /\ Clear(l, m)

\* The same holds for blocks of chunks that are not stored yet.
Storing(r, i) ==
    /\ i \in DOMAIN track[r].blocks /\ track[r].blocks[i] # Null /\ i > track[r].next
    /\ \/ req[r].status = "running"
       \/ /\ r \in finished /\ track[r].on /\ i * ChunkTokens <= TokensAfter(r)
          /\ step.phase = "store" => r \in step.todo
Passed(r, q, j, b) ==
    /\ Fresh(q, j)
    /\ \/ step.phase = "schedule" /\ b \in Given
       \/ step.phase = "store" /\ window = 0 /\ IsFinished(r) /\ b \in allocated
UnspoiledFor(r, i) == \A q \in Requests : \A j \in DOMAIN req[q].table :
    req[q].table[j] = track[r].blocks[i] =>
        \/ q = r /\ j = i /\ req[r].status = "running"
        \/ Passed(r, q, j, track[r].blocks[i])
Unspoiled == \A r \in Requests : \A i \in DOMAIN track[r].blocks : Storing(r, i) => UnspoiledFor(r, i)

\* What Store stores.
StoredChunk(r, m, i) ==
    /\ i = m.key[2] /\ i \in Chunks /\ m.key = KeyOf(r, i) /\ m.block \in Blocks
    /\ Storing(r, i) /\ m.block = track[r].blocks[i] /\ i * ChunkTokens <= TokensAfter(r)
LEMMA StoresChunk ==
    ASSUME IInv, NEW r \in step.todo, r \in Requests, NEW l, Added(r, l), NEW m \in l.moves,
           step.phase = "store"
    PROVE  StoredChunk(r, m, m.key[2])
<1>1. Shape /\ Sched /\ Closed /\ step.phase = "store" BY DEF IInv
<1>2. PICK i \in Chunks : /\ m.key = KeyOf(r, i) /\ track[r].next < i /\ i <= Storable(r)
                          /\ track[r].blocks[i] # Null
  BY DEF Added, NewKeys, KeysToStore
<1>3. m.key[2] = i /\ m.block = track[r].blocks[i] BY <1>2 DEF Added, KeyOf
<1>4. /\ i \in Nat \ {0} /\ track[r].next \in Int /\ Storable(r) \in Int
      /\ TokensAfter(r) \in Int /\ track[r].blocks \in BlockSeq
  <2>1. req[r].tokens \in Int /\ req[r].computed \in Int /\ step.tokens[r] \in Int
    BY <1>1 DEF Shape, ReqT, StepT
  <2>2. TokensAfter(r) \in Int BY <2>1 DEF TokensAfter, Least
  <2> QED BY <1>1, <2>2, TimesType, StoreTypes DEF Shape, TrackT
<1>5. i <= TokensAfter(r) \div ChunkTokens /\ i <= Len(track[r].blocks)
  <2>1. TokensAfter(r) \div ChunkTokens \in Int /\ Len(track[r].blocks) \in Nat
    BY <1>4, DivType, TableDomain
  <2> QED BY <1>2, <1>4, <2>1 DEF Storable, Least
<1>6. i * ChunkTokens <= TokensAfter(r)
  <2>1. ChunkTokens * i <= TokensAfter(r) BY <1>4, <1>5, DivBounds
  <2>2. PICK K \in Nat \ {0} : K = ChunkTokens BY OffloadAssumption
  <2>3. K * i = i * K BY <1>4
  <2> QED BY <2>1, <2>2, <2>3
<1>7. i \in DOMAIN track[r].blocks BY <1>4, <1>5, TableDomain
<1>8. m.block \in Blocks BY <1>2, <1>3, <1>4, <1>7 DEF BlockSeq
<1>9. track[r].on /\ (r \in finished \/ req[r].status = "running") BY <1>1 DEF Sched
<1>10. i > track[r].next BY <1>2, <1>4
<1> QED BY <1>1, <1>2, <1>3, <1>6, <1>7, <1>8, <1>9, <1>10 DEF StoredChunk, Storing

\* The chunk of a running request is still in its table, unless it is out of the window.
LEMMA StoredYoung ==
    ASSUME IInv, Fitted, TrackFit, NEW r \in Requests, NEW m, NEW i, StoredChunk(r, m, i),
           step.phase = "store", req[r].status = "running"
    PROVE  /\ i * ChunkTokens <= req[r].computed + step.tokens[r]
           /\ Has(r, i, m.block) \/ (window # 0 /\ i * ChunkTokens <= req[r].computed)
<1>1. Shape /\ Counts /\ Sched BY DEF IInv
<1>2. i \in Chunks /\ i * ChunkTokens \in Int /\ i * ChunkTokens <= TokensAfter(r)
  BY TimesType DEF StoredChunk
<1>3. req[r].tokens \in Int /\ req[r].computed \in Int /\ step.tokens[r] \in Int
  BY <1>1 DEF Shape, ReqT, StepT
<1>4. TokensAfter(r) = Least(req[r].computed + step.tokens[r], req[r].tokens) BY DEF TokensAfter
<1>5. i * ChunkTokens <= req[r].computed + step.tokens[r] BY <1>2, <1>3, <1>4 DEF Least
<1>6. i \in DOMAIN req[r].table /\ req[r].table[i] \in {Null, m.block}
  <2>1. i \in DOMAIN track[r].blocks /\ track[r].blocks[i] = m.block /\ m.block # Null
    BY DEF StoredChunk, Storing
  <2>2. /\ Len(track[r].blocks) + Len(step.blocks[r]) = Len(req[r].table)
        /\ \A c \in DOMAIN track[r].blocks :
              track[r].blocks[c] = Null \/ req[r].table[c] \in {Null, track[r].blocks[c]}
    BY DEF TrackFit, TrackFitFor
  <2>3. /\ DOMAIN req[r].table = 1..Len(req[r].table) /\ Len(req[r].table) \in Nat
        /\ DOMAIN track[r].blocks = 1..Len(track[r].blocks) /\ Len(track[r].blocks) \in Nat
        /\ Len(step.blocks[r]) \in Nat
    BY <1>1, TableDomain DEF Shape, ReqT, TrackT, StepT
  <2>4. req[r].table[i] \in {Null, m.block} BY <2>1, <2>2
  <2>5. Len(track[r].blocks) <= Len(req[r].table)
    <3>1. PICK a, b, c : /\ a = Len(track[r].blocks) /\ b = Len(step.blocks[r])
                         /\ c = Len(req[r].table)
      OBVIOUS
    <3>2. a \in Nat /\ b \in Nat /\ c \in Nat /\ a + b = c BY <2>2, <2>3, <3>1
    <3>3. a <= c BY <3>2
    <3> QED BY <3>1, <3>3
  <2> QED BY <2>1, <2>3, <2>4, <2>5
<1>7. CASE req[r].table[i] = Null
  <2>1. Out(r, i) /\ Base(r) = req[r].computed
    BY <1>6, <1>7 DEF Fitted, FittedFor, Base, IsFinished
  <2>2. window \in Nat BY <1>1, OffloadAssumption DEF Shape
  <2>3. window # 0 /\ i * ChunkTokens <= req[r].computed - window + 1 BY <2>1 DEF Out
  <2> QED BY <1>2, <1>3, <1>5, <2>2, <2>3
<1>8. CASE req[r].table[i] = m.block BY <1>5, <1>6, <1>8 DEF Has
<1> QED BY <1>6, <1>7, <1>8

LEMMA NewUndisturbed ==
    ASSUME IInv, IInv', Fitted, TrackFit, Unspoiled, [Next]_vars, NEW r \in Requests, Store(r),
           NEW l, transfers' = transfers \cup {l}, Added(r, l), NEW m \in l.moves
    PROVE  Guarded(l, m)' /\ Clear(l, m)'
<1>1. Shape /\ Closed BY DEF IInv
<1>2. /\ step.phase = "store" /\ step'.phase = "store" /\ r \in step.todo
      /\ step'.tokens = step.tokens /\ req' = req /\ window' = window
  BY StoreNow DEF engine
<1>3. flush' = IF l.at = "urgent" THEN flush \cup {l.id} ELSE flush
  <2>1. \A j \in transfers : j # l BY <1>1, IdsType DEF Added
  <2>2. PICK j : /\ transfers' = transfers \cup {j}
                 /\ flush' = IF j.at = "urgent" THEN flush \cup {j.id} ELSE flush
    BY <2>1, StoreNow DEF StoresNow, StoredAll
  <2>3. j = l BY <2>1, <2>2
  <2> QED BY <2>2, <2>3
<1>4. PICK i : i = m.key[2]
  OBVIOUS
<1>5. StoredChunk(r, m, i) /\ l.req = r /\ l.known BY <1>2, <1>4, StoresChunk DEF Added
<1>6. ASSUME req[r].status = "running"
      PROVE  /\ Young(l, m)'
             /\ Has(r, i, m.block) \/ window # 0
  BY <1>2, <1>4, <1>5, <1>6, StoredYoung DEF Added, IsFinished, Young
<1>7. req[r].status = "running" /\ Has(r, i, m.block) => Owned(l, m)'
  BY <1>2, <1>4, <1>5, <1>6 DEF Owned, Has
<1>8. Guarded(l, m)'
  <2>1. CASE req[r].status = "running" BY <1>2, <1>5, <1>6, <1>7, <2>1 DEF Guarded
  <2>2. CASE req[r].status # "running"
    BY <1>1, <1>2, <1>5, <2>2 DEF StoredChunk, Storing, Closed, ClosedFor, Active, IsFinished,
       Shape, ReqT, Statuses, Guarded
  <2> QED BY <2>1, <2>2
<1>9. Clear(l, m)'
  <2> SUFFICES ASSUME NEW q \in Requests, NEW j \in DOMAIN req[q].table, req[q].table[j] = m.block
               PROVE  \/ q = r /\ j = i /\ Owned(l, m)'
                      \/ Covered(q, j, m.block, l)'
    BY <1>2, <1>4, <1>5 DEF Clear
  <2>1. UnspoiledFor(r, i) /\ m.block = track[r].blocks[i]
    BY <1>5 DEF Unspoiled, StoredChunk, Storing
  <2>2. CASE q = r /\ j = i /\ req[r].status = "running" BY <1>7, <2>2 DEF Has
  <2>3. CASE Passed(r, q, j, m.block)
    BY <1>2, <1>3, <2>3, FreshStep DEF Passed, Added, BlocksOf, Forward, Covered
  <2> QED BY <2>1, <2>2, <2>3 DEF UnspoiledFor
<1> QED BY <1>8, <1>9

LEMMA ClearStep ==
    ASSUME IInv, IInv', Apart, Fitted, Placed, Moving, [Next]_vars, NEW j \in transfers,
           NEW l \in transfers', Moved(j, l), j.store, l.at # "done", NEW m \in j.moves,
           Guarded(j, m), Clear(j, m)
    PROVE  Clear(l, m)'
<1>1. Shape /\ Shape' /\ Linked BY DEF IInv
<1>2. /\ l.id = j.id /\ l.req = j.req /\ j.req \in Requests /\ l.store /\ j.id \in 1..MaxJobs
      /\ m.key[2] \in Chunks /\ m.block \in Blocks /\ m.block # Null
  BY <1>1, MoveTypes, OffloadAssumption DEF Moved, Shape, JobT, Moving, NamedFor
<1> SUFFICES ASSUME NEW r \in Requests, NEW i \in DOMAIN req'[r].table, req'[r].table[i] = m.block
             PROVE  \/ r = l.req /\ i = m.key[2] /\ Owned(l, m)'
                    \/ Covered(r, i, m.block, l)'
  BY DEF Clear
<1>3. CASE FreshEntry(r, i)' BY <1>3 DEF FreshEntry, Covered
<1>4. CASE i \in DOMAIN req[r].table /\ req[r].table[i] = m.block
  <2>1. CASE r = j.req /\ i = m.key[2] /\ Owned(j, m) BY <1>2, <2>1, OwnedStep DEF Has, Disowned
  <2>2. CASE Covered(r, i, m.block, j)
    <3>1. CASE Forward BY <1>1, <2>2, <3>1, ForwardPlaced DEF Forward, Covered, Moved
    <3>2. CASE ~Forward
      <4>1. Fresh(r, i)' BY <2>2, <3>2, FreshStep DEF Covered
      <4>2. CASE step'.phase = "schedule"
        <5>1. step.phase = "schedule"
          BY <1>1, <2>2, <3>2, <4>2, Phases DEF Covered, Fresh, Begin, EndSchedule, Shape, StepT,
             SendMeta, Update
        <5> QED BY <2>2, <4>1, <4>2, <5>1, GivenGrows DEF Covered
      <4>3. CASE step'.phase # "schedule" /\ j.id \in flush
        BY <1>2, <4>1, <4>3, FlushLasts DEF Covered
      <4>4. CASE step'.phase # "schedule" /\ j.id \notin flush
        <5>1. step.phase = "schedule" /\ m.block \in Given BY <2>2, <4>4 DEF Covered
        <5>2. EndSchedule BY <4>4, <5>1, Phases DEF Begin, SendMeta, Forward, Update
        <5>3. CASE Owned(j, m) BY <1>2, <1>4, <5>3, OwnedStep DEF Owned, Has, Apart, Disowned
        <5>4. CASE j.known /\ (window # 0 \/ IsFinished(j.req))
          BY <1>1, <1>2, <4>1, <4>4, <5>1, <5>2, <5>4 DEF Linked, FencesFor, Fencing, BlocksOf,
             EndSchedule, Covered
        <5>5. CASE j.known /\ j.req \in preempted
          BY <1>1, <1>2, <4>1, <4>4, <5>2, <5>5 DEF Linked, JobsFor, EndSchedule, Covered
        <5> QED BY <4>4, <5>3, <5>4, <5>5 DEF Guarded
      <4> QED BY <4>2, <4>3, <4>4
    <3> QED BY <3>1, <3>2
  <2> QED BY <1>4, <2>1, <2>2 DEF Clear
<1> QED BY <1>2, <1>3, <1>4, EntryFrom

LEMMA UndisturbedStep ==
    ASSUME IInv, IInv', Apart, Fitted, Placed, Placed', Moving, TrackFit, Unspoiled, Undisturbed,
           [Next]_vars
    PROVE  Undisturbed'
<1> SUFFICES ASSUME NEW l \in transfers', l.store, l.at # "done", NEW m \in l.moves
             PROVE  Guarded(l, m)' /\ Clear(l, m)'
  BY DEF Undisturbed
<1>1. CASE \E j \in transfers : Moved(j, l)
  <2>1. PICK j \in transfers : Moved(j, l) BY <1>1
  <2>2. j.store /\ j.at # "done" /\ m \in j.moves BY <2>1 DEF Moved
  <2>3. Guarded(j, m) /\ Clear(j, m) BY <2>2 DEF Undisturbed
  <2> QED BY <2>1, <2>2, <2>3, GuardedStep, ClearStep
<1>2. ASSUME NEW r \in Requests, Created(r, l) PROVE Guarded(l, m)' /\ Clear(l, m)'
  BY <1>2, NewUndisturbed DEF Created, Filled
<1> QED BY <1>1, <1>2, Origin

\* What is to be stored after a step was to be stored before.
StoredFrom(r, i) == Storing(r, i) /\ track'[r].blocks[i] = track[r].blocks[i]

LEMMA SameStoring ==
    ASSUME NEW r, NEW i \in Int, Storing(r, i)', track'[r].blocks = track[r].blocks,
           track[r].next \in Int, track'[r].next \in Int, track'[r].next >= track[r].next,
           track'[r].on => track[r].on,
           req'[r].status = "running" => req[r].status = "running",
           r \in finished' =>
              \/ req[r].status = "running"
              \/ /\ r \in finished /\ TokensAfter(r)' = TokensAfter(r)
                 /\ step.phase = "store" => step'.phase = "store" /\ step'.todo \subseteq step.todo
    PROVE  StoredFrom(r, i)
<1>1. i > track[r].next
  <2>1. i > track'[r].next BY DEF Storing
  <2> QED BY <2>1
<1> QED BY <1>1 DEF Storing, StoredFrom

LEMMA FinishedTokens ==
    ASSUME NEW r, IsFinished(r), req'[r].status = req[r].status, req'[r].tokens = req[r].tokens,
           req'[r].computed = req[r].computed
    PROVE  TokensAfter(r)' = TokensAfter(r)
BY DEF TokensAfter, IsFinished

LEMMA StoringFrom ==
    ASSUME IInv, IInv', TrackFit, [Next]_vars, ~EndSchedule,
           ~ \E force \in BOOLEAN : Reset(force),
           NEW r \in Requests, NEW i \in Int, Storing(r, i)'
    PROVE  StoredFrom(r, i)
<1>1. Shape /\ Shape' /\ Short /\ Sched /\ Counts /\ Closed /\ Sized BY CountsShort DEF IInv
<1>2. /\ track[r].next \in Int /\ track'[r].next \in Int /\ i \in DOMAIN track'[r].blocks
      /\ track'[r].blocks # <<>>
  BY <1>1 DEF Storing, Shape, TrackT
<1>3. r \in finished => IsFinished(r)
  BY <1>1 DEF Closed, ClosedFor, Active, IsFinished, Shape, ReqT, Statuses
<1>4. ASSUME track'[r] = track[r], req'[r] = req[r], r \in finished' => r \in finished,
             step.phase = "store" => step'.phase = "store" /\ step'.todo \subseteq step.todo
      PROVE  StoredFrom(r, i)
  BY <1>2, <1>3, <1>4, FinishedTokens, SameStoring
<1>5. CASE UNCHANGED vars \/ CopyNext \/ Forward
  BY <1>1, <1>4, <1>5 DEF vars, CopyNext, Copy, Forward, Shape, StepT, engine, connector
<1>6. CASE Begin BY <1>4, <1>6 DEF Begin, engine, connector
<1>7. ASSUME NEW q \in Requests, NEW p \in Prompts, Arrive(q, p) PROVE StoredFrom(r, i)
  <2>1. CASE r = q BY <1>1, <1>2, <1>7, <2>1 DEF Arrive, Shape, NoTrack
  <2>2. CASE r # q BY <1>1, <1>4, <1>7, <2>2 DEF Arrive, Shape
  <2> QED BY <2>1, <2>2
<1>8. ASSUME NEW q \in Requests, Abort(q) PROVE StoredFrom(r, i)
  <2>1. track' = track /\ finished' = finished \cup {q} /\ step' = step
        /\ req' = [req EXCEPT ![q].status = "aborted", ![q].table = Held(q)]
        /\ Active(q) /\ step.phase = "idle"
    BY <1>8 DEF Abort
  <2>2. CASE r = q
    <3>1. /\ req'[r].status = "aborted" /\ req'[r].computed = req[r].computed
          /\ req'[r].tokens = req[r].tokens
      BY <1>1, <2>1, <2>2 DEF Shape, ReqT
    <3>2. CASE req[r].status = "running" BY <1>2, <2>1, <3>1, <3>2, SameStoring
    <3>3. CASE req[r].status # "running"
      <4>1. req[r].computed = 0
        <5>1. track[r].blocks # <<>> BY <1>2, <2>1
        <5>2. req[r].status = "waiting" /\ ~(req[r].computed > 0)
          BY <2>1, <2>2, <3>3, <5>1 DEF Active, TrackFit, TrackFitFor
        <5> QED BY <1>1, <5>2 DEF Counts, CountsFor, Shape, ReqT
      <4>2. TokensAfter(r)' = Least(0, req[r].tokens) BY <3>1, <4>1 DEF TokensAfter
      <4>3. req[r].tokens \in Int /\ TokensAfter(r)' <= 0 /\ TokensAfter(r)' \in Int
        BY <1>1, <4>2 DEF Shape, ReqT, Least
      <4>4. i * ChunkTokens <= TokensAfter(r)' BY <3>1 DEF Storing
      <4>5. i \in Nat \ {0}
        <5>1. track'[r].blocks \in BlockSeq BY <1>1 DEF Shape, TrackT
        <5> QED BY <1>2, <5>1, TableDomain
      <4>6. PICK K \in Nat \ {0} : K = ChunkTokens BY OffloadAssumption
      <4>7. i * K > 0 BY <4>5
      <4> QED BY <4>3, <4>4, <4>5, <4>6, <4>7
    <3> QED BY <3>2, <3>3
  <2>3. CASE r # q BY <1>1, <1>4, <2>1, <2>3 DEF Shape
  <2> QED BY <2>2, <2>3
<1>9. CASE SendMeta
  <2>1. /\ finished' = {}
        /\ track'[r] = IF r \in finished /\ track[r].on THEN Signal(track[r]) ELSE track[r]
        /\ req'[r].status = req[r].status
    BY <1>1, <1>9 DEF SendMeta, Shape, ReqT
  <2>2. req[r].status = "running" BY <2>1 DEF Storing
  <2>3. track'[r] = track[r] BY <1>3, <2>1, <2>2 DEF IsFinished
  <2> QED BY <1>2, <2>1, <2>2, <2>3, SameStoring
<1>10. ASSUME NEW stop \in SUBSET Requests, Update(stop) PROVE StoredFrom(r, i)
  <2>1. PICK js : track'[r] = IF track[r].signaled /\ js = {} THEN NoTrack
                              ELSE [track[r] EXCEPT !.jobs = js]
    BY <1>10 DEF Update
  <2>2. /\ track'[r].blocks = track[r].blocks /\ track'[r].next = track[r].next
        /\ track'[r].on = track[r].on
    <3>1. track'[r] # NoTrack BY <1>2 DEF NoTrack
    <3> QED BY <1>1, <2>1, <3>1 DEF Shape, TrackT
  <2>3. /\ req'[r].status = IF r \in stop THEN "stopped" ELSE req[r].status
        /\ req'[r].tokens = IF r \in Sampled THEN req[r].tokens + 1 ELSE req[r].tokens
        /\ req'[r].computed = req[r].computed /\ finished' = finished \cup stop
        /\ stop \subseteq Sampled /\ step.phase = "output"
    BY <1>1, <1>10 DEF Update, Shape, ReqT
  <2>4. r \in Sampled => req[r].status = "running" BY <1>1 DEF Shape, StepT, Sched, Sampled
  <2>5. r \in finished => req[r].status # "running" BY <1>3 DEF IsFinished
  <2>6. r \in finished => TokensAfter(r)' = TokensAfter(r)
    BY <1>3, <2>3, <2>4, <2>5, FinishedTokens
  <2> QED BY <1>2, <2>2, <2>3, <2>4, <2>6, SameStoring
<1>11. ASSUME NEW q \in Requests, ScheduleRunning(q) PROVE StoredFrom(r, i)
  <2>1. track' = track /\ finished' = finished /\ step.phase = "schedule" /\ (Grants(q) \/ Preempts(q))
    BY <1>1, <1>11, ScheduleRunningCases DEF ScheduleRunning, Turn
  <2>2. /\ req'[r].status = "running" => req[r].status = "running"
        /\ IsFinished(r) => /\ req'[r].status = req[r].status /\ req'[r].tokens = req[r].tokens
                            /\ req'[r].computed = req[r].computed
    BY <2>1 DEF Grants, Granted, IsFinished, Preempts, Running
  <2> QED BY <1>2, <1>3, <2>1, <2>2, SameStoring, FinishedTokens
<1>12. ASSUME NEW q \in Requests, Loading(q) PROVE StoredFrom(r, i)
  <2>1. track' = track /\ finished' = finished /\ step.phase = "schedule" /\ req[q].status = "loading"
    BY <1>12 DEF Loading, connector, Considers, Turn
  <2>2. q # r => req'[r] = req[r] BY <1>1, <1>12 DEF Loading, Shape
  <2>3. CASE q # r BY <1>4, <2>1, <2>2, <2>3
  <2>4. CASE q = r BY <1>2, <2>1, <2>4 DEF TrackFit, TrackFitFor
  <2> QED BY <2>3, <2>4
<1>13. ASSUME NEW q \in Requests, Delay(q) PROVE StoredFrom(r, i)
  <2>1. req' = req /\ finished' = finished /\ step.phase = "schedule"
        /\ track' = [track EXCEPT ![q].blocks = IF req[q].computed = 0 THEN <<>> ELSE @]
    BY <1>13 DEF Delay, Considers, Turn
  <2>2. CASE q # r BY <1>1, <1>4, <2>1, <2>2 DEF Shape
  <2>3. CASE q = r
    <3>1. track'[r].next = track[r].next /\ track'[r].on = track[r].on
          /\ track'[r].blocks \in {<<>>, track[r].blocks}
      BY <1>1, <2>1, <2>3 DEF Shape, TrackT
    <3> QED BY <1>2, <1>3, <2>1, <3>1, SameStoring, FinishedTokens
  <2> QED BY <2>2, <2>3
<1>14. ASSUME NEW q \in Requests, Admit(q) PROVE StoredFrom(r, i)
  <2>1. /\ Granted(q) /\ req[q].status = "waiting" /\ finished' = finished /\ step.phase = "schedule"
        /\ track' = [track EXCEPT ![q].blocks = IF req[q].computed = 0 THEN <<>> ELSE @]
    BY <1>1, <1>14, AdmitGranted DEF Granted
  <2>2. CASE q # r BY <1>1, <1>4, <2>1, <2>2 DEF Granted, Shape
  <2>3. CASE q = r
    <3>1. track'[r].blocks = IF req[r].computed = 0 THEN <<>> ELSE track[r].blocks
      BY <1>1, <2>1, <2>3 DEF Shape, TrackT
    <3>2. req[r].computed # 0 => req[r].computed > 0 BY <1>1 DEF Counts, CountsFor, Shape, ReqT
    <3>3. track'[r].blocks = <<>> BY <2>1, <2>3, <3>1, <3>2 DEF TrackFit, TrackFitFor
    <3> QED BY <1>2, <3>3
  <2> QED BY <2>2, <2>3
<1>15. ASSUME NEW q \in Requests, Load(q) PROVE StoredFrom(r, i)
  BY <1>1, <1>2, <1>4, <1>15, LoadNow DEF LoadsNow
<1>16. ASSUME NEW q \in Requests, Store(q) PROVE StoredFrom(r, i)
  <2>1. /\ step.phase = "store" /\ step'.phase = "store" /\ step'.todo = step.todo \ {q}
        /\ track'[r].blocks = track[r].blocks /\ track'[r].on = track[r].on
        /\ req' = req /\ finished' = finished /\ (q # r => track'[r] = track[r])
    BY <1>16, StoreNow DEF engine
  <2>2. track'[r].next >= track[r].next
    <3>1. CASE q # r BY <1>2, <2>1, <3>1
    <3>2. CASE q = r
      BY <1>1, <1>2, <1>16, <3>2, StoreTypes, StoreNow DEF StoresNow, StoredAll, Most
    <3> QED BY <3>1, <3>2
  <2>3. r \in finished => TokensAfter(r)' = TokensAfter(r) BY <1>3, <2>1, FinishedTokens
  <2> QED BY <1>2, <2>1, <2>2, <2>3, SameStoring
<1> QED
  BY <1>5, <1>6, <1>7, <1>8, <1>9, <1>10, <1>11, <1>12, <1>13, <1>14, <1>15, <1>16 DEF Next, Step

\* With full attention, a running request holds what the connector keeps of it.
LEMMA OwnEntry ==
    ASSUME IInv, Apart, Fitted, TrackFit, window = 0, NEW r \in Requests,
           req[r].status = "running", NEW i \in DOMAIN track[r].blocks, track[r].blocks[i] # Null,
           NEW q \in Requests, NEW j \in DOMAIN req[q].table,
           req[q].table[j] = track[r].blocks[i]
    PROVE  q = r /\ j = i
<1>1. Shape BY DEF IInv
<1>2. i \in DOMAIN req[r].table
  <2>1. Len(track[r].blocks) + Len(step.blocks[r]) = Len(req[r].table)
    BY DEF TrackFit, TrackFitFor
  <2>2. PICK a, b, c : /\ a = Len(track[r].blocks) /\ b = Len(step.blocks[r])
                       /\ c = Len(req[r].table)
    OBVIOUS
  <2>3. req[r].table \in BlockSeq /\ track[r].blocks \in BlockSeq /\ step.blocks[r] \in BlockSeq
    BY <1>1 DEF Shape, ReqT, TrackT, StepT
  <2>4. /\ a \in Nat /\ b \in Nat /\ c \in Nat /\ DOMAIN req[r].table = 1..c
        /\ DOMAIN track[r].blocks = 1..a
    BY <2>2, <2>3, TableDomain
  <2>5. a + b = c BY <2>1, <2>2
  <2>6. a <= c BY <2>4, <2>5
  <2> QED BY <2>4, <2>6
<1>3. req[r].table[i] = Null => Out(r, i) BY <1>2 DEF Fitted, FittedFor, IsFinished
<1>4. req[r].table[i] = track[r].blocks[i] BY <1>3 DEF TrackFit, TrackFitFor, Out
<1> QED BY <1>2, <1>4 DEF Apart

LEMMA UnspoiledMoved ==
    ASSUME IInv, IInv', Apart, Fitted, Unspoiled, [Next]_vars, ~EndSchedule,
           NEW r \in Requests, NEW i \in Int, StoredFrom(r, i), Storing(r, i)'
    PROVE  UnspoiledFor(r, i)'
<1>1. Shape /\ Shape' /\ Closed BY DEF IInv
<1>2. PICK b : b = track[r].blocks[i] /\ b = track'[r].blocks[i] /\ b # Null
  BY DEF StoredFrom, Storing
<1>3. UnspoiledFor(r, i) /\ i \in DOMAIN track[r].blocks BY DEF Unspoiled, StoredFrom, Storing
<1> SUFFICES ASSUME NEW q \in Requests, NEW j \in DOMAIN req'[q].table, req'[q].table[j] = b
             PROVE  \/ q = r /\ j = i /\ req'[r].status = "running"
                    \/ Passed(r, q, j, b)'
  BY <1>2 DEF UnspoiledFor
<1>4. CASE FreshEntry(q, j)' BY <1>4 DEF FreshEntry, Passed
<1>5. CASE j \in DOMAIN req[q].table /\ req[q].table[j] = b
  <2>1. CASE q = r /\ j = i /\ req[r].status = "running" BY <2>1, RunningStep DEF RunsOn
  <2>2. CASE Passed(r, q, j, b)
    <3>1. step.phase \in {"schedule", "store"} BY <2>2 DEF Passed
    <3>2. Fresh(q, j)' BY <2>2, <3>1, FreshStep DEF Passed, Forward
    <3>3. CASE step.phase = "schedule"
      BY <2>2, <3>2, <3>3, Phases, GivenGrows DEF Begin, SendMeta, Forward, Update, Passed
    <3>4. CASE step.phase = "store"
      <4>1. window = 0 /\ IsFinished(r) /\ b \in allocated BY <2>2, <3>4 DEF Passed
      <4>2. IsFinished(r)' /\ window' = 0 BY <4>1, FinishedLasts
      <4>3. CASE SendMeta BY <4>2, <4>3 DEF SendMeta, Storing, IsFinished
      <4>4. CASE ~SendMeta
        <5>1. step'.phase = "store" BY <3>4, <4>4, Phases DEF Begin, Forward, Update
        <5>2. allocated' = allocated
          BY <3>4, <4>4, LateSteps DEF Forward, vars, connector, CopyNext, Copy, Store
        <5> QED BY <3>2, <4>1, <4>2, <5>1, <5>2 DEF Passed
      <4> QED BY <4>3, <4>4
    <3> QED BY <3>1, <3>3, <3>4
  <2> QED BY <1>2, <1>3, <1>5, <2>1, <2>2 DEF UnspoiledFor
<1> QED BY <1>2, <1>4, <1>5, EntryFrom

\* What is to be stored after a reset: it was to be before, or the cursor went back to it.
LEMMA ResetEntry ==
    ASSUME IInv, IInv', [Next]_vars, NEW force \in BOOLEAN,
           Reset(force), NEW r \in Requests, NEW i \in Int, Storing(r, i)'
    PROVE  \/ StoredFrom(r, i)
           \/ /\ req' = req /\ track'[r].blocks = track[r].blocks /\ window = 0
              /\ req[r].status = "running" /\ i \in DOMAIN track[r].blocks
              /\ track[r].blocks[i] # Null
<1>1. Shape /\ Shape' /\ Closed BY DEF IInv
<1>2. finished' = finished /\ step' = step /\ step.phase = "idle" /\ window' = window
  BY DEF Reset
<1>3. r \in finished => IsFinished(r)
  BY <1>1 DEF Closed, ClosedFor, Active, IsFinished, Shape, ReqT, Statuses
<1>4. \/ req'[r] = req[r]
      \/ req'[r].status = "waiting" /\ req[r].status = "running"
  <2>1. CASE force
    <3>1. req'[r] = IF r \in Running
                    THEN [req[r] EXCEPT !.status = "waiting", !.computed = 0, !.table = <<>>]
                    ELSE req[r]
      BY <2>1 DEF Reset, Preempted
    <3> QED BY <1>1, <3>1 DEF Shape, ReqT, Running
  <2>2. CASE ~force BY <2>2 DEF Reset
  <2> QED BY <2>1, <2>2
<1>5. req'[r] = req[r] BY <1>2, <1>3, <1>4 DEF Storing, IsFinished
<1>6. CASE UNCHANGED <<connector, manager>>
  BY <1>1, <1>2, <1>3, <1>5, <1>6, FinishedTokens, SameStoring DEF connector, Shape, TrackT
<1>7. CASE ResetConnector
  <2>1. track'[r] = IF track[r].on /\ ~IsFinished(r)
                    THEN [track[r] EXCEPT !.next = 0, !.jobs = {}] ELSE NoTrack
    BY <1>7 DEF ResetConnector
  <2>2. i \in DOMAIN track'[r].blocks BY DEF Storing
  <2>3. track'[r] # NoTrack BY <2>2 DEF NoTrack
  <2>4. /\ ~IsFinished(r) /\ track'[r].blocks = track[r].blocks
    BY <1>1, <2>1, <2>3 DEF Shape, TrackT
  <2>5. req[r].status = "running" /\ track[r].blocks[i] # Null
    BY <1>2, <1>3, <1>5, <2>4 DEF Storing
  <2>6. window = 0 /\ ~force
    <3>1. ASSUME force PROVE FALSE
      <4>1. req'[r] = [req[r] EXCEPT !.status = "waiting", !.computed = 0, !.table = <<>>]
        BY <2>5, <3>1 DEF Reset, Preempted, Running
      <4>2. req'[r].status = "waiting" BY <1>1, <4>1 DEF Shape, ReqT
      <4> QED BY <1>5, <2>5, <4>2
    <3> QED BY <2>5, <3>1 DEF Reset, Running
  <2>7. req' = req BY <2>6 DEF Reset
  <2> QED BY <2>2, <2>4, <2>5, <2>6, <2>7
<1> QED BY <1>6, <1>7 DEF Reset

LEMMA ResetUnspoiled ==
    ASSUME IInv, IInv', Apart, Fitted, TrackFit, Unspoiled, [Next]_vars, NEW force \in BOOLEAN,
           Reset(force), NEW r \in Requests, NEW i \in Int, Storing(r, i)'
    PROVE  UnspoiledFor(r, i)'
<1>1. CASE StoredFrom(r, i)
  <2>1. ~EndSchedule BY DEF EndSchedule, Reset
  <2> QED BY <1>1, <2>1, UnspoiledMoved
<1>2. CASE ~StoredFrom(r, i) BY <1>2, ResetEntry, OwnEntry DEF UnspoiledFor
<1> QED BY <1>1, <1>2

\* What is to be stored after EndSchedule: it was to be before, or its block is of this step.
LEMMA EndEntry ==
    ASSUME IInv, IInv', TrackFit, EndSchedule, NEW r \in Requests, NEW i \in Int, Storing(r, i)'
    PROVE  /\ track'[r].blocks[i] # Null
           /\ \/ StoredFrom(r, i) /\ ~Lost(r, i)
              \/ req[r].status = "running" /\ Has(r, i, track'[r].blocks[i])
<1>1. Shape /\ Shape' /\ Closed /\ Sched BY DEF IInv
<1>2. req' = req /\ finished' = finished /\ step.phase = "schedule" BY DEF EndSchedule, engine
<1>3. r \in finished => IsFinished(r)
  BY <1>1 DEF Closed, ClosedFor, Active, IsFinished, Shape, ReqT, Statuses
<1>4. /\ track'[r].blocks = KeptIds(r) \o step.blocks[r]
      /\ track'[r].next = track[r].next /\ track'[r].on = track[r].on
      /\ i \in DOMAIN track'[r].blocks /\ track'[r].blocks[i] # Null
  BY <1>1 DEF EndSchedule, Shape, TrackT, Storing
<1>5. /\ track[r].blocks \in BlockSeq /\ step.blocks[r] \in BlockSeq /\ track'[r].blocks \in BlockSeq
  BY <1>1 DEF Shape, StepT, TrackT
<1>6. /\ KeptIds(r) \in BlockSeq /\ Len(KeptIds(r)) = Len(track[r].blocks)
      /\ \A c \in 1..Len(track[r].blocks) :
            KeptIds(r)[c] = IF Lost(r, c) THEN Null ELSE track[r].blocks[c]
  BY <1>5 DEF KeptIds, BlockSeq
<1>7. PICK k, n : k = Len(track[r].blocks) /\ n = Len(step.blocks[r])
  OBVIOUS
<1>8. /\ k \in Nat /\ n \in Nat /\ i \in 1..(k + n)
      /\ \A c \in 1..k : track'[r].blocks[c] = KeptIds(r)[c]
      /\ \A c \in k + 1..k + n : c - k \in 1..n /\ track'[r].blocks[c] = step.blocks[r][c - k]
      /\ DOMAIN step.blocks[r] = 1..n /\ DOMAIN track[r].blocks = 1..k
  <2>1. PICK s, u, t : s = KeptIds(r) /\ u = step.blocks[r] /\ t = track'[r].blocks
    OBVIOUS
  <2>2. /\ s \in BlockSeq /\ u \in BlockSeq /\ t \in BlockSeq /\ t = s \o u /\ k = Len(s) /\ n = Len(u)
        /\ track[r].blocks \in BlockSeq
    BY <1>4, <1>5, <1>6, <1>7, <2>1
  <2>3. Len(t) = k + n /\ k \in Nat /\ n \in Nat BY <2>2, ConcatType, TableDomain
  <2>4. /\ \A c \in 1..k : t[c] = s[c]
        /\ \A c \in k + 1..k + n : c - k \in 1..n /\ t[c] = u[c - k]
    BY <2>2, ConcatAt
  <2>5. DOMAIN t = 1..(k + n) /\ DOMAIN u = 1..n /\ DOMAIN track[r].blocks = 1..k
    BY <1>7, <2>2, <2>3, TableDomain
  <2> QED BY <1>4, <2>1, <2>3, <2>4, <2>5
<1>9. PICK b : b = track'[r].blocks[i]
  OBVIOUS
<1>10. CASE i \in 1..k
  BY <1>2, <1>3, <1>4, <1>6, <1>7, <1>8, <1>9, <1>10, FinishedTokens DEF Storing, StoredFrom
<1>11. CASE i \in k + 1..k + n
  <2>1. step.blocks[r] # <<>>
    <3>1. n # 0 BY <1>8, <1>11
    <3> QED BY <1>7, <3>1
  <2>2. req[r].status = "running" BY <1>1, <2>1 DEF Sched
  <2>3. req[r].table[i] = b /\ i \in DOMAIN req[r].table
    <3>1. /\ i - k \in DOMAIN step.blocks[r] /\ b = step.blocks[r][i - k]
          /\ k + (i - k) = i
      BY <1>8, <1>9, <1>11
    <3>2. req[r].table[k + (i - k)] = step.blocks[r][i - k] /\ k + n = Len(req[r].table)
      BY <1>7, <2>2, <3>1 DEF TrackFit, TrackFitFor
    <3>3. i \in DOMAIN req[r].table BY <1>1, <1>8, <3>2, TableType
    <3> QED BY <3>1, <3>2, <3>3
  <2> QED BY <1>4, <1>9, <2>2, <2>3 DEF Has
<1> QED BY <1>8, <1>10, <1>11

LEMMA EndScheduleUnspoiled ==
    ASSUME IInv, IInv', Apart, Fitted, TrackFit, Unspoiled, [Next]_vars, EndSchedule,
           NEW r \in Requests, NEW i \in Int, Storing(r, i)'
    PROVE  UnspoiledFor(r, i)'
<1>1. Shape /\ Shape' /\ Closed BY DEF IInv
<1>2. /\ req' = req /\ finished' = finished /\ window' = window /\ allocated' = Given
      /\ step.phase = "schedule" /\ step'.phase = "store"
  BY <1>1 DEF EndSchedule, engine, Shape, StepT
<1>3. r \in finished => IsFinished(r)
  BY <1>1 DEF Closed, ClosedFor, Active, IsFinished, Shape, ReqT, Statuses
<1>4. PICK b : b = track'[r].blocks[i]
  OBVIOUS
<1> SUFFICES ASSUME NEW q \in Requests, NEW j \in DOMAIN req[q].table, req[q].table[j] = b
             PROVE  \/ q = r /\ j = i /\ req[r].status = "running"
                    \/ Passed(r, q, j, b)'
  BY <1>2, <1>4 DEF UnspoiledFor
<1>5. CASE StoredFrom(r, i) /\ ~Lost(r, i)
  <2>1. /\ Storing(r, i) /\ b = track[r].blocks[i] /\ i > track[r].next
        /\ i \in DOMAIN track[r].blocks /\ track[r].blocks[i] # Null
    BY <1>4, <1>5 DEF StoredFrom, Storing
  <2>2. window = 0 \/ track[r].blocks[i] \notin Given BY <1>5, <2>1 DEF Lost
  <2>3. \/ q = r /\ j = i /\ req[r].status = "running"
        \/ Passed(r, q, j, track[r].blocks[i])
    BY <2>1 DEF Unspoiled, UnspoiledFor
  <2>4. ASSUME Passed(r, q, j, track[r].blocks[i])
        PROVE  \/ q = r /\ j = i /\ req[r].status = "running"
               \/ Passed(r, q, j, b)'
    <3>1. track[r].blocks[i] \in Given /\ window = 0 /\ Fresh(q, j)
      BY <1>2, <2>2, <2>4 DEF Passed
    <3>2. CASE req[r].status = "running" BY <2>1, <3>1, <3>2, OwnEntry
    <3>3. CASE req[r].status # "running"
      BY <1>2, <1>3, <2>1, <3>1, <3>3, FreshStep DEF Storing, Forward, Passed, IsFinished
    <3> QED BY <3>2, <3>3
  <2> QED BY <2>3, <2>4
<1>6. CASE req[r].status = "running" /\ Has(r, i, b) /\ b # Null BY <1>6 DEF Apart, Has
<1> QED BY <1>4, <1>5, <1>6, EndEntry

LEMMA UnspoiledStep ==
    ASSUME IInv, IInv', Apart, Fitted, TrackFit, Unspoiled, [Next]_vars PROVE Unspoiled'
<1> SUFFICES ASSUME NEW r \in Requests, NEW i \in DOMAIN track'[r].blocks, Storing(r, i)'
             PROVE  UnspoiledFor(r, i)'
  BY DEF Unspoiled
<1>1. i \in Int BY TableDomain DEF IInv, Shape, TrackT
<1>2. CASE EndSchedule BY <1>1, <1>2, EndScheduleUnspoiled
<1>3. CASE \E force \in BOOLEAN : Reset(force) BY <1>1, <1>3, ResetUnspoiled
<1>4. CASE ~EndSchedule /\ ~ \E force \in BOOLEAN : Reset(force)
  BY <1>1, <1>4, StoringFrom, UnspoiledMoved
<1> QED BY <1>2, <1>3, <1>4
-------------------------------------------------------------------------------
\* The second inductive invariant: where the blocks are, and what may come over them.
Layout ==
    Apart /\ Fitted /\ Moving /\ Placed /\ ReadySafe /\ TrackFit /\ Undisturbed /\ Unspoiled

LEMMA InitLayout == Init => Layout
<1> SUFFICES ASSUME Init PROVE Layout OBVIOUS
<1>1. Apart /\ Fitted BY InitFitted
<1>2. Moving BY DEF Init, Moving
<1>3. Placed BY DEF Init, Placed, Ids
<1>4. ReadySafe BY DEF Init, ReadySafe
<1>5. TrackFit
    <2> SUFFICES ASSUME NEW r \in Requests PROVE TrackFitFor(r) BY DEF TrackFit
    <2>1. req[r].status = "absent" BY DEF Init
    <2> QED BY <2>1 DEF TrackFitFor
<1>6. Undisturbed BY DEF Init, Undisturbed
<1>7. Unspoiled
    <2> SUFFICES ASSUME NEW r \in Requests, NEW i, Storing(r, i) PROVE FALSE BY DEF Unspoiled
    <2>1. track[r].blocks = <<>> BY DEF Init, NoTrack
    <2> QED BY <2>1 DEF Storing
<1> QED BY <1>1, <1>2, <1>3, <1>4, <1>5, <1>6, <1>7 DEF Layout
LEMMA LayoutStep == ASSUME IInv, IInv', Layout, [Next]_vars PROVE Layout'
<1>1. Shape /\ Shape' /\ Short /\ Sched /\ Counts /\ Sized BY CountsShort DEF IInv
<1>2. /\ Apart /\ Fitted /\ Moving /\ Placed /\ ReadySafe /\ TrackFit /\ Undisturbed
      /\ Unspoiled
    BY DEF Layout
<1>3. Apart' BY <1>1, <1>2, ApartStep
<1>4. Fitted' BY <1>1, <1>2, FittedStep
<1>5. Moving' BY <1>2, MovingStep
<1>6. Placed' BY <1>2, PlacedStep
<1>7. ReadySafe' BY <1>2, ReadySafeStep
<1>8. TrackFit' BY <1>2, TrackFitStep
<1>9. Undisturbed' BY <1>2, <1>6, UndisturbedStep
<1>10. Unspoiled' BY <1>2, UnspoiledStep
<1> QED BY <1>3, <1>4, <1>5, <1>6, <1>7, <1>8, <1>9, <1>10 DEF Layout
LEMMA LayoutHolds == Spec => []Layout
<1>1. Init => Layout BY InitLayout
<1>2. IInv /\ IInv' /\ Layout /\ [Next]_vars => Layout' BY LayoutStep
<1> QED BY <1>1, <1>2, IInvHolds, PTL DEF Spec
-------------------------------------------------------------------------------
\* What allocate_slots, remove_skipped_blocks and the frees of blocks come to: no block is in
\* the tables of two requests, or twice in one.
THEOREM ApartAlways == Spec => []Apart
<1>1. Layout => Apart BY DEF Layout
<1> QED BY <1>1, LayoutHolds, PTL
\* A block that a store under way reads is in no table but that of the store's request, or it
\* was given away in this step and the worker is told to wait for the store: this is what
\* _block_id_to_pending_jobs, _current_batch_jobs_to_flush and the preempted requests are for.
THEOREM UndisturbedAlways == Spec => []Undisturbed
<1>1. Layout => Undisturbed BY DEF Layout
<1> QED BY <1>1, LayoutHolds, PTL
\* Stores from before a reset that have not run write no slot of a chunk that a lookup may
\* offer: those of after the reset become readable only once the older ones are through.
THEOREM ReadySafeAlways == Spec => []ReadySafe
<1>1. Layout => ReadySafe BY DEF Layout
<1> QED BY <1>1, LayoutHolds, PTL
\* The forward pass writes no block that a store under way reads, but the chunk itself that the
\* store waits for.
ForwardSpares ==
    Forward => \A l \in transfers : l.store /\ l.at # "done" =>
        \A m \in l.moves : \A w \in WritesTo(m.block) : w = <<l.req, m.key[2]>> /\ Young(l, m)
LEMMA Spares == ASSUME IInv, Layout PROVE ForwardSpares
<1> SUFFICES ASSUME Forward, NEW l \in transfers, l.store, l.at # "done", NEW m \in l.moves,
                    NEW w \in WritesTo(m.block)
             PROVE  w = <<l.req, m.key[2]>> /\ Young(l, m)
    BY DEF ForwardSpares
<1>1. Shape /\ Placed /\ Clear(l, m) BY DEF IInv, Layout, Undisturbed
<1>2. l.id \notin flush BY <1>1, ForwardPlaced
<1>3. step.phase = "flush" BY DEF Forward
<1>4. PICK r \in Requests, i \in Chunks :
         /\ w = <<r, i>> /\ step.tokens[r] > 0 /\ i \in DOMAIN req[r].table
         /\ req[r].table[i] = m.block /\ i * ChunkTokens > req[r].computed - step.tokens[r]
    BY DEF WritesTo
<1>5. ~Covered(r, i, m.block, l) BY <1>2, <1>3 DEF Covered
<1>6. r = l.req /\ i = m.key[2] /\ Owned(l, m) BY <1>1, <1>4, <1>5 DEF Clear
<1>7. ~(m.key[2] * ChunkTokens <= Past(l.req))
  BY <1>1, <1>3, <1>4, <1>6, TimesType DEF Shape, ReqT, StepT, Past
<1> QED BY <1>4, <1>6, <1>7 DEF Owned
THEOREM ForwardSparesAlways == Spec => [][ForwardSpares]_vars
<1>1. IInv /\ Layout => ForwardSpares BY Spares
<1> QED BY <1>1, IInvHolds, LayoutHolds, PTL
-------------------------------------------------------------------------------
\* What blocks and slots hold: chunk k, and n of its positions, or all but the last one if
\* that is the token that a stopped request sampled last.
InBlock(b, k, n) ==
    gpuKV[b].key = k /\ (gpuKV[b].n >= n \/ (LastSampled(k) /\ gpuKV[b].n = ChunkTokens - 1))
InSlot(s, k) ==
    /\ slotKV[s].key = k
    /\ slotKV[s].n >= ChunkTokens \/ (LastSampled(k) /\ slotKV[s].n = ChunkTokens - 1)

\* What is readable, was stored, is to be loaded, or was loaded.
HostGood  == \A k \in Keys : host[k].ready => InSlot(host[k].slot, k)
StoreDone == \A l \in transfers : l.store /\ l.known /\ l.at = "done" =>
                \A m \in l.moves : InSlot(m.slot, m.key)
LoadGood  == \A j \in transfers : ~j.store => \A m \in j.moves :
                IF j.at = "done" THEN InBlock(m.block, m.key, ChunkTokens) ELSE InSlot(m.slot, m.key)
\* What is to be stored is there, or this step computes it.
Pending(l, m) ==
    /\ Young(l, m) /\ req[l.req].status = "running" /\ Has(l.req, m.key[2], m.block)
    /\ m.key[2] * ChunkTokens > Past(l.req)
StoreGood == \A l \in transfers : l.store /\ l.at # "done" =>
                \A m \in l.moves : InBlock(m.block, m.key, ChunkTokens) \/ Pending(l, m)
TrackHolds(r, i) == InBlock(track[r].blocks[i], KeyOf(r, i), ChunkTokens)
TrackGood == \A r \in Requests : \A i \in DOMAIN track[r].blocks :
                Storing(r, i) /\ (req[r].status = "running" => i * ChunkTokens <= Past(r)) =>
                    TrackHolds(r, i)
\* What requests have computed or loaded is in their blocks.
RunHolds(r, i, n) == InBlock(req[r].table[i], KeyOf(r, i), n)
Reached(r, i) == Least(ChunkTokens, Past(r) - (i - 1) * ChunkTokens)
RunGoodFor(r, i) ==
    /\ req[r].status \in {"waiting", "running"} /\ Reached(r, i) > 0 => RunHolds(r, i, Reached(r, i))
    /\ r \in received => RunHolds(r, i, ChunkTokens)
RunGood == /\ \A r \in Requests : req[r].status = "absent" => req[r].computed = 0
           /\ \A r \in Requests : \A i \in DOMAIN req[r].table :
                 req[r].table[i] # Null => RunGoodFor(r, i)
Content == HostGood /\ StoreDone /\ LoadGood /\ StoreGood /\ TrackGood /\ RunGood

\* gpu_worker.py 673-674, of the copies to the host: the host memory that a load reads is never
\* written by a concurrent stream.  Of the loads that the scheduler knows it follows from Layout;
\* this is for those from before a reset.
HostUnwritten == \A j, l \in transfers :
    j.at = "queued" /\ l.at = "queued" /\ ~j.store /\ l.store /\ ~j.known =>
        SlotsOf(j) \cap SlotsOf(l) = {}

\* What was sampled last stays so, and what a block or slot holds counts as long as it is held.
LEMMA SampledLast ==
    ASSUME IInv, IInv', [Next]_vars, NEW k, LastSampled(k) PROVE LastSampled(k)'
<1>1. PICK q \in Requests : req[q].status = "stopped" /\ req[q].prompt = k[1]
                            /\ req[q].tokens = k[2] * ChunkTokens
    BY DEF LastSampled
<1>2. Lasting(q) BY RequestsLast
<1> QED BY <1>1, <1>2 DEF Lasting, LastSampled
LEMMA BlockLasts ==
    ASSUME IInv, IInv', [Next]_vars, NEW b, NEW k, NEW n, InBlock(b, k, n), gpuKV'[b] = gpuKV[b]
    PROVE  InBlock(b, k, n)'
BY SampledLast DEF InBlock
LEMMA SlotLasts ==
    ASSUME IInv, IInv', [Next]_vars, NEW s, NEW k, InSlot(s, k), slotKV'[s] = slotKV[s]
    PROVE  InSlot(s, k)'
BY SampledLast DEF InSlot
\* The steps that change a block or a slot.
UsedBlock(b) ==
    \/ \E r \in Requests : b \in Range(req[r].table) \/ b \in Range(track[r].blocks)
    \/ \E l \in transfers : l.store /\ l.at \in {"deferred", "queued"} /\ b \in BlocksOf(l)
UsedSlot(s) ==
    \/ \E k \in Keys : host[k].slot = s
    \/ \E j \in transfers : ~j.store /\ j.at = "queued" /\ s \in SlotsOf(j)
Forgets == \E stop \in SUBSET Requests : Update(stop)
LoadsTo(b) == \E j \in transfers : Copy(j) /\ ~j.store /\ b \in BlocksOf(j)
StoresTo(s) == \E j \in transfers : Copy(j) /\ j.store /\ s \in SlotsOf(j)
LEMMA MemoryFrom ==
    ASSUME IInv, [Next]_vars
    PROVE  /\ \A b \in Blocks :
                 \/ gpuKV'[b] = gpuKV[b] \/ LoadsTo(b) \/ (Forward /\ WritesTo(b) # {})
                 \/ Forgets /\ ~UsedBlock(b)'
           /\ \A s \in Slots :
                 slotKV'[s] = slotKV[s] \/ StoresTo(s) \/ (Forgets /\ ~UsedSlot(s)')
<1>1. gpuKV \in [Blocks -> KVT] /\ slotKV \in [Slots -> KVT] BY DEF IInv, Memory
<1>2. CASE UNCHANGED memory BY <1>2 DEF memory
<1>3. CASE Forward BY <1>1, <1>3 DEF Forward
<1>4. ASSUME NEW j \in transfers, Copy(j) PROVE \A b \in Blocks : gpuKV'[b] = gpuKV[b] \/ LoadsTo(b)
    BY <1>1, <1>4 DEF Copy, LoadsTo
<1>5. ASSUME NEW j \in transfers, Copy(j) PROVE \A s \in Slots : slotKV'[s] = slotKV[s] \/ StoresTo(s)
    BY <1>1, <1>5 DEF Copy, StoresTo
<1>6. ASSUME NEW stop \in SUBSET Requests, Update(stop)
      PROVE  /\ \A b \in Blocks : gpuKV'[b] = gpuKV[b] \/ ~UsedBlock(b)'
             /\ \A s \in Slots : slotKV'[s] = slotKV[s] \/ ~UsedSlot(s)'
    <2>1. Forget BY <1>6 DEF Update
    <2>2. ASSUME NEW b \in Blocks PROVE gpuKV'[b] = gpuKV[b] \/ ~UsedBlock(b)'
        BY <2>1, <1>1 DEF Forget, UsedBlock, BlocksOf
    <2>3. ASSUME NEW s \in Slots PROVE slotKV'[s] = slotKV[s] \/ ~UsedSlot(s)'
        BY <2>1, <1>1 DEF Forget, UsedSlot, SlotsOf
    <2> QED BY <2>2, <2>3
<1> QED BY <1>2, <1>3, <1>4, <1>5, <1>6
    DEF Next, Step, CopyNext, vars, Begin, EndSchedule, SendMeta, ScheduleRunning, Loading, Delay,
        Admit, Load, Store, Abort, Arrive, Reset, memory, Forgets
\* Where a transfer is after a step.
LEMMA PlaceFrom ==
    ASSUME IInv, IInv', [Next]_vars, NEW j \in transfers, NEW l \in transfers', Moved(j, l)
    PROVE  \/ l.at = j.at
           \/ Copy(j) /\ l.at = "done"
           \/ SendMeta /\ l.at = IF j.store /\ j.at = "built" THEN "deferred"
                                 ELSE IF j.at \in {"deferred", "urgent"} THEN "queued" ELSE j.at
           \/ Forward /\ l.at = IF j.at = "built" THEN "queued" ELSE j.at
<1>1. Shape /\ Short /\ Sched /\ Unique /\ Unique' /\ l.id = j.id BY CountsShort DEF IInv, Linked, Moved
<1>2. \A i \in transfers : i.id = l.id => i = j BY <1>1 DEF Unique
<1>3. j \in transfers' \/ l \in transfers => l = j BY <1>1 DEF Unique
<1>4. CASE SendMeta
    <2>1. PICK i \in transfers :
             l = [i EXCEPT !.at = IF i.store /\ @ = "built" THEN "deferred"
                                  ELSE IF @ \in {"deferred", "urgent"} THEN "queued" ELSE @]
        BY <1>4 DEF SendMeta
    <2>2. i \in JobT BY <1>1 DEF Shape
    <2>3. l.id = i.id BY <2>1, <2>2 DEF JobT
    <2>4. i = j BY <1>2, <2>3
    <2> QED BY <1>4, <2>1, <2>2, <2>4 DEF JobT
<1>5. CASE Forward
    <2>1. PICK i \in transfers : l = [i EXCEPT !.at = IF @ = "built" THEN "queued" ELSE @]
        BY <1>5 DEF Forward
    <2>2. i \in JobT BY <1>1 DEF Shape
    <2>3. l.id = i.id BY <2>1, <2>2 DEF JobT
    <2>4. i = j BY <1>2, <2>3
    <2> QED BY <1>5, <2>1, <2>2, <2>4 DEF JobT
<1>6. ASSUME NEW q \in transfers, Copy(q) PROVE l.at = j.at \/ (Copy(j) /\ l.at = "done")
  BY <1>1, <1>2, <1>3, <1>6 DEF Copy, Shape, JobT
<1>7. ASSUME NEW force \in BOOLEAN, Reset(force) PROVE l.at = j.at
    <2>1. transfers' = transfers \/ transfers' = {[i EXCEPT !.known = FALSE] : i \in transfers}
        BY <1>7 DEF Reset, ResetConnector, connector
    <2>2. CASE transfers' = transfers BY <1>3, <2>2
    <2>3. CASE transfers' = {[i EXCEPT !.known = FALSE] : i \in transfers}
        <3>1. PICK i \in transfers : l = [i EXCEPT !.known = FALSE] BY <2>3
        <3>2. i \in JobT BY <1>1 DEF Shape
        <3>3. l.id = i.id /\ l.at = i.at BY <3>1, <3>2 DEF JobT
        <3> QED BY <1>2, <3>3
    <2> QED BY <2>1, <2>2, <2>3
<1>8. ASSUME \/ UNCHANGED transfers \/ \E stop \in SUBSET Requests : Update(stop)
             \/ \E r \in Requests : Load(r) \/ Store(r)
      PROVE  l.at = j.at
  BY <1>1, <1>3, <1>8, LoadNow, StoreNow DEF Update, LoadsNow, StoresNow, StoredAll
<1>9. CASE \/ Begin \/ EndSchedule \/ UNCHANGED vars
           \/ \E r \in Requests : \/ ScheduleRunning(r) \/ Loading(r) \/ Delay(r) \/ Admit(r)
                                  \/ Abort(r) \/ \E p \in Prompts : Arrive(r, p)
  BY <1>8, <1>9 DEF Begin, EndSchedule, vars, ScheduleRunning, Loading, Delay, Admit, Abort,
     Arrive, connector
<1> QED BY <1>4, <1>5, <1>6, <1>7, <1>8, <1>9 DEF Next, Step, CopyNext
\* What is done is dropped when it has been reported.
LEMMA DoneDropped ==
    ASSUME IInv, Forgets, NEW l \in transfers'
    PROVE  l \in transfers /\ l.at # "done" /\ step'.phase = "idle"
BY ZenonT(40) DEF Forgets, Update, IInv, Shape, StepT

\* Copies to the host write no slot of a readable chunk, and of two only one is for a key.
LEMMA ReadySlot ==
    ASSUME IInv, NEW k \in Keys, host[k].ready PROVE host[k].slot \in Slots
BY DEF IInv, Shape, Pinned, SlotsOwned, Absent, HostT
LEMMA MoveFacts ==
    ASSUME IInv, Layout, NEW j \in transfers, NEW m \in j.moves
    PROVE  /\ m.key \in Keys /\ m.block \in Blocks /\ m.slot \in Slots /\ m.block # Null
           /\ m.key = KeyOf(j.req, m.key[2]) /\ m.key[2] \in Chunks /\ j.req \in Requests
           /\ \A n \in j.moves : m.slot = n.slot \/ m.key = n.key => m = n
           /\ j.known => host[m.key].slot = m.slot /\ (host[m.key].ready <=> ~j.store)
BY MoveTypes, OffloadAssumption DEF IInv, Layout, Pinned, MovesNamed, Moving, Shape, JobT, Naming,
   NamedFor
LEMMA CopyFacts ==
    ASSUME IInv, Layout, NEW q \in transfers, Copy(q)
    PROVE  /\ q.at = "queued" /\ step.phase \in {"flush", "output"}
           /\ UNCHANGED <<window, engine, step, track, flush, manager>>
           /\ transfers' = (transfers \ {q}) \cup {[q EXCEPT !.at = "done"]}
           /\ q.store => UNCHANGED gpuKV /\ \A m \in q.moves : slotKV'[m.slot] = gpuKV[m.block]
           /\ ~q.store => UNCHANGED slotKV /\ \A m \in q.moves : gpuKV'[m.block] = slotKV[m.slot]
<1>1. /\ q.at = "queued" /\ step.phase \in {"flush", "output"}
      /\ UNCHANGED <<window, engine, step, track, flush, manager>>
      /\ transfers' = (transfers \ {q}) \cup {[q EXCEPT !.at = "done"]}
    BY DEF Copy
<1>2. ASSUME q.store, NEW m \in q.moves PROVE UNCHANGED gpuKV /\ slotKV'[m.slot] = gpuKV[m.block]
    <2>1. m.slot \in Slots /\ m.slot \in SlotsOf(q) BY MoveFacts DEF SlotsOf
    <2>2. PICK n : n = CHOOSE o \in q.moves : o.slot = m.slot OBVIOUS
    <2>3. n \in q.moves /\ n.slot = m.slot BY <2>2
    <2>4. n = m BY <2>3, MoveFacts
    <2>5. slotKV'[m.slot] = gpuKV[n.block] /\ UNCHANGED gpuKV BY <1>2, <2>1, <2>2 DEF Copy
    <2> QED BY <2>4, <2>5
<1>3. ASSUME ~q.store, NEW m \in q.moves PROVE UNCHANGED slotKV /\ gpuKV'[m.block] = slotKV[m.slot]
    <2>1. m.block \in Blocks /\ m.block \in BlocksOf(q) BY MoveFacts DEF BlocksOf
    <2>2. PICK n : n = CHOOSE o \in q.moves : o.block = m.block OBVIOUS
    <2>3. n \in q.moves /\ n.block = m.block BY <2>2
    <2>4. n = m BY <1>3, <2>3, MoveFacts DEF Layout, Moving, FilledFor, Has, Apart
    <2>5. gpuKV'[m.block] = slotKV[n.slot] /\ UNCHANGED slotKV BY <1>3, <2>1, <2>2 DEF Copy
    <2> QED BY <2>4, <2>5
<1>4. (q.store => UNCHANGED gpuKV) /\ (~q.store => UNCHANGED slotKV) BY DEF Copy
<1> QED BY <1>1, <1>2, <1>3, <1>4
LEMMA SafeSlot ==
    ASSUME IInv, Layout, NEW k \in Keys, host[k].ready PROVE ~StoresTo(host[k].slot)
<1> SUFFICES ASSUME NEW q \in transfers, Copy(q), q.store, NEW n \in q.moves, n.slot = host[k].slot
             PROVE  FALSE
    BY DEF StoresTo, SlotsOf
<1>1. CASE q.known BY <1>1, MoveFacts, ReadySlot, OffloadAssumption DEF IInv, Pinned, SlotsOwned
<1>2. CASE ~q.known
    <2>1. q.at # "done" BY CopyFacts
    <2> QED BY <1>2, <2>1 DEF Layout, ReadySafe, SlotsOf
<1> QED BY <1>1, <1>2

LEMMA HostGoodStep ==
    ASSUME IInv, IInv', Layout, HostGood, StoreDone, [Next]_vars PROVE HostGood'
<1> SUFFICES ASSUME NEW k \in Keys, host'[k].ready PROVE InSlot(host[k].slot, k)' BY DEF HostGood
<1>1. PICK s : s = host[k].slot OBVIOUS
<1>2. (host[k].ready \/ StoredNow(k)) /\ host'[k].slot = s BY <1>1, ReadyFrom
<1>3. InSlot(s, k) BY <1>1, <1>2 DEF HostGood, StoreDone, StoredNow
<1>4. s \in Slots
    <2>1. \A n \in Keys : host'[n].ready => host'[n].slot \in Slots
      BY DEF IInv, Shape, Pinned, SlotsOwned, Absent, HostT
    <2> QED BY <1>2, <2>1
<1>5. UsedSlot(s)' BY <1>2 DEF UsedSlot
<1>6. ~StoresTo(s)
    <2>1. CASE host[k].ready BY <1>1, <2>1, SafeSlot
    <2>2. ASSUME ~host[k].ready, NEW q \in transfers, Copy(q) PROVE FALSE
      BY <2>2, CopyFacts DEF manager
    <2> QED BY <2>1, <2>2 DEF StoresTo
<1>7. slotKV'[s] = slotKV[s] BY <1>4, <1>5, <1>6, MemoryFrom
<1>8. InSlot(s, k)' BY <1>3, <1>7, SlotLasts
<1> QED BY <1>2, <1>8 DEF InSlot
LEMMA StoreDoneStep ==
    ASSUME IInv, IInv', Layout, Layout', StoreDone, StoreGood, [Next]_vars PROVE StoreDone'
<1> SUFFICES ASSUME NEW l \in transfers', l.store, l.known, l.at = "done", NEW m \in l.moves
             PROVE  InSlot(m.slot, m.key)'
    BY DEF StoreDone
<1>1. ~ \E r \in Requests : Created(r, l) BY DEF Created, Filled, Added
<1>2. PICK j \in transfers : Moved(j, l) BY <1>1, Origin
<1>3. j.store /\ j.known /\ j.moves = l.moves /\ j.id = l.id BY <1>2 DEF Moved
<1>4. m \in j.moves /\ m.slot \in Slots /\ m.key \in Keys BY <1>3, MoveFacts
<1>5. CASE j.at = "done"
    <2>1. InSlot(m.slot, m.key) BY <1>3, <1>4, <1>5 DEF StoreDone
    <2>2. ~StoresTo(m.slot)
        <3> SUFFICES ASSUME NEW q \in transfers, Copy(q), q.store, NEW n \in q.moves, n.slot = m.slot
                     PROVE  FALSE
            BY DEF StoresTo, SlotsOf
        <3>1. q.at = "queued" BY CopyFacts
        <3>2. CASE q.known
            <4>1. host[n.key].slot = n.slot /\ n.slot # Null /\ n.key \in Keys
                BY <3>2, MoveFacts, OffloadAssumption
            <4>2. host[m.key].slot = m.slot BY <1>3, <1>4, MoveFacts
            <4>3. n.key = m.key BY <1>4, <4>1, <4>2 DEF IInv, Pinned, SlotsOwned
            <4>4. q = j BY <1>3, <1>4, <3>2, <4>3 DEF IInv, Pinned, StoredOnce
            <4> QED BY <1>5, <3>1, <4>4
        <3>3. CASE ~q.known BY <1>3, <1>5, <3>1, <3>3 DEF Layout, Placed, Older
        <3> QED BY <3>2, <3>3
    <2>3. UsedSlot(m.slot)'
        <3>1. host'[m.key].slot = m.slot BY DEF IInv, Pinned, MovesNamed, Naming
        <3> QED BY <1>4, <3>1 DEF UsedSlot
    <2>4. slotKV'[m.slot] = slotKV[m.slot] BY <1>4, <2>2, <2>3, MemoryFrom
    <2> QED BY <2>1, <2>4, SlotLasts
<1>6. CASE j.at # "done"
    <2>1. Copy(j) BY <1>2, <1>6, PlaceFrom
    <2>2. slotKV'[m.slot] = gpuKV[m.block] /\ j.at = "queued" BY <1>3, <1>4, <2>1, CopyFacts
    <2>3. InBlock(m.block, m.key, ChunkTokens) \/ Pending(j, m) BY <1>3, <1>4, <1>6 DEF StoreGood
    <2>4. ~Pending(j, m) BY <2>2 DEF Pending, Young
    <2>5. LastSampled(m.key) => LastSampled(m.key)' BY SampledLast
    <2> QED BY <2>2, <2>3, <2>4, <2>5 DEF InBlock, InSlot
<1> QED BY <1>5, <1>6
-------------------------------------------------------------------------------
\* Who writes to a block: the request that has it in its table.
LoadsInto(b, q, i) ==
    /\ q \in transfers /\ Copy(q) /\ ~q.store /\ q.at = "queued" /\ step.phase \in {"flush", "output"}
    /\ i \in DOMAIN req[q.req].table /\ req[q.req].table[i] = b /\ b # Null
    /\ q.req \in Requests /\ Loader(q.req) /\ ~BuiltLoad(q.req) /\ step.tokens[q.req] = 0
LEMMA LoadingInto ==
    ASSUME IInv, Layout, NEW b, LoadsTo(b) PROVE \E q, i : LoadsInto(b, q, i)
<1>1. PICK q \in transfers : Copy(q) /\ ~q.store /\ b \in BlocksOf(q) BY DEF LoadsTo
<1>2. PICK m \in q.moves : m.block = b BY <1>1 DEF BlocksOf
<1>3. q.at = "queued" /\ step.phase \in {"flush", "output"} BY <1>1, CopyFacts
<1>4. b # Null /\ q.req \in Requests BY <1>2, MoveFacts
<1>5. FilledFor(q) BY <1>1 DEF Layout, Moving
<1>6. Has(q.req, m.key[2], b) BY <1>2, <1>5 DEF FilledFor
<1>7. Loads /\ Sched /\ Shape BY DEF IInv, Linked
<1>8. Loader(q.req) BY <1>1, <1>7 DEF Loads
<1>9. ~BuiltLoad(q.req) BY <1>1, <1>3, <1>7 DEF Loads, BuiltLoad
<1>10. step.tokens[q.req] = 0 BY <1>4, <1>7, <1>8 DEF Sched, Loader
<1> QED BY <1>1, <1>3, <1>4, <1>6, <1>8, <1>9, <1>10 DEF LoadsInto, Has
LEMMA WritesInto ==
    ASSUME IInv, Layout, step.phase = "flush", NEW b, NEW w \in WritesTo(b)
    PROVE  /\ w[1] \in Requests /\ w[2] \in Chunks /\ w = <<w[1], w[2]>>
           /\ step.tokens[w[1]] > 0 /\ req[w[1]].status = "running"
           /\ w[2] \in DOMAIN req[w[1]].table /\ req[w[1]].table[w[2]] = b
           /\ w[2] * ChunkTokens > Past(w[1])
BY DEF WritesTo, IInv, Sched, Past
\* A block in the table of r is written for r only.
LEMMA Holder ==
    ASSUME IInv, Layout, NEW r \in Requests, NEW i \in DOMAIN req[r].table, NEW b, b # Null,
           req[r].table[i] = b
    PROVE  /\ LoadsTo(b) => \E q : LoadsInto(b, q, i) /\ q.req = r
           /\ step.phase = "flush" => \A w \in WritesTo(b) : w = <<r, i>>
<1>1. Apart BY DEF Layout
<1>2. ASSUME LoadsTo(b) PROVE \E q : LoadsInto(b, q, i) /\ q.req = r
    <2>1. PICK q, n : LoadsInto(b, q, n) BY <1>2, LoadingInto
    <2>2. q.req = r /\ n = i BY <1>1, <2>1 DEF Apart, LoadsInto
    <2> QED BY <2>1, <2>2
<1>3. ASSUME step.phase = "flush", NEW w \in WritesTo(b) PROVE w = <<r, i>>
  BY <1>1, <1>3, WritesInto DEF Apart
<1> QED BY <1>2, <1>3

\* What loads bring.
LEMMA LoadGoodNew ==
    ASSUME IInv, IInv', Layout, HostGood, [Next]_vars, NEW r \in Requests, Load(r), LoadsNow(r),
           NEW l \in transfers', Filled(r, l), NEW m \in l.moves
    PROVE  InSlot(m.slot, m.key)'
<1>1. PICK i \in Skipped(Hit(r)) + 1..CDiv(Hit(r), ChunkTokens) :
         m.key = KeyOf(r, i) /\ m.slot = host[KeyOf(r, i)].slot
    BY DEF Filled
<1>2. Shape /\ Hit(r) > 0 /\ UNCHANGED slotKV BY DEF IInv, Load, memory
<1>3. host[m.key].ready BY <1>1, <1>2, LookupOffers
<1>4. m.key \in Keys BY DEF Filled, JobT, MoveT
<1>5. InSlot(m.slot, m.key) BY <1>1, <1>3, <1>4 DEF HostGood
<1> QED BY <1>2, <1>5, SlotLasts
LEMMA LoadGoodStep ==
    ASSUME IInv, IInv', Layout, Layout', HostUnwritten, HostGood, LoadGood, [Next]_vars
    PROVE  LoadGood'
<1> SUFFICES ASSUME NEW l \in transfers', ~l.store, NEW m \in l.moves
             PROVE  IF l.at = "done" THEN InBlock(m.block, m.key, ChunkTokens)'
                    ELSE InSlot(m.slot, m.key)'
    BY DEF LoadGood
<1>1. ASSUME NEW r \in Requests, Created(r, l)
      PROVE  IF l.at = "done" THEN InBlock(m.block, m.key, ChunkTokens)'
             ELSE InSlot(m.slot, m.key)'
  BY <1>1, LoadGoodNew DEF Created, Added, Filled
<1>2. ASSUME NEW j \in transfers, Moved(j, l)
      PROVE  IF l.at = "done" THEN InBlock(m.block, m.key, ChunkTokens)'
             ELSE InSlot(m.slot, m.key)'
    <2>1. ~j.store /\ j.moves = l.moves /\ m \in j.moves /\ j.req \in Requests
      BY <1>2, MoveFacts DEF Moved
    <2>2. m.key \in Keys /\ m.block \in Blocks /\ m.slot \in Slots /\ m.block # Null BY <2>1, MoveFacts
    <2>3. CASE j.at = "done"
        <3>1. InBlock(m.block, m.key, ChunkTokens) /\ l.at = "done" BY <1>2, <2>1, <2>3 DEF LoadGood, Moved
        <3>2. Has(j.req, m.key[2], m.block) /\ Loader(j.req)
            BY <2>1 DEF Layout, Moving, FilledFor, IInv, Linked, Loads
        <3>3. ~LoadsTo(m.block)
            <4> SUFFICES ASSUME LoadsTo(m.block) PROVE FALSE OBVIOUS
            <4>1. PICK q : LoadsInto(m.block, q, m.key[2]) /\ q.req = j.req
                BY <2>1, <2>2, <3>2, Holder DEF Has
            <4>2. q \in transfers /\ ~q.store /\ q.at = "queued" BY <4>1 DEF LoadsInto
            <4>3. q = j BY <2>1, <4>1, <4>2 DEF IInv, Linked, Loads
            <4> QED BY <2>3, <4>2, <4>3
        <3>4. Forward => WritesTo(m.block) = {}
            <4> SUFFICES ASSUME Forward, NEW w \in WritesTo(m.block) PROVE FALSE OBVIOUS
            <4>1. step.phase = "flush" BY DEF Forward
            <4>2. w = <<j.req, m.key[2]>> BY <2>1, <2>2, <3>2, <4>1, Holder DEF Has
            <4>3. req[w[1]].status = "running" BY <4>1, WritesInto
            <4> QED BY <3>2, <4>2, <4>3 DEF Loader
        <3>5. ~Forgets BY <3>1, DoneDropped
        <3>6. InBlock(m.block, m.key, ChunkTokens)'
          BY <2>2, <3>1, <3>3, <3>4, <3>5, MemoryFrom, BlockLasts
        <3> QED BY <3>1, <3>6
    <2>4. CASE j.at # "done" /\ l.at = "done"
        <3>1. Copy(j) BY <1>2, <2>4, PlaceFrom
        <3>2. InSlot(m.slot, m.key) BY <2>1, <2>4 DEF LoadGood
        <3>3. gpuKV'[m.block] = slotKV[m.slot] BY <2>1, <3>1, CopyFacts
        <3>4. LastSampled(m.key) => LastSampled(m.key)' BY SampledLast
        <3> QED BY <2>4, <3>2, <3>3, <3>4 DEF InBlock, InSlot
    <2>5. CASE l.at # "done"
        <3>1. j.at # "done" /\ (l.known => j.known) BY <1>2, <2>5 DEF Moved
        <3>2. InSlot(m.slot, m.key) BY <2>1, <3>1 DEF LoadGood
        <3>3. ~StoresTo(m.slot)
            <4>1. CASE j.known BY <2>1, <2>2, <4>1, MoveFacts, SafeSlot
            <4>2. CASE ~j.known
                <5>1. j.at = "queued"
                  BY <2>1, <3>1, <4>2 DEF Layout, Placed, IInv, Shape, JobT, PlaceFor, Places
                <5> SUFFICES ASSUME NEW q \in transfers, Copy(q), q.store, m.slot \in SlotsOf(q)
                             PROVE  FALSE
                    BY DEF StoresTo
                <5>2. q.at = "queued" BY CopyFacts
                <5>3. m.slot \in SlotsOf(j) BY <2>1 DEF SlotsOf
                <5> QED BY <2>1, <4>2, <5>1, <5>2, <5>3 DEF HostUnwritten
            <4> QED BY <4>1, <4>2
        <3>4. slotKV'[m.slot] = slotKV[m.slot]
            <4>1. ASSUME Forgets PROVE UsedSlot(m.slot)'
              BY <2>5, <4>1, DoneDropped DEF Layout, Placed, IInv, Shape, JobT, PlaceFor, Places,
                 SlotsOf, UsedSlot
            <4> QED BY <2>2, <3>3, <4>1, MemoryFrom
        <3> QED BY <2>5, <3>2, <3>4, SlotLasts
    <2> QED BY <2>3, <2>4, <2>5
<1> QED BY <1>1, <1>2, Origin
-------------------------------------------------------------------------------
\* The forward pass completes what is there: the chunk has its tokens up to the last computed.
NumbersFor(r, i, c, t, K, e) ==
    /\ c \in Int /\ t \in Int /\ K \in Nat \ {0} /\ e \in Int /\ c >= 0 /\ t >= 0
    /\ c = req[r].computed /\ t = step.tokens[r] /\ K = ChunkTokens
    /\ e = (i - 1) * ChunkTokens /\ i * ChunkTokens = e + K
    /\ Past(r) = IF step.phase = "flush" THEN c - t ELSE c
LEMMA Numbers ==
    ASSUME IInv, NEW r \in Requests, NEW i \in Int PROVE \E c, t, K, e : NumbersFor(r, i, c, t, K, e)
<1>1. Shape /\ CountsFor(r) BY DEF IInv, Counts
<1>2. PICK K \in Nat \ {0} : K = ChunkTokens BY OffloadAssumption
<1>3. PICK e, x : e = (i - 1) * K /\ x = i * K OBVIOUS
<1>4. e \in Int /\ x = e + K BY <1>2, <1>3
<1>5. PICK c, t : c = req[r].computed /\ t = step.tokens[r] OBVIOUS
<1>6. c \in Int /\ t \in Int BY <1>1, <1>5 DEF Shape, ReqT, StepT
<1>7. c >= 0 /\ t >= 0 BY <1>1, <1>5 DEF CountsFor
<1>8. Past(r) = IF step.phase = "flush" THEN c - t ELSE c BY <1>5 DEF Past
<1>9. e = (i - 1) * ChunkTokens /\ i * ChunkTokens = e + K BY <1>2, <1>3, <1>4
<1>10. NumbersFor(r, i, c, t, K, e) BY <1>2, <1>4, <1>5, <1>6, <1>7, <1>8, <1>9 DEF NumbersFor
<1> QED BY <1>10
LEMMA ForwardWrites ==
    ASSUME IInv, Layout, RunGood, Forward, NEW b \in Blocks, NEW r \in Requests, NEW i \in Chunks,
           <<r, i>> \in WritesTo(b)
    PROVE  /\ gpuKV'[b].key = KeyOf(r, i)
           /\ gpuKV'[b].n = Least(ChunkTokens, req[r].computed - (i - 1) * ChunkTokens)
<1>1. step.phase = "flush" /\ b # Null BY OffloadAssumption DEF Forward
<1>2. /\ step.tokens[r] > 0 /\ req[r].status = "running" /\ i \in DOMAIN req[r].table
      /\ req[r].table[i] = b /\ i * ChunkTokens > Past(r)
    BY <1>1, WritesInto
<1>3. gpuKV'[b] = Written(r, i, b)
    <2>1. PICK w : w = CHOOSE x \in WritesTo(b) : TRUE OBVIOUS
    <2>2. w \in WritesTo(b) BY <2>1
    <2>3. w = <<r, i>> BY <1>1, <1>2, <2>2, Holder
    <2>4. gpuKV'[b] = Written(w[1], w[2], b) BY <2>1, <2>2 DEF Forward
    <2> QED BY <2>3, <2>4
<1>4. i \in Int BY TimesType
<1>5. PICK c, t, K, e : NumbersFor(r, i, c, t, K, e) BY <1>4, Numbers
<1> USE <1>1, <1>5 DEF NumbersFor
<1>6. Most(0, c - t - e) = 0 \/ (gpuKV[b].key = KeyOf(r, i) /\ gpuKV[b].n >= Most(0, c - t - e))
    <2> SUFFICES ASSUME c - t - e > 0
                 PROVE  gpuKV[b].key = KeyOf(r, i) /\ gpuKV[b].n >= c - t - e
        BY <1>5 DEF Most
    <2>1. Reached(r, i) = c - t - e BY <1>2, <1>5 DEF Reached, Least
    <2>2. InBlock(b, KeyOf(r, i), c - t - e) BY <1>1, <1>2, <1>5, <2>1 DEF RunGood, RunGoodFor, RunHolds
    <2>3. gpuKV[b].n \in Int BY DEF IInv, Memory, KVT
    <2> QED BY <1>2, <1>5, <2>2, <2>3 DEF InBlock
<1>7. Written(r, i, b) = [key |-> KeyOf(r, i), n |-> Least(K, c - e)] BY <1>5, <1>6 DEF Written
<1> QED BY <1>3, <1>5, <1>7
\* What Store stores is there, or is computed in this step.
LEMMA NewStoreGood ==
    ASSUME IInv, IInv', Layout, TrackGood, [Next]_vars, NEW r \in Requests, Store(r), NEW l,
           Added(r, l), NEW m \in l.moves
    PROVE  InBlock(m.block, m.key, ChunkTokens)' \/ Pending(l, m)'
<1>1. PICK i : i = m.key[2] OBVIOUS
<1>2. /\ step.phase = "store" /\ step'.phase = "store" /\ r \in step.todo
      /\ step'.tokens = step.tokens /\ req' = req
    BY StoreNow DEF engine
<1>3. StoredChunk(r, m, i) BY <1>1, <1>2, StoresChunk
<1>4. /\ i \in Chunks /\ m.key = KeyOf(r, i) /\ m.block \in Blocks
      /\ Storing(r, i) /\ m.block = track[r].blocks[i]
    BY <1>3 DEF StoredChunk
<1>5. i \in Int BY <1>4, TimesType
<1>6. \E c \in Int, e \in Int : c = req[r].computed /\ e = i * ChunkTokens /\ Past(r) = c
    <2>1. PICK c, t, K, d : NumbersFor(r, i, c, t, K, d) BY <1>5, Numbers
    <2>2. d + K \in Int BY <2>1 DEF NumbersFor
    <2> QED BY <1>2, <2>1, <2>2 DEF NumbersFor
<1> PICK c \in Int, e \in Int : c = req[r].computed /\ e = i * ChunkTokens /\ Past(r) = c BY <1>6
<1>7. CASE req[r].status = "running" /\ e > c
    <2>1. e <= c + step.tokens[r] /\ Has(r, i, m.block)
      BY <1>2, <1>3, <1>6, <1>7, StoredYoung DEF Layout
    <2>2. l.at = "built" /\ l.req = r BY <1>7 DEF Added, IsFinished
    <2>3. Young(l, m)' BY <1>1, <1>2, <1>6, <2>1, <2>2 DEF Young
    <2>4. Has(r, i, m.block)' BY <1>2, <2>1 DEF Has
    <2>5. Past(r)' = c BY <1>2, <1>6 DEF Past
    <2> QED BY <1>1, <1>2, <1>6, <1>7, <2>2, <2>3, <2>4, <2>5 DEF Pending
<1>8. CASE ~(req[r].status = "running" /\ e > c)
  BY <1>4, <1>6, <1>8, StoreNow, BlockLasts DEF Storing, TrackGood, TrackHolds, memory
<1> QED BY <1>7, <1>8
LEMMA PendingStep ==
    ASSUME IInv, IInv', Layout, RunGood, [Next]_vars, NEW j \in transfers, NEW l \in transfers',
           Moved(j, l), j.store, l.at # "done", NEW m \in j.moves, Pending(j, m)
    PROVE  InBlock(m.block, m.key, ChunkTokens)' \/ Pending(l, m)'
<1>1. PICK r, i, b : r = j.req /\ i = m.key[2] /\ b = m.block OBVIOUS
<1>2. /\ r \in Requests /\ i \in Chunks /\ i \in Int /\ b \in Blocks /\ m.key = KeyOf(r, i)
      /\ l.req = r
    BY <1>1, MoveFacts, TimesType DEF Moved
<1>3. /\ req[r].status = "running" /\ Has(r, i, b) /\ i * ChunkTokens > Past(r) /\ Young(j, m)
      /\ step.phase \in {"store", "flush"}
    BY <1>1 DEF Pending, Young
<1>4. CASE Forward
    <2>1. step.phase = "flush" /\ i * ChunkTokens <= req[r].computed
        BY <1>1, <1>3, <1>4 DEF Forward, Young
    <2>2. PICK c, t, K, e : NumbersFor(r, i, c, t, K, e) BY <1>2, Numbers
    <2> USE <2>1, <2>2 DEF NumbersFor
    <2>3. t > 0 /\ Least(K, c - e) = K BY <1>3, <2>1, <2>2 DEF Least
    <2>4. <<r, i>> \in WritesTo(b) BY <1>2, <1>3, <2>2, <2>3 DEF WritesTo, Has
    <2>5. gpuKV'[b].key = KeyOf(r, i) /\ gpuKV'[b].n = K BY <1>2, <1>4, <2>2, <2>3, <2>4, ForwardWrites
    <2> QED BY <1>1, <1>2, <2>2, <2>5 DEF InBlock
<1>5. CASE ~Forward
    <2>1. UNCHANGED vars \/ CopyNext \/ SendMeta \/ \E q \in Requests : Store(q)
        BY <1>3, <1>5, LateSteps
    <2>2. req'[r].status = req[r].status /\ req'[r].table = req[r].table /\ Past(r)' = Past(r)
        <3>1. CASE UNCHANGED <<req, step>> BY <3>1 DEF Past
        <3>2. CASE SendMeta BY <1>2, <3>2 DEF SendMeta, IInv, Shape, StepT, ReqT, Past
        <3>3. ASSUME NEW q \in Requests, Store(q) PROVE req' = req /\ Past(r)' = Past(r)
            BY <3>3, StoreNow DEF Past, engine
        <3>4. CopyNext => UNCHANGED <<req, step>> BY DEF CopyNext, Copy, engine
        <3> QED BY <2>1, <3>1, <3>2, <3>3, <3>4 DEF vars, engine
    <2>3. Young(l, m)'
        <3>1. Young(l, m)' \/ i * ChunkTokens <= Past(r)' BY <1>1, <1>2, <1>3, YoungStep
        <3>2. ~(i * ChunkTokens <= Past(r))
            <4>1. PICK c, t, K, e : NumbersFor(r, i, c, t, K, e) BY <1>2, Numbers
            <4>2. i * ChunkTokens \in Int /\ Past(r) \in Int BY <4>1 DEF NumbersFor
            <4> QED BY <1>3, <4>2
        <3> QED BY <2>2, <3>1, <3>2
    <2>4. Has(r, i, b)' BY <1>3, <2>2 DEF Has
    <2> QED BY <1>1, <1>2, <1>3, <2>2, <2>3, <2>4 DEF Pending
<1> QED BY <1>4, <1>5
LEMMA StoreGoodStep ==
    ASSUME IInv, IInv', Layout, Layout', StoreGood, TrackGood, RunGood, [Next]_vars PROVE StoreGood'
<1> SUFFICES ASSUME NEW l \in transfers', l.store, l.at # "done", NEW m \in l.moves
             PROVE  InBlock(m.block, m.key, ChunkTokens)' \/ Pending(l, m)'
    BY DEF StoreGood
<1>1. ASSUME NEW r \in Requests, Created(r, l)
      PROVE  InBlock(m.block, m.key, ChunkTokens)' \/ Pending(l, m)'
  BY <1>1, NewStoreGood DEF Created, Filled
<1>2. ASSUME NEW j \in transfers, Moved(j, l)
      PROVE  InBlock(m.block, m.key, ChunkTokens)' \/ Pending(l, m)'
    <2>1. j.store /\ j.at # "done" /\ m \in j.moves /\ j.req \in Requests /\ j.id = l.id
      BY <1>2, MoveFacts DEF Moved
    <2>2. CASE Pending(j, m) BY <1>2, <2>1, <2>2, PendingStep
    <2>3. CASE InBlock(m.block, m.key, ChunkTokens) /\ ~Pending(j, m)
        <3>1. m.block \in Blocks /\ m.block # Null /\ m.key[2] \in Chunks BY <2>1, MoveFacts
        <3>2. ~LoadsTo(m.block)
            <4> SUFFICES ASSUME NEW q, NEW n, LoadsInto(m.block, q, n) PROVE FALSE
                BY LoadingInto
            <4>1. Clear(j, m) BY <2>1 DEF Layout, Undisturbed
            <4>2. ~Fresh(q.req, n) BY DEF LoadsInto, Fresh
            <4>3. q.req = j.req /\ Owned(j, m) BY <4>1, <4>2 DEF Clear, LoadsInto, Covered
            <4> QED BY <4>3 DEF Owned, LoadsInto, Loader
        <3>3. Forward => WritesTo(m.block) = {}
            <4> SUFFICES ASSUME Forward, NEW w \in WritesTo(m.block) PROVE FALSE OBVIOUS
            <4>1. w = <<j.req, m.key[2]>> /\ Young(j, m) BY <2>1, Spares DEF ForwardSpares
            <4>2. step.phase = "flush" BY DEF Forward
            <4>3. /\ req[j.req].status = "running" /\ m.key[2] * ChunkTokens > Past(j.req)
                  /\ Has(j.req, m.key[2], m.block)
                BY <4>1, <4>2, WritesInto DEF Has
            <4> QED BY <2>3, <4>1, <4>3 DEF Pending
        <3>4. Forgets => UsedBlock(m.block)'
            <4> SUFFICES ASSUME Forgets PROVE UsedBlock(m.block)' OBVIOUS
            <4>1. step'.phase = "idle" BY DoneDropped
            <4>2. PlaceFor(l)' /\ l.at \in Places BY DEF Layout, Placed, IInv, Shape, JobT
            <4>3. l.at \in {"deferred", "queued"} BY <4>1, <4>2 DEF PlaceFor, Places
            <4>4. m.block \in BlocksOf(l) BY DEF BlocksOf
            <4> QED BY <4>3, <4>4 DEF UsedBlock
        <3>5. gpuKV'[m.block] = gpuKV[m.block] BY <3>1, <3>2, <3>3, <3>4, MemoryFrom
        <3> QED BY <2>3, <3>5, BlockLasts
    <2> QED BY <2>1, <2>2, <2>3 DEF StoreGood
<1> QED BY <1>1, <1>2, Origin
-------------------------------------------------------------------------------
\* What a request has computed changes when the model runs, or it starts again.
PastFor(q) ==
    \/ req[q].status \in {"waiting", "running"} /\ Past(q)' = Past(q)
    \/ req'[q].status = "waiting" /\ Past(q)' = 0
    \/ req[q].status = "loading" /\ q \in received /\ req'[q].table = req[q].table
       /\ req'[q].status = "waiting"
LEMMA UpdateFor ==
    ASSUME Shape, NEW q \in Requests, NEW stop \in SUBSET Requests, Update(stop)
    PROVE  /\ req'[q].status = IF q \in stop THEN "stopped" ELSE req[q].status
           /\ req'[q].computed = req[q].computed /\ req'[q].prompt = req[q].prompt
           /\ req'[q].tokens = IF q \in Sampled THEN req[q].tokens + 1 ELSE req[q].tokens
           /\ stop \subseteq Sampled /\ step.phase = "output" /\ step'.phase = "idle"
<1>1. req'[q].status = IF q \in stop THEN "stopped" ELSE req[q].status BY DEF Update, Shape, ReqT
<1>2. req'[q].computed = req[q].computed BY DEF Update, Shape, ReqT
<1>3. req'[q].prompt = req[q].prompt BY DEF Update, Shape, ReqT
<1>4. req'[q].tokens = IF q \in Sampled THEN req[q].tokens + 1 ELSE req[q].tokens
    BY DEF Update, Shape, ReqT
<1>5. stop \subseteq Sampled /\ step.phase = "output" BY DEF Update
<1>6. step'.phase = "idle" BY DEF Update, Shape, StepT
<1> QED BY <1>1, <1>2, <1>3, <1>4, <1>5, <1>6
LEMMA PastFrom ==
    ASSUME IInv, IInv', RunGood, [Next]_vars, ~Forward, NEW q \in Requests,
           req'[q].status \in {"waiting", "running"}
    PROVE  PastFor(q)
<1>1. Shape /\ Shape' /\ Short /\ Sched /\ Counts /\ Sized /\ Closed BY CountsShort DEF IInv
<1>2. ASSUME req'[q].status = req[q].status, req'[q].computed = req[q].computed,
             \/ step'.phase = step.phase /\ step'.tokens = step.tokens
             \/ step.phase # "flush" /\ step'.phase # "flush"
      PROVE  PastFor(q)
    BY <1>2 DEF PastFor, Past
<1>3. CASE UNCHANGED vars \/ CopyNext BY <1>2, <1>3 DEF CopyNext, Copy, vars, engine
<1>4. ASSUME NEW r \in Requests, NEW p \in Prompts, Arrive(r, p) PROVE PastFor(q)
  BY <1>1, <1>2, <1>4 DEF Arrive, RunGood, Shape, PastFor, Past, ReqT
<1>5. ASSUME NEW r \in Requests, Abort(r) PROVE PastFor(q)
  BY <1>1, <1>2, <1>5 DEF Abort, Shape, ReqT
<1>6. ASSUME NEW force \in BOOLEAN, Reset(force) PROVE PastFor(q)
    <2>1. step.phase = "idle" /\ step' = step BY <1>6 DEF Reset
    <2>2. CASE force /\ q \in Running
        <3>1. req'[q] = [req[q] EXCEPT !.status = "waiting", !.computed = 0, !.table = <<>>]
            BY <1>6, <2>2 DEF Reset, Preempted
        <3>2. req'[q].status = "waiting" /\ req'[q].computed = 0 BY <1>1, <3>1 DEF Shape, ReqT
        <3> QED BY <2>1, <3>2 DEF PastFor, Past
    <2>3. CASE ~(force /\ q \in Running)
        <3>1. req'[q] = req[q] BY <1>6, <2>3 DEF Reset, Preempted
        <3> QED BY <1>2, <2>1, <3>1
    <2> QED BY <2>2, <2>3
<1>7. CASE Begin \/ EndSchedule BY <1>1, <1>2, <1>7 DEF Begin, EndSchedule, engine, Shape, StepT
<1>8. CASE SendMeta BY <1>1, <1>8 DEF SendMeta, Shape, ReqT, StepT, PastFor, Past
<1>9. ASSUME NEW stop \in SUBSET Requests, Update(stop) PROVE PastFor(q)
  BY <1>1, <1>2, <1>9, UpdateFor
<1>10. ASSUME NEW r \in Requests, ScheduleRunning(r) PROVE PastFor(q)
    <2>1. CASE Grants(r) BY <1>2, <2>1 DEF Grants, Granted
    <2>2. CASE Preempts(r)
        <3>1. PICK v \in Running :
                 /\ req'[v].status = "waiting" /\ req'[v].computed = 0
                 /\ \A p \in Requests \ {v} :
                       req'[p].status = req[p].status /\ req'[p].computed = req[p].computed
            BY <2>2 DEF Preempts
        <3>2. step.phase = "schedule" /\ step'.phase = "schedule" BY <2>2 DEF Preempts
        <3>3. CASE q = v BY <3>1, <3>2, <3>3 DEF PastFor, Past
        <3>4. CASE q # v BY <1>2, <3>1, <3>2, <3>4
        <3> QED BY <3>3, <3>4
    <2> QED BY <1>1, <1>10, <2>1, <2>2, ScheduleRunningCases
<1>11. ASSUME NEW r \in Requests, Loading(r) PROVE PastFor(q)
    <2>1. req[r].status = "loading" /\ step.phase = "schedule" BY <1>11 DEF Loading, Considers, Turn
    <2>2. CASE r \in received BY <1>1, <1>2, <1>11, <2>1, <2>2 DEF Loading, PastFor, Shape, ReqT
    <2>3. CASE r \notin received BY <1>1, <1>2, <1>11, <2>1, <2>3 DEF Loading, Shape, StepT
    <2> QED BY <2>2, <2>3
<1>12. ASSUME NEW r \in Requests, Delay(r) PROVE PastFor(q)
  BY <1>1, <1>2, <1>12 DEF Delay, Shape, StepT
<1>13. ASSUME NEW r \in Requests, Admit(r) PROVE PastFor(q)
  BY <1>1, <1>13, AdmitGranted DEF Granted, PastFor, Past
<1>14. ASSUME NEW r \in Requests, Load(r) PROVE PastFor(q)
  BY <1>1, <1>2, <1>14, LoadNow DEF LoadsNow
<1>15. ASSUME NEW r \in Requests, Store(r) PROVE PastFor(q) BY <1>2, <1>15, StoreNow DEF engine
<1> QED BY <1>3, <1>4, <1>5, <1>6, <1>7, <1>8, <1>9, <1>10, <1>11, <1>12, <1>13, <1>14, <1>15
        DEF Next, Step
-------------------------------------------------------------------------------
\* What the connector keeps of a running request is in its table, if it is attended to.
LEMMA TableEntry ==
    ASSUME IInv, Layout, NEW r \in Requests, req[r].status = "running",
           NEW i \in DOMAIN track[r].blocks, track[r].blocks[i] # Null,
           window = 0 \/ i * ChunkTokens > Past(r)
    PROVE  Has(r, i, track[r].blocks[i])
<1>1. Shape /\ Fitted /\ TrackFit BY DEF IInv, Layout
<1>2. i \in DOMAIN req[r].table
    <2>1. PICK a, b, c : /\ a = Len(track[r].blocks) /\ b = Len(step.blocks[r])
                         /\ c = Len(req[r].table)
        OBVIOUS
    <2>2. a + b = c BY <1>1, <2>1 DEF TrackFit, TrackFitFor
    <2>3. req[r].table \in BlockSeq /\ track[r].blocks \in BlockSeq /\ step.blocks[r] \in BlockSeq
        BY <1>1 DEF Shape, ReqT, TrackT, StepT
    <2>4. /\ a \in Nat /\ b \in Nat /\ c \in Nat /\ DOMAIN req[r].table = 1..c
          /\ DOMAIN track[r].blocks = 1..a
        BY <2>1, <2>3, TableDomain
    <2>5. a <= c BY <2>2, <2>4
    <2> QED BY <2>4, <2>5
<1>3. ~Out(r, i)
    <2> SUFFICES ASSUME Out(r, i) PROVE FALSE OBVIOUS
    <2>1. i \in Int BY <1>1, TableDomain DEF Shape, TrackT
    <2>2. PICK c, t, K, e : NumbersFor(r, i, c, t, K, e) BY <2>1, Numbers
    <2>3. window \in Nat /\ window # 0 BY <1>1, OffloadAssumption DEF Shape, Out
    <2>4. e + K <= Base(r) - window + 1 /\ e + K > Past(r) BY <2>2, <2>3 DEF Out, NumbersFor
    <2>5. /\ Base(r) = IF step.phase \in {"flush", "output"} THEN c - t ELSE c
          /\ Past(r) = IF step.phase = "flush" THEN c - t ELSE c
        BY <2>2 DEF Base, NumbersFor
    <2>6. c \in Int /\ t \in Int /\ K \in Int /\ e \in Int /\ t >= 0 BY <2>2 DEF NumbersFor
    <2> QED BY <2>3, <2>4, <2>5, <2>6
<1>4. req[r].table[i] # Null BY <1>1, <1>2, <1>3 DEF Fitted, FittedFor, IsFinished
<1> QED BY <1>1, <1>2, <1>4 DEF TrackFit, TrackFitFor, Has
\* A chunk that the computed tokens reach the end of is whole.
LEMMA WholeEntry ==
    ASSUME IInv, RunGood, NEW r \in Requests, req[r].status = "running", NEW i \in Int, NEW b,
           b # Null, Has(r, i, b), i * ChunkTokens <= Past(r)
    PROVE  InBlock(b, KeyOf(r, i), ChunkTokens)
<1>1. PICK c, t, K, e : NumbersFor(r, i, c, t, K, e) BY Numbers
<1>2. Reached(r, i) = ChunkTokens /\ Reached(r, i) > 0 BY <1>1 DEF NumbersFor, Reached, Least
<1> QED BY <1>2 DEF RunGood, RunGoodFor, RunHolds, Has
LEMMA ChunkOf ==
    ASSUME IInv, NEW i \in Nat \ {0}, (i - 1) * ChunkTokens < MaxTokens PROVE i \in Chunks
<1>1. PICK K \in Nat \ {0} : K = ChunkTokens BY OffloadAssumption
<1>2. PICK C : C = CDiv(MaxTokens, ChunkTokens) OBVIOUS
<1>3. MaxTokens \in Int BY OffloadAssumption
<1>4. C \in Int BY <1>2, <1>3, DivType
<1>5. i <= C
    <2> SUFFICES ASSUME C <= i - 1 PROVE FALSE BY <1>4
    <2>1. MaxTokens <= K * (i - 1) BY <1>1, <1>2, <1>3, DivBounds
    <2>2. K * (i - 1) = (i - 1) * K /\ K * (i - 1) \in Int BY <1>1
    <2>3. (i - 1) * K < MaxTokens BY <1>1
    <2> QED BY <1>3, <2>1, <2>2, <2>3
<1> QED BY <1>2, <1>4, <1>5 DEF Chunks
\* Requests end when they are aborted or stop.
LEMMA FinishedFrom ==
    ASSUME IInv, [Next]_vars, NEW r \in finished', r \notin finished
    PROVE  Abort(r) \/ \E stop \in SUBSET Requests : Update(stop) /\ r \in stop
<1>1. ASSUME NEW q \in Requests, Abort(q) PROVE Abort(r) BY <1>1 DEF Abort
<1>2. ASSUME NEW stop \in SUBSET Requests, Update(stop) PROVE r \in stop BY <1>2 DEF Update
<1> QED BY <1>1, <1>2
    DEF Next, Step, CopyNext, vars, Begin, EndSchedule, SendMeta, ScheduleRunning, Loading, Delay,
        Admit, Load, Store, Arrive, Reset, Forward, Copy, engine
\* What is to be stored: it was to be before, or its request is running and holds it.
LEMMA StoringSplit ==
    ASSUME IInv, IInv', Layout, [Next]_vars, NEW r \in Requests, NEW i \in Int, Storing(r, i)'
    PROVE  \/ StoredFrom(r, i)
           \/ /\ req[r].status = "running" /\ req' = req /\ gpuKV' = gpuKV /\ Past(r)' = Past(r)
              /\ Has(r, i, track'[r].blocks[i]) /\ track'[r].blocks[i] # Null
<1>1. Shape /\ TrackFit BY DEF IInv, Layout
<1>2. CASE EndSchedule
    <2>1. /\ req' = req /\ gpuKV' = gpuKV /\ step.phase = "schedule" /\ step'.phase = "store"
        BY <1>1, <1>2 DEF EndSchedule, engine, memory, Shape, StepT
    <2>2. Past(r)' = Past(r) BY <2>1 DEF Past
    <2> QED BY <1>1, <1>2, <2>1, <2>2, EndEntry
<1>3. ASSUME NEW force \in BOOLEAN, Reset(force), ~StoredFrom(r, i)
      PROVE  /\ req[r].status = "running" /\ req' = req /\ gpuKV' = gpuKV /\ Past(r)' = Past(r)
             /\ Has(r, i, track'[r].blocks[i]) /\ track'[r].blocks[i] # Null
  BY <1>3, ResetEntry, TableEntry DEF Reset, memory, Past
<1> QED BY <1>1, <1>2, <1>3, StoringFrom

\* The chunk that the last computed token of r completes, or would if it was not sampled last.
LEMMA StopHolds ==
    ASSUME IInv, IInv', Layout, RunGood, [Next]_vars, NEW stop \in SUBSET Requests, Update(stop),
           NEW r \in stop, NEW i \in Nat \ {0}, NEW b \in Blocks, b # Null, Has(r, i, b),
           i * ChunkTokens > Past(r), i * ChunkTokens <= TokensAfter(r)', UsedBlock(b)'
    PROVE  InBlock(b, KeyOf(r, i), ChunkTokens)'
<1>1. Shape /\ Sched /\ Counts /\ Sized BY DEF IInv
<1>2. /\ r \in Sampled /\ r \in Requests /\ step.phase = "output" /\ step'.phase = "idle"
      /\ req'[r].status = "stopped" /\ req'[r].tokens = req[r].tokens + 1
      /\ req'[r].prompt = req[r].prompt
    BY <1>1, UpdateFor
<1>3. PICK c, t, K, e : NumbersFor(r, i, c, t, K, e) BY <1>2, Numbers
<1>4. req[r].tokens = c /\ t > 0 /\ c \in Int BY <1>2, <1>3 DEF Sampled, NumbersFor
<1>5. req[r].status = "running" BY <1>1, <1>2, <1>3, <1>4 DEF NumbersFor, Sched
<1>6. Past(r) = c /\ TokensAfter(r)' = c + 1 BY <1>2, <1>3, <1>4 DEF Past, TokensAfter, NumbersFor
<1>7. e + K = c + 1 BY <1>3, <1>4, <1>6 DEF NumbersFor
<1>8. K > 1
    <2> SUFFICES ASSUME K <= 1 PROVE FALSE BY <1>3 DEF NumbersFor
    <2>1. K = 1 /\ e = c BY <1>3, <1>4, <1>7 DEF NumbersFor
    <2>2. c <= ChunkTokens * (i - 1) BY <1>3, <1>4, <2>1 DEF NumbersFor
    <2>3. CDiv(c, ChunkTokens) <= i - 1 BY <1>4, <2>2, DivBounds
    <2>4. Len(req[r].table) <= CDiv(req[r].computed + 0, ChunkTokens)
        BY <1>1, <1>2, <1>5 DEF Sized, SizedFor, Ahead
    <2>5. c + 0 = c /\ req[r].computed = c BY <1>3, <1>4 DEF NumbersFor
    <2>6. Len(req[r].table) <= CDiv(c, ChunkTokens) BY <2>4, <2>5
    <2>7. i \in 1..Len(req[r].table) /\ Len(req[r].table) \in Nat BY <1>1, <1>2, TableType DEF Has
    <2>8. CDiv(c, ChunkTokens) \in Int BY <1>4, DivType
    <2> QED BY <2>3, <2>6, <2>7, <2>8
<1>9. Reached(r, i) = K - 1 BY <1>3, <1>4, <1>6, <1>7 DEF Reached, NumbersFor, Least
<1>10. RunHolds(r, i, K - 1)
  BY <1>2, <1>3, <1>5, <1>8, <1>9 DEF NumbersFor, RunGood, RunGoodFor, Has
<1>11. gpuKV[b].key = KeyOf(r, i) /\ gpuKV[b].n \in {K - 1, K}
    <2>1. gpuKV[b] \in KVT BY DEF IInv, Memory
    <2>2. gpuKV[b].n \in Int /\ gpuKV[b].n <= K BY <1>3, <2>1 DEF KVT, NumbersFor
    <2>3. gpuKV[b].key = KeyOf(r, i) /\ gpuKV[b].n >= K - 1
        BY <1>3, <1>10, <2>2 DEF RunHolds, InBlock, Has, NumbersFor
    <2>4. K \in Int BY <1>3 DEF NumbersFor
    <2> QED BY <2>2, <2>3, <2>4
<1>12. gpuKV'[b] = gpuKV[b]
    <2>1. ~Forward BY <1>2 DEF Forward
    <2>2. ~LoadsTo(b) BY <1>2 DEF Copy, LoadsTo
    <2> QED BY <2>1, <2>2, MemoryFrom
<1>13. KeyOf(r, i)' = KeyOf(r, i) BY <1>2 DEF KeyOf
<1>14. LastSampled(KeyOf(r, i))' BY <1>2, <1>3, <1>4, <1>7 DEF NumbersFor, LastSampled, KeyOf
<1>15. gpuKV[b].n >= ChunkTokens \/ gpuKV[b].n = ChunkTokens - 1 BY <1>3, <1>11 DEF NumbersFor
<1> QED BY <1>11, <1>12, <1>13, <1>14, <1>15 DEF InBlock

LEMMA TrackGoodMoved ==
    ASSUME IInv, IInv', Layout, TrackGood, RunGood, [Next]_vars, NEW r \in Requests, NEW i \in Int,
           Storing(r, i)', StoredFrom(r, i),
           req'[r].status = "running" => (i * ChunkTokens <= Past(r))'
    PROVE  TrackHolds(r, i)'
<1>1. Shape /\ Shape' /\ Closed /\ Counts /\ Sched BY DEF IInv
<1>2. PICK b, k : b = track[r].blocks[i] /\ k = KeyOf(r, i) OBVIOUS
<1>3. /\ track'[r].blocks[i] = b /\ i \in DOMAIN track[r].blocks /\ i \in DOMAIN track'[r].blocks
      /\ b # Null /\ Storing(r, i) /\ i \in Nat \ {0}
  BY <1>1, <1>2, TableDomain DEF Shape, TrackT, StoredFrom, Storing
<1>4. b \in Blocks BY <1>1, <1>2, <1>3 DEF Shape, TrackT, BlockSeq
<1>5. k = KeyOf(r, i)'
  BY <1>1, <1>2, <1>3, RequestsLast DEF Storing, Closed, ClosedFor, Lasting, KeyOf
<1>6. UsedBlock(b)' BY <1>3 DEF UsedBlock, Range
<1> SUFFICES InBlock(b, k, ChunkTokens)' BY <1>3, <1>5 DEF TrackHolds, InBlock
<1>7. PICK c, t, K, e : NumbersFor(r, i, c, t, K, e) BY Numbers
<1>8. i * ChunkTokens \in Int /\ Past(r) \in Int BY <1>7 DEF NumbersFor
<1>9. CASE req[r].status = "running" => i * ChunkTokens <= Past(r)
    <2>1. InBlock(b, k, ChunkTokens) BY <1>2, <1>3, <1>9 DEF TrackGood, TrackHolds
    <2>2. UnspoiledFor(r, i) BY <1>3 DEF Layout, Unspoiled
    <2>3. ~LoadsTo(b)
        <3> SUFFICES ASSUME NEW q, NEW n, LoadsInto(b, q, n) PROVE FALSE BY LoadingInto
        <3>1. ~Fresh(q.req, n) BY DEF LoadsInto, Fresh
        <3> QED BY <1>2, <2>2, <3>1 DEF UnspoiledFor, LoadsInto, Passed, Loader
    <2>4. Forward => WritesTo(b) = {}
        <3> SUFFICES ASSUME Forward, NEW w \in WritesTo(b) PROVE FALSE OBVIOUS
        <3>1. step.phase = "flush" BY DEF Forward
        <3>2. /\ w[1] \in Requests /\ w[2] \in DOMAIN req[w[1]].table /\ req[w[1]].table[w[2]] = b
              /\ req[w[1]].status = "running" /\ w[2] * ChunkTokens > Past(w[1])
            BY <3>1, WritesInto
        <3>3. w[1] = r /\ w[2] = i BY <1>2, <2>2, <3>1, <3>2 DEF UnspoiledFor, Passed
        <3> QED BY <1>8, <1>9, <3>2, <3>3
    <2>5. gpuKV'[b] = gpuKV[b] BY <1>4, <1>6, <2>3, <2>4, MemoryFrom
    <2> QED BY <2>1, <2>5, BlockLasts
<1>10. CASE req[r].status = "running" /\ i * ChunkTokens > Past(r)
    <2>1. Has(r, i, b) BY <1>2, <1>3, <1>10, TableEntry
    <2>2. r \notin finished BY <1>1, <1>10 DEF Closed, ClosedFor, Active
    <2>3. CASE Forward
        <3>1. step.phase = "flush" /\ step'.phase = "output" /\ req' = req /\ finished' = finished
            BY <1>1, <2>3 DEF Forward, engine, Shape, StepT
        <3>2. e + K <= c /\ e + K > c - t BY <1>7, <1>10, <3>1 DEF Past, NumbersFor
        <3>3. i \in Chunks
            <4>1. c <= MaxTokens
              BY <1>1, <1>7, OffloadAssumption DEF Counts, CountsFor, Shape, ReqT, NumbersFor
            <4>2. (i - 1) * ChunkTokens < MaxTokens
                BY <1>7, <3>2, <4>1, OffloadAssumption DEF NumbersFor
            <4> QED BY <1>3, <4>2, ChunkOf
        <3>4. t > 0 /\ Least(K, c - e) = K BY <1>7, <3>2 DEF Least, NumbersFor
        <3>5. <<r, i>> \in WritesTo(b)
            BY <1>7, <2>1, <3>1, <3>2, <3>3, <3>4 DEF WritesTo, Has, NumbersFor
        <3>6. gpuKV'[b].key = k /\ gpuKV'[b].n = K
            BY <1>2, <1>4, <1>7, <2>3, <3>3, <3>4, <3>5, ForwardWrites DEF NumbersFor
        <3> QED BY <1>7, <3>6 DEF InBlock, NumbersFor
    <2>4. CASE ~Forward
        <3>1. req'[r].status # "running"
            <4> SUFFICES ASSUME req'[r].status = "running" PROVE FALSE OBVIOUS
            <4>1. Past(r)' = Past(r) BY <1>10, <2>4, PastFrom DEF PastFor
            <4> QED BY <1>8, <1>10, <4>1
        <3>2. r \in finished' /\ (i * ChunkTokens <= TokensAfter(r))' BY <3>1 DEF Storing
        <3>3. ~Abort(r)
            <4> SUFFICES ASSUME Abort(r) PROVE FALSE OBVIOUS
            <4>1. /\ req'[r].status = "aborted" /\ req'[r].computed = req[r].computed
                  /\ req'[r].tokens = req[r].tokens /\ step.phase = "idle"
                BY <1>1 DEF Abort, Shape, ReqT
            <4>2. TokensAfter(r)' = Least(req[r].computed, req[r].tokens) BY <4>1 DEF TokensAfter
            <4>3. Past(r) = c /\ req[r].tokens \in Int BY <1>1, <1>7, <4>1 DEF Past, Shape, ReqT, NumbersFor
            <4>4. TokensAfter(r)' <= c /\ TokensAfter(r)' \in Int BY <1>7, <4>2, <4>3 DEF Least, NumbersFor
            <4> QED BY <1>8, <1>10, <3>2, <4>3, <4>4
        <3>4. PICK stop \in SUBSET Requests : Update(stop) /\ r \in stop
            BY <2>2, <3>2, <3>3, FinishedFrom
        <3>5. InBlock(b, KeyOf(r, i), ChunkTokens)'
            BY <1>3, <1>4, <1>6, <1>10, <2>1, <3>2, <3>4, StopHolds
        <3> QED BY <1>5, <3>5 DEF InBlock
    <2> QED BY <2>3, <2>4
<1> QED BY <1>8, <1>9, <1>10
LEMMA TrackGoodStep ==
    ASSUME IInv, IInv', Layout, TrackGood, RunGood, [Next]_vars PROVE TrackGood'
<1> SUFFICES ASSUME NEW r \in Requests, NEW i \in DOMAIN track'[r].blocks, Storing(r, i)',
                    req'[r].status = "running" => (i * ChunkTokens <= Past(r))'
             PROVE  TrackHolds(r, i)'
    BY DEF TrackGood
<1>1. i \in Int BY TableDomain DEF IInv, Shape, TrackT
<1>2. CASE StoredFrom(r, i) BY <1>1, <1>2, TrackGoodMoved
<1>3. ASSUME req[r].status = "running", req' = req, gpuKV' = gpuKV, Past(r)' = Past(r),
             Has(r, i, track'[r].blocks[i]), track'[r].blocks[i] # Null
      PROVE  TrackHolds(r, i)'
    <2>1. PICK b, k : b = track'[r].blocks[i] /\ k = KeyOf(r, i) OBVIOUS
    <2>2. i * ChunkTokens <= Past(r) BY <1>3
    <2>3. InBlock(b, k, ChunkTokens) BY <1>1, <1>3, <2>1, <2>2, WholeEntry
    <2>4. gpuKV'[b] = gpuKV[b] BY <1>3
    <2>5. InBlock(b, k, ChunkTokens)' BY <2>3, <2>4, BlockLasts
    <2>6. k = KeyOf(r, i)' BY <1>3, <2>1 DEF KeyOf
    <2> QED BY <2>1, <2>5, <2>6 DEF TrackHolds, InBlock
<1> QED BY <1>1, <1>2, <1>3, StoringSplit
-------------------------------------------------------------------------------
\* Where what a request has computed or loaded comes from.
LEMMA AbsentLasts ==
    ASSUME IInv, IInv', [Next]_vars, NEW q \in Requests, req'[q].status = "absent"
    PROVE  req[q].status = "absent" /\ req'[q].computed = req[q].computed
<1>1. Shape /\ Shape' /\ Short /\ Sched /\ Counts /\ Sized BY CountsShort DEF IInv
<1>2. req[q].status = "absent" BY RequestsLast DEF Lasting
<1>3. CASE req' = req BY <1>2, <1>3
<1>4. ASSUME NEW r \in Requests, Arrive(r, req'[r].prompt) \/ Abort(r) \/ Loading(r) \/ Load(r)
      PROVE  req'[q].computed = req[q].computed
    <2>1. r # q
      BY ZenonT(40), <1>1, <1>2, <1>4 DEF Arrive, Abort, Active, Loading, Load, Considers, Shape, ReqT
    <2> QED BY <1>1, <1>4, <2>1 DEF Arrive, Abort, Loading, Load, Shape
<1>5. ASSUME NEW r \in Requests, NEW p \in Prompts, Arrive(r, p) PROVE req'[q].computed = req[q].computed
    BY <1>1, <1>2, <1>5 DEF Arrive, Shape, ReqT
<1>6. ASSUME NEW force \in BOOLEAN, Reset(force) PROVE req'[q].computed = req[q].computed
    BY <1>1, <1>2, <1>6 DEF Reset, Preempted, Running, Shape
<1>7. CASE SendMeta
    <2>1. step.tokens[q] = 0 BY <1>1, <1>2 DEF Sched
    <2>2. req[q] \in ReqT /\ req'[q] = [req[q] EXCEPT !.computed = @ + 0]
        BY <1>1, <1>7, <2>1 DEF SendMeta, Shape
    <2>3. req'[q].computed = req[q].computed + 0 /\ req[q].computed \in Int BY <2>2 DEF ReqT
    <2> QED BY <1>2, <2>3
<1>8. ASSUME NEW stop \in SUBSET Requests, Update(stop) PROVE req'[q].computed = req[q].computed
    BY <1>1, <1>8, UpdateFor
<1>9. ASSUME NEW r \in Requests, ScheduleRunning(r) PROVE req'[q].computed = req[q].computed
    <2>1. CASE Grants(r) BY <1>2, <2>1 DEF Grants, Granted
    <2>2. CASE Preempts(r) BY <1>2, <2>2 DEF Preempts, Running
    <2> QED BY <1>1, <1>9, <2>1, <2>2, ScheduleRunningCases
<1>10. ASSUME NEW r \in Requests, Admit(r) PROVE req'[q].computed = req[q].computed
    BY <1>1, <1>2, <1>10, AdmitGranted DEF Granted
<1>11. ASSUME NEW r \in Requests, Store(r) PROVE req' = req BY <1>11, StoreNow DEF engine
<1> QED BY <1>2, <1>3, <1>4, <1>5, <1>6, <1>7, <1>8, <1>9, <1>10, <1>11
    DEF Next, Step, Begin, EndSchedule, Forward, Delay, CopyNext, Copy, vars, engine
LEMMA ReceivedFrom ==
    ASSUME IInv, [Next]_vars, NEW r \in received', r \notin received
    PROVE  \E stop \in SUBSET Requests : /\ Update(stop) /\ r \in Requests
              /\ \E j \in transfers : j.at = "done" /\ ~j.store /\ j.req = r
<1>1. ASSUME NEW stop \in SUBSET Requests, Update(stop)
      PROVE  r \in Requests /\ \E j \in transfers : j.at = "done" /\ ~j.store /\ j.req = r
    BY <1>1 DEF Update
<1>2. received' \subseteq received \/ \E stop \in SUBSET Requests : Update(stop)
    BY DEF Next, Step, CopyNext, vars, Begin, EndSchedule, SendMeta, ScheduleRunning, Loading, Delay,
           Admit, Load, Store, Abort, Arrive, Reset, Forward, Copy, engine
<1> QED BY <1>1, <1>2
\* What is in the block of a request stays there until the request writes to it.
LEMMA HeldBlock ==
    ASSUME IInv, IInv', Layout, [Next]_vars, NEW r \in Requests, NEW i, NEW b, b # Null,
           Has(r, i, b), Has(r, i, b)', ~Loader(r), Forward => <<r, i>> \notin WritesTo(b)
    PROVE  gpuKV'[b] = gpuKV[b]
<1>1. b \in Blocks BY TableType DEF IInv, Has
<1>2. UsedBlock(b)' BY DEF UsedBlock, Has, Range
<1>3. ~LoadsTo(b) BY Holder DEF Has, LoadsInto
<1>4. Forward => WritesTo(b) = {}
    <2> SUFFICES ASSUME Forward, NEW w \in WritesTo(b) PROVE FALSE OBVIOUS
    <2>1. step.phase = "flush" BY DEF Forward
    <2>2. w = <<r, i>> BY <2>1, Holder DEF Has
    <2> QED BY <2>2
<1> QED BY <1>1, <1>2, <1>3, <1>4, MemoryFrom

\* An entry of a table that was there before the step.
LEMMA ReachedStep ==
    ASSUME IInv, IInv', Layout, RunGood, [Next]_vars, NEW r \in Requests, NEW i \in Nat \ {0}, NEW b,
           b # Null, Has(r, i, b), Has(r, i, b)', req'[r].status \in {"waiting", "running"},
           NEW n, n = Reached(r, i)', n > 0
    PROVE  InBlock(b, KeyOf(r, i), n)'
<1>1. Shape /\ Shape' /\ Counts /\ Counts' /\ Linked /\ b \in Blocks BY TableType DEF IInv, Has
<1>2. PICK c, t, K, e : NumbersFor(r, i, c, t, K, e) BY Numbers
<1>3. PICK p \in Int : p = Past(r)' BY <1>1 DEF Shape, ReqT, StepT, Past
<1>4. n = Least(K, p - e) /\ p > e /\ n \in Int /\ n <= K
  BY <1>2, <1>3 DEF Reached, NumbersFor, Least
<1>5. e >= 0 /\ e \in Int BY <1>2 DEF NumbersFor
<1>6. req[r].status # "absent"
    <2> SUFFICES ASSUME req[r].status = "absent" PROVE FALSE OBVIOUS
    <2>1. ~Forward BY DEF Forward, engine
    <2>2. PastFor(r) BY <2>1, PastFrom
    <2>3. p = 0 BY <1>3, <2>2 DEF PastFor
    <2> QED BY <1>4, <1>5, <2>3
<1>7. PICK k : k = KeyOf(r, i) OBVIOUS
<1>8. KeyOf(r, i)' = k BY <1>6, <1>7, RequestsLast DEF Lasting, KeyOf
<1> SUFFICES InBlock(b, k, n)' BY <1>8 DEF InBlock
<1>9. gpuKV[b].n \in Int BY <1>1 DEF IInv, Memory, KVT
<1>10. CASE Forward
    <2>1. step.phase = "flush" /\ step'.phase = "output" /\ req' = req
        BY <1>1, <1>10 DEF Forward, engine, Shape, StepT
    <2>2. p = c /\ Past(r) = c - t BY <1>2, <1>3, <2>1 DEF Past, NumbersFor
    <2>3. CASE <<r, i>> \in WritesTo(b)
      BY <1>1, <1>2, <1>4, <1>7, <1>10, <2>2, <2>3, ForwardWrites DEF WritesTo, NumbersFor, InBlock
    <2>4. CASE <<r, i>> \notin WritesTo(b)
        <3>1. i \in Chunks
            <4>1. c <= MaxTokens
              BY <1>1, <1>2, OffloadAssumption DEF Counts, CountsFor, Shape, ReqT, NumbersFor
            <4>2. (i - 1) * ChunkTokens < MaxTokens
                BY <1>2, <1>4, <2>2, <4>1, OffloadAssumption DEF NumbersFor
            <4> QED BY <4>2, ChunkOf
        <3>2. t = 0 \/ e + K <= c - t BY <1>2, <2>1, <2>4, <3>1 DEF WritesTo, Has, NumbersFor
        <3>3. Reached(r, i) = n BY <1>2, <1>4, <2>2, <3>2 DEF Reached, NumbersFor, Least
        <3>4. InBlock(b, k, n) BY <1>7, <2>1, <3>3 DEF RunGood, RunGoodFor, RunHolds, Has
        <3>5. gpuKV'[b] = gpuKV[b] BY <2>1, <2>4, HeldBlock DEF Loader
        <3> QED BY <3>4, <3>5, BlockLasts
    <2> QED BY <2>3, <2>4
<1>11. CASE ~Forward
    <2>1. PastFor(r) BY <1>11, PastFrom
    <2>2. p # 0 BY <1>4, <1>5
    <2>3. CASE req[r].status \in {"waiting", "running"} /\ Past(r)' = Past(r)
        <3>1. Reached(r, i) = n BY <1>2, <1>3, <1>4, <2>3 DEF Reached, NumbersFor
        <3>2. InBlock(b, k, n) BY <1>7, <2>3, <3>1 DEF RunGood, RunGoodFor, RunHolds, Has
        <3>3. gpuKV'[b] = gpuKV[b] BY <1>11, <2>3, HeldBlock DEF Loader
        <3> QED BY <3>2, <3>3, BlockLasts
    <2>4. CASE r \in received
        <3>1. InBlock(b, k, ChunkTokens) BY <1>7, <2>4 DEF RunGood, RunGoodFor, RunHolds, Has
        <3>2. InBlock(b, k, n) BY <1>2, <1>4, <1>9, <3>1 DEF InBlock, NumbersFor
        <3>3. gpuKV'[b] = gpuKV[b] BY <1>11, <2>4, HeldBlock DEF Loader
        <3> QED BY <3>2, <3>3, BlockLasts
    <2> QED BY <1>3, <2>1, <2>2, <2>3, <2>4 DEF PastFor
<1> QED BY <1>10, <1>11
\* What was loaded for a request that still waits for it.
LEMMA ReceivedStep ==
    ASSUME IInv, IInv', Layout, RunGood, LoadGood, [Next]_vars, NEW r \in Requests,
           NEW i \in Nat \ {0}, NEW b, b # Null, Has(r, i, b), Has(r, i, b)', r \in received'
    PROVE  InBlock(b, KeyOf(r, i), ChunkTokens)'
<1>1. b \in Blocks BY TableType DEF IInv, Has
<1>2. PICK k : k = KeyOf(r, i) OBVIOUS
<1>3. ASSUME req[r].status # "absent" PROVE KeyOf(r, i)' = k
    BY <1>2, <1>3, RequestsLast DEF Lasting, KeyOf
<1>4. CASE r \in received
    <2>1. req[r].status = "loading" BY <1>4 DEF IInv, Linked, Received
    <2>2. InBlock(b, k, ChunkTokens) BY <1>2, <1>4 DEF RunGood, RunGoodFor, RunHolds, Has
    <2>3. Forward => <<r, i>> \notin WritesTo(b)
        <3> SUFFICES ASSUME Forward, <<r, i>> \in WritesTo(b) PROVE FALSE OBVIOUS
        <3>1. step.phase = "flush" BY DEF Forward
        <3>2. req[<<r, i>>[1]].status = "running" BY <3>1, WritesInto
        <3> QED BY <2>1, <3>2
    <2>4. gpuKV'[b] = gpuKV[b] BY <1>4, <2>3, HeldBlock DEF Loader
    <2>5. InBlock(b, k, ChunkTokens)' BY <2>2, <2>4, BlockLasts
    <2> QED BY <1>3, <2>1, <2>5 DEF InBlock
<1>5. CASE r \notin received
    <2>1. PICK stop \in SUBSET Requests : /\ Update(stop)
              /\ \E j \in transfers : j.at = "done" /\ ~j.store /\ j.req = r
        BY <1>5, ReceivedFrom
    <2>2. PICK j \in transfers : j.at = "done" /\ ~j.store /\ j.req = r BY <2>1
    <2>3. PICK m \in j.moves : m.key = KeyOf(r, i) BY <2>2 DEF Layout, Moving, FilledFor, Has
    <2>4. m.block = b BY <2>2, <2>3 DEF KeyOf, Layout, Moving, FilledFor, Has
    <2>5. InBlock(b, k, ChunkTokens) BY <1>2, <2>2, <2>3, <2>4 DEF LoadGood
    <2>6. gpuKV'[b] = gpuKV[b]
      BY <1>1, <2>1, UpdateFor, MemoryFrom DEF UsedBlock, Has, Range, IInv, Forward, LoadsTo, Copy
    <2>7. InBlock(b, k, ChunkTokens)' BY <2>5, <2>6, BlockLasts
    <2>8. req[r].status # "absent" BY <2>2 DEF IInv, Linked, Loads, Loader
    <2> QED BY <1>3, <2>7, <2>8 DEF InBlock
<1> QED BY <1>4, <1>5
LEMMA RunGoodStep ==
    ASSUME IInv, IInv', Layout, RunGood, LoadGood, [Next]_vars PROVE RunGood'
<1>1. ASSUME NEW r \in Requests, req'[r].status = "absent" PROVE req'[r].computed = 0
    BY <1>1, AbsentLasts DEF RunGood
<1>2. ASSUME NEW r \in Requests, NEW i \in DOMAIN req'[r].table, req'[r].table[i] # Null
      PROVE  RunGoodFor(r, i)'
    <2>1. i \in Nat \ {0} BY TableDomain DEF IInv, Shape, ReqT
    <2>2. PICK b : b = req'[r].table[i] OBVIOUS
    <2>3. Has(r, i, b)' /\ b # Null BY <1>2, <2>2 DEF Has
    <2>4. CASE Has(r, i, b)
        <3>1. ASSUME req'[r].status \in {"waiting", "running"}, Reached(r, i)' > 0
              PROVE  RunHolds(r, i, Reached(r, i))'
            <4>1. PICK n : n = Reached(r, i)' OBVIOUS
            <4>2. InBlock(b, KeyOf(r, i), n)' BY <2>1, <2>3, <2>4, <3>1, <4>1, ReachedStep
            <4> QED BY <2>2, <4>1, <4>2 DEF RunHolds, InBlock
        <3>2. ASSUME r \in received' PROVE RunHolds(r, i, ChunkTokens)'
          BY <2>1, <2>2, <2>3, <2>4, <3>2, ReceivedStep DEF RunHolds, InBlock
        <3> QED BY <3>1, <3>2 DEF RunGoodFor
    <2>5. CASE FreshEntry(r, i)'
        <3>1. r \notin received'
            <4> SUFFICES ASSUME r \in received' PROVE FALSE OBVIOUS
            <4>1. req'[r].status = "loading" BY DEF IInv, Linked, Received
            <4>2. step'.tokens[r] = 0 BY <4>1 DEF IInv, Sched
            <4>3. BuiltLoad(r)' BY <2>5, <4>2 DEF FreshEntry, Fresh
            <4> QED BY <4>3 DEF BuiltLoad, IInv, Linked, Loads, Loader
        <3>2. req'[r].status \in {"waiting", "running"} => ~(Reached(r, i)' > 0)
            <4> SUFFICES ASSUME req'[r].status \in {"waiting", "running"} PROVE ~(Reached(r, i)' > 0)
                OBVIOUS
            <4>1. ((i - 1) * ChunkTokens >= Past(r))' BY <2>5 DEF FreshEntry
            <4>2. PICK p, e, K : p = Past(r)' /\ e = (i - 1) * ChunkTokens /\ K = ChunkTokens
                OBVIOUS
            <4>3. p \in Int BY <4>2 DEF IInv, Shape, ReqT, StepT, Past
            <4>4. e \in Int /\ K \in Int BY <2>1, <4>2, OffloadAssumption
            <4>5. e >= p BY <4>1, <4>2
            <4>6. Reached(r, i)' = Least(K, p - e) BY <4>2 DEF Reached
            <4> QED BY <4>3, <4>4, <4>5, <4>6 DEF Least
        <3> QED BY <3>1, <3>2 DEF RunGoodFor
    <2> QED BY <1>2, <2>2, <2>4, <2>5, EntryFrom DEF Layout, Has
<1> QED BY <1>1, <1>2 DEF RunGood
-------------------------------------------------------------------------------
LEMMA InitContent == Init => Content
<1> SUFFICES ASSUME Init PROVE Content OBVIOUS
<1>1. /\ transfers = {} /\ host = [k \in Keys |-> Absent] /\ track = [r \in Requests |-> NoTrack]
      /\ \A r \in Requests : req[r].table = <<>> /\ req[r].computed = 0
    BY DEF Init
<1>2. HostGood /\ StoreDone /\ LoadGood /\ StoreGood
    BY <1>1 DEF HostGood, StoreDone, LoadGood, StoreGood, Absent
<1>3. TrackGood BY <1>1 DEF TrackGood, NoTrack
<1>4. RunGood BY <1>1 DEF RunGood
<1> QED BY <1>2, <1>3, <1>4 DEF Content
LEMMA ContentStep ==
    ASSUME IInv, IInv', Layout, Layout', HostUnwritten, Content, [Next]_vars PROVE Content'
BY HostGoodStep, StoreDoneStep, LoadGoodStep, StoreGoodStep, TrackGoodStep, RunGoodStep DEF Content
LEMMA ContentHolds == Spec /\ []HostUnwritten => []Content
<1>1. Init => Content BY InitContent
<1>2. IInv /\ IInv' /\ Layout /\ Layout' /\ HostUnwritten /\ Content /\ [Next]_vars => Content'
    BY ContentStep
<1> QED BY <1>1, <1>2, IInvHolds, LayoutHolds, PTL DEF Spec
LEMMA HostTruthHolds == ASSUME IInv, Content PROVE HostTruth
<1> SUFFICES ASSUME NEW k \in Keys, host[k].ready
             PROVE  \/ slotKV[host[k].slot] = Full(k)
                    \/ LastSampled(k) /\ slotKV[host[k].slot] = [key |-> k, n |-> ChunkTokens - 1]
    BY DEF HostTruth
<1>1. PICK s \in Slots : s = host[k].slot BY ReadySlot
<1>2. slotKV[s] \in KVT BY DEF IInv, Memory
<1>3. slotKV[s] = [key |-> slotKV[s].key, n |-> slotKV[s].n] /\ slotKV[s].n \in 0..ChunkTokens
    BY <1>2 DEF KVT
<1>4. slotKV[s].key = k /\ (slotKV[s].n >= ChunkTokens
                            \/ (LastSampled(k) /\ slotKV[s].n = ChunkTokens - 1))
    BY <1>1 DEF Content, HostGood, InSlot
<1>5. slotKV[s].n >= ChunkTokens => slotKV[s].n = ChunkTokens BY <1>3, OffloadAssumption
<1> QED BY <1>1, <1>3, <1>4, <1>5 DEF Full
LEMMA GpuTruthHolds == ASSUME IInv, Layout, Content PROVE GpuTruth
<1> SUFFICES ASSUME NEW r \in Requests, NEW i \in Chunks, NEW n,
                    n = Least(ChunkTokens, req[r].computed - (i - 1) * ChunkTokens),
                    step.phase \in {"idle", "output"}, req[r].status \in {"waiting", "running"},
                    n > 0,
                    window = 0 \/ i * ChunkTokens > req[r].computed - step.tokens[r] - window + 1
             PROVE  /\ i \in DOMAIN req[r].table /\ req[r].table[i] # Null
                    /\ InBlock(req[r].table[i], KeyOf(r, i), n)
    BY DEF GpuTruth, InBlock
<1>1. Shape /\ Sched /\ Fitted /\ i \in Int BY TimesType DEF IInv, Layout
<1>2. PICK c, t, K, e : NumbersFor(r, i, c, t, K, e) BY <1>1, Numbers
<1>3. c \in Int /\ c > e /\ e \in Int /\ Past(r) = c /\ t \in Int /\ K \in Int
    BY <1>2 DEF NumbersFor, Least
<1>4. i \in DOMAIN req[r].table
    <2>1. Len(req[r].table) >= CDiv(c, ChunkTokens)
        <3>1. c + 0 = c BY <1>3
        <3> QED BY <1>1, <1>2, <3>1 DEF Fitted, FittedFor, Ahead, NumbersFor
    <2>2. ~(CDiv(c, ChunkTokens) <= i - 1)
        <3>1. ~(c <= ChunkTokens * (i - 1)) BY <1>1, <1>2, <1>3 DEF NumbersFor
        <3> QED BY <1>1, <1>3, <3>1, DivBounds
    <2>3. CDiv(c, ChunkTokens) \in Int BY <1>3, DivType
    <2>4. i >= 1 BY TimesType
    <2> QED BY <1>1, <2>1, <2>2, <2>3, <2>4, TableType
<1>5. req[r].table[i] # Null
    <2> SUFFICES ASSUME Out(r, i) PROVE FALSE BY <1>1, <1>4 DEF Fitted, FittedFor, IsFinished
    <2>1. window \in Nat /\ window # 0 BY <1>1, OffloadAssumption DEF Shape, Out
    <2>2. Base(r) = c - t BY <1>1, <1>2, <1>3 DEF Sched, NumbersFor, Base
    <2>3. e + K <= c - t - window + 1 BY <1>2, <2>2 DEF Out, NumbersFor
    <2>4. e + K > c - t - window + 1 BY <1>2, <2>1 DEF NumbersFor
    <2> QED BY <1>3, <2>1, <2>3, <2>4
<1>6. Reached(r, i) = n BY <1>2, <1>3 DEF Reached, NumbersFor
<1>7. RunHolds(r, i, n) BY <1>4, <1>5, <1>6 DEF Content, RunGood, RunGoodFor
<1> QED BY <1>4, <1>5, <1>7 DEF RunHolds
\* If no store writes the slots that a load from before a reset still reads, then whatever
\* lookup offers holds the KV of its own prefix, though its block was given away, written and
\* reused before the copy that filled the slot had run.
THEOREM HostTruthAlways == Spec /\ []HostUnwritten => []HostTruth
<1>1. IInv /\ Content => HostTruth BY HostTruthHolds
<1> QED BY <1>1, IInvHolds, ContentHolds, PTL
\* Likewise what a request counts as computed, or loaded, is in its blocks: with chunks of any
\* size, any number of tokens in a step, preemptions, aborts, sliding windows and resets.
THEOREM GpuTruthAlways == Spec /\ []HostUnwritten => []GpuTruth
<1>1. IInv /\ Layout /\ Content => GpuTruth BY GpuTruthHolds
<1> QED BY <1>1, IInvHolds, LayoutHolds, ContentHolds, PTL
\* The two hold of every execution that never calls reset_prefix_cache: all transfers are then
\* known to the scheduler.
AllKnown == \A j \in transfers : j.known
LEMMA AllKnownStep == ASSUME MaxResets = 0, IInv, AllKnown, [Next]_vars PROVE AllKnown'
<1>1. Shape /\ Short /\ Sched BY CountsShort DEF IInv
<1>2. ~ \E force \in BOOLEAN : Reset(force) BY <1>1 DEF Reset, Shape
<1>3. CASE transfers' \subseteq transfers BY <1>3 DEF AllKnown
<1>4. ASSUME NEW j, transfers' \subseteq transfers \cup {j}, j.known PROVE AllKnown'
    BY <1>4 DEF AllKnown
<1>5. ASSUME NEW q \in transfers, Copy(q) PROVE AllKnown'
  BY <1>1, <1>4, <1>5 DEF Shape, AllKnown, JobT, Copy
<1>6. CASE SendMeta BY <1>1, <1>6 DEF SendMeta, AllKnown, Shape, JobT
<1>7. CASE Forward BY <1>1, <1>7 DEF Forward, AllKnown, Shape, JobT
<1>8. ASSUME NEW r \in Requests, Load(r) PROVE AllKnown'
    BY <1>1, <1>4, <1>8, LoadNow DEF LoadsNow, Filled
<1>9. ASSUME NEW r \in Requests, Store(r) PROVE AllKnown'
    <2>1. CASE transfers' = transfers BY <1>3, <2>1
    <2>2. ASSUME NEW id, NEW moves, AddStore(r, id, moves) PROVE AllKnown'
        <3>1. PICK at : transfers' = transfers \cup {Transfer(id, r, TRUE, at, moves)}
            BY <2>2 DEF AddStore
        <3>2. Transfer(id, r, TRUE, at, moves).known BY DEF Transfer
        <3> QED BY <1>4, <3>1, <3>2
    <2> QED BY <1>9, <2>1, <2>2 DEF Store
<1> QED BY <1>2, <1>3, <1>5, <1>6, <1>7, <1>8, <1>9
    DEF Next, Step, CopyNext, vars, Begin, EndSchedule, ScheduleRunning, Loading, Delay,
        Admit, Arrive, Abort, Update, connector
\* Without resets, host and GPU hold what the scheduler takes them to hold.
THEOREM TruthWithoutReset == MaxResets = 0 => (Spec => [](HostTruth /\ GpuTruth))
<1> SUFFICES ASSUME MaxResets = 0 PROVE Spec => [](HostTruth /\ GpuTruth) OBVIOUS
<1>1. Init => AllKnown BY DEF Init, AllKnown
<1>2. IInv /\ AllKnown /\ [Next]_vars => AllKnown' BY AllKnownStep
<1>3. AllKnown => HostUnwritten BY DEF AllKnown, HostUnwritten
<1>4. Spec => []AllKnown BY <1>1, <1>2, IInvHolds, PTL DEF Spec
<1> QED BY <1>3, <1>4, HostTruthAlways, GpuTruthAlways, PTL
===============================================================================
