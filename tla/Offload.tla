-------------------------------- MODULE Offload --------------------------------
(***************************************************************************)
(* KV offloading in the vendored vLLM of the Qwen3.8 engine: the scheduler *)
(* side of the OffloadingConnector with the parts of the vLLM scheduler    *)
(* that drive it, one engine step after the other, while a GPU worker      *)
(* copies blocks of KV between GPU and host.  Chunks of a request's tokens *)
(* are stored under a key of their prefix; a later request with the same   *)
(* prefix loads them instead of computing them.  Requests arrive, are      *)
(* preempted, stop and are aborted, and the caches are reset, while copies *)
(* are queued: a block may be given to another request, and a host slot to *)
(* another key, before the copy that names it has run.                     *)
(*                                                                         *)
(* One KV cache group, of full attention (window = 0) or of a sliding      *)
(* window of `window' tokens, with chunks of one GPU block.  The KV of a   *)
(* block or slot is the key of the chunk it belongs to and the number of   *)
(* its leading positions that are computed.  Requests with equal prompts   *)
(* get equal tokens; others have no chunk in common.                       *)
(***************************************************************************)
EXTENDS Integers, Sequences, FiniteSets, Functions

CONSTANTS
    Requests,       \* request ids
    Prompts,        \* prompts
    Asks,           \* which request may have which prompt
    Blocks,         \* GPU block ids, without the null block 0
    Slots,          \* chunks of host memory
    Windows,        \* the windows to consider
    ChunkTokens,    \* tokens_per_chunk
    PromptTokens,   \* num_prompt_tokens
    MaxTokens,      \* max_model_len
    StepTokens,     \* tokens that a step may give to a request
    MaxJobs,        \* bound: transfers in flight
    MaxResets       \* bound: calls of reset_prefix_cache

Null == 0   \* the null block, and no slot

ASSUME OffloadAssumption ==
    /\ Blocks \subseteq Nat \ {Null} /\ IsFiniteSet(Blocks)
    /\ Slots \subseteq Nat \ {Null} /\ IsFiniteSet(Slots)
    /\ Asks \subseteq Requests \X Prompts /\ Prompts # {}
    /\ Windows \subseteq Nat
    /\ ChunkTokens \in Nat \ {0} /\ StepTokens \subseteq Nat \ {0}
    /\ PromptTokens \in Nat \ {0} /\ MaxTokens \in Nat /\ PromptTokens < MaxTokens
    /\ MaxJobs \in Nat /\ MaxResets \in Nat

VARIABLES
    window,     \* of the group's attention, 0 if it is full
    req,        \* Scheduler.requests
    order,      \* which request is before which in Scheduler.running, in skipped_waiting
                \* followed by waiting
    skipped,    \* skipped_waiting: it comes before waiting
    finished,   \* finished_req_ids
    preempted,  \* reset_preempted_req_ids
    received,   \* finished_recving_kv_req_ids
    step,       \* the engine step: where it is and what it has scheduled
    track,      \* _req_status
    transfers,  \* _jobs (those `known') and the transfers of the worker
    fences,     \* _block_id_to_pending_jobs
    flush,      \* _current_batch_jobs_to_flush, then what the worker waits for
    allocated,  \* _current_batch_allocated_block_ids
    loading,    \* _chunks_being_loaded
    host,       \* the manager: for each key the slot, whether it is readable, its readers
    closed,     \* the manager: on_request_finished calls, by request
    gpuKV,      \* what the GPU blocks hold
    slotKV,     \* what the slots hold
    resets      \* calls of reset_prefix_cache so far

engine    == <<req, order, skipped, finished, preempted, received>>
connector == <<track, transfers, fences, flush, allocated, loading>>
manager   == <<host, closed>>
memory    == <<gpuKV, slotKV>>
vars      == <<window, engine, step, connector, manager, memory, resets>>

CDiv(a, b)  == (a + b - 1) \div b
Least(a, b) == IF a <= b THEN a ELSE b
Most(a, b)  == IF a >= b THEN a ELSE b

Chunks      == 1..CDiv(MaxTokens, ChunkTokens)
Keys        == Prompts \X Chunks
KeyOf(r, i) == <<req[r].prompt, i>>
NoKV        == [key |-> <<>>, n |-> 0]
Full(k)     == [key |-> k, n |-> ChunkTokens]

Active(r)     == req[r].status \in {"waiting", "loading", "running"}
IsFinished(r) == req[r].status \in {"stopped", "aborted"}
Running       == {r \in Requests : req[r].status = "running"}
Queued        == {r \in Requests : req[r].status \in {"waiting", "loading"}}
Without(rs)   == {e \in order : e[1] \notin rs /\ e[2] \notin rs}
Free          == Blocks \ UNION {Range(req[r].table) : r \in Requests}
NoTrack       == [on |-> FALSE, blocks |-> <<>>, next |-> 0, jobs |-> {}, signaled |-> FALSE]
Absent        == [slot |-> Null, ready |-> FALSE, readers |-> 0]
Present(k)    == host[k] # Absent

\* A transfer is one record from its creation to its report: where it is, and whether it
\* is known to the scheduler (in _jobs) or older than the last reset (below
\* _stale_job_threshold).  A new one has a greater id than those in flight.
Ids(js)        == {j.id : j \in js}
KeysOf(j)      == {m.key : m \in j.moves}
BlocksOf(j)    == {m.block : m \in j.moves}
SlotsOf(j)     == {m.slot : m \in j.moves}
\* Mutant of KnownOf: reports of transfers older than the reset count too.
AnyOf(js)      == js
KnownOf(js)    == {j \in js : j.known}
Known          == KnownOf(transfers)
NewIds         == {i \in 1..MaxJobs : \A j \in transfers : j.id < i}
NextIds        == {i \in NewIds : \A k \in NewIds : i <= k}
Transfer(id, r, store, at, moves) ==
    [id |-> id, req |-> r, store |-> store, at |-> at, known |-> TRUE, moves |-> moves]

Init ==
    /\ window \in Windows
    /\ req = [r \in Requests |-> [status |-> "absent", prompt |-> CHOOSE p \in Prompts : TRUE,
                                  tokens |-> PromptTokens, computed |-> 0, table |-> <<>>]]
    /\ order = {} /\ skipped = {}
    /\ finished = {} /\ preempted = {} /\ received = {}
    /\ step = [phase |-> "idle", cut |-> FALSE, visited |-> {}, todo |-> {},
               tokens |-> [r \in Requests |-> 0], blocks |-> [r \in Requests |-> <<>>]]
    /\ track = [r \in Requests |-> NoTrack]
    /\ transfers = {} /\ fences = [b \in Blocks |-> {}]
    /\ flush = {} /\ allocated = {} /\ loading = {}
    /\ host = [k \in Keys |-> Absent] /\ closed = [r \in Requests |-> 0]
    /\ gpuKV = [b \in Blocks |-> NoKV] /\ slotKV = [s \in Slots |-> NoKV]
    /\ resets = 0

-------------------------------------------------------------------------------
\* The manager of the host tier, seen from the connector.

\* prepare_store: the keys that are not present get slots, for which as many unread
\* chunks as needed are evicted; if that is not enough, there is no output (None).
NewKeys(ks)   == {k \in ks : ~Present(k)}
FreeSlots     == Slots \ {host[k].slot : k \in Keys}
Evictable(ks) == {k \in Keys \ ks : Present(k) /\ host[k].ready /\ host[k].readers = 0}
Missing(ks)   == Most(0, Cardinality(NewKeys(ks)) - Cardinality(FreeSlots))
CanStore(ks)  == Missing(ks) <= Cardinality(Evictable(ks))
PrepareStore(ks, evicted, slot) ==
    /\ Cardinality(evicted) = Missing(ks)
    /\ slot \in [NewKeys(ks) -> FreeSlots \cup {host[k].slot : k \in evicted}]
    /\ \A k, l \in NewKeys(ks) : k[2] < l[2] => slot[k] < slot[l]
    /\ \A k \in NewKeys(ks), s \in FreeSlots : s < slot[k] => \E l \in NewKeys(ks) : slot[l] = s
    /\ host' = [k \in Keys |->
                   IF k \in NewKeys(ks) THEN [slot |-> slot[k], ready |-> FALSE, readers |-> 0]
                   ELSE IF k \in evicted THEN Absent ELSE host[k]]

\* complete_store and complete_load of the transfers js.
CompleteTransfers(js) ==
    host' = [k \in Keys |->
                [host[k] EXCEPT
                    !.ready   = host[k].ready \/ \E j \in js : j.store /\ k \in KeysOf(j),
                    !.readers = host[k].readers
                        - Cardinality(Ids({j \in js : ~j.store /\ k \in KeysOf(j)}))]]

\* _lookup_complete_chunks for this group and no local hit: the tokens that can be
\* loaded, or Wait (None) if a chunk is being written or loaded.
Wait == -1
Lookup(r) ==
    LET limit  == IF window = 0 THEN req[r].tokens ELSE req[r].tokens - 1
        chunks == req[r].tokens \div ChunkTokens
        most   == Least(limit, chunks * ChunkTokens)
        asked  == {i \in Chunks : i <= chunks /\ (i - 1) * ChunkTokens < most}
        size   == CDiv(window, ChunkTokens)
        here(i) == Present(KeyOf(r, i))
        prefix == {i \in asked : \A j \in 1..i : here(j)}
        whole  == {i \in asked : i >= size /\ \A j \in i - size + 1..i : here(j)}
        upTo   == {i \in asked : \E j \in whole : i <= j}
        hits   == IF window = 0 \/ whole = {} THEN prefix ELSE upTo
        seen   == IF window = 0 THEN prefix
                  ELSE {i \in asked : \A j \in whole : i > j - size}
        hit    == Least(most, ChunkTokens * Cardinality(hits))
        used   == {i \in hits : window = 0 \/ i > Cardinality(hits) - size}
    IN  IF most < ChunkTokens THEN 0
        ELSE IF \E i \in seen : here(i) /\ ~host[KeyOf(r, i)].ready THEN Wait
        ELSE IF hit < ChunkTokens THEN 0
        ELSE IF \E i \in used : KeyOf(r, i) \in loading THEN Wait
        ELSE hit

-------------------------------------------------------------------------------
\* Between the engine steps: add_request, finish_requests and reset_prefix_cache.

Arrive(r, p) ==
    /\ step.phase = "idle" /\ req[r].status = "absent" /\ <<r, p>> \in Asks
    /\ req' = [req EXCEPT ![r].status = "waiting", ![r].prompt = p]
    /\ order' = order \cup (Queued \X {r})
    /\ track' = [track EXCEPT ![r] = [NoTrack EXCEPT !.on = TRUE]]
    /\ UNCHANGED <<window, skipped, finished, preempted, received, step, transfers, fences, flush,
                   allocated, loading, manager, memory, resets>>

\* Mutant of Watched: only new transfers of finished requests are watched.
NoneWatched(rs, b) == {}

\* request_finished: full-attention blocks are watched from the end of their request on.
Watched(rs, b) ==
    IF window # 0 THEN {} ELSE Ids({j \in Known : j.store /\ j.req \in rs /\ b \in BlocksOf(j)})

\* Blocks that a load is writing are not freed yet.
Held(r) == IF req[r].status = "loading" /\ r \notin received THEN req[r].table ELSE <<>>

Abort(r) ==
    /\ step.phase = "idle" /\ Active(r)
    /\ req' = [req EXCEPT ![r].status = "aborted", ![r].table = Held(r)]
    /\ order' = Without({r}) /\ skipped' = skipped \ {r}
    /\ received' = received \ {r}
    /\ finished' = finished \cup {r}
    /\ fences' = [b \in Blocks |-> fences[b] \cup Watched({r}, b)]
    /\ UNCHANGED <<window, preempted, step, track, transfers, flush, allocated, loading,
                   manager, memory, resets>>

\* _preempt_request, of the last of Running or of all: they go before the others in waiting.
Preempted(rs) == [r \in Requests |->
    IF r \in rs THEN [req[r] EXCEPT !.status = "waiting", !.computed = 0, !.table = <<>>]
    ELSE req[r]]
PutBack(rs) ==
    /\ order' = {e \in order : e[1] \in rs <=> e[2] \in rs}
                    \cup (skipped \X rs) \cup (rs \X (Queued \ skipped))
    /\ preempted' = preempted \cup rs

\* Mutant of Unsignaled: every finished request is reported.
FinishedTracked(r) == track[r].on /\ IsFinished(r)
Unsignaled(r)      == track[r].on /\ IsFinished(r) /\ ~track[r].signaled

\* reset_cache of the connector; it asserts that no flush of an earlier one is left.
ResetConnector ==
    /\ flush = {}
    /\ flush' = Ids(Known)
    /\ closed' = [r \in Requests |-> closed[r] + (IF Unsignaled(r) THEN 1 ELSE 0)]
    /\ track' = [r \in Requests |-> IF track[r].on /\ ~IsFinished(r)
                                    THEN [track[r] EXCEPT !.next = 0, !.jobs = {}] ELSE NoTrack]
    /\ host' = [k \in Keys |-> Absent]
    /\ transfers' = {[j EXCEPT !.known = FALSE] : j \in transfers}
    /\ fences' = [b \in Blocks |-> {}] /\ loading' = {}
    /\ UNCHANGED allocated

\* reset_prefix_cache(reset_running_requests=force, reset_connector=True).  With force
\* it raises before it resets the connector if blocks are still held for a load.  Without
\* force, running requests of a sliding window are left out: see StaleIds in the README.
Reset(force) ==
    /\ step.phase = "idle" /\ resets < MaxResets
    /\ resets' = resets + 1
    /\ force \/ window = 0 \/ Running = {}
    /\ IF force
       THEN req' = Preempted(Running) /\ PutBack(Running)
       ELSE UNCHANGED <<req, order, preempted>>
    /\ IF force /\ \E r \in Requests : req'[r].table # <<>>
       THEN UNCHANGED <<connector, manager>>
       ELSE ResetConnector
    /\ UNCHANGED <<window, skipped, finished, received, step, memory>>

-------------------------------------------------------------------------------
\* Scheduler.schedule.

\* The engine steps while there is something to do for a request or for the connector.
HasRequests ==
    \/ \E r \in Requests : Active(r) \/ req[r].table # <<>>
    \/ finished # {} \/ Known # {}

Begin ==
    /\ step.phase = "idle" /\ HasRequests
    /\ step' = [step EXCEPT !.phase = "schedule"]
    /\ UNCHANGED <<window, engine, connector, manager, memory, resets>>

\* remove_skipped_blocks: blocks that no token to come attends to.
Kept(r) == [i \in DOMAIN req[r].table |->
               IF window # 0 /\ i <= (req[r].computed - window + 1) \div ChunkTokens
               THEN Null ELSE req[r].table[i]]

\* allocate_slots: n more blocks, any free ones.  What is free for r is counted after its
\* own blocks out of the window have been given up.
Need(r, n)     == CDiv(req[r].computed + n, ChunkTokens) - Len(req[r].table)
FreeFor(r)     == Free \cup (Range(req[r].table) \ (Range(Kept(r)) \cup {Null}))
Picks(n, free) == {s \in [1..n -> free] : \A i, j \in 1..n : s[i] = s[j] => i = j}
Amounts(r)     == {Least(t, req[r].tokens - req[r].computed) : t \in StepTokens}

\* Each request of a list is looked at when those before it have been.
Turn(r, list) ==
    /\ step.phase = "schedule" /\ r \in list \ step.visited
    /\ \A q \in list : <<q, r>> \in order => q \in step.visited

\* A running request gets tokens and blocks, or the last one of the list is preempted; then
\* the queued ones are not considered in this step.
ScheduleRunning(r) ==
    /\ Turn(r, Running)
    /\ \/ /\ \E n \in Amounts(r) : \E new \in Picks(Need(r, n), FreeFor(r)) :
                /\ req' = [req EXCEPT ![r].table = Kept(r) \o new]
                /\ step' = [step EXCEPT !.visited = @ \cup {r}, !.tokens[r] = n, !.blocks[r] = new]
          /\ UNCHANGED <<order, preempted>>
       \/ /\ \E n \in Amounts(r) : Need(r, n) > Cardinality(FreeFor(r))
          /\ \E v \in Running :
                /\ \A q \in Running : <<v, q>> \notin order
                /\ req' = [Preempted({v}) EXCEPT ![r].table = IF r = v THEN <<>> ELSE Kept(r)]
                /\ PutBack({v})
          /\ step' = [step EXCEPT !.cut = TRUE]
    /\ UNCHANGED <<window, skipped, finished, received, connector, manager, memory, resets>>

\* get_num_new_matched_tokens: None while transfers of the request are in flight.
Hit(r) == IF req[r].computed > 0 THEN 0
          ELSE IF track[r].jobs # {} THEN Wait ELSE Lookup(r)

\* Mutant of Skipped: one token too many.
SkippedMore(n) == IF window = 0 THEN 0 ELSE Most(0, n - window + 2) \div ChunkTokens

\* Blocks for n tokens that are loaded: those that no token to come attends to are skipped.
Skipped(n)    == IF window = 0 THEN 0 ELSE Most(0, n - window + 1) \div ChunkTokens
LoadBlocks(n) == CDiv(n, ChunkTokens) - Skipped(n)

\* A queued request is admitted when all its tokens fit, a load when in addition what the
\* prefills under way still need stays free (_inflight_prefill_reserved_blocks).
Reserved  == {e \in Requests \X Chunks :
                /\ Active(e[1]) /\ req[e[1]].table # <<>>
                /\ Len(req[e[1]].table) < e[2] /\ e[2] <= CDiv(req[e[1]].tokens, ChunkTokens)}
Wanted(r) == IF Hit(r) = 0 THEN Need(r, req[r].tokens - req[r].computed)
             ELSE CDiv(req[r].tokens, ChunkTokens) - Skipped(Hit(r)) + Cardinality(Reserved)
Room(r)   == IF Hit(r) = 0 THEN FreeFor(r) ELSE Free

\* Mutant of Fits: one block must be left over.
FitsBelow(r) == Wanted(r) < Cardinality(Room(r))
Fits(r)      == Wanted(r) <= Cardinality(Room(r))

\* The queued requests are considered in their order, once all running ones have tokens.
Considers(r, status) ==
    /\ Turn(r, Queued) /\ Running \subseteq step.visited /\ ~step.cut
    /\ req[r].status = status

\* A load is still running; or (_update_waiting_for_remote_kv) it is done, and if it was
\* for all tokens the last one is computed again.
Loading(r) ==
    /\ Considers(r, "loading")
    /\ IF r \in received
       THEN /\ received' = received \ {r}
            /\ req' = [req EXCEPT ![r].status = "waiting",
                                  ![r].computed = IF @ = req[r].tokens THEN @ - 1 ELSE @]
            /\ UNCHANGED step
       ELSE step' = [step EXCEPT !.visited = @ \cup {r}] /\ UNCHANGED <<req, received>>
    /\ UNCHANGED <<window, order, skipped, finished, preempted, connector, manager, memory,
                   resets>>

\* The lookup is to be repeated in a later step; or the request does not fit, and none
\* behind it is considered.
Delay(r) ==
    /\ Considers(r, "waiting")
    /\ \/ /\ Hit(r) = Wait
          /\ skipped' = skipped \cup {r}
          /\ step' = [step EXCEPT !.visited = @ \cup {r}]
       \/ /\ Hit(r) # Wait /\ ~Fits(r)
          /\ step' = [step EXCEPT !.cut = TRUE]
          /\ UNCHANGED skipped
    /\ track' = [track EXCEPT ![r].blocks = IF req[r].computed = 0 THEN <<>> ELSE @]
    /\ UNCHANGED <<window, req, order, finished, preempted, received, transfers, fences, flush,
                   allocated, loading, manager, memory, resets>>

\* A request without a hit, or whose load is done, gets tokens and blocks.
Admit(r) ==
    /\ Considers(r, "waiting") /\ Hit(r) = 0 /\ Fits(r)
    /\ \E n \in Amounts(r) : \E new \in Picks(Need(r, n), FreeFor(r)) :
          /\ req' = [req EXCEPT ![r].table = Kept(r) \o new, ![r].status = "running"]
          /\ step' = [step EXCEPT !.visited = @ \cup {r}, !.tokens[r] = n,
                                  !.blocks[r] = Kept(r) \o new]
    /\ order' = Without({r}) \cup (Running \X {r}) /\ skipped' = skipped \ {r}
    /\ track' = [track EXCEPT ![r].blocks = IF req[r].computed = 0 THEN <<>> ELSE @]
    /\ UNCHANGED <<window, finished, preempted, received, transfers, fences, flush, allocated,
                   loading, manager, memory, resets>>

\* A hit of n tokens: blocks for the chunks that tokens to come attend to, and a transfer
\* that loads them (allocate_slots, update_state_after_alloc, prepare_load).
LoadTable(n, new) == [i \in 1..CDiv(n, ChunkTokens) |->
                         IF i <= Skipped(n) THEN Null ELSE new[i - Skipped(n)]]
LoadMoves(r, n, new) == {[key |-> KeyOf(r, i), slot |-> host[KeyOf(r, i)].slot,
                          block |-> new[i - Skipped(n)]] :
                            i \in Skipped(n) + 1..CDiv(n, ChunkTokens)}
Load(r) ==
    /\ Considers(r, "waiting") /\ Hit(r) > 0 /\ Fits(r)
    /\ \E new \in Picks(LoadBlocks(Hit(r)), Free), id \in NextIds :
          LET load == Transfer(id, r, FALSE, "built", LoadMoves(r, Hit(r), new))
          IN  /\ req' = [req EXCEPT ![r].table = LoadTable(Hit(r), new), ![r].computed = Hit(r),
                                    ![r].status = "loading"]
              /\ track' = [track EXCEPT ![r].blocks = <<>>, ![r].next = CDiv(Hit(r), ChunkTokens),
                                        ![r].jobs = {id}]
              /\ transfers' = transfers \cup {load}
              /\ allocated' = allocated \cup Range(new)
              /\ loading' = loading \cup KeysOf(load)
              /\ host' = [k \in Keys |-> [host[k] EXCEPT
                             !.readers = @ + (IF k \in KeysOf(load) THEN 1 ELSE 0)]]
    /\ skipped' = skipped \cup {r}
    /\ step' = [step EXCEPT !.visited = @ \cup {r}]
    /\ UNCHANGED <<window, order, finished, preempted, received, fences, flush, closed, memory,
                   resets>>

\* _update_req_states: blocks scheduled in this step are appended; the id of a sliding-window
\* block that was given away before its chunk was stored is zeroed.
Given         == allocated \cup UNION {Range(step.blocks[r]) \ {Null} : r \in Requests}
Lost(r, i)    == window # 0 /\ track[r].blocks[i] \in Given /\ i > track[r].next
KeptIds(r)    == [i \in DOMAIN track[r].blocks |->
                     IF Lost(r, i) THEN Null ELSE track[r].blocks[i]]

\* The token budget is used up, or no more can be scheduled.  Then build_connector_meta,
\* first part: the transfers of preempted requests and of blocks given away are to be
\* flushed.
EndSchedule ==
    /\ step.phase = "schedule"
    /\ \/ \E r \in Requests : step.tokens[r] > 0
       \/ Running \subseteq step.visited /\ (step.cut \/ Queued \subseteq step.visited)
    /\ track' = [r \in Requests |-> [track[r] EXCEPT !.blocks = KeptIds(r) \o step.blocks[r]]]
    /\ allocated' = Given
    /\ flush' = flush \cup (UNION {track[r].jobs : r \in preempted})
                      \cup (UNION {fences[b] : b \in Given})
    /\ step' = [step EXCEPT !.phase = "store",
                            !.todo = {r \in Requests : /\ track[r].on
                                                       /\ r \in finished \/ step.tokens[r] > 0},
                            !.blocks = [r \in Requests |-> <<>>]]
    /\ UNCHANGED <<window, engine, transfers, fences, loading, manager, memory, resets>>

\* The tokens whose KV the code takes for computed once this step has run.
TokensAfter(r) ==
    CASE req[r].status = "aborted" -> Least(req[r].computed, req[r].tokens)
      [] req[r].status = "stopped" -> req[r].tokens
      [] OTHER -> Least(req[r].computed + step.tokens[r], req[r].tokens)
Storable(r)  == Least(TokensAfter(r) \div ChunkTokens, Len(track[r].blocks))
KeysToStore(r) == {KeyOf(r, i) : i \in {c \in Chunks : /\ track[r].next < c /\ c <= Storable(r)
                                                       /\ track[r].blocks[c] # Null}}

\* _build_store_jobs for r, the finished requests after those that have tokens.  A transfer
\* of a finished request one of whose blocks is given away in this very step is to be
\* flushed at once.
StoreMoves(r, slot) ==
    {[key |-> k, slot |-> slot[k], block |-> track[r].blocks[k[2]]] : k \in DOMAIN slot}
AddStore(r, id, moves) ==
    LET from == {m.block : m \in moves}
        now  == window = 0 /\ IsFinished(r) /\ from \cap allocated # {}
    IN  /\ transfers' = transfers \cup
                            {Transfer(id, r, TRUE, IF now THEN "urgent" ELSE "built", moves)}
        /\ track' = [track EXCEPT ![r].next = Most(@, Storable(r)), ![r].jobs = @ \cup {id}]
        /\ fences' = [b \in Blocks |-> IF b \in from /\ (window # 0 \/ IsFinished(r))
                                        THEN fences[b] \cup {id} ELSE fences[b]]
        /\ flush' = IF now THEN flush \cup {id} ELSE flush
Store(r) ==
    /\ step.phase = "store" /\ r \in step.todo
    /\ \A q \in step.todo : <<q, r>> \notin order /\ (r \in finished => q \in finished)
    /\ step' = [step EXCEPT !.todo = @ \ {r}]
    /\ LET ks  == KeysToStore(r)
           new == NewKeys(ks)
       IN  \/ /\ new = {}
              /\ track' = [track EXCEPT ![r].next = Most(@, Storable(r))]
              /\ UNCHANGED <<host, transfers, fences, flush>>
           \/ /\ new # {} /\ ~CanStore(ks)
              /\ UNCHANGED <<host, track, transfers, fences, flush>>
           \/ /\ new # {}
              /\ \E evicted \in SUBSET Evictable(ks), slot \in [new -> Slots], id \in NextIds :
                    /\ PrepareStore(ks, evicted, slot)
                    /\ AddStore(r, id, StoreMoves(r, slot))
    /\ UNCHANGED <<window, engine, allocated, loading, closed, memory, resets>>

\* The status t of a finished request, once the manager has been told: it is kept until the
\* last transfer is reported.  Mutant: it is dropped.
Drop(t)   == NoTrack
Signal(t) == IF t.jobs = {} THEN NoTrack ELSE [t EXCEPT !.signaled = TRUE]

\* build_connector_meta, last part, _update_after_schedule, and handle_preemptions of the
\* worker, which submits the stores of the last step and those of this step to be flushed.
SendMeta ==
    /\ step.phase = "store" /\ step.todo = {}
    /\ track' = [r \in Requests |->
                    IF r \in finished /\ track[r].on THEN Signal(track[r]) ELSE track[r]]
    /\ closed' = [r \in Requests |->
                     closed[r] + (IF r \in finished /\ track[r].on THEN 1 ELSE 0)]
    /\ req' = [r \in Requests |-> [req[r] EXCEPT !.computed = @ + step.tokens[r]]]
    /\ finished' = {} /\ preempted' = {} /\ allocated' = {}
    /\ transfers' = {[j EXCEPT !.at = IF j.store /\ @ = "built" THEN "deferred"
                                      ELSE IF @ \in {"deferred", "urgent"} THEN "queued" ELSE @] :
                        j \in transfers}
    /\ step' = [step EXCEPT !.phase = "flush"]
    /\ UNCHANGED <<window, order, skipped, received, fences, flush, loading, host, memory, resets>>

-------------------------------------------------------------------------------
\* The GPU worker.

\* The transfers of a direction run in the order in which they were submitted, at any time.
\* (A copy between the steps does what it does at the end of the last.)
Copy(j) ==
    /\ step.phase \in {"flush", "output"} /\ j.at = "queued"
    /\ \A l \in transfers : l.at = "queued" /\ l.store = j.store => j.id <= l.id
    /\ IF j.store
       THEN /\ slotKV' = [s \in Slots |-> IF s \in SlotsOf(j)
                              THEN gpuKV[(CHOOSE m \in j.moves : m.slot = s).block] ELSE slotKV[s]]
            /\ UNCHANGED gpuKV
       ELSE /\ gpuKV' = [b \in Blocks |-> IF b \in BlocksOf(j)
                             THEN slotKV[(CHOOSE m \in j.moves : m.block = b).slot] ELSE gpuKV[b]]
            /\ UNCHANGED slotKV
    /\ transfers' = (transfers \ {j}) \cup {[j EXCEPT !.at = "done"]}
    /\ UNCHANGED <<window, engine, step, track, fences, flush, allocated, loading, manager, resets>>

\* What chunk i of r, in block b, is after the forward pass has written the KV of the
\* tokens of this step: nothing it can be used for if what is before them is not there.
Written(r, i, b) ==
    LET base == (i - 1) * ChunkTokens
        from == Most(0, req[r].computed - step.tokens[r] - base)
    IN  IF from = 0 \/ (gpuKV[b].key = KeyOf(r, i) /\ gpuKV[b].n >= from)
        THEN [key |-> KeyOf(r, i), n |-> Least(ChunkTokens, req[r].computed - base)]
        ELSE NoKV

\* The chunks of requests that the forward pass writes, if they are in block b.
WritesTo(b) == {w \in Requests \X Chunks :
                   LET r == w[1]
                       i == w[2]
                   IN  /\ step.tokens[r] > 0 /\ i \in DOMAIN req[r].table /\ req[r].table[i] = b
                       /\ i * ChunkTokens > req[r].computed - step.tokens[r]}

\* Mutant of Flushed: the model does not wait.
Unflushed == TRUE
Flushed   == \A j \in transfers : j.at = "queued" => j.id \notin flush

\* When the transfers to be flushed are through, the loads are submitted and the model runs.
Forward ==
    /\ step.phase = "flush" /\ Flushed
    /\ gpuKV' = [b \in Blocks |->
                     IF WritesTo(b) = {} THEN gpuKV[b]
                     ELSE LET w == CHOOSE w \in WritesTo(b) : TRUE IN Written(w[1], w[2], b)]
    /\ transfers' = {[j EXCEPT !.at = IF @ = "built" THEN "queued" ELSE @] : j \in transfers}
    /\ flush' = {}
    /\ step' = [step EXCEPT !.phase = "output"]
    /\ UNCHANGED <<window, engine, track, fences, allocated, loading, manager, slotKV, resets>>

-------------------------------------------------------------------------------
\* Scheduler.update_from_output: requests whose known tokens are all computed get the next
\* one; those in stop end.  Then the transfers that the worker reports are completed.
Sampled == {r \in Requests : step.tokens[r] > 0 /\ req[r].computed = req[r].tokens}

\* Memory that nothing refers to any more: what it holds does not matter.
Forget ==
    LET live   == {j \in transfers' : j.at \in {"deferred", "queued"}}
        blocks == (UNION {Range(req'[r].table) \cup Range(track'[r].blocks) : r \in Requests})
                    \cup UNION {BlocksOf(j) : j \in {l \in live : l.store}}
        slots  == {host'[k].slot : k \in Keys}
                    \cup UNION {SlotsOf(j) : j \in {l \in live : ~l.store}}
    IN  /\ gpuKV'  = [b \in Blocks |-> IF b \in blocks THEN gpuKV[b] ELSE NoKV]
        /\ slotKV' = [s \in Slots |-> IF s \in slots THEN slotKV[s] ELSE NoKV]

Update(stop) ==
    /\ step.phase = "output"
    /\ stop \subseteq Sampled /\ \A r \in Sampled \ stop : req[r].tokens + 1 < MaxTokens
    /\ LET done    == {j \in transfers : j.at = "done"}
           live    == KnownOf(done)
           over(r) == IsFinished(r) \/ r \in stop
           got(r)  == \E j \in done : ~j.store /\ j.req = r
       IN  /\ req' = [r \in Requests |->
                  [req[r] EXCEPT
                      !.tokens = IF r \in Sampled THEN @ + 1 ELSE @,
                      !.status = IF r \in stop THEN "stopped" ELSE @,
                      !.table  = IF r \in stop \/ (IsFinished(r) /\ got(r)) THEN <<>> ELSE @]]
           /\ received' = received \cup {r \in Requests : req[r].status = "loading" /\ got(r)}
           /\ CompleteTransfers(live)
           /\ loading' = loading \ UNION {KeysOf(j) : j \in {l \in live : ~l.store}}
           /\ fences' = [b \in Blocks |->
                  (fences[b] \cup Watched(stop, b))
                      \ Ids({j \in live : b \in BlocksOf(j) /\ (window # 0 \/ over(j.req))})]
           /\ transfers' = transfers \ done
           /\ track' = [r \in Requests |->
                  LET left == track[r].jobs \ Ids(live)
                  IN  IF track[r].signaled /\ left = {} THEN NoTrack
                      ELSE [track[r] EXCEPT !.jobs = left]]
    /\ order' = Without(stop) /\ finished' = finished \cup stop
    /\ step' = [step EXCEPT !.phase = "idle", !.visited = {}, !.cut = FALSE,
                            !.tokens = [r \in Requests |-> 0]]
    /\ Forget
    /\ UNCHANGED <<window, skipped, preempted, flush, allocated, closed, resets>>

Step == \/ Begin \/ EndSchedule \/ SendMeta \/ Forward
        \/ \E r \in Requests : \/ ScheduleRunning(r) \/ Loading(r) \/ Delay(r)
                               \/ Admit(r) \/ Load(r) \/ Store(r)
        \/ \E stop \in SUBSET Requests : Update(stop)
CopyNext == \E j \in transfers : Copy(j)

Next == \/ Step \/ CopyNext
        \/ \E r \in Requests : Abort(r) \/ \E p \in Prompts : Arrive(r, p)
        \/ \E force \in BOOLEAN : Reset(force)

Spec == Init /\ [][Next]_vars

\* The engine goes on while it has requests, and copies run: in the model only while a step
\* waits or ends, hence SF.
FairSpec == Spec /\ WF_vars(Step) /\ SF_vars(CopyNext)

-------------------------------------------------------------------------------
TypeOK ==
    /\ window \in Windows
    /\ req \in [Requests -> [status : {"absent", "waiting", "loading", "running",
                                       "stopped", "aborted"}, prompt : Prompts,
                             tokens : PromptTokens..MaxTokens, computed : 0..MaxTokens,
                             table : Seq(Blocks \cup {Null})]]
    /\ order \subseteq Requests \X Requests /\ skipped \subseteq Requests
    /\ finished \subseteq Requests /\ preempted \subseteq Requests /\ received \subseteq Requests
    /\ step \in [phase : {"idle", "schedule", "store", "flush", "output"}, cut : BOOLEAN,
                 visited : SUBSET Requests, todo : SUBSET Requests,
                 tokens : [Requests -> 0..MaxTokens],
                 blocks : [Requests -> Seq(Blocks \cup {Null})]]
    /\ track \in [Requests -> [on : BOOLEAN, blocks : Seq(Blocks \cup {Null}), next : Nat,
                               jobs : SUBSET (1..MaxJobs), signaled : BOOLEAN]]
    /\ \A j \in transfers :
          j \in [id : 1..MaxJobs, req : Requests, store : BOOLEAN,
                 at : {"built", "urgent", "deferred", "queued", "done"}, known : BOOLEAN,
                 moves : SUBSET [key : Keys, slot : Slots, block : Blocks]]
    /\ fences \in [Blocks -> SUBSET (1..MaxJobs)] /\ flush \subseteq 1..MaxJobs
    /\ allocated \subseteq Blocks /\ loading \subseteq Keys
    /\ host \in [Keys -> [slot : Slots \cup {Null}, ready : BOOLEAN, readers : Nat]]
    /\ closed \in [Requests -> Nat] /\ resets \in 0..MaxResets
    /\ gpuKV \in [Blocks -> [key : Keys \cup {<<>>}, n : 0..ChunkTokens]]
    /\ slotKV \in [Slots -> [key : Keys \cup {<<>>}, n : 0..ChunkTokens]]

\* Chunk k ends with the token that was sampled last, whose KV was not computed.
LastSampled(k) == \E r \in Requests : /\ req[r].status = "stopped" /\ req[r].prompt = k[1]
                                      /\ req[r].tokens = k[2] * ChunkTokens

\* A chunk that lookup offers holds the KV of its own prefix, whole, whatever happened to
\* the blocks it was copied from: they may have been freed, given to another request and
\* written before the copy ran, were it not for the fences that build_connector_meta of
\* the scheduler builds and handle_preemptions of the worker waits for.  The chunk that ends
\* with the last token of a stopped request is the exception: see LastToken in the README.
HostTruth ==
    \A k \in Keys : host[k].ready =>
        \/ slotKV[host[k].slot] = Full(k)
        \/ LastSampled(k) /\ slotKV[host[k].slot] = [key |-> k, n |-> ChunkTokens - 1]

\* What a request counts as computed, and a token of this step or of a later one attends
\* to, is in its blocks: it was computed there or loaded from the right slots, and no copy
\* for another request, for an aborted one or from before a reset has come over it.  The last
\* position of a chunk that a stopped request left unfinished is the exception here as well.
\* With more requests than two, see LateLoad in the README.
GpuTruth ==
    \A r \in Requests, i \in Chunks :
        LET n        == Least(ChunkTokens, req[r].computed - (i - 1) * ChunkTokens)
            attended == \/ window = 0
                        \/ i * ChunkTokens > req[r].computed - step.tokens[r] - window + 1
        IN  /\ step.phase \in {"idle", "output"} /\ req[r].status \in {"waiting", "running"}
            /\ n > 0 /\ attended
            => /\ i \in DOMAIN req[r].table /\ req[r].table[i] # Null
               /\ gpuKV[req[r].table[i]].key = KeyOf(r, i)
               /\ \/ gpuKV[req[r].table[i]].n >= n
                  \/ LastSampled(KeyOf(r, i)) /\ gpuKV[req[r].table[i]].n = ChunkTokens - 1

\* _block_id_to_pending_jobs has, for each block, the stores in flight that read it without
\* the block being held for their request: those of a sliding window and those of finished
\* requests.  Every place that updates it must neither miss one nor leave one behind.
FencesExact ==
    \A b \in Blocks : fences[b] =
        Ids({j \in Known : j.store /\ b \in BlocksOf(j) /\ (window # 0 \/ IsFinished(j.req))})

\* transfer_jobs of a request and _jobs agree, the status of a request outlives its
\* transfers, and a load is alone: update_connector_output relies on this when it looks up
\* the status of a reported job.
JobsTracked ==
    /\ \A r \in Requests : track[r].jobs = Ids({j \in Known : j.req = r})
    /\ \A j \in Known : /\ track[j.req].on
                        /\ ~j.store => \A l \in Known : l.req = j.req => l = j

\* The manager hears exactly once that a request has finished, whether build_connector_meta
\* or a reset tells it, and never while the connector may still store chunks of it.
ClosedOnce ==
    \A r \in Requests :
       /\ closed[r] <= 1
       /\ closed[r] = 1 <=> req[r].status # "absent" /\ (~track[r].on \/ track[r].signaled)

\* Every request ends and gives back its blocks and its tracking, though it may wait for
\* chunks of others, be preempted, lose its hits to a reset and end before its copies.  With
\* more requests than two the code does not promise it: see HeadOfLine in the README.
Served == \A r \in Requests : Active(r) ~> IsFinished(r) /\ ~track[r].on /\ req[r].table = <<>>
===============================================================================
