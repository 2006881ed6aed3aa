------------------------------ MODULE InProcess ------------------------------
(***************************************************************************)
(* The runs of agents in one process (tasks.py, _submit_inprocess of       *)
(* ws.py) and the places they share for calls of the language model        *)
(* (appstate.py, _call of agents/base.py).                                 *)
(*                                                                         *)
(* A pool is an asyncio.Semaphore: its free places and the line of those   *)
(* who wait for one.  A place given back goes to the head of the line.     *)
(*                                                                         *)
(* Simplifications, by name.                                               *)
(*  - What a run does between its calls is left to TaskQueue.              *)
(*  - A waiter leaves the line when it is handed a place, not when it      *)
(*    wakes.                                                               *)
(*  - Nothing is submitted once the process shuts down: the server has     *)
(*    closed its connections by then.                                      *)
(***************************************************************************)
EXTENDS Naturals, Sequences, SequencesExt

CONSTANTS
  Run,             \* submissions
  Priority,        \* priorities of tasks, of 0 .. 2
  QuotaHi, QuotaMid, QuotaLo, QuotaPublic,  \* LLM_QUOTA_*
  MaxConcurrency,  \* LLM_MAX_CONCURRENCY
  MaxRetries,      \* LLM_MAX_RETRIES
  MaxRunCalls      \* bound: calls of one run

ASSUME RunBounds ==
  /\ QuotaHi \in Nat /\ QuotaMid \in Nat /\ QuotaLo \in Nat /\ QuotaPublic \in Nat /\ MaxConcurrency \in Nat
  /\ MaxRetries \in Nat /\ MaxRunCalls \in Nat /\ Priority \subseteq Nat /\ Priority # {}

Pool == {"hi", "mid", "lo", "pub"}
Reserved == QuotaHi + QuotaMid + QuotaLo
\* init_llm_semaphore
Size == [hi |-> QuotaHi, mid |-> QuotaMid, lo |-> QuotaLo,
         pub |-> IF QuotaPublic # 0 THEN QuotaPublic
                 ELSE IF MaxConcurrency > Reserved THEN MaxConcurrency - Reserved ELSE 0]

VARIABLES
  stage,     \* where each run is
  priority,  \* of its task
  records,   \* TaskRunner._records
  told,      \* what the client last heard of it
  calls,     \* calls it has made
  tried,     \* failed attempts of the call it makes
  pool,      \* _LlmQuota._pool, or the pool it waits for
  quota,     \* the pools: free places and lines
  stopping   \* TaskRunner.shutdown has begun

runVars == <<stage, priority, records, told, calls, tried, pool, quota, stopping>>

Stage == {"unborn", "starting", "working", "waiting", "calling", "pausing", "returning", "over"}
RunTypeOK ==
  /\ stage \in [Run -> Stage] /\ priority \in [Run -> Priority] /\ records \subseteq Run
  /\ told \in [Run -> {"nothing", "running", "done", "failed"}]
  /\ calls \in [Run -> 0 .. MaxRunCalls] /\ tried \in [Run -> 0 .. MaxRetries]
  /\ pool \in [Run -> Pool] /\ stopping \in BOOLEAN
  /\ \A k \in Pool : quota.free[k] \in 0 .. Size[k] /\ quota.line[k] \in Seq(Run)

RunInit ==
  /\ stage = [r \in Run |-> "unborn"] /\ priority = [r \in Run |-> CHOOSE p \in Priority : TRUE] /\ records = {}
  /\ told = [r \in Run |-> "nothing"] /\ calls = [r \in Run |-> 0] /\ tried = [r \in Run |-> 0]
  /\ pool = [r \in Run |-> "pub"] /\ stopping = FALSE
  /\ quota = [free |-> Size, line |-> [k \in Pool |-> <<>>]]

-----------------------------------------------------------------------------
\* _run_workflow: priority 0 falls to 1, since set_priority is given "priority or 1".
RunPriority(r) == IF priority[r] = 0 THEN 1 ELSE priority[r]
\* _LlmQuota.__aenter__: the pool is chosen once, before any wait.
PoolFor(p, q) ==
  LET primary == IF p >= 2 THEN "hi" ELSE "mid" IN
  IF p <= 0 THEN "lo" ELSE IF q.free[primary] > 0 THEN primary ELSE "pub"

TakePlace(q, k) == [q EXCEPT !.free[k] = @ - 1]
JoinLine(q, k, r) == [q EXCEPT !.line[k] = Append(@, r)]
LeaveLine(q, k, r) ==
  LET place == CHOOSE i \in 1 .. Len(q.line[k]) : q.line[k][i] = r
  IN  [q EXCEPT !.line[k] = RemoveAt(@, place)]
GiveBack(q, k) ==
  IF q.line[k] = <<>> THEN [q EXCEPT !.free[k] = @ + 1] ELSE [q EXCEPT !.line[k] = Tail(@)]

\* Mutant: the place goes back to the run's own pool.
GivenToOwn(r) == GiveBack(quota, IF RunPriority(r) = 2 THEN "hi" ELSE "mid")
\* _LlmQuota.__aexit__
Given(r) == GiveBack(quota, pool[r])

InLine(r) == \E i \in 1 .. Len(quota.line[pool[r]]) : quota.line[pool[r]][i] = r
Holds(r) == stage[r] \in {"waiting", "calling", "pausing"} /\ ~InLine(r)

Enters(r, q) ==
  LET k == PoolFor(RunPriority(r), q) IN
  /\ pool' = [pool EXCEPT ![r] = k]
  /\ IF q.free[k] > 0
       THEN quota' = TakePlace(q, k) /\ stage' = [stage EXCEPT ![r] = "calling"]
       ELSE quota' = JoinLine(q, k, r) /\ stage' = [stage EXCEPT ![r] = "waiting"]
Goes(r, where) == stage' = [stage EXCEPT ![r] = where]
At(r, where) == stage[r] = where /\ ~stopping

-----------------------------------------------------------------------------
\* _submit_inprocess, subscribe and submit
SubmitRun(r, p) ==
  /\ At(r, "unborn") /\ Goes(r, "starting")
  /\ priority' = [priority EXCEPT ![r] = p] /\ records' = records \cup {r}
  /\ UNCHANGED <<told, calls, tried, pool, quota, stopping>>
Start(r) ==
  /\ At(r, "starting") /\ Goes(r, "working") /\ told' = [told EXCEPT ![r] = "running"]
  /\ UNCHANGED <<priority, records, calls, tried, pool, quota, stopping>>

Call(r) ==
  /\ At(r, "working") /\ calls[r] < MaxRunCalls
  /\ calls' = [calls EXCEPT ![r] = @ + 1] /\ Enters(r, quota)
  /\ UNCHANGED <<priority, records, told, tried, stopping>>
Admitted(r) ==
  /\ At(r, "waiting") /\ ~InLine(r) /\ Goes(r, "calling")
  /\ UNCHANGED <<priority, records, told, calls, tried, pool, quota, stopping>>
\* The model answers, or the call fails for good and the run ends with an error as its result.
Answered(r, then) ==
  /\ At(r, "calling") /\ Goes(r, then) /\ quota' = Given(r)
  /\ tried' = [tried EXCEPT ![r] = 0] /\ UNCHANGED <<priority, records, told, calls, pool, stopping>>
\* The pause before the next attempt keeps the place; the next attempt asks for one again.
Pause(r) ==
  /\ At(r, "calling") /\ tried[r] < MaxRetries /\ Goes(r, "pausing")
  /\ tried' = [tried EXCEPT ![r] = @ + 1]
  /\ UNCHANGED <<priority, records, told, calls, pool, quota, stopping>>
Again(r) ==
  /\ At(r, "pausing") /\ Enters(r, Given(r))
  /\ UNCHANGED <<priority, records, told, calls, tried, stopping>>

\* The coroutine is gone, and its variables with it.
Gone(r) ==
  /\ Goes(r, "over") /\ records' = records \ {r}
  /\ priority' = [priority EXCEPT ![r] = CHOOSE p \in Priority : TRUE]
  /\ calls' = [calls EXCEPT ![r] = 0] /\ tried' = [tried EXCEPT ![r] = 0]
  /\ pool' = [pool EXCEPT ![r] = "pub"]
\* TaskRunner._run: what the run returns is told as done, what it raises as failed.
Finishes(r, outcome) ==
  /\ Gone(r) /\ told' = [told EXCEPT ![r] = outcome] /\ UNCHANGED <<quota, stopping>>
Returns(r) == (At(r, "working") \/ At(r, "returning")) /\ Finishes(r, "done")
Raises(r) == At(r, "working") /\ Finishes(r, "failed")

\* TaskRunner.shutdown: every run is cancelled where it waits, and nobody is told.
Shutdown ==
  /\ ~stopping /\ stopping' = TRUE
  /\ UNCHANGED <<stage, priority, records, told, calls, tried, pool, quota>>
Cancelled(r) ==
  /\ stopping /\ r \in records /\ Gone(r)
  /\ quota' = IF Holds(r) THEN Given(r) ELSE IF InLine(r) THEN LeaveLine(quota, pool[r], r) ELSE quota
  /\ UNCHANGED <<told, stopping>>

Step(r) ==
  \/ Start(r) \/ Call(r) \/ Admitted(r) \/ Answered(r, "working") \/ Answered(r, "returning")
  \/ Pause(r) \/ Again(r) \/ Returns(r) \/ Raises(r) \/ Cancelled(r)
RunNext == Shutdown \/ \E r \in Run : Step(r) \/ \E p \in Priority : SubmitRun(r, p)

\* The event loop runs every coroutine that can go on; a call ends in a minute at the latest.
RunFairness == \A r \in Run : WF_runVars(Step(r))
RunSpec == RunInit /\ [][RunNext]_runVars /\ RunFairness

-----------------------------------------------------------------------------
\* Every run ends, and unless the process shuts down its client is told how: no call waits for
\* ever for a place, whatever pools were full when it chose one and whatever attempts failed.  A
\* shutdown ends every run and gets every place back from where it was taken.
\* (TaskRunner._run, shutdown, _LlmQuota, BaseAgent._call; it needs a public pool)
RunsEnd ==
  /\ \A r \in Run : stage[r] = "starting"
       ~> (stage[r] = "over" /\ (told[r] \in {"done", "failed"} \/ stopping))
  /\ stopping ~> (records = {} /\ quota.free = Size)
=============================================================================
