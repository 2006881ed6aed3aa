-------------------------------- MODULE Batch --------------------------------
(***************************************************************************)
(* Parallel parts of one node (run_parallel, _run_collab) in a worker, the *)
(* tool registry the worker's tasks share (tools/registry.py, arqs.py).    *)
(*                                                                         *)
(* A part is one run of a DomainAgent, which calls fs_write when it has a  *)
(* text.  A refused or failed write is not an error of the part.           *)
(*                                                                         *)
(* Simplifications, by name.                                               *)
(*  - Every call of a tool is an fs_write; what it stores is left to       *)
(*    ObjectStore.                                                         *)
(*  - A plan without parts is a single run, as in TaskQueue.               *)
(*  - The audit of the collaboration decides nothing, and is left out.     *)
(***************************************************************************)
EXTENDS Naturals

CONSTANTS
  Job,          \* tasks with a batch
  MaxParallel,  \* AGENT_COLLAB_MAX_PARALLEL
  WorkerPool,   \* AGENT_COLLAB_WORKER_POOL
  MaxCalls,     \* max_calls of fs_write
  MaxPlan,      \* bound: parts of a plan
  MaxReboots    \* bound: restarts of the worker

ASSUME BatchBounds ==
  MaxParallel \in Nat /\ WorkerPool \in Nat /\ MaxCalls \in Nat /\ MaxReboots \in Nat

VARIABLES
  work,     \* what became of each batch
  part,     \* where its parts are, by their index
  places,   \* free places of its semaphore
  cancel,   \* cancel_evt is set
  used,     \* ToolRegistry._calls of fs_write
  made,     \* calls each task has made itself, in this run of it
  refused,  \* tasks that were refused a call
  reboots   \* restarts so far

batchVars == <<work, part, places, cancel, used, made, refused, reboots>>

Settled == {"ok", "failed", "aborted"}
BatchTypeOK ==
  /\ work \in [Job -> {"unborn", "running", "ok", "error"}]
  /\ \A j \in Job : \E n \in 0 .. MaxParallel : part[j] \in [1 .. n -> Settled \cup {"line", "working"}]
  /\ places \in [Job -> 0 .. WorkerPool] /\ cancel \in [Job -> BOOLEAN]
  /\ used \in 0 .. MaxCalls /\ made \in [Job -> 0 .. MaxCalls] /\ refused \subseteq Job
  /\ reboots \in 0 .. MaxReboots

NoParts == [i \in {} |-> "line"]
BatchInit ==
  /\ work = [j \in Job |-> "unborn"] /\ part = [j \in Job |-> NoParts]
  /\ places = [j \in Job |-> WorkerPool] /\ cancel = [j \in Job |-> FALSE]
  /\ used = 0 /\ made = [j \in Job |-> 0] /\ refused = {}
  /\ reboots = 0

-----------------------------------------------------------------------------
AtMost(n, most) == IF n < most THEN n ELSE most
Becomes(j, s, what) == part' = [part EXCEPT ![j][s] = what]
InLineOf(j) == {s \in DOMAIN part[j] : part[j][s] = "line"}
AllOk(j) == \A s \in DOMAIN part[j] : part[j][s] = "ok"

\* _run_collab, run_parallel: the plan is cut to its first parts, and all of them get in line.
Begin(j, planned) ==
  /\ work[j] = "unborn" /\ work' = [work EXCEPT ![j] = "running"]
  /\ part' = [part EXCEPT ![j] = [s \in 1 .. AtMost(planned, MaxParallel) |-> "line"]]
  /\ UNCHANGED <<places, cancel, used, made, refused, reboots>>
\* The first in line gets a free place; it gives it back at once when the batch has failed.
Enter(j, s) ==
  /\ s \in InLineOf(j) /\ \A r \in InLineOf(j) : s <= r
  /\ places[j] > 0
  /\ IF cancel[j] THEN Becomes(j, s, "aborted") /\ UNCHANGED places
                  ELSE Becomes(j, s, "working") /\ places' = [places EXCEPT ![j] = @ - 1]
  /\ UNCHANGED <<work, cancel, used, made, refused, reboots>>
\* The semaphore's release
LeavePlace(j) == places' = [places EXCEPT ![j] = @ + 1]

\* ToolRegistry.run: the count is the registry's, and the registry is the worker's.
CallTool(j) ==
  IF used < MaxCalls
    THEN used' = used + 1 /\ made' = [made EXCEPT ![j] = @ + 1] /\ UNCHANGED refused
    ELSE refused' = refused \cup {j} /\ UNCHANGED <<used, made>>
Complete(j, s) ==
  /\ part[j][s] = "working" /\ Becomes(j, s, "ok") /\ LeavePlace(j)
  /\ CallTool(j) \/ UNCHANGED <<used, made, refused>>  \* an empty text is not written
  /\ UNCHANGED <<work, cancel, reboots>>
\* Mutant: the place of a part that raises is lost.
FailHolding(j, s) ==
  /\ part[j][s] = "working" /\ Becomes(j, s, "failed")
  /\ cancel' = [cancel EXCEPT ![j] = TRUE]
  /\ UNCHANGED <<work, places, used, made, refused, reboots>>
\* The model cannot be reached: nothing of the part is written.
Fail(j, s) ==
  /\ part[j][s] = "working" /\ Becomes(j, s, "failed") /\ LeavePlace(j)
  /\ cancel' = [cancel EXCEPT ![j] = TRUE]
  /\ UNCHANGED <<work, used, made, refused, reboots>>

\* gather returns when every part has, and the batch is as good as its parts.
Settle(j) ==
  /\ work[j] = "running" /\ \A s \in DOMAIN part[j] : part[j][s] \in Settled
  /\ work' = [work EXCEPT ![j] = IF AllOk(j) THEN "ok" ELSE "error"]
  /\ UNCHANGED <<part, places, cancel, used, made, refused, reboots>>

\* The worker stops and starts: it has a new registry, and what it was at is begun again.
RebootWorker ==
  /\ reboots < MaxReboots /\ reboots' = reboots + 1
  /\ LET lost == {j \in Job : work[j] = "running"} IN
     /\ work' = [j \in Job |-> IF j \in lost THEN "unborn" ELSE work[j]]
     /\ part' = [j \in Job |-> IF j \in lost THEN NoParts ELSE part[j]]
     /\ places' = [j \in Job |-> WorkerPool]
     /\ cancel' = [j \in Job |-> cancel[j] /\ j \notin lost]
     /\ made' = [j \in Job |-> IF j \in lost THEN 0 ELSE made[j]]
     /\ refused' = refused \ lost
  /\ used' = 0

PartStep(j) == \E s \in DOMAIN part[j] : Enter(j, s) \/ Complete(j, s) \/ Fail(j, s)
BatchNext ==
  \/ RebootWorker
  \/ \E j \in Job : PartStep(j) \/ Settle(j) \/ \E n \in 1 .. MaxPlan : Begin(j, n)

\* A call of the model ends, and the event loop runs whoever has a place.
BatchFairness == \A j \in Job : WF_batchVars(PartStep(j)) /\ WF_batchVars(Settle(j))
BatchSpec == BatchInit /\ [][BatchNext]_batchVars

-----------------------------------------------------------------------------
\* A batch that runs comes to its end unless the worker stops: whichever parts fail while others
\* wait or work, every part is settled, every place is free again, and the batch is a success
\* exactly when each of its parts is.  (run_parallel)
BatchEnds ==
  \A j \in Job : work[j] = "running"
    ~> \/ work[j] = "unborn"
       \/ /\ work[j] = (IF AllOk(j) THEN "ok" ELSE "error")
          /\ places[j] = WorkerPool /\ InLineOf(j) = {}

\* What registry.py says: a tool is refused to a task that has made max_calls calls of it.
RefusedHasCalled == \A j \in refused : made[j] >= MaxCalls
=============================================================================
