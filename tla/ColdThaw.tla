------------------------------ MODULE ColdThaw ------------------------------
(***************************************************************************)
(* The bulk thaw of artifacts in the coldest tier (cold_thawing.py): an    *)
(* operator is given an estimate with a signed token, confirms it, and a   *)
(* job in the process's memory restores one artifact after another.        *)
(*                                                                         *)
(* Simplifications, by name.                                               *)
(*  - A scan finds any number of artifacts up to a bound; an estimate's    *)
(*    figures are left out, and so is the throttle, which only waits.      *)
(*  - Expire ends a token; nothing else does.                              *)
(***************************************************************************)
EXTENDS Naturals, Sequences

CONSTANTS
  Operator,    \* administrators
  MaxThaws,    \* bound: jobs confirmed
  MaxItems,    \* bound: artifacts a scan finds
  MaxRetry     \* COLD_THAW_MAX_RETRY

ASSUME ThawBounds == MaxThaws \in Nat /\ MaxItems \in Nat /\ MaxRetry \in Nat

VARIABLES
  tokens,      \* signed estimates that have not expired
  thaws,       \* _jobs, in the order of their confirmation
  thawWorker,  \* the worker loop runs
  thawRestarts \* times the process has been started again

thawVars == <<tokens, thaws, thawWorker, thawRestarts>>

\* A scope is one owner's artifacts, or those of all.
Token == [scope : {"owner", "all"}, op : Operator]
Thaw == [scope : {"owner", "all"}, by : Operator, status : {"queued", "running", "done", "cancelled"},
         runner : {"none", "scanning", "restoring", "dead"}, total : 0 .. MaxItems,
         cursor : 0 .. MaxItems, attempts : 0 .. MaxRetry, cancelled : BOOLEAN]

ThawTypeOK ==
  /\ tokens \subseteq Token /\ thaws \in Seq(Thaw) /\ Len(thaws) <= MaxThaws
  /\ thawWorker \in BOOLEAN /\ thawRestarts \in 0 .. 1

ThawInit == tokens = {} /\ thaws = <<>> /\ thawWorker = TRUE /\ thawRestarts = 0

ThawGoes(j, job) == thaws' = [thaws EXCEPT ![j] = job] /\ UNCHANGED <<tokens, thawWorker, thawRestarts>>
Thawing(j, stage) == j \in DOMAIN thaws /\ thaws[j].status = "running" /\ thaws[j].runner = stage

\* estimate: the scan, and a token bound to who asked.
Estimate ==
  /\ \E t \in Token : t \notin tokens /\ tokens' = tokens \cup {t}
  /\ UNCHANGED <<thaws, thawWorker, thawRestarts>>
Expire ==
  /\ \E t \in tokens : tokens' = tokens \ {t}
  /\ UNCHANGED <<thaws, thawWorker, thawRestarts>>

\* A token is used up by a job of the same owner, whatever became of it; a job for all owners
\* keeps None where the token has the empty string, and uses up nothing.
Used(t) == t.scope = "owner" /\ \E j \in DOMAIN thaws : thaws[j].scope = "owner"
NewThaw(t) == [scope |-> t.scope, by |-> t.op, status |-> "queued", runner |-> "none", total |-> 0,
               cursor |-> 0, attempts |-> 0, cancelled |-> FALSE]
Confirm ==
  /\ Len(thaws) < MaxThaws
  /\ \E t \in tokens : ~Used(t) /\ thaws' = Append(thaws, NewThaw(t))
  /\ UNCHANGED <<tokens, thawWorker, thawRestarts>>

\* The worker starts a runner for every queued job; the runner marks it before it waits.
Begins(job) == IF job.status = "queued" THEN [job EXCEPT !.status = "running", !.runner = "scanning"] ELSE job
WorkerRound ==
  /\ thawWorker /\ \E j \in DOMAIN thaws : thaws[j].status = "queued"
  /\ thaws' = [j \in DOMAIN thaws |-> Begins(thaws[j])]
  /\ UNCHANGED <<tokens, thawWorker, thawRestarts>>
Scan(j) ==
  /\ Thawing(j, "scanning")
  /\ \E n \in 0 .. MaxItems : ThawGoes(j, [thaws[j] EXCEPT !.runner = "restoring", !.total = n])
\* A scan that fails ends the runner's task and leaves the job as it is.
ScanFails(j) == Thawing(j, "scanning") /\ ThawGoes(j, [thaws[j] EXCEPT !.runner = "dead"])

\* Mutants: one attempt too many; the failed artifact is tried again for ever.
AttemptsMore(job) == IF job.attempts <= MaxRetry
                     THEN [job EXCEPT !.attempts = @ + 1]
                     ELSE [job EXCEPT !.attempts = 0, !.cursor = @ + 1]
AttemptsForever(job) == [job EXCEPT !.attempts = (@ + 1) % (MaxRetry + 1)]
\* ensure_cold_restore takes keywords and is called by position: every attempt raises, waits
\* and is made again; after the last one the artifact counts as failed.
Attempts(job) == IF job.attempts < MaxRetry
                 THEN [job EXCEPT !.attempts = @ + 1]
                 ELSE [job EXCEPT !.attempts = 0, !.cursor = @ + 1]
TryRestore(j) ==
  /\ Thawing(j, "restoring") /\ thaws[j].cursor < thaws[j].total
  /\ ~(thaws[j].cancelled /\ thaws[j].attempts = 0)
  /\ ThawGoes(j, Attempts(thaws[j]))
\* The end of the run; the snapshot of _persist is never written (it opens a session from the
\* factory itself, and the error is only logged).
Finish(j) ==
  /\ Thawing(j, "restoring")
  /\ thaws[j].cursor = thaws[j].total \/ (thaws[j].cancelled /\ thaws[j].attempts = 0)
  /\ ThawGoes(j, [thaws[j] EXCEPT !.status = IF thaws[j].cancelled THEN "cancelled" ELSE "done"])

\* Only its creator cancels a job, at any time.
CancelThaw(j) ==
  /\ j \in DOMAIN thaws /\ ~thaws[j].cancelled
  /\ \E op \in Operator : op = thaws[j].by /\ ThawGoes(j, [thaws[j] EXCEPT !.cancelled = TRUE])

\* stop_worker cancels the loop, not the runners; the process ends and start_worker's recover
\* finds no snapshot: the jobs are gone.
StopWorker == thawWorker /\ thawRestarts = 0 /\ thawWorker' = FALSE /\ UNCHANGED <<tokens, thaws, thawRestarts>>
StartWorker ==
  /\ ~thawWorker /\ thawWorker' = TRUE /\ thaws' = <<>> /\ thawRestarts' = thawRestarts + 1
  /\ UNCHANGED tokens

ThawStep == WorkerRound \/ StartWorker \/ \E j \in 1 .. MaxThaws : Scan(j) \/ TryRestore(j) \/ Finish(j)
ThawNext ==
  \/ Estimate \/ Expire \/ Confirm \/ WorkerRound \/ StopWorker \/ StartWorker
  \/ \E j \in 1 .. MaxThaws : Scan(j) \/ ScanFails(j) \/ TryRestore(j) \/ Finish(j) \/ CancelThaw(j)

\* The event loop goes on with the worker and with every runner.
ThawFairness == /\ WF_thawVars(WorkerRound) /\ WF_thawVars(StartWorker)
                /\ \A j \in 1 .. MaxThaws : WF_thawVars(Scan(j) \/ ScanFails(j)) /\ WF_thawVars(TryRestore(j))
                                            /\ WF_thawVars(Finish(j))
ThawSpec == ThawInit /\ [][ThawNext]_thawVars /\ ThawFairness

-----------------------------------------------------------------------------
\* A confirmed job comes to an end (done or cancelled), dies in its scan, or is lost with the
\* process: retries are bounded and a cancelled job is not run on.  (_run_job, _worker_loop)
Over(j) == j \notin DOMAIN thaws \/ thaws[j].status \in {"done", "cancelled"} \/ thaws[j].runner = "dead"
ThawEnds == \A j \in 1 .. MaxThaws : (j \in DOMAIN thaws) ~> Over(j)
=============================================================================
