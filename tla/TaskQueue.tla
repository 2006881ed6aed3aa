------------------------------ MODULE TaskQueue ------------------------------
(***************************************************************************)
(* The durable task queue of server/app: the life of ONE task from the     *)
(* user's message to its last node, as the API gateway (queue/gateway.py), *)
(* the arq workers (queue/arqs.py driving agents/runner.py and             *)
(* workflow/engine.py) and the dead-task sweeper (queue/recovery.py) move  *)
(* it through the database and the arq queue.                              *)
(*                                                                         *)
(* One task is enough: tasks share only the worker slots, and arq job ids  *)
(* are per task.  Job 0 is run_agent_task (job id = task id); job n is     *)
(* run_agent_resume for node n (job id resume-<task>-<node>).              *)
(*                                                                         *)
(* Simplifications, by name.                                               *)
(*  - Time.  An execution lasts at most ARQ_JOB_TIMEOUT (900 s), its     *)
(*    result is kept for 60 s more, and a lease, or the grace for a node   *)
(*    without one, lasts 1350 s.  So what is written now cannot run out    *)
(*    before every execution that is active now is over, and every result  *)
(*    of it forgotten: a stamp carries the jobs it has to outlast.         *)
(*  - One connection: a decision is handled before the next one is read.   *)
(*  - One sweeper: the scan lock zw:scan:lock admits one scan at a time.   *)
(*  - Sessions never refresh what they have loaded (expire_on_commit is    *)
(*    off and list_nodes returns the identity-mapped rows), and a bulk     *)
(*    UPDATE changes the loaded rows that match its WHERE in memory even   *)
(*    when no database row matched.  An execution therefore decides on its *)
(*    "view", and only the guarded UPDATE sees the database.               *)
(*  - Message texts, outputs, audit rows and events are left out; of the   *)
(*    messages only an unanswered ask card is kept (asked).                *)
(***************************************************************************)
EXTENDS Naturals, FiniteSets

CONSTANTS
  N,             \* nodes of the template, numbered in template order
  Hitl,          \* the approval nodes (type hitl / human)
  Ask,           \* the supervisor nodes, whose agent may ask the user
  Deps,          \* depends_on of every node
  MaxTries,      \* ARQ_MAX_TRIES: claims of a node, and starts of an arq job
  MaxJobs,       \* ARQ_MAX_JOBS: executions at the same time
  Faults,        \* the kinds of fault the run allows
  MaxFaults,     \* bound: faults in a behaviour
  MaxDecisions,  \* bound: decisions the user sends
  Overlap        \* may a decision be sent while a resume job is unfinished

Node == 1 .. N
Job  == 0 .. N
FaultKind == {"crash", "timeout", "raise", "api", "redis"}

ASSUME TemplateAssumption ==
  /\ N \in Nat \ {0}
  /\ Hitl \subseteq Node \ {1}     \* every template opens with a supervisor
  /\ Ask \subseteq Node \ Hitl
  /\ Deps \in [Node -> SUBSET Node]
  /\ Deps[1] = {}

ASSUME BoundAssumption ==
  /\ MaxTries \in Nat \ {0}
  /\ MaxJobs \in Nat \ {0}
  /\ Faults \subseteq FaultKind
  /\ MaxFaults \in Nat
  /\ MaxDecisions \in Nat
  /\ Overlap \in BOOLEAN

VARIABLES
  task,       \* tasks.status
  status,     \* task_nodes.status; "absent" until prepare creates the row
  attempts,   \* task_nodes.attempts
  lease,      \* task_nodes.lease, as a stamp
  row,        \* task_nodes.updated_at, as a stamp (of a running node)
  jobs,       \* arq: each job id absent, waiting, active or kept (its result)
  tries,      \* arq: job_try of the job
  dec,        \* arq: the decision stored with a resume job
  exec,       \* the execution of each job: pc, node, session view, heartbeat
  gw,         \* the gateway call in progress
  sweep,      \* the sweep in progress
  asked,      \* the nodes with an ask card nobody has answered
  decided,    \* the kinds of decision the user has sent so far
  faults,     \* faults so far
  decisions   \* decisions so far

stamps == <<lease, row>>
db     == <<task, status, attempts, lease, row>>
arq    == <<jobs, tries, dec>>
api    == <<gw, sweep>>
user   == <<asked, decided, decisions>>
vars   == <<task, status, attempts, lease, row, jobs, tries, dec, exec, gw,
            sweep, asked, decided, faults, decisions>>

-----------------------------------------------------------------------------
(* Values *)

Status     == {"absent", "pending", "queued", "running", "blocked", "done", "failed"}
TaskStatus == {"pending", "running", "done", "failed"}
Decision   == {"approve", "reject", "answer"}
JobState   == {"absent", "waiting", "active", "kept"}

\* A lease or an updated_at: its state, and the jobs that end before it does.
Stamp   == {"none", "live", "expired"} \X SUBSET Job
None    == <<"none", {}>>
Open    == <<"live", {}>>
Expired == <<"expired", {}>>

ExecPc == {"idle", "loop", "agent", "advance", "activate", "approve", "reject", "requeue"}
Idle   == [pc |-> "idle", node |-> 0, view |-> [n \in Node |-> "absent"], beat |-> FALSE]
Exec   == [pc : ExecPc, node : 0 .. N, view : [Node -> Status], beat : BOOLEAN]

GwIdle  == [pc |-> "idle", node |-> 0, dec |-> "none"]
Gw      == [pc : {"idle", "prepared", "marked", "undo", "decided"},
            node : 0 .. N, dec : Decision \cup {"none"}]

SweepIdle == [pc |-> "idle", node |-> 0, dead |-> {}, stale |-> {}]
Sweep     == [pc : {"idle", "scan", "move", "enqueue"}, node : 0 .. N,
              dead : SUBSET Node, stale : SUBSET Node]

TypeOK ==
  /\ task \in TaskStatus
  /\ status \in [Node -> Status]
  /\ attempts \in [Node -> Nat]
  /\ lease \in [Node -> Stamp]
  /\ row \in [Node -> Stamp]
  /\ jobs \in [Job -> JobState]
  /\ tries \in [Job -> Nat]
  /\ dec \in [Job -> Decision \cup {"none"}]
  /\ exec \in [Job -> Exec]
  /\ gw \in Gw
  /\ sweep \in Sweep
  /\ asked \subseteq Node
  /\ decided \subseteq Decision
  /\ faults \in Nat
  /\ decisions \in Nat

Init ==
  /\ task = "pending"
  /\ status = [n \in Node |-> "absent"]
  /\ attempts = [n \in Node |-> 0]
  /\ lease = [n \in Node |-> None]
  /\ row = [n \in Node |-> Open]
  /\ jobs = [j \in Job |-> "absent"]
  /\ tries = [j \in Job |-> 0]
  /\ dec = [j \in Job |-> "none"]
  /\ exec = [j \in Job |-> Idle]
  /\ gw = GwIdle
  /\ sweep = SweepIdle
  /\ asked = {}
  /\ decided = {}
  /\ faults = 0
  /\ decisions = 0

-----------------------------------------------------------------------------
(* Helpers *)

\* A set of nodes' first member in template order.
IsFirst(n, S) == n \in S /\ \A m \in S : n <= m

With(v, s) == {n \in Node : v[n] = s}

\* set_node_status: UPDATE ... WHERE id = n AND status = from, and did it hit.
\* Mutant: the WHERE has lost its status.
HitsAnyway(n, from) == TRUE
Hits(n, from) == status[n] = from

\* The nodes that get an agent.  Mutant: the runner forgets the node's type.
AnyType   == Node
Automatic == Node \ Hitl

\* engine.advance: everything before node n is done.  Mutant: off by one.
NearlyInOrder(n, v) == \A m \in 1 .. n - 2 : v[m] = "done"
InOrder(n, v)       == \A m \in 1 .. n - 1 : v[m] = "done"

\* recovery.py: the node has used up its claims.
ClaimsSpent(n) == attempts[n] >= MaxTries

\* Nodes a row lock does not hide: an uncommitted heartbeat of another
\* execution keeps the row of its node locked until its next commit.
Unlocked(n, j) == \A k \in Job \ {j} : ~(exec[k].beat /\ exec[k].node = n)

\* _activate_next's candidates: pending, every dependency done.
Ready(v) == {n \in With(v, "pending") : \A d \in Deps[n] : v[d] = "done"}

\* _running_stale.
RunningStale(n) == lease[n] = Expired \/ (lease[n] = None /\ row[n] = Expired)

\* What is written now outlasts the executions of now and their results.
Busy  == {j \in Job : jobs[j] \in {"active", "kept"}}
Fresh == <<"live", Busy>>

\* Nothing waits for job j any more: it crashed, or its result is forgotten.
Release(f, j) == [n \in Node |-> <<f[n][1], f[n][2] \ {j}>>]

Fault(kind) ==
  /\ kind \in Faults
  /\ faults < MaxFaults
  /\ faults' = faults + 1

\* pool.enqueue_job: None, and no error, when the job id is already known.
EnqueueJob(j, d) ==
  /\ jobs' = IF jobs[j] = "absent" THEN [jobs EXCEPT ![j] = "waiting"] ELSE jobs
  /\ dec' = IF jobs[j] = "absent" THEN [dec EXCEPT ![j] = d] ELSE dec

\* The coroutine of job j returns (or is timed out): arq keeps the result.
Finish(j, l, r) ==
  /\ exec' = [exec EXCEPT ![j] = Idle]
  /\ jobs' = [jobs EXCEPT ![j] = "kept"]
  /\ tries' = [tries EXCEPT ![j] = 0]
  /\ lease' = l
  /\ row' = r

\* What a commit of j's session makes durable: the renewals of its heartbeat.
Beaten(j) ==
  IF exec[j].beat
  THEN [lease EXCEPT ![exec[j].node] = Fresh]
  ELSE lease
BeatenRow(j) ==
  IF exec[j].beat
  THEN [row EXCEPT ![exec[j].node] = Fresh]
  ELSE row

\* The job's except clauses.  A run job marks one running node (whichever the
\* unordered query returns first) failed, and the task; a resume job returns.
JobError(j) ==
  /\ Finish(j, lease, row)
  /\ IF j = 0
     THEN /\ task' = "failed"
          /\ \/ /\ With(status, "running") = {}
                /\ UNCHANGED status
             \/ \E n \in With(status, "running") :
                  /\ Unlocked(n, j)
                  /\ status' = [status EXCEPT ![n] = "failed"]
     ELSE UNCHANGED <<task, status>>
  /\ UNCHANGED <<attempts, dec, api, user>>

-----------------------------------------------------------------------------
(* The gateway: enqueue_task for the user's message, enqueue_resume for a   *)
(* decision.                                                                *)

Prepare ==
  /\ gw.pc = "idle" /\ task = "pending"
  /\ status' = [n \in Node |-> "pending"]
  /\ task' = "running"
  /\ gw' = [gw EXCEPT !.pc = "prepared"]
  /\ UNCHANGED <<attempts, stamps, arq, exec, sweep, user, faults>>

\* Mutant: the loop does not return after the first node.
MarkAllQueued ==
  /\ gw.pc = "prepared"
  /\ status' = [n \in Node |-> IF n \in Ready(status) THEN "queued" ELSE status[n]]
  /\ gw' = [gw EXCEPT !.pc = "marked", !.node = 1]
  /\ UNCHANGED <<task, attempts, stamps, arq, exec, sweep, user, faults>>

\* The first ready node; _validate_dag has made sure that there is one.
MarkReadyQueued ==
  /\ gw.pc = "prepared"
  /\ \E n \in Node :
       /\ IsFirst(n, Ready(status))
       /\ status' = [status EXCEPT ![n] = "queued"]
       /\ gw' = [gw EXCEPT !.pc = "marked", !.node = n]
  /\ UNCHANGED <<task, attempts, stamps, arq, exec, sweep, user, faults>>

\* Mutant: the node is marked and no job enqueued.
EnqueueTaskForgotten ==
  /\ gw.pc = "marked"
  /\ gw' = GwIdle
  /\ UNCHANGED <<db, arq, exec, sweep, user, faults>>

EnqueueTask ==
  /\ gw.pc = "marked"
  /\ EnqueueJob(0, "none")
  /\ gw' = GwIdle
  /\ UNCHANGED <<db, tries, exec, sweep, user, faults>>

\* Redis fails the call: before the job is stored, or after (lost reply).
EnqueueTaskFails ==
  /\ gw.pc = "marked"
  /\ Fault("redis")
  /\ \/ EnqueueJob(0, "none")
     \/ UNCHANGED <<jobs, dec>>
  /\ gw' = [gw EXCEPT !.pc = "undo"]
  /\ UNCHANGED <<db, tries, exec, sweep, user>>

\* The compensation: the node this session saw queued goes back to pending.
UndoQueued ==
  /\ gw.pc = "undo"
  /\ status' = IF Hits(gw.node, "queued")
               THEN [status EXCEPT ![gw.node] = "pending"] ELSE status
  /\ gw' = GwIdle
  /\ UNCHANGED <<task, attempts, stamps, arq, exec, sweep, user, faults>>

\* The user answers a card: an approval card while a node is blocked, an ask
\* card while a question is open.  enqueue_resume looks for ANY node that is
\* running, blocked or queued (the query has no ORDER BY) and writes its payload.
Decide(d) ==
  /\ gw.pc = "idle"
  /\ decisions < MaxDecisions
  /\ Overlap \/ \A j \in Job \ {0} : jobs[j] \notin {"waiting", "active"}
  /\ IF d = "answer" THEN asked # {} ELSE With(status, "blocked") # {}
  /\ decisions' = decisions + 1
  /\ decided' = decided \cup {d}
  /\ LET targets == {n \in Node : status[n] \in {"running", "blocked", "queued"}}
     IN \/ \E n \in targets :
             /\ Unlocked(n, 0) /\ Unlocked(n, n)
             /\ row' = [row EXCEPT ![n] = IF status[n] = "running" THEN Fresh ELSE @]
             /\ gw' = [pc |-> "decided", node |-> n, dec |-> d]
        \/ /\ targets = {}
           /\ UNCHANGED <<row, gw>>
  /\ UNCHANGED <<task, status, attempts, lease, arq, exec, sweep, asked, faults>>

EnqueueResume ==
  /\ gw.pc = "decided"
  /\ EnqueueJob(gw.node, gw.dec)
  /\ gw' = GwIdle
  /\ UNCHANGED <<db, tries, exec, sweep, user, faults>>

\* The call fails: the user is told, nothing is undone.
EnqueueResumeFails ==
  /\ gw.pc = "decided"
  /\ Fault("redis")
  /\ \/ EnqueueJob(gw.node, gw.dec)
     \/ UNCHANGED <<jobs, dec>>
  /\ gw' = GwIdle
  /\ UNCHANGED <<db, tries, exec, sweep, user>>

\* The API process stops: the gateway call and the sweep it runs are gone.
ApiCrash ==
  /\ gw.pc # "idle" \/ sweep.pc # "idle"
  /\ Fault("api")
  /\ gw' = GwIdle
  /\ sweep' = SweepIdle
  /\ UNCHANGED <<db, arq, exec, user>>

-----------------------------------------------------------------------------
(* The worker.  StartRun is run_agent_task up to the commit of its claim;    *)
(* StartResume is run_resume up to its first update.                         *)

CanStart(j) ==
  /\ jobs[j] = "waiting"
  /\ tries[j] < MaxTries
  /\ Cardinality({k \in Job : jobs[k] = "active"}) < MaxJobs

Begin(j, pc, n, v) ==
  /\ jobs' = [jobs EXCEPT ![j] = "active"]
  /\ tries' = [tries EXCEPT ![j] = @ + 1]
  /\ exec' = [exec EXCEPT ![j] = [pc |-> pc, node |-> n, view |-> v, beat |-> FALSE]]

\* _do_claim takes one queued node, whichever the unordered query lists first.
StartRun ==
  /\ CanStart(0)
  /\ \/ /\ With(status, "queued") = {}
        /\ Begin(0, "loop", 0, status)
        /\ UNCHANGED <<status, attempts, stamps>>
     \/ \E n \in With(status, "queued") :
          /\ status' = [status EXCEPT ![n] = "running"]
          /\ attempts' = [attempts EXCEPT ![n] = @ + 1]
          /\ lease' = [lease EXCEPT ![n] = <<"live", Busy \cup {0}>>]
          /\ row' = [row EXCEPT ![n] = <<"live", Busy \cup {0}>>]
          /\ Begin(0, "loop", 0, status')
  /\ UNCHANGED <<task, dec, api, user, faults>>

Gates(v) == {n \in Hitl : v[n] \in {"running", "blocked"}}

StartResume(j) ==
  /\ j # 0 /\ CanStart(j)
  /\ \/ /\ dec[j] = "answer"                 \* the message, then run()
        /\ asked' = {}
        /\ Begin(j, "loop", 0, status)
        /\ UNCHANGED stamps
     \/ /\ dec[j] # "answer"
        /\ \E h \in Hitl :
             /\ IsFirst(h, Gates(status))
             /\ Begin(j, dec[j], h, status)
        /\ UNCHANGED <<stamps, asked>>
     \/ /\ dec[j] # "answer" /\ Gates(status) = {}   \* WorkflowStateError
        /\ Finish(j, lease, row)
        /\ UNCHANGED asked
  /\ UNCHANGED <<task, status, attempts, dec, api, decided, decisions, faults>>

\* The loop of _run_workflow: everything done, or nothing running, ends the job.
LoopEnds(j) ==
  /\ exec[j].pc = "loop"
  /\ With(exec[j].view, "running") = {}
  /\ Finish(j, lease, row)
  /\ UNCHANGED <<task, status, attempts, dec, api, user, faults>>

\* An approval node is parked as blocked and the job ends (_interrupt_approval).
InterruptApproval(j) ==
  /\ exec[j].pc = "loop"
  /\ \E n \in Hitl :
       /\ IsFirst(n, With(exec[j].view, "running"))
       /\ Unlocked(n, j)
       /\ status' = IF Hits(n, "running")
                    THEN [status EXCEPT ![n] = "blocked"] ELSE status
       /\ Finish(j, lease, [row EXCEPT ![n] = Open])
  /\ UNCHANGED <<task, attempts, dec, api, user, faults>>

\* Any other node gets its agent (_run_dispatch).
CallAgent(j) ==
  /\ exec[j].pc = "loop"
  /\ \E n \in Automatic :
       /\ IsFirst(n, With(exec[j].view, "running"))
       /\ exec' = [exec EXCEPT ![j].pc = "agent", ![j].node = n]
  /\ UNCHANGED <<db, arq, api, user, faults>>

\* liveness_beat while the agent works: renews the lease in the job's own
\* session, which nobody commits before the agent is back.
Heartbeat(j) ==
  /\ exec[j].pc = "agent" /\ ~exec[j].beat
  /\ status[exec[j].node] = "running"
  /\ Unlocked(exec[j].node, j)
  /\ exec' = [exec EXCEPT ![j].beat = TRUE]
  /\ UNCHANGED <<db, arq, api, user, faults>>

\* The agent succeeds: the audit row and the message are committed.
AgentSucceeds(j) ==
  /\ exec[j].pc = "agent"
  /\ exec' = [exec EXCEPT ![j].pc = "advance", ![j].beat = FALSE]
  /\ lease' = Beaten(j)
  /\ row' = BeatenRow(j)
  /\ UNCHANGED <<task, status, attempts, arq, api, user, faults>>

\* The supervisor needs information (_interrupt_ask): the node stays running.
AgentAsks(j) ==
  /\ exec[j].pc = "agent" /\ exec[j].node \in Ask
  /\ asked' = asked \cup {exec[j].node}
  /\ Finish(j, Beaten(j), BeatenRow(j))
  /\ UNCHANGED <<task, status, attempts, dec, api, decided, decisions, faults>>

\* The agent, a collaboration step or the review fails (_fail_node).
AgentFails(j) ==
  /\ exec[j].pc = "agent"
  /\ Unlocked(exec[j].node, j)
  /\ status' = IF Hits(exec[j].node, "running")
               THEN [status EXCEPT ![exec[j].node] = "failed"] ELSE status
  /\ task' = "failed"
  /\ Finish(j, Beaten(j), BeatenRow(j))
  /\ UNCHANGED <<attempts, dec, api, user, faults>>

\* engine.advance up to its first commit: the nodes before this one must be
\* done in the view, and the database must still have it running.
Advance(j) ==
  /\ exec[j].pc = "advance"
  /\ LET n == exec[j].node
         v == exec[j].view
     IN \/ /\ InOrder(n, v) /\ Hits(n, "running")
           /\ Unlocked(n, j)
           /\ status' = [status EXCEPT ![n] = "done"]
           /\ exec' = [exec EXCEPT ![j].pc = "activate", ![j].view[n] = "done"]
           /\ row' = [row EXCEPT ![n] = Open]
           /\ UNCHANGED <<task, attempts, lease, arq, api, user>>
        \/ /\ ~InOrder(n, v) \/ ~Hits(n, "running")
           /\ JobError(j)
  /\ UNCHANGED faults

\* advance returns: an approval's job is over, every other job loops on.
Proceed(j, view, r) ==
  IF dec[j] = "approve"
  THEN Finish(j, lease, r)
  ELSE /\ exec' = [exec EXCEPT ![j].pc = "loop", ![j].view = view]
       /\ row' = r
       /\ UNCHANGED <<lease, jobs, tries>>

\* The view of job j after _activate_next has tried its candidates up to node n.
Tried(j, n) ==
  [m \in Node |-> IF m \in Ready(exec[j].view) /\ m <= n
                  THEN "running" ELSE exec[j].view[m]]

\* engine._activate_next and the end of advance.  The candidates are tried in
\* template order until one is still pending in the database; the view shows
\* every candidate tried as running.  None left: the task is done.
Activate(j) ==
  /\ exec[j].pc = "activate"
  /\ LET hits == {n \in Ready(exec[j].view) : Hits(n, "pending")}
     IN \/ \E n \in hits :
             /\ IsFirst(n, hits)
             /\ status' = [status EXCEPT ![n] = "running"]
             /\ Proceed(j, Tried(j, n), [row EXCEPT ![n] = Fresh])
             /\ UNCHANGED task
        \/ /\ hits = {}
           /\ task' = "done"
           /\ Proceed(j, Tried(j, N), row)
           /\ UNCHANGED status
  /\ UNCHANGED <<attempts, dec, api, user, faults>>

\* run_resume, approved: blocked -> running, then advance.
Approve(j) ==
  /\ exec[j].pc = "approve"
  /\ LET h == exec[j].node
     IN \/ /\ exec[j].view[h] = "running"
           /\ exec' = [exec EXCEPT ![j].pc = "advance"]
           /\ UNCHANGED <<db, arq, api, user>>
        \/ /\ exec[j].view[h] = "blocked" /\ Hits(h, "blocked")
           /\ status' = [status EXCEPT ![h] = "running"]
           /\ row' = [row EXCEPT ![h] = Fresh]
           /\ exec' = [exec EXCEPT ![j].pc = "advance", ![j].view[h] = "running"]
           /\ UNCHANGED <<task, attempts, lease, arq, api, user>>
        \/ /\ exec[j].view[h] = "blocked" /\ ~Hits(h, "blocked")
           /\ JobError(j)
  /\ UNCHANGED faults

\* run_resume, rejected: engine.rewind of the previous node, committed ...
Rewind(j) ==
  /\ exec[j].pc = "reject"
  /\ LET p == exec[j].node - 1
     IN \/ /\ exec[j].view[p] = "done" /\ Hits(p, "done")
           /\ status' = [status EXCEPT ![p] = "running"]
           /\ row' = [row EXCEPT ![p] = Fresh]
           /\ task' = "running"
           /\ exec' = [exec EXCEPT ![j].pc = "requeue", ![j].view[p] = "running"]
           /\ UNCHANGED <<attempts, lease, arq, api, user>>
        \/ /\ exec[j].view[p] # "done" \/ ~Hits(p, "done")
           /\ JobError(j)
  /\ UNCHANGED faults

\* Mutant: the status is a misspelt string.
RequeueGateMisspelt(j) ==
  /\ exec[j].pc = "requeue"
  /\ status' = [status EXCEPT ![exec[j].node] = "waiting"]
  /\ exec' = [exec EXCEPT ![j].pc = "loop"]
  /\ UNCHANGED <<task, attempts, stamps, arq, api, user, faults>>

\* ... and, in a second transaction, the approval node back to pending.
RequeueGate(j) ==
  /\ exec[j].pc = "requeue"
  /\ LET h == exec[j].node
         parked == exec[j].view[h] = "blocked"
     IN /\ status' = IF parked /\ Hits(h, "blocked")
                     THEN [status EXCEPT ![h] = "pending"] ELSE status
        /\ exec' = [exec EXCEPT ![j].pc = "loop",
                     ![j].view[h] = IF parked THEN "pending" ELSE @]
  /\ UNCHANGED <<task, attempts, stamps, arq, api, user, faults>>

-----------------------------------------------------------------------------
(* What happens to a job from outside.                                       *)

\* Any other exception in the job (a database error, the step limit).
JobRaises(j) ==
  /\ exec[j].pc # "idle"
  /\ Fault("raise")
  /\ JobError(j)

\* The worker process dies or is shut down: the transaction is rolled back and
\* arq runs the job again, until it was started MaxTries times.
WorkerCrash(j) ==
  /\ exec[j].pc # "idle"
  /\ Fault("crash")
  /\ exec' = [exec EXCEPT ![j] = Idle]
  /\ jobs' = [jobs EXCEPT ![j] = "waiting"]
  /\ lease' = Release(lease, j)
  /\ row' = Release(row, j)
  /\ UNCHANGED <<task, status, attempts, tries, dec, api, user>>

\* arq drops a job that was started too often.
JobExhausted(j) ==
  /\ jobs[j] = "waiting" /\ tries[j] >= MaxTries
  /\ jobs' = [jobs EXCEPT ![j] = "kept"]
  /\ tries' = [tries EXCEPT ![j] = 0]
  /\ UNCHANGED <<db, dec, exec, api, user, faults>>

\* job_timeout cancels the coroutine; CancelledError passes every except clause.
JobTimeout(j) ==
  /\ exec[j].pc # "idle"
  /\ Fault("timeout")
  /\ Finish(j, lease, row)
  /\ UNCHANGED <<task, status, attempts, dec, api, user>>

\* keep_result is over: the job id can be used again.
ResultExpires(j) ==
  /\ jobs[j] = "kept"
  /\ jobs' = [jobs EXCEPT ![j] = "absent"]
  /\ lease' = Release(lease, j)
  /\ row' = Release(row, j)
  /\ UNCHANGED <<task, status, attempts, tries, dec, exec, api, user, faults>>

LeaseRunsOut(n) ==
  /\ lease[n] = Open
  /\ lease' = [lease EXCEPT ![n] = Expired]
  /\ UNCHANGED <<task, status, attempts, row, arq, exec, api, user, faults>>

\* Only the age of a running node without a lease is ever looked at.
RowAges(n) ==
  /\ status[n] = "running" /\ lease[n] = None /\ row[n] = Open
  /\ row' = [row EXCEPT ![n] = Expired]
  /\ UNCHANGED <<task, status, attempts, lease, arq, exec, api, user, faults>>

-----------------------------------------------------------------------------
(* The sweeper, resume_inflight.  A scan reads the running nodes once and    *)
(* sorts them: too many attempts goes first, whatever the node's lease or    *)
(* type says; approval nodes and fresh nodes are passed over.  For each node *)
(* one session then reads the task, and another moves the node.              *)

Scan ==
  LET running == With(status, "running")
      dead    == {n \in running : ClaimsSpent(n)}
      stale   == {n \in running \ (dead \cup Hitl) : RunningStale(n)}
  IN /\ sweep.pc = "idle"
     /\ dead \cup stale # {}
     /\ sweep' = [pc |-> "scan", node |-> 0, dead |-> dead, stale |-> stale]
     /\ UNCHANGED <<db, arq, exec, gw, user, faults>>

\* The sweep goes on with what is left of its scan.
SweepOn(dead, stale) ==
  sweep' = IF dead \cup stale = {} THEN SweepIdle
           ELSE [pc |-> "scan", node |-> 0, dead |-> dead, stale |-> stale]

TaskIsOver == task \in {"done", "failed"}

\* The task of the next node is read: the node is ignored if it is over, and
\* moved in a later transaction, that does not look again, if it is not.
ReadTask(n) ==
  /\ sweep.pc = "scan" /\ n \in sweep.dead \cup sweep.stale
  /\ IF TaskIsOver
     THEN SweepOn(sweep.dead \ {n}, sweep.stale \ {n})
     ELSE sweep' = [sweep EXCEPT !.pc = "move", !.node = n]
  /\ UNCHANGED <<db, arq, exec, gw, user, faults>>

\* _dead_letter.
DeadLetter(n) ==
  /\ sweep.pc = "move" /\ sweep.node = n /\ n \in sweep.dead
  /\ SweepOn(sweep.dead \ {n}, sweep.stale)
  /\ IF status[n] \in {"queued", "running"}
     THEN /\ Unlocked(n, 0) /\ Unlocked(n, n)
          /\ status' = [status EXCEPT ![n] = "failed"]
          /\ lease' = [lease EXCEPT ![n] = None]
          /\ task' = "failed"
     ELSE UNCHANGED <<task, status, lease>>
  /\ UNCHANGED <<attempts, row, arq, exec, gw, user, faults>>

\* A stale node goes back to queued, without its lease, in one transaction.
Requeue(n) ==
  /\ sweep.pc = "move" /\ sweep.node = n /\ n \in sweep.stale
  /\ IF Hits(n, "running")
     THEN /\ Unlocked(n, 0) /\ Unlocked(n, n)
          /\ status' = [status EXCEPT ![n] = "queued"]
          /\ lease' = [lease EXCEPT ![n] = None]
          /\ row' = [row EXCEPT ![n] = Open]
          /\ sweep' = [sweep EXCEPT !.pc = "enqueue", !.node = 0, !.stale = @ \ {n}]
     ELSE /\ SweepOn(sweep.dead, sweep.stale \ {n})
          /\ UNCHANGED <<status, stamps>>
  /\ UNCHANGED <<task, attempts, arq, exec, gw, user, faults>>

\* Mutant: the node is given back and no job enqueued.
SweepEnqueueForgotten ==
  /\ sweep.pc = "enqueue"
  /\ sweep' = SweepIdle
  /\ UNCHANGED <<db, arq, exec, gw, user, faults>>

\* The run job is enqueued again; the task's other nodes are then passed over.
SweepEnqueue ==
  /\ sweep.pc = "enqueue"
  /\ EnqueueJob(0, "none")
  /\ sweep' = SweepIdle
  /\ UNCHANGED <<db, tries, exec, gw, user, faults>>

\* The enqueue fails: a warning, and on with the scan.
SweepEnqueueFails ==
  /\ sweep.pc = "enqueue"
  /\ Fault("redis")
  /\ \/ EnqueueJob(0, "none")
     \/ UNCHANGED <<jobs, dec>>
  /\ SweepOn(sweep.dead, sweep.stale)
  /\ UNCHANGED <<db, tries, exec, gw, user>>

-----------------------------------------------------------------------------

Gateway ==
  \/ Prepare \/ MarkReadyQueued \/ EnqueueTask \/ UndoQueued \/ EnqueueResume

AgentReturns(j) == AgentSucceeds(j) \/ AgentAsks(j) \/ AgentFails(j)

Step(j) ==
  \/ LoopEnds(j) \/ InterruptApproval(j) \/ CallAgent(j) \/ AgentReturns(j)
  \/ Advance(j) \/ Activate(j) \/ Approve(j) \/ Rewind(j) \/ RequeueGate(j)

Clock(n) == LeaseRunsOut(n) \/ RowAges(n)

Sweeper ==
  \/ Scan \/ SweepEnqueue
  \/ \E n \in Node : ReadTask(n) \/ DeadLetter(n) \/ Requeue(n)

Environment ==
  \/ EnqueueTaskFails \/ EnqueueResumeFails \/ SweepEnqueueFails \/ ApiCrash
  \/ \E d \in Decision : Decide(d)
  \/ \E j \in Job : Heartbeat(j) \/ JobRaises(j) \/ WorkerCrash(j) \/ JobTimeout(j)

Next ==
  \/ Gateway
  \/ StartRun
  \/ \E j \in Job : StartResume(j) \/ Step(j) \/ JobExhausted(j) \/ ResultExpires(j)
  \/ \E n \in Node : Clock(n)
  \/ Sweeper
  \/ Environment

\* Every process that is not failing goes on: arq polls its queues, coroutines
\* are resumed, clocks advance and the sweeper runs every 30 seconds.  Users,
\* heartbeats and faults are not obliged to happen.
Fairness ==
  /\ WF_vars(Gateway)
  /\ WF_vars(StartRun)
  /\ \A j \in Job : WF_vars(StartResume(j)) /\ WF_vars(Step(j))
  /\ \A j \in Job : WF_vars(JobExhausted(j)) /\ WF_vars(ResultExpires(j))
  /\ \A n \in Node : WF_vars(Clock(n))
  /\ WF_vars(Sweeper)

Spec == Init /\ [][Next]_vars
FairSpec == Spec /\ Fairness

-----------------------------------------------------------------------------
(* Properties that hold.                                                     *)

\* However jobs are retried, timed out, swept and doubled, a node is claimed at
\* most ARQ_MAX_TRIES times, and a node in the queue may still be claimed: the
\* sweeper (recovery.py) never gives back a node that has used up its claims,
\* although it decides on a scan made earlier.  (Part of ImplementsLifecycle.)
AttemptsBounded ==
  \A n \in Node :
    /\ attempts[n] <= MaxTries
    /\ status[n] = "queued" => attempts[n] < MaxTries

\* No failure, retry or second executor gets the task past an approval node
\* without the user having approved (runner.py parks it, only run_resume moves it).
GateNeedsApproval ==
  (\E h \in Hitl : status[h] = "done") => "approve" \in decided

\* A finished node is reopened only on the user's rejection: no retry, sweep or
\* late executor undoes work that is done (engine.rewind has one caller).
ReopenNeedsReject ==
  [][\A n \in Node :
       status[n] = "done" /\ status'[n] # "done" => "reject" \in decided]_vars

\* As long as decisions do not overtake each other, a node is finished only when
\* everything before it is, whatever crashes (engine.advance's order check, which
\* reads the session's view and not the database).
PrefixDone ==
  \A n \in Node : status[n] = "done" => \A m \in 1 .. n - 1 : status[m] = "done"

\* As long as no decision overtakes another and no worker breaks off an execution,
\* one node at most is running or queued (engine._activate_next activates one).
SingleActive ==
  \A m, n \in Node :
    {status[m], status[n]} \subseteq {"running", "queued"} => m = n

\* Without faults and without overtaking decisions the task never hangs: it comes
\* to an end or to a card that waits for the user, again and again, and no queued node
\* stays queued (gateway.py, item 4: the sweeper enqueues again what is stranded).
Settles ==
  /\ []<>(TaskIsOver \/ With(status, "blocked") # {} \/ asked # {})
  /\ \A n \in Node : status[n] = "queued" ~> status[n] # "queued"

\* However executions, sweeps and decisions interleave and fail, every step of the
\* program is one step of the task's life, or leaves it alone: no node changes its
\* status twice in a commit, by a claim that is not counted, or against its kind.
Lifecycle == INSTANCE TaskLifecycle
ImplementsLifecycle == Lifecycle!Spec

-----------------------------------------------------------------------------
(* A property the repository states and the code does not have.              *)

\* A node an agent is working on is not taken back by the sweeper.
ExecutingNotSwept ==
  [][\A n \in Node : \A j \in Job :
       status[n] = "running" /\ status'[n] = "queued" =>
         ~(exec[j].pc = "agent" /\ exec[j].node = n)]_vars
=============================================================================
