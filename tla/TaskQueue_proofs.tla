-------------------------- MODULE TaskQueue_proofs --------------------------
(* Safety of TaskQueue for every template, every bound and every set of      *)
(* faults, and that it implements TaskLifecycle.                             *)
EXTENDS TaskQueue, TLAPS

-----------------------------------------------------------------------------
(* The inductive invariant, in parts.                                        *)

\* Until the first node is marked nothing has happened to the task: no row has
\* been claimed, no job exists, nobody is sweeping.
Untouched ==
  /\ task = "pending" => gw.pc = "idle"
  /\ task = "pending" \/ gw.pc = "prepared" =>
       /\ \A n \in Node : /\ status[n] \in {"absent", "pending"}
                          /\ lease[n] = None
                          /\ attempts[n] = 0
       /\ \A j \in Job : jobs[j] = "absent" /\ exec[j].pc = "idle"
       /\ sweep = SweepIdle
       /\ asked = {}

\* A resume job carries a decision of the user, from the gateway to the worker.
JobsDecided ==
  /\ gw.pc = "decided" => gw.node \in Node /\ gw.dec \in decided
  /\ \A j \in Job \ {0} : jobs[j] # "absent" => dec[j] \in decided
  /\ \A j \in Job : exec[j].pc # "idle" => jobs[j] = "active"

\* What an execution may do to its node: agents are never at an approval node,
\* an approval node advances on an approval, and a rewind follows a rejection.
ExecsEntitled ==
  \A j \in Job :
    /\ exec[j].pc \in {"agent", "advance"} => exec[j].node \in Node
    /\ exec[j].pc \in {"approve", "reject", "requeue"} => exec[j].node \in Hitl
    /\ exec[j].pc = "agent" => exec[j].node \notin Hitl
    /\ exec[j].pc = "advance" /\ exec[j].node \in Hitl => "approve" \in decided
    /\ exec[j].pc = "approve" => "approve" \in decided
    /\ exec[j].pc \in {"reject", "requeue"} => "reject" \in decided

\* The nodes a sweep still holds: those to be returned have a claim left, are no
\* approvals and not in the queue; those to be given up have none left.
StaleClaimable ==
  /\ \A n \in sweep.stale :
       attempts[n] < MaxTries /\ status[n] # "queued" /\ n \notin Hitl
  /\ \A n \in sweep.dead : ClaimsSpent(n)

Inv ==
  /\ TypeOK
  /\ Untouched
  /\ JobsDecided
  /\ ExecsEntitled
  /\ StaleClaimable
  /\ AttemptsBounded
  /\ GateNeedsApproval

-----------------------------------------------------------------------------
(* Types of the values the actions build.                                    *)

\* Node 0 stands for "no node", and job n belongs to node n.
LEMMA NodesAndJobs ==
  /\ N \in Nat \ {0}
  /\ Job = 0 .. N
  /\ Node = Job \ {0}
  /\ 0 \in Job
  /\ Hitl \subseteq Node
BY TemplateAssumption DEF Node, Job

LEMMA IdleTypes == Idle \in Exec /\ GwIdle \in Gw /\ SweepIdle \in Sweep
BY NodesAndJobs DEF Idle, Exec, ExecPc, Status, GwIdle, Gw, SweepIdle, Sweep

LEMMA NewExec ==
  ASSUME NEW p \in ExecPc, NEW n \in Job, NEW v \in [Node -> Status],
         NEW b \in BOOLEAN
  PROVE  [pc |-> p, node |-> n, view |-> v, beat |-> b] \in Exec
BY NodesAndJobs DEF Exec

\* The updates of an execution that the actions make.
LEMMA ExecNodeUpdate ==
  ASSUME NEW e \in Exec, NEW p \in ExecPc, NEW n \in Job
  PROVE  [e EXCEPT !.pc = p, !.node = n] \in Exec
BY NodesAndJobs DEF Exec

LEMMA ExecViewUpdate ==
  ASSUME NEW e \in Exec, NEW p \in ExecPc, NEW v \in [Node -> Status]
  PROVE  [e EXCEPT !.pc = p, !.view = v] \in Exec
BY DEF Exec

LEMMA ExecFields ==
  ASSUME NEW e \in Exec
  PROVE  /\ e.pc \in ExecPc
         /\ e.node \in Job
         /\ e.view \in [Node -> Status]
         /\ e.beat \in BOOLEAN
BY NodesAndJobs DEF Exec

LEMMA StampTypes ==
  /\ {None, Open, Expired, Fresh} \subseteq Stamp
  /\ <<"live", Busy \cup {0}>> \in Stamp
BY NodesAndJobs DEF None, Open, Expired, Fresh, Busy, Stamp

\* Renewals and releases of stamps yield stamps.
LEMMA StampFunctions ==
  ASSUME TypeOK, NEW j \in Job
  PROVE  /\ Beaten(j) \in [Node -> Stamp]
         /\ BeatenRow(j) \in [Node -> Stamp]
         /\ Release(lease, j) \in [Node -> Stamp]
         /\ Release(row, j) \in [Node -> Stamp]
<1>1. Beaten(j) \in [Node -> Stamp] /\ BeatenRow(j) \in [Node -> Stamp]
  BY StampTypes DEF TypeOK, Beaten, BeatenRow
<1>2. ASSUME NEW f \in [Node -> Stamp] PROVE Release(f, j) \in [Node -> Stamp]
  BY DEF Release, Stamp
<1>3. QED
  BY <1>1, <1>2 DEF TypeOK

LEMMA BeginTypes ==
  ASSUME TypeOK, NEW j \in Job, NEW p \in ExecPc, NEW n \in Job,
         NEW v \in [Node -> Status], Begin(j, p, n, v)
  PROVE  exec' \in [Job -> Exec] /\ jobs' \in [Job -> JobState] /\ tries' \in [Job -> Nat]
<1>1. exec' \in [Job -> Exec]
  BY NewExec DEF TypeOK, Begin
<1>2. jobs' \in [Job -> JobState] /\ tries' \in [Job -> Nat]
  BY DEF TypeOK, Begin, JobState
<1>3. QED
  BY <1>1, <1>2

LEMMA FinishTypes ==
  ASSUME TypeOK, NEW j \in Job, NEW l \in [Node -> Stamp], NEW r \in [Node -> Stamp],
         Finish(j, l, r)
  PROVE  /\ exec' \in [Job -> Exec] /\ jobs' \in [Job -> JobState]
         /\ tries' \in [Job -> Nat] /\ lease' \in [Node -> Stamp]
         /\ row' \in [Node -> Stamp]
<1>1. exec' \in [Job -> Exec]
  BY IdleTypes DEF TypeOK, Finish
<1>2. QED
  BY <1>1 DEF TypeOK, Finish, JobState

LEMMA JobErrorTypes ==
  ASSUME TypeOK, NEW j \in Job, JobError(j), faults' \in Nat
  PROVE  TypeOK'
<1>1. task' \in TaskStatus /\ status' \in [Node -> Status]
  BY DEF TypeOK, JobError, TaskStatus, Status, With
<1>2. /\ exec' \in [Job -> Exec] /\ jobs' \in [Job -> JobState]
      /\ tries' \in [Job -> Nat] /\ lease' \in [Node -> Stamp]
      /\ row' \in [Node -> Stamp]
  BY FinishTypes DEF TypeOK, JobError
<1>3. QED
  BY <1>1, <1>2 DEF TypeOK, JobError, api, user

LEMMA EnqueueTypes ==
  ASSUME TypeOK, NEW j \in Job, NEW d \in Decision \cup {"none"}, EnqueueJob(j, d)
  PROVE  jobs' \in [Job -> JobState] /\ dec' \in [Job -> Decision \cup {"none"}]
BY DEF TypeOK, EnqueueJob, JobState

-----------------------------------------------------------------------------
(* Type correctness of every step.                                           *)

LEMMA GatewayTypes ==
  ASSUME TypeOK, JobsDecided,
         \/ Gateway \/ EnqueueTaskFails \/ EnqueueResumeFails \/ ApiCrash
         \/ \E d \in Decision : Decide(d)
  PROVE  TypeOK'
<1> USE DEF TypeOK, stamps, db, arq, api, user
<1>1. CASE Prepare
  BY <1>1 DEF Prepare, Status, TaskStatus, Gw
<1>2. CASE MarkReadyQueued
  <2>1. gw' \in Gw
    BY <1>2, NodesAndJobs DEF MarkReadyQueued, Gw
  <2>2. status' \in [Node -> Status]
    BY <1>2 DEF MarkReadyQueued, Status
  <2>3. QED
    BY <1>2, <2>1, <2>2 DEF MarkReadyQueued
<1>3. CASE EnqueueTask \/ EnqueueTaskFails
  <2>1. EnqueueJob(0, "none") \/ UNCHANGED <<jobs, dec>>
    BY <1>3 DEF EnqueueTask, EnqueueTaskFails
  <2>2. jobs' \in [Job -> JobState] /\ dec' \in [Job -> Decision \cup {"none"}]
    BY <2>1, EnqueueTypes, NodesAndJobs
  <2>3. gw' \in Gw
    BY <1>3, IdleTypes DEF EnqueueTask, EnqueueTaskFails, Gw
  <2>4. QED
    BY <1>3, <2>2, <2>3 DEF EnqueueTask, EnqueueTaskFails, Fault
<1>4. CASE UndoQueued
  BY <1>4, IdleTypes DEF UndoQueued, Status
<1>5. CASE EnqueueResume \/ EnqueueResumeFails
  <2>1. gw.node \in Job /\ gw.dec \in Decision \cup {"none"}
    BY NodesAndJobs DEF Gw
  <2>2. EnqueueJob(gw.node, gw.dec) \/ UNCHANGED <<jobs, dec>>
    BY <1>5 DEF EnqueueResume, EnqueueResumeFails
  <2>3. jobs' \in [Job -> JobState] /\ dec' \in [Job -> Decision \cup {"none"}]
    BY <2>1, <2>2, EnqueueTypes
  <2>4. QED
    BY <1>5, <2>3, IdleTypes DEF EnqueueResume, EnqueueResumeFails, Fault
<1>6. CASE ApiCrash
  BY <1>6, IdleTypes DEF ApiCrash, Fault
<1>7. ASSUME NEW d \in Decision, Decide(d) PROVE TypeOK'
  <2>1. CASE UNCHANGED <<row, gw>>
    BY <1>7, <2>1 DEF Decide
  <2>2. ASSUME NEW n \in Node,
               row' = [row EXCEPT ![n] = IF status[n] = "running" THEN Fresh ELSE @],
               gw' = [pc |-> "decided", node |-> n, dec |-> d]
        PROVE  TypeOK'
    <3>1. gw' \in Gw
      BY <2>2, NodesAndJobs DEF Gw
    <3>2. row' \in [Node -> Stamp]
      BY <2>2, StampTypes
    <3>3. QED
      BY <1>7, <3>1, <3>2 DEF Decide
  <2>3. QED
    BY <1>7, <2>1, <2>2 DEF Decide
<1>8. QED
  BY <1>1, <1>2, <1>3, <1>4, <1>5, <1>6, <1>7 DEF Gateway

LEMMA StartTypes ==
  ASSUME TypeOK, JobsDecided, decided \subseteq Decision,
         StartRun \/ \E j \in Job : StartResume(j)
  PROVE  TypeOK'
<1> USE DEF TypeOK, stamps, db, arq, api, user
<1>1. CASE StartRun
  <2>1. CASE Begin(0, "loop", 0, status) /\ UNCHANGED <<status, attempts, stamps>>
    BY <1>1, <2>1, BeginTypes, NodesAndJobs DEF StartRun, ExecPc
  <2>2. ASSUME NEW n \in Node,
               status' = [status EXCEPT ![n] = "running"],
               attempts' = [attempts EXCEPT ![n] = @ + 1],
               lease' = [lease EXCEPT ![n] = <<"live", Busy \cup {0}>>],
               row' = [row EXCEPT ![n] = <<"live", Busy \cup {0}>>],
               Begin(0, "loop", 0, status')
        PROVE  TypeOK'
    <3>1. status' \in [Node -> Status]
      BY <2>2 DEF Status
    <3>2. exec' \in [Job -> Exec] /\ jobs' \in [Job -> JobState] /\ tries' \in [Job -> Nat]
      BY <2>2, <3>1, BeginTypes, NodesAndJobs DEF ExecPc
    <3>3. lease' \in [Node -> Stamp] /\ row' \in [Node -> Stamp]
      BY <2>2, StampTypes
    <3>4. QED
      BY <1>1, <2>2, <3>1, <3>2, <3>3 DEF StartRun
  <2>3. QED
    BY <1>1, <2>1, <2>2 DEF StartRun, With
<1>2. ASSUME NEW j \in Job, StartResume(j) PROVE TypeOK'
  <2>1. asked' \subseteq Node
    BY <1>2 DEF StartResume
  <2>2. CASE Begin(j, "loop", 0, status) /\ UNCHANGED stamps
    BY <1>2, <2>1, <2>2, BeginTypes, NodesAndJobs DEF StartResume, ExecPc
  <2>3. ASSUME NEW h \in Hitl, dec[j] # "answer", Begin(j, dec[j], h, status),
               UNCHANGED stamps
        PROVE  TypeOK'
    <3>1. dec[j] \in ExecPc
      BY <1>2, <2>3, NodesAndJobs DEF StartResume, CanStart, JobsDecided, Decision, ExecPc
    <3>2. h \in Job
      BY NodesAndJobs
    <3>3. QED
      BY <1>2, <2>1, <2>3, <3>1, <3>2, BeginTypes DEF StartResume
  <2>4. CASE Finish(j, lease, row)
    BY <1>2, <2>1, <2>4, FinishTypes DEF StartResume
  <2>5. QED
    BY <1>2, <2>2, <2>3, <2>4 DEF StartResume
<1>3. QED
  BY <1>1, <1>2

LEMMA ExecutionTypes ==
  ASSUME TypeOK, NEW j \in Job, Step(j)
  PROVE  TypeOK'
<1> USE DEF TypeOK, stamps, db, arq, api, user
<1>1. CASE LoopEnds(j)
  BY <1>1, FinishTypes DEF LoopEnds
<1>2. CASE InterruptApproval(j)
  <2>1. PICK n \in Hitl :
          /\ status' = IF Hits(n, "running")
                       THEN [status EXCEPT ![n] = "blocked"] ELSE status
          /\ Finish(j, lease, [row EXCEPT ![n] = Open])
    BY <1>2 DEF InterruptApproval
  <2>2. status' \in [Node -> Status]
    BY <2>1 DEF Status
  <2>3. [row EXCEPT ![n] = Open] \in [Node -> Stamp]
    BY StampTypes
  <2>4. QED
    BY <1>2, <2>1, <2>2, <2>3, FinishTypes DEF InterruptApproval
<1>3. CASE CallAgent(j)
  <2>1. PICK n \in Automatic : exec' = [exec EXCEPT ![j].pc = "agent", ![j].node = n]
    BY <1>3 DEF CallAgent
  <2>2. n \in Job /\ "agent" \in ExecPc
    BY NodesAndJobs DEF Automatic, ExecPc
  <2>3. [exec[j] EXCEPT !.pc = "agent", !.node = n] \in Exec
    BY <2>2, ExecNodeUpdate
  <2>4. QED
    BY <1>3, <2>1, <2>3 DEF CallAgent
<1>4. CASE AgentSucceeds(j)
  <2>1. [exec[j] EXCEPT !.pc = "advance", !.beat = FALSE] \in Exec
    BY DEF ExecPc, Exec
  <2>2. QED
    BY <1>4, <2>1, StampFunctions DEF AgentSucceeds
<1>5. CASE AgentAsks(j)
  <2>1. asked' \subseteq Node
    BY <1>5, TemplateAssumption DEF AgentAsks
  <2>2. QED
    BY <1>5, <2>1, StampFunctions, FinishTypes DEF AgentAsks
<1>6. CASE AgentFails(j)
  <2>1. status' \in [Node -> Status] /\ task' \in TaskStatus
    BY <1>6 DEF AgentFails, Status, TaskStatus
  <2>2. QED
    BY <1>6, <2>1, StampFunctions, FinishTypes DEF AgentFails
<1>7. CASE Advance(j)
  <2>1. CASE JobError(j)
    BY <1>7, <2>1, JobErrorTypes DEF Advance
  <2>2. CASE /\ status' = [status EXCEPT ![exec[j].node] = "done"]
             /\ exec' = [exec EXCEPT ![j].pc = "activate", ![j].view[exec[j].node] = "done"]
             /\ row' = [row EXCEPT ![exec[j].node] = Open]
             /\ UNCHANGED <<task, attempts, lease, arq, api, user>>
    <3>1. status' \in [Node -> Status] /\ row' \in [Node -> Stamp]
      BY <2>2, StampTypes DEF Status
    <3>2. [exec[j] EXCEPT !.pc = "activate", !.view[exec[j].node] = "done"] \in Exec
      BY DEF Exec, ExecPc, Status
    <3>3. QED
      BY <1>7, <2>2, <3>1, <3>2 DEF Advance
  <2>3. QED
    BY <1>7, <2>1, <2>2 DEF Advance
<1>8. CASE Activate(j)
  <2>1. ASSUME NEW n \in Node, NEW r \in [Node -> Stamp], Proceed(j, Tried(j, n), r)
        PROVE  /\ exec' \in [Job -> Exec] /\ jobs' \in [Job -> JobState]
               /\ tries' \in [Job -> Nat] /\ lease' \in [Node -> Stamp]
               /\ row' \in [Node -> Stamp]
    <3>1. Tried(j, n) \in [Node -> Status]
      BY ExecFields DEF Tried, Status
    <3>2. "loop" \in ExecPc
      BY DEF ExecPc
    <3>3. [exec[j] EXCEPT !.pc = "loop", !.view = Tried(j, n)] \in Exec
      BY <3>1, <3>2, ExecViewUpdate
    <3>4. CASE dec[j] = "approve"
      BY <2>1, <3>4, FinishTypes DEF Proceed
    <3>5. CASE dec[j] # "approve"
      BY <2>1, <3>3, <3>5 DEF Proceed
    <3>6. QED
      BY <3>4, <3>5
  <2>2. \A n \in Node : [row EXCEPT ![n] = Fresh] \in [Node -> Stamp]
    BY StampTypes
  <2>3. N \in Node
    BY NodesAndJobs DEF Node
  <2>4. status' \in [Node -> Status] /\ task' \in TaskStatus
    BY <1>8 DEF Activate, Status, TaskStatus
  <2>5. \E n \in Node : \E r \in [Node -> Stamp] : Proceed(j, Tried(j, n), r)
    BY <1>8, <2>2, <2>3 DEF Activate, Ready, With
  <2>6. QED
    BY <1>8, <2>1, <2>4, <2>5 DEF Activate
<1>9. CASE Approve(j)
  <2>1. CASE JobError(j)
    BY <1>9, <2>1, JobErrorTypes DEF Approve
  <2>2. CASE ~JobError(j)
    <3>1. status' \in [Node -> Status] /\ row' \in [Node -> Stamp]
      BY <1>9, <2>2, StampTypes DEF Approve, Status
    <3>2. /\ [exec[j] EXCEPT !.pc = "advance"] \in Exec
          /\ [exec[j] EXCEPT !.pc = "advance", !.view[exec[j].node] = "running"] \in Exec
      BY DEF Exec, ExecPc, Status
    <3>3. QED
      BY <1>9, <2>2, <3>1, <3>2 DEF Approve
  <2>3. QED
    BY <2>1, <2>2
<1>10. CASE Rewind(j)
  <2>1. CASE JobError(j)
    BY <1>10, <2>1, JobErrorTypes DEF Rewind
  <2>2. CASE ~JobError(j)
    <3> DEFINE p == exec[j].node - 1
    <3>1. /\ status' = [status EXCEPT ![p] = "running"]
          /\ row' = [row EXCEPT ![p] = Fresh]
          /\ task' = "running"
          /\ exec' = [exec EXCEPT ![j].pc = "requeue", ![j].view[p] = "running"]
          /\ UNCHANGED <<attempts, lease, arq, api, user, faults>>
      BY <1>10, <2>2 DEF Rewind
    <3> HIDE DEF p
    <3>2. status' \in [Node -> Status] /\ row' \in [Node -> Stamp] /\ task' \in TaskStatus
      BY <3>1, StampTypes DEF Status, TaskStatus
    <3>3. [exec[j] EXCEPT !.pc = "requeue", !.view[p] = "running"] \in Exec
      BY DEF Exec, ExecPc, Status
    <3>4. QED
      BY <3>1, <3>2, <3>3
  <2>3. QED
    BY <2>1, <2>2
<1>11. CASE RequeueGate(j)
  <2>1. status' \in [Node -> Status]
    BY <1>11 DEF RequeueGate, Status
  <2>2. \E s : exec' = [exec EXCEPT ![j].pc = "loop", ![j].view[exec[j].node] = s]
              /\ (s \in Status \/ s = exec[j].view[exec[j].node])
    BY <1>11 DEF RequeueGate, Status
  <2>3. ASSUME NEW s,
               exec' = [exec EXCEPT ![j].pc = "loop", ![j].view[exec[j].node] = s],
               s \in Status \/ s = exec[j].view[exec[j].node]
        PROVE  exec' \in [Job -> Exec]
    <3>1. [exec[j].view EXCEPT ![exec[j].node] = s] \in [Node -> Status]
      BY <2>3, ExecFields
    <3>2. [exec[j] EXCEPT !.pc = "loop", !.view = [exec[j].view EXCEPT ![exec[j].node] = s]] \in Exec
      BY <3>1, ExecViewUpdate DEF ExecPc
    <3>3. QED
      BY <2>3, <3>2
  <2>4. QED
    BY <1>11, <2>1, <2>2, <2>3 DEF RequeueGate
<1>12. QED
  BY <1>1, <1>2, <1>3, <1>4, <1>5, <1>6, <1>7, <1>8, <1>9, <1>10, <1>11 DEF Step, AgentReturns

LEMMA OutsideTypes ==
  ASSUME TypeOK,
         \/ Sweeper \/ SweepEnqueueFails
         \/ \E j \in Job : \/ Heartbeat(j) \/ JobRaises(j) \/ WorkerCrash(j)
                           \/ JobTimeout(j) \/ JobExhausted(j) \/ ResultExpires(j)
         \/ \E n \in Node : Clock(n)
  PROVE  TypeOK'
<1> USE DEF TypeOK, stamps, db, arq, api, user
<1>1. ASSUME NEW j \in Job, Heartbeat(j) PROVE TypeOK'
  <2>1. [exec[j] EXCEPT !.beat = TRUE] \in Exec
    BY DEF Exec
  <2>2. QED
    BY <1>1, <2>1 DEF Heartbeat
<1>2. ASSUME NEW j \in Job, JobRaises(j) PROVE TypeOK'
  BY <1>2, JobErrorTypes DEF JobRaises, Fault
<1>3. ASSUME NEW j \in Job, WorkerCrash(j) PROVE TypeOK'
  BY <1>3, IdleTypes, StampFunctions DEF WorkerCrash, Fault, JobState
<1>4. ASSUME NEW j \in Job, JobTimeout(j) PROVE TypeOK'
  BY <1>4, FinishTypes DEF JobTimeout, Fault
<1>5. ASSUME NEW j \in Job, JobExhausted(j) PROVE TypeOK'
  BY <1>5 DEF JobExhausted, JobState
<1>6. ASSUME NEW j \in Job, ResultExpires(j) PROVE TypeOK'
  BY <1>6, StampFunctions DEF ResultExpires, JobState
<1>7. ASSUME NEW n \in Node, Clock(n) PROVE TypeOK'
  BY <1>7, StampTypes DEF Clock, LeaseRunsOut, RowAges
<1>8. CASE Scan
  BY <1>8, NodesAndJobs DEF Scan, Sweep, With
<1>9. ASSUME NEW n \in Node, DeadLetter(n) PROVE TypeOK'
  <2>1. sweep' \in Sweep
    BY <1>9, IdleTypes, NodesAndJobs DEF DeadLetter, SweepOn, Sweep
  <2>2. status' \in [Node -> Status] /\ task' \in TaskStatus
    BY <1>9 DEF DeadLetter, Status, TaskStatus
  <2>3. lease' \in [Node -> Stamp]
    BY <1>9, StampTypes DEF DeadLetter
  <2>4. QED
    BY <1>9, <2>1, <2>2, <2>3 DEF DeadLetter
<1>10. ASSUME NEW n \in Node, Requeue(n) PROVE TypeOK'
  <2>1. /\ [sweep EXCEPT !.pc = "enqueue", !.node = 0, !.stale = @ \ {n}] \in Sweep
        /\ [pc |-> "scan", node |-> 0, dead |-> sweep.dead, stale |-> sweep.stale \ {n}] \in Sweep
        /\ SweepIdle \in Sweep
    BY IdleTypes, NodesAndJobs DEF Sweep
  <2>2. status' \in [Node -> Status] /\ sweep' \in Sweep
    BY <1>10, <2>1 DEF Requeue, SweepOn, Status
  <2>3. lease' \in [Node -> Stamp] /\ row' \in [Node -> Stamp]
    BY <1>10, StampTypes DEF Requeue
  <2>4. QED
    BY <1>10, <2>2, <2>3 DEF Requeue
<1>11. ASSUME NEW n \in Node, ReadTask(n) PROVE TypeOK'
  <2>1. /\ [sweep EXCEPT !.pc = "move", !.node = n] \in Sweep
        /\ [pc |-> "scan", node |-> 0, dead |-> sweep.dead \ {n}, stale |-> sweep.stale \ {n}] \in Sweep
        /\ SweepIdle \in Sweep
    BY IdleTypes, NodesAndJobs DEF Sweep
  <2>2. sweep' \in Sweep
    BY <1>11, <2>1 DEF ReadTask, SweepOn
  <2>3. QED
    BY <1>11, <2>2 DEF ReadTask
<1>12. CASE SweepEnqueue \/ SweepEnqueueFails
  <2>1. EnqueueJob(0, "none") \/ UNCHANGED <<jobs, dec>>
    BY <1>12 DEF SweepEnqueue, SweepEnqueueFails
  <2>2. jobs' \in [Job -> JobState] /\ dec' \in [Job -> Decision \cup {"none"}]
    BY <2>1, EnqueueTypes, NodesAndJobs
  <2>3. sweep' \in Sweep
    BY <1>12, IdleTypes, NodesAndJobs DEF SweepEnqueue, SweepEnqueueFails, SweepOn, Sweep
  <2>4. QED
    BY <1>12, <2>2, <2>3 DEF SweepEnqueue, SweepEnqueueFails, Fault
<1>13. QED
  BY <1>1, <1>2, <1>3, <1>4, <1>5, <1>6, <1>7, <1>8, <1>9, <1>10, <1>11, <1>12 DEF Sweeper

\* The next-state relation, in the four groups of the type lemmas.
LEMMA TypeStep ==
  ASSUME TypeOK, JobsDecided, [Next]_vars
  PROVE  TypeOK'
<1>1. CASE UNCHANGED vars
  BY <1>1 DEF vars, TypeOK
<1>2. decided \subseteq Decision
  BY DEF TypeOK
<1>3. CASE Next
  BY <1>2, <1>3, GatewayTypes, StartTypes, ExecutionTypes, OutsideTypes
  DEF Next, Environment, Sweeper
<1>4. QED
  BY <1>1, <1>3

-----------------------------------------------------------------------------
(* The steps preserve the other parts of the invariant.                      *)

LEMMA InitInv == Init => Inv
BY NodesAndJobs, IdleTypes, StampTypes, BoundAssumption
DEF Init, Inv, TypeOK, Untouched, JobsDecided, ExecsEntitled,
    StaleClaimable, AttemptsBounded, GateNeedsApproval, TaskStatus, Status,
    JobState, Idle, GwIdle, SweepIdle

\* What every step of an execution has in common.
LEMMA ExecutionFrame ==
  ASSUME NEW j \in Job,
         Step(j) \/ JobRaises(j) \/ WorkerCrash(j) \/ JobTimeout(j) \/ Heartbeat(j)
  PROVE  /\ exec[j].pc # "idle"
         /\ task' \in {task, "running", "done", "failed"}
         /\ UNCHANGED <<gw, sweep, decided>>
BY DEF Step, AgentReturns, LoopEnds, InterruptApproval, CallAgent, AgentSucceeds, AgentAsks,
  AgentFails, Advance, Activate, Approve, Rewind, RequeueGate, JobRaises, WorkerCrash,
  JobTimeout, Heartbeat, JobError, db, api, user

LEMMA UntouchedStep ==
  ASSUME Inv, [Next]_vars
  PROVE  Untouched'
<1> DEFINE Quiet == task = "pending" \/ gw.pc = "prepared"
<1> USE NodesAndJobs DEF Inv, Untouched, TypeOK, stamps, db, arq, api, user
<1>1. CASE Prepare
  BY <1>1 DEF Prepare
<1>2. CASE MarkReadyQueued
  BY <1>2 DEF MarkReadyQueued
<1>20. CASE ApiCrash
  BY <1>20 DEF ApiCrash, GwIdle, SweepIdle
<1>3. CASE \/ EnqueueTask \/ EnqueueTaskFails \/ UndoQueued
           \/ EnqueueResume \/ EnqueueResumeFails
  <2>1. gw.pc \in {"marked", "undo", "decided"} /\ gw'.pc \in {"idle", "undo"} /\ task' = task
    BY <1>3 DEF EnqueueTask, EnqueueTaskFails, UndoQueued, EnqueueResume, EnqueueResumeFails, GwIdle, Gw
  <2>2. QED
    BY <2>1
<1>4. ASSUME NEW d \in Decision, Decide(d) PROVE Untouched'
  <2>1. ~Quiet
    BY <1>4 DEF Decide, With
  <2>2. task' = task /\ gw'.pc \in {"idle", "decided"}
    BY <1>4 DEF Decide
  <2>3. QED
    BY <2>1, <2>2
<1>5. CASE StartRun \/ \E j \in Job : StartResume(j) \/ JobExhausted(j) \/ ResultExpires(j)
  BY <1>5 DEF StartRun, StartResume, JobExhausted, ResultExpires, CanStart
<1>6. ASSUME NEW j \in Job,
             Step(j) \/ JobRaises(j) \/ WorkerCrash(j) \/ JobTimeout(j) \/ Heartbeat(j)
      PROVE  Untouched'
  BY <1>6, ExecutionFrame
<1>7. CASE Sweeper \/ SweepEnqueueFails
  <2>1. gw' = gw /\ task' \in {task, "failed"}
    BY <1>7 DEF Sweeper, Scan, ReadTask, DeadLetter, Requeue, SweepEnqueue, SweepEnqueueFails
  <2>2. CASE Scan
    <3>1. With(status, "running") # {}
      BY <2>2 DEF Scan
    <3>2. QED
      BY <2>1, <3>1 DEF With
  <2>3. CASE ~Scan
    <3>1. sweep.pc # "idle"
      BY <1>7, <2>3 DEF Sweeper, ReadTask, DeadLetter, Requeue, SweepEnqueue, SweepEnqueueFails
    <3>2. QED
      BY <2>1, <3>1 DEF SweepIdle
  <2>4. QED
    BY <2>2, <2>3
<1>8. ASSUME NEW n \in Node, Clock(n) PROVE Untouched'
  <2>1. lease[n] = Open \/ status[n] = "running"
    BY <1>8 DEF Clock, LeaseRunsOut, RowAges
  <2>2. UNCHANGED <<task, gw>>
    BY <1>8 DEF Clock, LeaseRunsOut, RowAges
  <2>3. None # Open
    BY DEF None, Open
  <2>4. QED
    BY <2>1, <2>2, <2>3
<1>9. CASE UNCHANGED vars
  BY <1>9 DEF vars
<1>10. QED
  BY <1>1, <1>2, <1>20, <1>3, <1>4, <1>5, <1>6, <1>7, <1>8, <1>9
  DEF Next, Gateway, Environment

\* An execution that ends, whichever way, leaves the others as they are.
LEMMA FinishEntitled ==
  ASSUME Inv, NEW j \in Job, NEW l, NEW r, Finish(j, l, r) \/ JobError(j),
         jobs[j] # "absent", UNCHANGED <<dec, gw, decided>>
  PROVE  JobsDecided' /\ ExecsEntitled'
<1>1. /\ exec' = [exec EXCEPT ![j] = Idle]
      /\ jobs' = [jobs EXCEPT ![j] = "kept"]
  BY DEF Finish, JobError
<1>2. JobsDecided'
  BY <1>1 DEF Inv, TypeOK, JobsDecided, Idle
<1>3. ExecsEntitled'
  BY <1>1 DEF Inv, TypeOK, ExecsEntitled, Idle
<1>4. QED
  BY <1>2, <1>3

\* An execution that goes on: it keeps its job, and its new place is entitled.
LEMMA GoOnEntitled ==
  ASSUME Inv, NEW j \in Job, exec[j].pc # "idle",
         \A k \in Job \ {j} : exec'[k] = exec[k],
         UNCHANGED <<jobs, dec, gw, decided>>,
         \/ exec'[j].pc \in {"loop", "activate"}
         \/ /\ exec'[j].pc \in {"agent", "advance"}
            /\ exec'[j].node \in Node \ Hitl
         \/ /\ exec'[j].pc = "advance" /\ "approve" \in decided
            /\ exec'[j].node \in Node
         \/ /\ exec'[j].pc = "requeue" /\ exec[j].pc = "reject"
            /\ exec'[j].node = exec[j].node
  PROVE  JobsDecided' /\ ExecsEntitled'
BY DEF Inv, TypeOK, JobsDecided, ExecsEntitled

\* An execution that begins.
LEMMA BeginEntitled ==
  ASSUME Inv, NEW j \in Job, NEW p, NEW n \in Job, NEW v, Begin(j, p, n, v), jobs[j] # "absent",
         UNCHANGED <<dec, gw, decided>>,
         \/ p = "loop"
         \/ p \in {"approve", "reject"} /\ p \in decided /\ n \in Hitl
  PROVE  JobsDecided' /\ ExecsEntitled'
<1>1. /\ exec' = [exec EXCEPT ![j] = [pc |-> p, node |-> n, view |-> v, beat |-> FALSE]]
      /\ jobs' = [jobs EXCEPT ![j] = "active"]
  BY DEF Begin
<1>2. QED
  BY <1>1 DEF Inv, TypeOK, JobsDecided, ExecsEntitled

LEMMA EntitledStep ==
  ASSUME Inv, [Next]_vars
  PROVE  JobsDecided' /\ ExecsEntitled'
<1> DEFINE Goal == JobsDecided' /\ ExecsEntitled'
<1> USE NodesAndJobs DEF Inv, TypeOK, stamps, db, arq, api, user
<1>1. CASE \/ UNCHANGED vars \/ Prepare \/ MarkReadyQueued \/ UndoQueued \/ ApiCrash \/ Scan
           \/ \E n \in Node : Clock(n) \/ ReadTask(n) \/ DeadLetter(n) \/ Requeue(n)
  <2>1. UNCHANGED <<jobs, dec, exec, decided>>
    BY <1>1 DEF vars, Prepare, MarkReadyQueued, UndoQueued, ApiCrash, Scan,
                Clock, LeaseRunsOut, RowAges, ReadTask, DeadLetter, Requeue
  <2>2. gw' = gw \/ gw'.pc \in {"prepared", "marked", "idle"}
    <3>1. CASE Prepare \/ UndoQueued \/ ApiCrash
      BY <3>1 DEF Prepare, UndoQueued, ApiCrash, GwIdle, Gw
    <3>2. CASE MarkReadyQueued
      BY <3>2 DEF MarkReadyQueued, Gw
    <3>3. CASE \/ UNCHANGED vars \/ Scan
               \/ \E n \in Node : Clock(n) \/ ReadTask(n) \/ DeadLetter(n) \/ Requeue(n)
      BY <3>3 DEF vars, Scan, Clock, LeaseRunsOut, RowAges, ReadTask, DeadLetter, Requeue
    <3>4. QED
      BY <1>1, <3>1, <3>2, <3>3
  <2>3. QED
    BY <2>1, <2>2 DEF JobsDecided, ExecsEntitled
<1>2. CASE \/ EnqueueTask \/ EnqueueTaskFails \/ EnqueueResume \/ EnqueueResumeFails
           \/ SweepEnqueue \/ SweepEnqueueFails
  <2>1. UNCHANGED <<exec, decided>> /\ (gw' = gw \/ gw'.pc # "decided")
    BY <1>2 DEF EnqueueTask, EnqueueTaskFails, EnqueueResume, EnqueueResumeFails, GwIdle, Gw, SweepEnqueue, SweepEnqueueFails
  <2>2. \/ UNCHANGED <<jobs, dec>>
        \/ EnqueueJob(0, "none")
        \/ gw.pc = "decided" /\ EnqueueJob(gw.node, gw.dec)
    BY <1>2 DEF EnqueueTask, EnqueueTaskFails, EnqueueResume, EnqueueResumeFails, SweepEnqueue, SweepEnqueueFails
  <2>3. JobsDecided'
    BY <2>1, <2>2 DEF EnqueueJob, JobsDecided
  <2>4. QED
    BY <2>1, <2>3 DEF ExecsEntitled
<1>3. ASSUME NEW d \in Decision, Decide(d) PROVE Goal
  <2>1. UNCHANGED <<jobs, dec, exec>> /\ decided' = decided \cup {d}
    BY <1>3 DEF Decide
  <2>2. gw' = gw \/ \E n \in Node : gw' = [pc |-> "decided", node |-> n, dec |-> d]
    BY <1>3 DEF Decide
  <2>3. QED
    BY <2>1, <2>2 DEF JobsDecided, ExecsEntitled
<1>4. CASE StartRun
  <2>1. jobs[0] # "absent" /\ (Begin(0, "loop", 0, status) \/ Begin(0, "loop", 0, status'))
    BY <1>4 DEF StartRun, CanStart
  <2>2. QED
    BY <1>4, <2>1, BeginEntitled DEF StartRun
<1>5. ASSUME NEW j \in Job, StartResume(j) PROVE Goal
  <2>1. /\ jobs[j] # "absent" /\ j # 0
        /\ UNCHANGED <<dec, gw, decided>>
        /\ \/ Begin(j, "loop", 0, status)
           \/ dec[j] # "answer" /\ \E h \in Hitl : Begin(j, dec[j], h, status)
           \/ Finish(j, lease, row)
    BY <1>5 DEF StartResume, CanStart
  <2>2. dec[j] \in decided
    BY <2>1 DEF JobsDecided
  <2>3. QED
    BY <2>1, <2>2, BeginEntitled, FinishEntitled DEF Decision
<1>6. ASSUME NEW j \in Job,
             LoopEnds(j) \/ InterruptApproval(j) \/ AgentAsks(j) \/ AgentFails(j)
             \/ JobRaises(j) \/ JobTimeout(j)
      PROVE  Goal
  <2>1. UNCHANGED <<dec, gw, decided>> /\ (JobError(j) \/ \E l, r : Finish(j, l, r))
    BY <1>6 DEF LoopEnds, InterruptApproval, AgentAsks, AgentFails, JobRaises, JobTimeout, JobError
  <2>2. jobs[j] # "absent"
    BY <1>6 DEF LoopEnds, InterruptApproval, AgentAsks, AgentFails, JobRaises, JobTimeout, JobsDecided
  <2>3. QED
    BY <2>1, <2>2, FinishEntitled DEF JobsDecided
<1>7. ASSUME NEW j \in Job, WorkerCrash(j) \/ JobExhausted(j) \/ ResultExpires(j) PROVE Goal
  <2>1. /\ UNCHANGED <<dec, gw, decided>>
        /\ exec' = exec \/ exec' = [exec EXCEPT ![j] = Idle]
        /\ \E s \in {"absent", "waiting", "kept"} : jobs' = [jobs EXCEPT ![j] = s]
        /\ exec'[j].pc = "idle" /\ jobs[j] # "absent"
    BY <1>7 DEF WorkerCrash, JobExhausted, ResultExpires, JobsDecided, Idle
  <2>2. QED
    BY <2>1 DEF JobsDecided, ExecsEntitled, Idle
<1>8. ASSUME NEW j \in Job, CallAgent(j) PROVE Goal
  <2>1. PICK n \in Automatic : exec' = [exec EXCEPT ![j].pc = "agent", ![j].node = n]
    BY <1>8 DEF CallAgent
  <2>2. /\ \A k \in Job \ {j} : exec'[k] = exec[k]
        /\ exec'[j].pc = "agent" /\ exec'[j].node \in Node \ Hitl
    BY <2>1 DEF Exec, Automatic
  <2>3. QED
    BY <1>8, <2>2, GoOnEntitled DEF CallAgent
<1>9. ASSUME NEW j \in Job, AgentSucceeds(j) \/ Heartbeat(j) PROVE Goal
  <2>1. /\ \A k \in Job \ {j} : exec'[k] = exec[k]
        /\ exec'[j].pc \in {"agent", "advance"} /\ exec'[j].node = exec[j].node
    BY <1>9 DEF AgentSucceeds, Heartbeat, Exec
  <2>2. exec[j].pc = "agent" /\ UNCHANGED <<jobs, dec, gw, decided>>
    BY <1>9 DEF AgentSucceeds, Heartbeat
  <2>3. exec[j].node \in Node \ Hitl
    BY <2>2 DEF ExecsEntitled
  <2>4. QED
    BY <2>1, <2>2, <2>3, GoOnEntitled
<1>10. ASSUME NEW j \in Job, Advance(j) PROVE Goal
  <2>1. CASE JobError(j)
    BY <1>10, <2>1, FinishEntitled DEF JobError, Advance, JobsDecided
  <2>2. CASE ~JobError(j)
    <3>1. (\A k \in Job \ {j} : exec'[k] = exec[k]) /\ exec'[j].pc = "activate"
      BY <1>10, <2>2 DEF Advance, Exec
    <3>2. QED
      BY <1>10, <2>2, <3>1, GoOnEntitled DEF Advance
  <2>3. QED
    BY <2>1, <2>2
<1>11. ASSUME NEW j \in Job, Activate(j) PROVE Goal
  <2>1. exec[j].pc = "activate" /\ UNCHANGED <<dec, gw, decided>>
    BY <1>11 DEF Activate
  <2>2. ASSUME NEW n, NEW r, Proceed(j, Tried(j, n), r) PROVE Goal
    <3>1. CASE dec[j] = "approve"
      BY <2>1, <2>2, <3>1, FinishEntitled DEF Proceed, JobsDecided
    <3>2. CASE dec[j] # "approve"
      <4>1. (\A k \in Job \ {j} : exec'[k] = exec[k]) /\ exec'[j].pc = "loop"
        BY <2>2, <3>2 DEF Proceed, Exec
      <4>2. QED
        BY <2>1, <2>2, <3>2, <4>1, GoOnEntitled DEF Proceed
    <3>3. QED
      BY <3>1, <3>2
  <2>3. QED
    BY <1>11, <2>2 DEF Activate
<1>12. ASSUME NEW j \in Job, Approve(j) PROVE Goal
  <2>1. exec[j].pc = "approve" /\ UNCHANGED <<dec, gw, decided>>
    BY <1>12 DEF Approve, JobError
  <2>2. exec[j].node \in Node /\ "approve" \in decided
    BY <2>1 DEF ExecsEntitled
  <2>3. CASE JobError(j)
    BY <2>1, <2>3, FinishEntitled DEF JobsDecided
  <2>4. CASE ~JobError(j)
    <3>1. /\ \A k \in Job \ {j} : exec'[k] = exec[k]
          /\ exec'[j].pc = "advance" /\ exec'[j].node = exec[j].node
      BY <1>12, <2>4 DEF Approve, Exec
    <3>2. QED
      BY <1>12, <2>1, <2>2, <2>4, <3>1, GoOnEntitled DEF Approve
  <2>5. QED
    BY <2>3, <2>4
<1>13. ASSUME NEW j \in Job, Rewind(j) \/ RequeueGate(j) PROVE Goal
  <2>1. exec[j].pc \in {"reject", "requeue"} /\ UNCHANGED <<dec, gw, decided>>
    BY <1>13 DEF Rewind, RequeueGate, JobError
  <2>2. CASE JobError(j)
    BY <2>1, <2>2, FinishEntitled DEF JobsDecided
  <2>3. CASE Rewind(j) /\ ~JobError(j)
    <3>1. /\ \A k \in Job \ {j} : exec'[k] = exec[k]
          /\ exec'[j].pc = "requeue" /\ exec'[j].node = exec[j].node
      BY <2>3 DEF Rewind, Exec
    <3>2. exec[j].pc = "reject" /\ UNCHANGED jobs
      BY <2>3 DEF Rewind
    <3>3. QED
      BY <2>1, <3>1, <3>2, GoOnEntitled
  <2>4. CASE RequeueGate(j)
    <3>1. (\A k \in Job \ {j} : exec'[k] = exec[k]) /\ exec'[j].pc = "loop"
      BY <2>4 DEF RequeueGate, Exec
    <3>2. QED
      BY <2>1, <2>4, <3>1, GoOnEntitled DEF RequeueGate
  <2>5. QED
    BY <1>13, <2>2, <2>3, <2>4
<1>14. QED
  BY <1>1, <1>2, <1>3, <1>4, <1>5, <1>6, <1>7, <1>8, <1>9, <1>10, <1>11, <1>12, <1>13
  DEF Next, Gateway, Step, AgentReturns, Sweeper, Environment

\* A node becomes queued in two places only: when the fresh task is marked, and
\* when the sweep returns a node it holds.  It is claimed in one.
LEMMA QueueFrame ==
  ASSUME Inv, [Next]_vars, NEW n \in Node
  PROVE  /\ \/ attempts'[n] = attempts[n]
            \/ /\ attempts'[n] = attempts[n] + 1
               /\ status[n] = "queued" /\ status'[n] # "queued"
         /\ status[n] # "queued" /\ status'[n] = "queued" =>
              \/ gw.pc = "prepared" /\ UNCHANGED sweep
              \/ n \in sweep.stale /\ n \notin sweep'.stale
         /\ n \in sweep'.stale /\ n \notin sweep.stale =>
              /\ status[n] = "running" /\ n \notin Hitl /\ ~ClaimsSpent(n)
              /\ UNCHANGED <<status, attempts>>
         /\ n \in sweep'.dead /\ n \notin sweep.dead => ClaimsSpent(n)
<1> USE DEF Inv, TypeOK, stamps, db, arq, api, user
<1>1. CASE UNCHANGED vars
  BY <1>1 DEF vars
<1>2. CASE Prepare \/ MarkReadyQueued \/ UndoQueued
  <2>1. UNCHANGED <<attempts, sweep>>
    BY <1>2 DEF Prepare, MarkReadyQueued, UndoQueued
  <2>2. status'[n] = "queued" => status[n] = "queued" \/ gw.pc = "prepared"
    BY <1>2 DEF Prepare, MarkReadyQueued, UndoQueued
  <2>3. QED
    BY <2>1, <2>2
<1>3. CASE \/ EnqueueTask \/ EnqueueTaskFails \/ EnqueueResume \/ EnqueueResumeFails
           \/ \E d \in Decision : Decide(d)
  BY <1>3 DEF EnqueueTask, EnqueueTaskFails, EnqueueResume, EnqueueResumeFails, Decide
<1>4. CASE ApiCrash \/ SweepEnqueue \/ SweepEnqueueFails
  <2>1. /\ UNCHANGED <<status, attempts>>
        /\ sweep'.stale \subseteq sweep.stale /\ sweep'.dead \subseteq sweep.dead
    BY <1>4 DEF ApiCrash, SweepEnqueue, SweepEnqueueFails, SweepOn, SweepIdle
  <2>2. QED
    BY <2>1
<1>5. CASE StartRun
  BY <1>5 DEF StartRun, With
<1>6. ASSUME NEW j \in Job,
             \/ StartResume(j) \/ JobExhausted(j) \/ ResultExpires(j) \/ LoopEnds(j)
             \/ CallAgent(j) \/ AgentSucceeds(j) \/ AgentAsks(j) \/ Heartbeat(j)
             \/ WorkerCrash(j) \/ JobTimeout(j)
      PROVE  UNCHANGED <<status, attempts, sweep>>
  BY <1>6 DEF StartResume, JobExhausted, ResultExpires, LoopEnds, CallAgent, AgentSucceeds,
              AgentAsks, Heartbeat, WorkerCrash, JobTimeout
<1>7. ASSUME NEW j \in Job,
             \/ InterruptApproval(j) \/ AgentFails(j) \/ Advance(j) \/ Activate(j)
             \/ Approve(j) \/ Rewind(j) \/ RequeueGate(j) \/ JobRaises(j)
      PROVE  UNCHANGED <<attempts, sweep>> /\ (status'[n] = "queued" => status[n] = "queued")
  BY <1>7 DEF InterruptApproval, AgentFails, Advance, Activate, Approve, Rewind, RequeueGate,
              JobRaises, JobError
<1>8. ASSUME NEW m \in Node, Clock(m) \/ ReadTask(m) \/ DeadLetter(m)
      PROVE  /\ UNCHANGED attempts
             /\ sweep'.stale \subseteq sweep.stale /\ sweep'.dead \subseteq sweep.dead
             /\ status'[n] = "queued" => status[n] = "queued"
  <2>1. CASE ReadTask(m)
    <3>1. UNCHANGED <<status, attempts>>
      BY <2>1 DEF ReadTask
    <3>2. \/ sweep' = [sweep EXCEPT !.pc = "move", !.node = m]
          \/ sweep' = SweepIdle
          \/ sweep' = [pc |-> "scan", node |-> 0,
                       dead |-> sweep.dead \ {m}, stale |-> sweep.stale \ {m}]
      BY <2>1 DEF ReadTask, SweepOn
    <3>3. CASE sweep' = [sweep EXCEPT !.pc = "move", !.node = m]
      BY <3>1, <3>3 DEF Sweep
    <3>4. CASE sweep' # [sweep EXCEPT !.pc = "move", !.node = m]
      BY <3>1, <3>2, <3>4 DEF SweepIdle
    <3>5. QED
      BY <3>3, <3>4
  <2>2. CASE Clock(m) \/ DeadLetter(m)
    BY <2>2 DEF Clock, LeaseRunsOut, RowAges, DeadLetter, SweepOn, SweepIdle
  <2>3. QED
    BY <1>8, <2>1, <2>2
<1>9. ASSUME NEW m \in Node, Requeue(m)
      PROVE  /\ UNCHANGED attempts
             /\ sweep'.stale \subseteq sweep.stale \ {m} /\ sweep'.dead \subseteq sweep.dead
             /\ m \in sweep.stale /\ (n # m => status'[n] = status[n])
  <2>1. m \in sweep.stale /\ UNCHANGED attempts /\ (n # m => status'[n] = status[n])
    BY <1>9 DEF Requeue
  <2>2. \/ sweep' = [sweep EXCEPT !.pc = "enqueue", !.node = 0, !.stale = @ \ {m}]
        \/ sweep' = SweepIdle
        \/ sweep' = [pc |-> "scan", node |-> 0, dead |-> sweep.dead, stale |-> sweep.stale \ {m}]
    BY <1>9 DEF Requeue, SweepOn
  <2>3. sweep'.stale \subseteq sweep.stale \ {m} /\ sweep'.dead \subseteq sweep.dead
    <3>1. CASE sweep' = [sweep EXCEPT !.pc = "enqueue", !.node = 0, !.stale = @ \ {m}]
      BY <3>1 DEF Sweep
    <3>2. CASE sweep' # [sweep EXCEPT !.pc = "enqueue", !.node = 0, !.stale = @ \ {m}]
      BY <2>2, <3>2 DEF SweepIdle
    <3>3. QED
      BY <3>1, <3>2
  <2>4. QED
    BY <2>1, <2>3
<1>10. CASE Scan
  BY <1>10 DEF Scan, With
<1>11. QED
  BY <1>1, <1>2, <1>3, <1>4, <1>5, <1>6, <1>7, <1>8, <1>9, <1>10
  DEF Next, Gateway, Step, AgentReturns, Sweeper, Environment

LEMMA AttemptsStep ==
  ASSUME Inv, [Next]_vars
  PROVE  StaleClaimable' /\ AttemptsBounded'
<1>1. ASSUME NEW n \in Node
      PROVE  /\ n \in sweep'.stale =>
                  attempts'[n] < MaxTries /\ status'[n] # "queued" /\ n \notin Hitl
             /\ n \in sweep'.dead => ClaimsSpent(n)'
             /\ attempts'[n] <= MaxTries
             /\ status'[n] = "queued" => attempts'[n] < MaxTries
  BY QueueFrame, BoundAssumption
  DEF Inv, TypeOK, Untouched, StaleClaimable, AttemptsBounded, ClaimsSpent, SweepIdle
<1>2. sweep'.stale \subseteq Node /\ sweep'.dead \subseteq Node
  BY TypeStep DEF Inv, TypeOK, Sweep
<1>3. QED
  BY <1>1, <1>2 DEF StaleClaimable, AttemptsBounded

\* A node becomes done in engine.advance only, by an execution whose view has everything before it done.
LEMMA InOrderFrame ==
  ASSUME Inv, [Next]_vars, NEW n \in Node, status[n] # "done", status'[n] = "done"
  PROVE  \E j \in Job : exec[j].pc = "advance" /\ exec[j].node = n /\ InOrder(n, exec[j].view)
<1>1. \E j \in Job : Advance(j)
  <2>1. ASSUME NEW j \in Job, Step(j), ~Advance(j) PROVE FALSE
    BY <2>1 DEF Step, AgentReturns, LoopEnds, InterruptApproval, CallAgent, AgentSucceeds, AgentAsks, AgentFails,
       Activate, Approve, Rewind, RequeueGate, JobError, Inv, TypeOK, db, stamps
  <2>2. ASSUME NEW j \in Job, \/ StartResume(j) \/ JobExhausted(j) \/ ResultExpires(j) \/ Heartbeat(j)
                              \/ JobRaises(j) \/ WorkerCrash(j) \/ JobTimeout(j)
        PROVE  FALSE
    BY <2>2 DEF StartResume, JobExhausted, ResultExpires, Heartbeat, JobRaises, WorkerCrash, JobTimeout,
       JobError, Inv, TypeOK, db, stamps
  <2>3. ASSUME \/ UNCHANGED vars \/ Gateway \/ EnqueueTaskFails \/ EnqueueResumeFails
               \/ ApiCrash \/ \E d \in Decision : Decide(d)
        PROVE  FALSE
    BY <2>3 DEF vars, Gateway, Prepare, MarkReadyQueued, EnqueueTask, EnqueueTaskFails, UndoQueued,
       EnqueueResume, EnqueueResumeFails, ApiCrash, Decide, Inv, TypeOK, db, stamps
  <2>4. ASSUME \/ StartRun \/ Sweeper \/ SweepEnqueueFails \/ \E m \in Node : Clock(m)
        PROVE  FALSE
    BY <2>4 DEF StartRun, Sweeper, Scan, ReadTask, DeadLetter, Requeue, SweepEnqueue, SweepEnqueueFails,
       Clock, LeaseRunsOut, RowAges, Inv, TypeOK, db, stamps
  <2> QED
    BY <2>1, <2>2, <2>3, <2>4 DEF Next, Environment
<1>2. PICK j \in Job : Advance(j)
  BY <1>1
<1>3. ~JobError(j)
  BY DEF JobError, With, Inv, TypeOK
<1>4. exec[j].pc = "advance" /\ InOrder(exec[j].node, exec[j].view)
      /\ status' = [status EXCEPT ![exec[j].node] = "done"]
  BY <1>2, <1>3 DEF Advance
<1> QED
  BY <1>4 DEF Inv, TypeOK

LEMMA GateStep ==
  ASSUME Inv, [Next]_vars, decided \subseteq decided'
  PROVE  GateNeedsApproval'
<1>1. ASSUME NEW h \in Hitl, status'[h] = "done" PROVE "approve" \in decided
  <2>1. h \in Node
    BY NodesAndJobs
  <2>2. CASE status[h] = "done"
    BY <2>2 DEF Inv, GateNeedsApproval
  <2>3. CASE status[h] # "done"
    BY <1>1, <2>1, <2>3, InOrderFrame DEF Inv, ExecsEntitled
  <2>4. QED
    BY <2>2, <2>3
<1>2. QED
  BY <1>1 DEF GateNeedsApproval

\* A node is reopened in engine.rewind only, and nothing else happens to the nodes then.
LEMMA ReopenFrame ==
  ASSUME Inv, [Next]_vars, NEW n \in Node, status[n] = "done", status'[n] # "done"
  PROVE  \E j \in Job : /\ exec[j].pc = "reject" /\ n = exec[j].node - 1
                        /\ status' = [status EXCEPT ![n] = "running"]
                        /\ \A k \in Job \ {j} : exec'[k] = exec[k]
                        /\ exec'[j].view[n] # "done"
<1>1. \E j \in Job : Rewind(j)
  <2>1. ASSUME NEW j \in Job, Step(j), ~Rewind(j) PROVE FALSE
    BY <2>1 DEF Step, AgentReturns, LoopEnds, InterruptApproval, CallAgent, AgentSucceeds, AgentAsks, AgentFails,
       Advance, Activate, Approve, RequeueGate, JobError, Inv, TypeOK, db, stamps, Hits, With, Ready
  <2>2. ASSUME NEW j \in Job, \/ StartResume(j) \/ JobExhausted(j) \/ ResultExpires(j) \/ Heartbeat(j)
                              \/ JobRaises(j) \/ WorkerCrash(j) \/ JobTimeout(j)
        PROVE  FALSE
    BY <2>2 DEF StartResume, JobExhausted, ResultExpires, Heartbeat, JobRaises, WorkerCrash, JobTimeout,
       JobError, Inv, TypeOK, db, stamps, With
  <2>3. ASSUME \/ UNCHANGED vars \/ Gateway \/ EnqueueTaskFails \/ EnqueueResumeFails
               \/ ApiCrash \/ \E d \in Decision : Decide(d)
        PROVE  FALSE
    BY <2>3 DEF vars, Gateway, Prepare, MarkReadyQueued, EnqueueTask, EnqueueTaskFails, UndoQueued,
       EnqueueResume, EnqueueResumeFails, ApiCrash, Decide, Inv, TypeOK, Untouched, db, stamps, Hits, With, Ready
  <2>4. ASSUME \/ StartRun \/ Sweeper \/ SweepEnqueueFails \/ \E m \in Node : Clock(m)
        PROVE  FALSE
    BY <2>4 DEF StartRun, Sweeper, Scan, ReadTask, DeadLetter, Requeue, SweepEnqueue, SweepEnqueueFails,
       Clock, LeaseRunsOut, RowAges, Inv, TypeOK, db, stamps, Hits, With
  <2> QED
    BY <2>1, <2>2, <2>3, <2>4 DEF Next, Environment
<1>2. PICK j \in Job : Rewind(j)
  BY <1>1
<1>3. exec[j].pc = "reject"
  BY <1>2 DEF Rewind
<1>4. PICK p : p = exec[j].node - 1
  OBVIOUS
<1>11. exec[j].node \in Hitl
  BY <1>3 DEF Inv, ExecsEntitled
<1>12. exec[j].node \in 1 .. N /\ exec[j].node # 1 /\ N \in Nat
  BY <1>11, TemplateAssumption DEF Node
<1>5. p \in Node
  BY <1>4, <1>12 DEF Node
<1>6. ~JobError(j)
  BY DEF JobError, With, Inv, TypeOK
<1>7. /\ status' = [status EXCEPT ![p] = "running"]
      /\ exec' = [exec EXCEPT ![j].pc = "requeue", ![j].view[p] = "running"]
  BY <1>2, <1>4, <1>6 DEF Rewind
<1>8. n = p
  BY <1>5, <1>7 DEF Inv, TypeOK
<1>9. \A k \in Job \ {j} : exec'[k] = exec[k]
  BY <1>7 DEF Inv, TypeOK
<1>10. exec'[j].view[p] = "running"
  BY <1>5, <1>7, ExecFields DEF Inv, TypeOK, Exec
<1> QED
  BY <1>3, <1>4, <1>7, <1>8, <1>9, <1>10

LEMMA DecidedGrows ==
  ASSUME [Next]_vars
  PROVE  decided \subseteq decided'
<1> USE DEF stamps, db, arq, api, user
<1>1. ASSUME NEW j \in Job, StartResume(j) \/ JobExhausted(j) \/ ResultExpires(j)
      PROVE  decided' = decided
  BY <1>1 DEF StartResume, JobExhausted, ResultExpires
<1>2. ASSUME \/ UNCHANGED vars \/ Gateway \/ EnqueueTaskFails \/ EnqueueResumeFails
             \/ ApiCrash \/ StartRun \/ Sweeper \/ SweepEnqueueFails
             \/ \E n \in Node : Clock(n)
      PROVE  decided' = decided
  BY <1>2 DEF vars, Gateway, Prepare, MarkReadyQueued, EnqueueTask, EnqueueTaskFails, UndoQueued,
              EnqueueResume, EnqueueResumeFails, ApiCrash, StartRun, Sweeper, Scan, ReadTask, DeadLetter,
              Requeue, SweepEnqueue, SweepEnqueueFails, Clock, LeaseRunsOut, RowAges
<1>3. ASSUME NEW d \in Decision, Decide(d) PROVE decided \subseteq decided'
  BY <1>3 DEF Decide
<1>4. QED
  BY <1>1, <1>2, <1>3, ExecutionFrame DEF Next, Environment

-----------------------------------------------------------------------------
(* The theorems.                                                             *)

\* The invariant is inductive.
LEMMA InvStep == Inv /\ [Next]_vars => Inv'
BY TypeStep, UntouchedStep, EntitledStep, AttemptsStep, DecidedGrows, GateStep DEF Inv

LEMMA InvAlways == Spec => []Inv
BY InitInv, InvStep, PTL DEF Spec

\* Every variable of the task queue stays in its type, for every template.
THEOREM TypeCorrect == Spec => []TypeOK
<1>1. Inv => TypeOK
  BY DEF Inv
<1>2. QED
  BY <1>1, InvAlways, PTL

\* Whatever fails and however often it is retried, no node is claimed more than
\* ARQ_MAX_TRIES times, and what is in the queue can still be claimed (recovery.py).
THEOREM AttemptsAreBounded == Spec => []AttemptsBounded
<1>1. Inv => AttemptsBounded
  BY DEF Inv
<1>2. QED
  BY <1>1, InvAlways, PTL

\* Nothing gets past an approval node without an approval (runner.py, run_resume).
THEOREM GatesNeedApproval == Spec => []GateNeedsApproval
<1>1. Inv => GateNeedsApproval
  BY DEF Inv
<1>2. QED
  BY <1>1, InvAlways, PTL

\* Finished nodes are reopened on a rejection only (engine.rewind).
THEOREM ReopeningNeedsRejection == Spec => ReopenNeedsReject
<1>1. Inv /\ [Next]_vars =>
        [\A n \in Node : status[n] = "done" /\ status'[n] # "done" => "reject" \in decided]_vars
  BY ReopenFrame DEF Inv, ExecsEntitled
<1>2. QED
  BY <1>1, InvAlways, PTL DEF Spec, ReopenNeedsReject

-----------------------------------------------------------------------------
(* The order of the nodes, as long as decisions do not overtake each other.  *)

\* One decision at a time: one resume job at most waits or runs, and none while the
\* next decision is being written.
OneResume ==
  /\ \A j, k \in Job \ {0} : {jobs[j], jobs[k]} \subseteq {"waiting", "active"} => j = k
  /\ gw.pc = "decided" => \A j \in Job \ {0} : jobs[j] \notin {"waiting", "active"}

\* The run job never handles a decision; the gate whose rejection is being handled is not done.
OrderlyExecs ==
  /\ exec[0].pc \notin {"approve", "reject", "requeue"}
  /\ exec[0].pc = "advance" => exec[0].node \notin Hitl
  /\ \A j \in Job : exec[j].pc = "reject" => status[exec[j].node] # "done"

\* Behind node m comes a row of gates, the last of which the view v does not show as done.
GateBehind(v, m) ==
  \E g \in Hitl : m < g /\ (\A i \in m + 1 .. g : i \in Hitl) /\ v[g] # "done"

\* Views are out of date, but not at will: what a view wrongly shows as done was reopened by
\* a rejection, which the run job alone can have missed, and lies before a gate that is not done.
ViewsFaithful ==
  \A j \in Job : \A m \in Node :
    exec[j].pc # "idle" /\ exec[j].view[m] = "done" /\ status[m] # "done" =>
      j = 0 /\ GateBehind(exec[j].view, m)

OrderInv == Inv /\ OneResume /\ OrderlyExecs /\ ViewsFaithful /\ PrefixDone

\* How the view of an execution changes at a node: it is loaded, it gets the node done with the database,
\* it gets the node reopened, or it stays as it was about the node being done.
LEMMA ViewFrame ==
  ASSUME Inv, [Next]_vars, NEW k \in Job, exec'[k].pc # "idle", NEW m \in Node
  PROVE  \/ exec'[k].view = status'
         \/ exec[k].pc # "idle" /\ (exec'[k].view[m] = "done" <=> exec[k].view[m] = "done")
         \/ exec[k].pc = "advance" /\ m = exec[k].node /\ status'[m] = "done"
         \/ exec'[k].view[m] # "done"
<1> DEFINE Goal == \/ exec'[k].view = status'
                   \/ exec[k].pc # "idle" /\ (exec'[k].view[m] = "done" <=> exec[k].view[m] = "done")
                   \/ exec[k].pc = "advance" /\ m = exec[k].node /\ status'[m] = "done"
                   \/ exec'[k].view[m] # "done"
<1>0. /\ exec \in [Job -> Exec] /\ exec[k] \in Exec /\ exec[k].view \in [Node -> Status]
      /\ status \in [Node -> Status]
  BY ExecFields DEF Inv, TypeOK
<1>1. CASE exec'[k] = exec[k]
  BY <1>1
<1>2. ASSUME NEW j \in Job, \A i \in Job \ {j} : exec'[i] = exec[i],
             \/ exec'[j].pc = "idle"
             \/ exec'[j].view = status'
             \/ exec[j].pc # "idle" /\ exec'[j].view = exec[j].view
             \/ exec[j].pc # "idle" /\ (j = k => exec'[j].view[m] # "done" \/ exec'[j].view[m] = exec[j].view[m])
             \/ exec[j].pc = "advance" /\ (j = k => m = exec[j].node /\ status'[m] = "done")
      PROVE  Goal
  BY <1>1, <1>2
<1>3. ASSUME NEW j \in Job, \/ LoopEnds(j) \/ InterruptApproval(j) \/ AgentAsks(j) \/ AgentFails(j) \/ JobError(j)
                            \/ JobRaises(j) \/ JobTimeout(j) \/ WorkerCrash(j)
      PROVE  Goal
  <2>1. exec' = [exec EXCEPT ![j] = Idle]
    BY <1>3 DEF LoopEnds, InterruptApproval, AgentAsks, AgentFails, JobError, JobRaises, JobTimeout, WorkerCrash, Finish
  <2> QED
    BY <2>1, <1>0, <1>2 DEF Idle
<1>4. ASSUME NEW j \in Job, CallAgent(j) \/ Heartbeat(j) \/ AgentSucceeds(j)
      PROVE  Goal
  <2>1. exec[j].pc # "idle" /\ \A i \in Job \ {j} : exec'[i] = exec[i]
    BY <1>4, <1>0 DEF CallAgent, Heartbeat, AgentSucceeds
  <2>2. exec'[j].view = exec[j].view
    BY <1>4, <1>0 DEF CallAgent, Heartbeat, AgentSucceeds, Exec
  <2> QED
    BY <2>1, <2>2, <1>2
<1>5. ASSUME NEW j \in Job, Advance(j) PROVE Goal
  <2>1. CASE JobError(j)
    BY <2>1, <1>3
  <2>2. CASE ~JobError(j)
    <3>1. /\ exec[j].pc = "advance" /\ status' = [status EXCEPT ![exec[j].node] = "done"]
          /\ exec' = [exec EXCEPT ![j].pc = "activate", ![j].view[exec[j].node] = "done"]
      BY <1>5, <2>2 DEF Advance
    <3>2. \A i \in Job \ {j} : exec'[i] = exec[i]
      BY <3>1, <1>0
    <3>3. exec[j].node \in Node
      BY <3>1 DEF Inv, ExecsEntitled
    <3>4. j = k => exec'[j].view = [exec[j].view EXCEPT ![exec[j].node] = "done"]
      BY <3>1, <1>0 DEF Exec
    <3>5. CASE m = exec[j].node
      BY <3>1, <3>2, <3>5, <1>0, <1>2
    <3>6. CASE m # exec[j].node
      BY <3>1, <3>2, <3>4, <3>6, <1>0, <1>2
    <3> QED
      BY <3>5, <3>6
  <2> QED
    BY <2>1, <2>2
<1>6. ASSUME NEW j \in Job, Activate(j) PROVE Goal
  <2>1. exec[j].pc # "idle" /\ \E n \in Nat : \E r : Proceed(j, Tried(j, n), r)
    <3> DEFINE hits == {n \in Ready(exec[j].view) : Hits(n, "pending")}
    <3>1. exec[j].pc = "activate"
      BY <1>6 DEF Activate
    <3>2. Node \subseteq Nat /\ N \in Nat
      BY TemplateAssumption DEF Node
    <3>3. CASE \E n \in hits : Proceed(j, Tried(j, n), [row EXCEPT ![n] = Fresh])
      BY <3>1, <3>2, <3>3 DEF Ready, With
    <3>4. CASE Proceed(j, Tried(j, N), row)
      BY <3>1, <3>2, <3>4
    <3> QED
      BY <1>6, <3>3, <3>4 DEF Activate
  <2>2. PICK n \in Nat : \E r : Proceed(j, Tried(j, n), r)
    BY <2>1
  <2>5. PICK r : Proceed(j, Tried(j, n), r)
    BY <2>2
  <2>3. CASE Finish(j, lease, r)
    <3>1. exec' = [exec EXCEPT ![j] = Idle]
      BY <2>3 DEF Finish
    <3> QED
      BY <3>1, <1>0, <1>2 DEF Idle
  <2>4. CASE exec' = [exec EXCEPT ![j].pc = "loop", ![j].view = Tried(j, n)]
    <3>1. \A i \in Job \ {j} : exec'[i] = exec[i]
      BY <2>4, <1>0
    <3>2. j = k => exec'[j].view = Tried(j, n)
      BY <2>4, <1>0 DEF Exec
    <3>3. j = k => exec'[j].view[m] # "done" \/ exec'[j].view[m] = exec[j].view[m]
      BY <3>2 DEF Tried
    <3> QED
      BY <2>1, <3>1, <3>3, <1>2
  <2> QED
    BY <2>5, <2>3, <2>4 DEF Proceed
<1>7. ASSUME NEW j \in Job, Approve(j) \/ Rewind(j) \/ RequeueGate(j) PROVE Goal
  <2>1. CASE JobError(j)
    BY <2>1, <1>3
  <2>2. CASE ~JobError(j)
    <3>1. exec[j].pc # "idle" /\ \A i \in Job \ {j} : exec'[i] = exec[i]
      BY <1>7, <2>2, <1>0 DEF Approve, Rewind, RequeueGate
    <3>2. j = k => exec'[j].view[m] # "done" \/ exec'[j].view[m] = exec[j].view[m]
      BY <1>7, <2>2, <1>0 DEF Approve, Rewind, RequeueGate, Exec
    <3> QED
      BY <3>1, <3>2, <1>2
  <2> QED
    BY <2>1, <2>2
<1>8. ASSUME NEW j \in Job, NEW pc, NEW n, Begin(j, pc, n, status') PROVE Goal
  <2>1. \A i \in Job \ {j} : exec'[i] = exec[i]
    BY <1>8, <1>0 DEF Begin
  <2>2. exec'[j].view = status'
    BY <1>8, <1>0 DEF Begin
  <2> QED
    BY <2>1, <2>2, <1>2
<1>9. CASE StartRun
  BY <1>8, <1>9, NodesAndJobs DEF StartRun
<1>10. ASSUME NEW j \in Job, StartResume(j) PROVE Goal
  <2>1. status' = status
    BY <1>10 DEF StartResume
  <2>2. CASE Finish(j, lease, row)
    <3>1. exec' = [exec EXCEPT ![j] = Idle]
      BY <2>2 DEF Finish
    <3> QED
      BY <3>1, <1>0, <1>2 DEF Idle
  <2>3. CASE ~Finish(j, lease, row)
    BY <1>8, <1>10, <2>1, <2>3 DEF StartResume
  <2> QED
    BY <2>2, <2>3
<1>11. CASE \/ UNCHANGED vars \/ Gateway \/ EnqueueTaskFails \/ EnqueueResumeFails \/ SweepEnqueueFails
            \/ ApiCrash \/ Sweeper
            \/ \E d \in Decision : Decide(d)
            \/ \E n \in Node : Clock(n)
            \/ \E j \in Job : JobExhausted(j) \/ ResultExpires(j)
  <2>1. exec' = exec
    BY <1>11 DEF vars, Gateway, Prepare, MarkReadyQueued, EnqueueTask, UndoQueued, EnqueueResume, EnqueueTaskFails,
       EnqueueResumeFails, SweepEnqueueFails, ApiCrash, Sweeper, Scan, SweepEnqueue, ReadTask, DeadLetter, Requeue, Decide,
       Clock, LeaseRunsOut, RowAges, JobExhausted, ResultExpires
  <2> QED
    BY <2>1, <1>1
<1> QED
  BY <1>3, <1>4, <1>5, <1>6, <1>7, <1>9, <1>10, <1>11 DEF Next, Step, AgentReturns, Environment

WaitsOrRuns == {"waiting", "active"}

\* A resume job comes from the gateway's enqueue only, and the next decision is taken when there is none.
LEMMA ResumeFrame ==
  ASSUME Inv, [Next]_vars, Overlap = FALSE
  PROVE  /\ \A j \in Job \ {0} : jobs'[j] \in WaitsOrRuns =>
              jobs[j] \in WaitsOrRuns \/ (gw.pc = "decided" /\ gw'.pc = "idle" /\ j = gw.node)
         /\ gw'.pc = "decided" =>
              \/ gw.pc = "decided"
              \/ \A j \in Job \ {0} : jobs'[j] \notin WaitsOrRuns
<1> DEFINE Goal == /\ \A j \in Job \ {0} : jobs'[j] \in WaitsOrRuns =>
                        jobs[j] \in WaitsOrRuns \/ (gw.pc = "decided" /\ gw'.pc = "idle" /\ j = gw.node)
                   /\ gw'.pc = "decided" =>
                        \/ gw.pc = "decided"
                        \/ \A j \in Job \ {0} : jobs'[j] \notin WaitsOrRuns
<1>0. jobs \in [Job -> JobState] /\ gw \in Gw
  BY DEF Inv, TypeOK
<1>1. ASSUME NEW d \in Decision, Decide(d) PROVE Goal
  <2>1. jobs' = jobs /\ \A j \in Job \ {0} : jobs[j] \notin {"waiting", "active"}
    BY <1>1 DEF Decide, arq
  <2> QED
    BY <2>1 DEF WaitsOrRuns
<1>2. CASE EnqueueResume \/ EnqueueResumeFails
  <2>1. gw.pc = "decided" /\ gw'.pc = "idle"
    BY <1>2 DEF EnqueueResume, EnqueueResumeFails, GwIdle
  <2>2. jobs' = jobs \/ jobs' = [jobs EXCEPT ![gw.node] = "waiting"]
    BY <1>2 DEF EnqueueResume, EnqueueResumeFails, EnqueueJob
  <2> QED
    BY <1>0, <2>1, <2>2
<1>3. ASSUME EnqueueJob(0, "none") \/ UNCHANGED jobs, gw'.pc # "decided" \/ gw' = gw PROVE Goal
  BY <1>0, <1>3 DEF EnqueueJob
<1>4. CASE \/ UNCHANGED vars \/ Prepare \/ MarkReadyQueued \/ EnqueueTask \/ EnqueueTaskFails \/ UndoQueued \/ ApiCrash
           \/ Sweeper \/ SweepEnqueueFails \/ \E n \in Node : Clock(n)
  <2>1. EnqueueJob(0, "none") \/ UNCHANGED jobs
    BY <1>4 DEF vars, arq, Prepare, MarkReadyQueued, EnqueueTask, EnqueueTaskFails, UndoQueued, ApiCrash, Sweeper, Scan,
       SweepEnqueue, ReadTask, DeadLetter, Requeue, SweepEnqueueFails, Clock, LeaseRunsOut, RowAges
  <2>2. gw'.pc # "decided" \/ gw' = gw
    <3>1. CASE Prepare \/ MarkReadyQueued \/ EnqueueTaskFails
      BY <1>0, <3>1 DEF Prepare, MarkReadyQueued, EnqueueTaskFails, Gw
    <3>2. CASE EnqueueTask \/ UndoQueued \/ ApiCrash
      BY <3>2 DEF EnqueueTask, UndoQueued, ApiCrash, GwIdle
    <3>3. CASE UNCHANGED vars \/ Sweeper \/ SweepEnqueueFails \/ \E n \in Node : Clock(n)
      BY <3>3 DEF vars, api, Sweeper, Scan, SweepEnqueue, ReadTask, DeadLetter, Requeue, SweepEnqueueFails, Clock, LeaseRunsOut,
         RowAges
    <3> QED
      BY <1>4, <3>1, <3>2, <3>3
  <2> QED
    BY <2>1, <2>2, <1>3
<1>5. ASSUME NEW j \in Job, gw' = gw, jobs[j] \in WaitsOrRuns \/ jobs'[j] \notin WaitsOrRuns \/ j = 0,
             \A i \in Job \ {j} : jobs'[i] = jobs[i]
      PROVE  Goal
  BY <1>5
<1>6. ASSUME NEW j \in Job,
             \/ Step(j) \/ JobRaises(j) \/ WorkerCrash(j) \/ JobTimeout(j) \/ Heartbeat(j)
      PROVE  Goal
  <2>1. gw' = gw /\ exec[j].pc # "idle"
    BY <1>6, ExecutionFrame
  <2>2. jobs[j] = "active"
    BY <2>1 DEF Inv, JobsDecided
  <2>3. jobs' = jobs \/ \E s : jobs' = [jobs EXCEPT ![j] = s]
    BY <1>6 DEF Step, AgentReturns, LoopEnds, InterruptApproval, CallAgent, AgentSucceeds, AgentAsks, AgentFails,
       Advance, Activate, Approve, Rewind, RequeueGate, JobRaises, WorkerCrash, JobTimeout, Heartbeat, JobError,
       Finish, Proceed, arq
  <2> QED
    BY <1>0, <1>5, <2>1, <2>2, <2>3 DEF WaitsOrRuns
<1>7. ASSUME NEW j \in Job, StartResume(j) PROVE Goal
  <2>1. gw' = gw /\ jobs[j] = "waiting"
    BY <1>7 DEF StartResume, CanStart, api
  <2>2. \E s : jobs' = [jobs EXCEPT ![j] = s]
    BY <1>7 DEF StartResume, Begin, Finish
  <2> QED
    BY <1>0, <1>5, <2>1, <2>2 DEF WaitsOrRuns
<1>8. CASE StartRun
  <2>1. gw' = gw /\ \E s : jobs' = [jobs EXCEPT ![0] = s]
    BY <1>8 DEF StartRun, Begin, api
  <2> QED
    BY <1>0, <1>5, <2>1, NodesAndJobs
<1>9. ASSUME NEW j \in Job, JobExhausted(j) \/ ResultExpires(j) PROVE Goal
  <2>1. gw' = gw /\ \E s \in {"kept", "absent"} : jobs' = [jobs EXCEPT ![j] = s]
    BY <1>9 DEF JobExhausted, ResultExpires, api
  <2> QED
    BY <1>0, <1>5, <2>1 DEF WaitsOrRuns
<1> QED
  BY <1>1, <1>2, <1>4, <1>6, <1>7, <1>8, <1>9 DEF Next, Gateway, Environment

\* Where an execution that advances or handles a rejection comes from.
LEMMA PlaceFrame ==
  ASSUME Inv, [Next]_vars, NEW k \in Job
  PROVE  /\ exec'[k].pc \in {"approve", "reject", "requeue"} => k # 0 \/ exec[k].pc = "reject"
                                                             \/ exec'[k] = exec[k]
         /\ exec'[k].pc = "advance" =>
              \/ exec[k].pc = "approve"
              \/ exec[k].pc \in {"agent", "advance"} /\ exec'[k].node = exec[k].node
         /\ exec'[k].pc = "reject" =>
              \/ exec[k].pc = "reject" /\ exec'[k].node = exec[k].node
              \/ status[exec'[k].node] # "done" /\ status' = status
<1> DEFINE Goal == /\ exec'[k].pc \in {"approve", "reject", "requeue"} => k # 0 \/ exec[k].pc = "reject"
                                                                       \/ exec'[k] = exec[k]
                   /\ exec'[k].pc = "advance" =>
                        \/ exec[k].pc = "approve"
                        \/ exec[k].pc \in {"agent", "advance"} /\ exec'[k].node = exec[k].node
                   /\ exec'[k].pc = "reject" =>
                        \/ exec[k].pc = "reject" /\ exec'[k].node = exec[k].node
                        \/ status[exec'[k].node] # "done" /\ status' = status
<1>0. exec \in [Job -> Exec] /\ exec[k] \in Exec
  BY DEF Inv, TypeOK
<1>1. CASE exec'[k] = exec[k]
  BY <1>1
<1>2. ASSUME NEW j \in Job, exec' = [exec EXCEPT ![j] = exec'[j]],
             \/ exec'[j].pc \in {"idle", "loop", "activate", "agent"}
             \/ exec[j].pc = "reject" /\ exec'[j].pc = "requeue"
             \/ /\ exec'[j].pc = "advance"
                /\ exec[j].pc = "approve" \/ (exec[j].pc = "agent" /\ exec'[j].node = exec[j].node)
      PROVE  Goal
  BY <1>0, <1>1, <1>2
<1>3. ASSUME NEW j \in Job, \/ LoopEnds(j) \/ InterruptApproval(j) \/ AgentAsks(j) \/ AgentFails(j) \/ JobError(j)
                            \/ JobRaises(j) \/ JobTimeout(j) \/ WorkerCrash(j)
      PROVE  Goal
  <2>1. exec' = [exec EXCEPT ![j] = Idle]
    BY <1>3 DEF LoopEnds, InterruptApproval, AgentAsks, AgentFails, JobError, JobRaises, JobTimeout, WorkerCrash, Finish
  <2>2. exec'[j].pc = "idle" /\ exec' = [exec EXCEPT ![j] = exec'[j]]
    BY <2>1, <1>0 DEF Idle
  <2> QED
    BY <2>2, <1>2
<1>4. ASSUME NEW j \in Job, ~JobError(j),
             \/ CallAgent(j) \/ Heartbeat(j) \/ AgentSucceeds(j) \/ Advance(j) \/ Approve(j) \/ Rewind(j) \/ RequeueGate(j)
      PROVE  Goal
  <2>1. exec' = [exec EXCEPT ![j] = exec'[j]]
    BY <1>4, <1>0 DEF CallAgent, Heartbeat, AgentSucceeds, Advance, Approve, Rewind, RequeueGate
  <2>2. CASE CallAgent(j) \/ Heartbeat(j) \/ Advance(j) \/ RequeueGate(j)
    <3>1. exec'[j].pc \in {"loop", "activate", "agent"}
      BY <1>4, <2>2, <1>0 DEF CallAgent, Heartbeat, Advance, RequeueGate, Exec
    <3> QED
      BY <2>1, <3>1, <1>2
  <2>3. CASE AgentSucceeds(j)
    <3>1. exec[j].pc = "agent" /\ exec'[j].pc = "advance" /\ exec'[j].node = exec[j].node
      BY <2>3, <1>0 DEF AgentSucceeds, Exec
    <3> QED
      BY <2>1, <3>1, <1>2
  <2>4. CASE Approve(j)
    <3>1. exec[j].pc = "approve" /\ exec'[j].pc = "advance"
      BY <1>4, <2>4, <1>0 DEF Approve, Exec
    <3> QED
      BY <2>1, <3>1, <1>2
  <2>5. CASE Rewind(j)
    <3>1. exec[j].pc = "reject" /\ exec'[j].pc = "requeue"
      BY <1>4, <2>5, <1>0 DEF Rewind, Exec
    <3> QED
      BY <2>1, <3>1, <1>2
  <2> QED
    BY <1>4, <2>2, <2>3, <2>4, <2>5
<1>5. ASSUME NEW j \in Job, Activate(j) PROVE Goal
  <2>1. \E n, r : Proceed(j, Tried(j, n), r)
    BY <1>5 DEF Activate
  <2>2. PICK n, r : Proceed(j, Tried(j, n), r)
    BY <2>1
  <2>3. /\ exec' = [exec EXCEPT ![j] = exec'[j]]
        /\ exec'[j].pc \in {"idle", "loop"}
    BY <2>2, <1>0 DEF Proceed, Finish, Idle, Exec
  <2> QED
    BY <2>3, <1>2
<1>6. CASE StartRun
  <2>1. \E v : Begin(0, "loop", 0, v)
    BY <1>6 DEF StartRun
  <2>2. exec' = [exec EXCEPT ![0] = exec'[0]] /\ exec'[0].pc = "loop"
    BY <2>1, <1>0, NodesAndJobs DEF Begin
  <2> QED
    BY <2>2, <1>2, NodesAndJobs
<1>7. ASSUME NEW j \in Job, StartResume(j) PROVE Goal
  <2>1. j # 0 /\ status' = status
    BY <1>7 DEF StartResume
  <2>2. CASE Finish(j, lease, row) \/ Begin(j, "loop", 0, status)
    <3>1. exec' = [exec EXCEPT ![j] = exec'[j]] /\ exec'[j].pc \in {"idle", "loop"}
      BY <2>2, <1>0 DEF Begin, Finish, Idle
    <3> QED
      BY <3>1, <1>2
  <2>3. ASSUME NEW h \in Gates(status), Begin(j, dec[j], h, status) PROVE Goal
    <3>1. /\ exec'[j].node = h /\ exec'[j].pc = dec[j]
          /\ \A i \in Job \ {j} : exec'[i] = exec[i]
      BY <2>3, <1>0 DEF Begin
    <3>2. status[h] # "done"
      BY DEF Gates
    <3>3. dec[j] # "advance"
      BY DEF Inv, TypeOK, Decision
    <3>4. CASE j = k
      BY <2>1, <3>1, <3>2, <3>3, <3>4
    <3>5. CASE j # k
      BY <3>1, <3>5, <1>1
    <3> QED
      BY <3>4, <3>5
  <2> QED
    BY <1>7, <2>2, <2>3 DEF StartResume, IsFirst
<1>8. CASE \/ UNCHANGED vars \/ Gateway \/ EnqueueTaskFails \/ EnqueueResumeFails \/ SweepEnqueueFails
           \/ ApiCrash \/ Sweeper
           \/ \E d \in Decision : Decide(d)
           \/ \E n \in Node : Clock(n)
           \/ \E j \in Job : JobExhausted(j) \/ ResultExpires(j)
  <2>1. exec' = exec
    BY <1>8 DEF vars, Gateway, Prepare, MarkReadyQueued, EnqueueTask, UndoQueued, EnqueueResume, EnqueueTaskFails,
       EnqueueResumeFails, SweepEnqueueFails, ApiCrash, Sweeper, Scan, SweepEnqueue, ReadTask, DeadLetter, Requeue, Decide,
       Clock, LeaseRunsOut, RowAges, JobExhausted, ResultExpires
  <2> QED
    BY <2>1, <1>1
<1> QED
  BY <1>3, <1>4, <1>5, <1>6, <1>7, <1>8 DEF Next, Step, AgentReturns, Environment

LEMMA OneResumeStep == ASSUME OrderInv, [Next]_vars, Overlap = FALSE PROVE OneResume'
<1>1. ASSUME NEW j \in Job \ {0}, NEW k \in Job \ {0}, jobs'[j] \in WaitsOrRuns, jobs'[k] \in WaitsOrRuns PROVE j = k
  <2>1. /\ jobs[j] \in WaitsOrRuns \/ (gw.pc = "decided" /\ j = gw.node)
        /\ jobs[k] \in WaitsOrRuns \/ (gw.pc = "decided" /\ k = gw.node)
    BY <1>1, ResumeFrame DEF OrderInv
  <2>2. /\ jobs[j] \in WaitsOrRuns /\ jobs[k] \in WaitsOrRuns => j = k
        /\ gw.pc = "decided" => jobs[j] \notin WaitsOrRuns /\ jobs[k] \notin WaitsOrRuns
    BY DEF OrderInv, OneResume, WaitsOrRuns
  <2> QED
    BY <2>1, <2>2
<1>2. ASSUME gw'.pc = "decided", NEW j \in Job \ {0} PROVE jobs'[j] \notin WaitsOrRuns
  BY <1>2, ResumeFrame DEF OrderInv, OneResume, WaitsOrRuns
<1> QED
  BY <1>1, <1>2 DEF OneResume, WaitsOrRuns

\* Two executions of resume jobs are one.
LEMMA ResumesAgree ==
  ASSUME OrderInv, NEW j \in Job \ {0}, NEW k \in Job \ {0}, exec[j].pc # "idle", exec[k].pc # "idle"
  PROVE  j = k
BY DEF OrderInv, OneResume, Inv, JobsDecided

LEMMA OrderlyStep == ASSUME OrderInv, [Next]_vars PROVE OrderlyExecs'
<1>1. exec'[0].pc \notin {"approve", "reject", "requeue"}
  BY NodesAndJobs, PlaceFrame DEF OrderInv, OrderlyExecs
<1>2. exec'[0].pc = "advance" => exec'[0].node \notin Hitl
  <2>1. exec[0].pc # "approve" /\ (exec[0].pc \in {"agent", "advance"} => exec[0].node \notin Hitl)
    BY NodesAndJobs DEF OrderInv, OrderlyExecs, Inv, ExecsEntitled
  <2> QED
    BY <2>1, NodesAndJobs, PlaceFrame DEF OrderInv
<1>3. ASSUME NEW j \in Job, exec'[j].pc = "reject" PROVE status'[exec'[j].node] # "done"
  <2>1. CASE status[exec'[j].node] # "done" /\ status' = status
    BY <2>1
  <2>2. CASE exec[j].pc = "reject" /\ exec'[j].node = exec[j].node
    <3>1. exec[j].node \in Hitl /\ exec[j].node \in Node /\ status[exec[j].node] # "done" /\ j # 0
      BY <2>2, NodesAndJobs DEF OrderInv, OrderlyExecs, Inv, ExecsEntitled
    <3>2. SUFFICES ASSUME status'[exec[j].node] = "done" PROVE FALSE
      BY <2>2
    <3>3. PICK k \in Job : exec[k].pc = "advance" /\ exec[k].node = exec[j].node
      BY <3>1, <3>2, InOrderFrame DEF OrderInv
    <3>4. k # 0
      BY <3>1, <3>3 DEF OrderInv, OrderlyExecs
    <3> QED
      BY <2>2, <3>1, <3>3, <3>4, ResumesAgree
  <2> QED
    BY <1>3, <2>1, <2>2, PlaceFrame DEF OrderInv
<1> QED
  BY <1>1, <1>2, <1>3 DEF OrderlyExecs

\* The gate at node h is not done, so whatever the run job's view says of it, there is a gate behind h - 1.
LEMMA GateBehindPrevious ==
  ASSUME OrderInv, NEW h \in Hitl, NEW m \in Node, m = h - 1, status[h] # "done", exec[0].pc # "idle"
  PROVE  GateBehind(exec[0].view, m)
<1>1. h \in Node /\ m \in Nat /\ h = m + 1
  BY NodesAndJobs, TemplateAssumption DEF Node
<1>2. CASE exec[0].view[h] # "done"
  BY <1>1, <1>2 DEF GateBehind
<1>3. CASE exec[0].view[h] = "done"
  <2>1. GateBehind(exec[0].view, h)
    BY <1>1, <1>3, NodesAndJobs DEF OrderInv, ViewsFaithful
  <2>2. PICK g \in Hitl : h < g /\ (\A i \in h + 1 .. g : i \in Hitl) /\ exec[0].view[g] # "done"
    BY <2>1 DEF GateBehind
  <2>3. g \in Nat
    BY NodesAndJobs, TemplateAssumption DEF Node
  <2>4. \A i \in m + 1 .. g : i = h \/ i \in h + 1 .. g
    BY <1>1, <2>3
  <2>5. m < g /\ \A i \in m + 1 .. g : i \in Hitl
    BY <1>1, <2>2, <2>3, <2>4
  <2> QED
    BY <2>2, <2>5 DEF GateBehind
<1> QED
  BY <1>2, <1>3

LEMMA ViewsStep == ASSUME OrderInv, [Next]_vars PROVE ViewsFaithful'
<1> SUFFICES ASSUME NEW j \in Job, NEW m \in Node, exec'[j].pc # "idle", exec'[j].view[m] = "done", status'[m] # "done"
             PROVE  j = 0 /\ GateBehind(exec'[j].view, m)
  BY DEF ViewsFaithful, GateBehind
<1>1. exec[j].pc # "idle" /\ exec[j].view[m] = "done"
  BY ViewFrame DEF OrderInv
<1>2. j = 0 /\ GateBehind(exec[j].view, m)
  <2>1. CASE status[m] # "done"
    BY <1>1, <2>1 DEF OrderInv, ViewsFaithful
  <2>2. CASE status[m] = "done"
    <3>1. PICK k \in Job : /\ exec[k].pc = "reject" /\ m = exec[k].node - 1
                           /\ \A i \in Job \ {k} : exec'[i] = exec[i]
                           /\ exec'[k].view[m] # "done"
      BY <2>2, ReopenFrame DEF OrderInv
    <3>2. k # 0 /\ j # k
      BY <3>1 DEF OrderInv, OrderlyExecs
    <3>3. j = 0
      BY <1>1, <3>1, <3>2, ResumesAgree
    <3>4. exec[k].node \in Hitl /\ status[exec[k].node] # "done"
      BY <3>1 DEF OrderInv, OrderlyExecs, Inv, ExecsEntitled
    <3> QED
      BY <1>1, <3>1, <3>3, <3>4, GateBehindPrevious
  <2> QED
    BY <2>1, <2>2
<1>3. PICK g \in Hitl : m < g /\ (\A i \in m + 1 .. g : i \in Hitl) /\ exec[j].view[g] # "done"
  BY <1>2 DEF GateBehind
<1>4. exec'[j].view[g] # "done"
  <2>1. exec'[j].view # status'
    OBVIOUS
  <2>2. ~(exec[j].pc = "advance" /\ g = exec[j].node)
    BY <1>2, <1>3 DEF OrderInv, OrderlyExecs
  <2> QED
    BY <1>3, <2>1, <2>2, NodesAndJobs, ViewFrame DEF OrderInv
<1> QED
  BY <1>2, <1>3, <1>4 DEF GateBehind

LEMMA PrefixStep == ASSUME OrderInv, [Next]_vars PROVE PrefixDone'
<1> SUFFICES ASSUME NEW n \in Node, status'[n] = "done", NEW m \in 1 .. n - 1 PROVE status'[m] = "done"
  BY DEF PrefixDone
<1>1. m \in Node /\ m \in Nat /\ n \in Nat /\ m < n
  BY TemplateAssumption DEF Node
<1>2. status[m] = "done"
  <2>1. CASE status[n] = "done"
    BY <2>1 DEF OrderInv, PrefixDone
  <2>2. CASE status[n] # "done"
    <3>1. PICK j \in Job : exec[j].pc = "advance" /\ exec[j].node = n /\ InOrder(n, exec[j].view)
      BY <2>2, InOrderFrame DEF OrderInv
    <3>2. SUFFICES ASSUME status[m] # "done" PROVE FALSE
      OBVIOUS
    <3>3. j = 0 /\ GateBehind(exec[j].view, m)
      BY <1>1, <3>1, <3>2 DEF OrderInv, ViewsFaithful, InOrder
    <3>4. PICK g \in Hitl : m < g /\ (\A i \in m + 1 .. g : i \in Hitl) /\ exec[j].view[g] # "done"
      BY <3>3 DEF GateBehind
    <3>5. g \in Nat /\ g >= 1
      BY NodesAndJobs, TemplateAssumption DEF Node
    <3>6. n \notin Hitl
      BY <3>1, <3>3 DEF OrderInv, OrderlyExecs
    <3>7. CASE g <= n - 1
      BY <1>1, <3>1, <3>4, <3>5, <3>7 DEF InOrder
    <3>8. CASE g >= n
      BY <1>1, <3>4, <3>5, <3>6, <3>8
    <3> QED
      BY <1>1, <3>5, <3>7, <3>8
  <2> QED
    BY <2>1, <2>2
<1>3. SUFFICES ASSUME status'[m] # "done" PROVE FALSE
  OBVIOUS
<1>4. PICK k \in Job : /\ exec[k].pc = "reject" /\ m = exec[k].node - 1
                       /\ status' = [status EXCEPT ![m] = "running"]
  BY <1>1, <1>2, <1>3, ReopenFrame DEF OrderInv
<1>5. status[n] = "done"
  BY <1>1, <1>4 DEF OrderInv, Inv, TypeOK
<1>6. exec[k].node \in Hitl /\ status[exec[k].node] # "done"
  BY <1>4 DEF OrderInv, OrderlyExecs, Inv, ExecsEntitled
<1>10. exec[k].node \in Node
  BY <1>6, NodesAndJobs
<1>7. exec[k].node \in Nat /\ exec[k].node >= 1 /\ exec[k].node <= n
  BY <1>1, <1>4, <1>10, TemplateAssumption DEF Node
<1>8. CASE exec[k].node = n
  BY <1>5, <1>6, <1>8
<1>9. CASE exec[k].node < n
  <2>1. exec[k].node \in 1 .. n - 1
    BY <1>1, <1>7, <1>9
  <2> QED
    BY <1>5, <1>6, <2>1 DEF OrderInv, PrefixDone
<1> QED
  BY <1>1, <1>7, <1>8, <1>9

LEMMA InitOrder == Init => OrderInv
<1> SUFFICES ASSUME Init PROVE OrderInv
  OBVIOUS
<1>1. Inv
  BY InitInv
<1>2. \A j \in Job : exec[j].pc = "idle" /\ jobs[j] = "absent"
  BY DEF Init, Idle
<1>3. gw.pc = "idle" /\ \A n \in Node : status[n] = "absent"
  BY DEF Init, GwIdle
<1> QED
  BY <1>1, <1>2, <1>3, NodesAndJobs DEF OrderInv, OneResume, OrderlyExecs, ViewsFaithful, PrefixDone

LEMMA OrderStep == ASSUME Overlap = FALSE PROVE OrderInv /\ [Next]_vars => OrderInv'
BY InvStep, OneResumeStep, OrderlyStep, ViewsStep, PrefixStep DEF OrderInv

\* As long as decisions do not overtake each other, a node is finished only when everything before it
\* is, for every template and whatever crashes, although executions decide on views of the past.
\* (engine.advance's order check, engine.rewind, and the sessions they read)
THEOREM NodesFinishInOrder == ASSUME Overlap = FALSE PROVE Spec => []PrefixDone
<1>1. OrderInv => PrefixDone
  BY DEF OrderInv
<1> QED
  BY <1>1, InitOrder, OrderStep, PTL DEF Spec
-----------------------------------------------------------------------------
(* One active node, as long as decisions do not overtake each other and no   *)
(* execution is broken off.                                                  *)

\* Executions run to their end; the API process and Redis may fail.
WorkersLast == Faults \subseteq {"api", "redis"}

ActiveNode(n) == status[n] \in {"running", "queued"}

\* A rejection sends back the node before the gate and, in a second transaction, the gate.
BeingRequeued(h) == \E j \in Job \ {0} : exec[j].pc = "requeue" /\ exec[j].node = h

\* The places where the task is: an active node, a gate where it stands, and an execution that has
\* finished a node and not opened the next one.
Standing(n) == ActiveNode(n) \/ (status[n] = "blocked" /\ ~BeingRequeued(n))
Opening(j)  == exec[j].pc = "activate"

OnePlace ==
  /\ \A m, n \in Node : Standing(m) /\ Standing(n) => m = n
  /\ \A j, k \in Job : Opening(j) /\ Opening(k) => j = k
  /\ \A j \in Job : \A n \in Node : ~(Opening(j) /\ Standing(n))

\* Decisions that are under way are about a gate where the task stands.
DecisionsMeet ==
  /\ gw.pc = "decided" /\ gw.dec # "answer" => \E h \in Node : status[h] = "blocked"
  /\ \A j \in Job \ {0} : jobs[j] = "waiting" /\ dec[j] # "answer" => \E h \in Node : status[h] = "blocked"
  /\ \A j \in Job : exec[j].pc \in {"approve", "reject"} => status[exec[j].node] = "blocked"
  /\ \A j \in Job : exec[j].pc \in {"approve", "reject", "requeue"} =>
       j # 0 /\ exec[j].view[exec[j].node] = "blocked"

PlaceInv == OrderInv /\ OnePlace /\ DecisionsMeet

\* The three ways in which the places may change.
LEMMA NothingOpens ==
  ASSUME OnePlace, \A n \in Node : Standing(n)' => Standing(n), \A j \in Job : Opening(j)' => Opening(j)
  PROVE  OnePlace'
BY DEF OnePlace

LEMMA NodeMoves ==
  ASSUME OnePlace, NEW m \in Node, Standing(m), NEW p \in Node,
         \A n \in Node : Standing(n)' => n = p \/ (n # m /\ Standing(n)),
         \A j \in Job : Opening(j)' => Opening(j)
  PROVE  OnePlace'
BY DEF OnePlace

LEMMA NodeCloses ==
  ASSUME OnePlace, NEW m \in Node, Standing(m), NEW k \in Job,
         \A n \in Node : Standing(n)' => n # m /\ Standing(n),
         \A j \in Job : Opening(j)' => j = k \/ Opening(j)
  PROVE  OnePlace'
BY DEF OnePlace

LEMMA NodeOpens ==
  ASSUME OnePlace, NEW k \in Job, Opening(k), NEW p \in Node,
         \A n \in Node : Standing(n)' => n = p \/ Standing(n),
         \A j \in Job : Opening(j)' => j # k /\ Opening(j)
  PROVE  OnePlace'
BY DEF OnePlace

\* An execution that is not sending a gate back stops no other from doing so.
LEMMA RequeueKept ==
  ASSUME NEW j \in Job, exec[j].pc # "requeue", \A i \in Job \ {j} : exec'[i] = exec[i], NEW n \in Node, BeingRequeued(n)
  PROVE  BeingRequeued(n)'
BY DEF BeingRequeued

\* So nothing new opens when it changes nodes in place only.
LEMMA InPlace ==
  ASSUME OnePlace, NEW j \in Job, exec[j].pc # "requeue", \A i \in Job \ {j} : exec'[i] = exec[i],
         exec'[j].pc # "activate",
         \A n \in Node : /\ ActiveNode(n)' => ActiveNode(n)
                         /\ status'[n] = "blocked" => status[n] = "blocked" \/ ActiveNode(n)
  PROVE  OnePlace'
<1>1. ASSUME NEW n \in Node, Standing(n)' PROVE Standing(n)
  BY <1>1, RequeueKept DEF Standing
<1>2. ASSUME NEW i \in Job, Opening(i)' PROVE Opening(i)
  BY <1>2 DEF Opening
<1> QED
  BY <1>1, <1>2, NothingOpens

\* Where an execution that handles a decision comes from.
LEMMA DecisionFrame ==
  ASSUME Inv, [Next]_vars, NEW k \in Job, exec'[k].pc \in {"approve", "reject", "requeue"}
  PROVE  \/ exec'[k] = exec[k]
         \/ /\ exec[k].pc = "reject" /\ exec'[k].pc = "requeue" /\ exec'[k].node = exec[k].node
            /\ exec'[k].view[exec[k].node] = exec[k].view[exec[k].node]
         \/ /\ k # 0 /\ jobs[k] = "waiting" /\ dec[k] # "answer"
            /\ exec'[k].pc = dec[k] /\ IsFirst(exec'[k].node, Gates(status))
            /\ exec'[k].view = status /\ status' = status
<1> DEFINE Goal == \/ exec'[k] = exec[k]
                   \/ /\ exec[k].pc = "reject" /\ exec'[k].pc = "requeue" /\ exec'[k].node = exec[k].node
                      /\ exec'[k].view[exec[k].node] = exec[k].view[exec[k].node]
                   \/ /\ k # 0 /\ jobs[k] = "waiting" /\ dec[k] # "answer"
                      /\ exec'[k].pc = dec[k] /\ IsFirst(exec'[k].node, Gates(status))
                      /\ exec'[k].view = status /\ status' = status
<1>0. exec \in [Job -> Exec] /\ exec[k] \in Exec /\ exec[k].node \in Job
  BY ExecFields DEF Inv, TypeOK
<1>1. CASE exec'[k] = exec[k]
  BY <1>1
<1>2. ASSUME NEW j \in Job, \A i \in Job \ {j} : exec'[i] = exec[i],
             exec'[j].pc \in {"idle", "loop", "activate", "agent", "advance"}
      PROVE  Goal
  BY <1>1, <1>2
<1>3. ASSUME NEW j \in Job, \/ LoopEnds(j) \/ InterruptApproval(j) \/ AgentAsks(j) \/ AgentFails(j) \/ JobError(j)
                            \/ JobRaises(j) \/ JobTimeout(j) \/ WorkerCrash(j)
      PROVE  Goal
  <2>1. exec' = [exec EXCEPT ![j] = Idle]
    BY <1>3 DEF LoopEnds, InterruptApproval, AgentAsks, AgentFails, JobError, JobRaises, JobTimeout, WorkerCrash, Finish
  <2>2. exec'[j].pc = "idle" /\ \A i \in Job \ {j} : exec'[i] = exec[i]
    BY <2>1, <1>0 DEF Idle
  <2> QED
    BY <2>2, <1>2
<1>4. ASSUME NEW j \in Job, ~JobError(j),
             \/ CallAgent(j) \/ Heartbeat(j) \/ AgentSucceeds(j) \/ Advance(j) \/ Approve(j) \/ Rewind(j) \/ RequeueGate(j)
      PROVE  Goal
  <2>1. \A i \in Job \ {j} : exec'[i] = exec[i]
    BY <1>4, <1>0 DEF CallAgent, Heartbeat, AgentSucceeds, Advance, Approve, Rewind, RequeueGate
  <2>2. CASE \/ CallAgent(j) \/ Heartbeat(j) \/ AgentSucceeds(j) \/ Advance(j) \/ Approve(j) \/ RequeueGate(j)
    <3>1. exec'[j].pc \in {"loop", "activate", "agent", "advance"}
      BY <1>4, <2>2, <1>0 DEF CallAgent, Heartbeat, AgentSucceeds, Advance, Approve, RequeueGate, Exec
    <3> QED
      BY <2>1, <3>1, <1>2
  <2>3. CASE Rewind(j)
    <3>1. PICK p : p = exec[j].node - 1
      OBVIOUS
    <3>2. exec[j].pc = "reject" /\ exec' = [exec EXCEPT ![j].pc = "requeue", ![j].view[p] = "running"]
      BY <1>4, <2>3, <3>1 DEF Rewind
    <3>3. CASE j = k
      <4>1. exec[k].node \in Node
        BY <3>2, <3>3, NodesAndJobs DEF Inv, ExecsEntitled
      <4>2. p # exec[k].node
        BY <3>1, <3>3, <4>1, TemplateAssumption DEF Node
      <4>3. PICK v : v = [exec[k].view EXCEPT ![p] = "running"]
        OBVIOUS
      <4>4. exec'[k].pc = "requeue" /\ exec'[k].node = exec[k].node /\ exec'[k].view = v
        BY <3>2, <3>3, <4>3, <1>0 DEF Exec
      <4>5. exec[k].view \in [Node -> Status]
        BY <1>0, ExecFields
      <4>6. v[exec[k].node] = exec[k].view[exec[k].node]
        BY <4>1, <4>2, <4>3, <4>5
      <4> QED
        BY <3>2, <3>3, <4>4, <4>6
    <3> QED
      BY <2>1, <3>3, <1>1
  <2> QED
    BY <1>4, <2>2, <2>3
<1>5. ASSUME NEW j \in Job, Activate(j) PROVE Goal
  <2>1. \E n, r : Proceed(j, Tried(j, n), r)
    BY <1>5 DEF Activate
  <2>2. PICK n, r : Proceed(j, Tried(j, n), r)
    BY <2>1
  <2>3. /\ \A i \in Job \ {j} : exec'[i] = exec[i]
        /\ exec'[j].pc \in {"idle", "loop"}
    BY <2>2, <1>0 DEF Proceed, Finish, Idle, Exec
  <2> QED
    BY <2>3, <1>2
<1>6. CASE StartRun
  <2>1. \E v : Begin(0, "loop", 0, v)
    BY <1>6 DEF StartRun
  <2>2. (\A i \in Job \ {0} : exec'[i] = exec[i]) /\ exec'[0].pc = "loop"
    BY <2>1, <1>0, NodesAndJobs DEF Begin
  <2> QED
    BY <2>2, <1>2, NodesAndJobs
<1>7. ASSUME NEW j \in Job, StartResume(j) PROVE Goal
  <2>1. j # 0 /\ status' = status /\ jobs[j] = "waiting"
    BY <1>7 DEF StartResume, CanStart
  <2>2. CASE Finish(j, lease, row) \/ Begin(j, "loop", 0, status)
    <3>1. (\A i \in Job \ {j} : exec'[i] = exec[i]) /\ exec'[j].pc \in {"idle", "loop"}
      BY <2>2, <1>0 DEF Begin, Finish, Idle
    <3> QED
      BY <3>1, <1>2
  <2>3. ASSUME NEW h \in Hitl, IsFirst(h, Gates(status)), dec[j] # "answer", Begin(j, dec[j], h, status) PROVE Goal
    <3>1. /\ exec'[j].pc = dec[j] /\ exec'[j].node = h /\ exec'[j].view = status
          /\ \A i \in Job \ {j} : exec'[i] = exec[i]
      BY <2>3, <1>0 DEF Begin
    <3> QED
      BY <2>1, <2>3, <3>1, <1>1
  <2> QED
    BY <1>7, <2>2, <2>3 DEF StartResume
<1>8. CASE \/ UNCHANGED vars \/ Gateway \/ EnqueueTaskFails \/ EnqueueResumeFails \/ SweepEnqueueFails
           \/ ApiCrash \/ Sweeper
           \/ \E d \in Decision : Decide(d)
           \/ \E n \in Node : Clock(n)
           \/ \E j \in Job : JobExhausted(j) \/ ResultExpires(j)
  <2>1. exec' = exec
    BY <1>8 DEF vars, Gateway, Prepare, MarkReadyQueued, EnqueueTask, UndoQueued, EnqueueResume, EnqueueTaskFails,
       EnqueueResumeFails, SweepEnqueueFails, ApiCrash, Sweeper, Scan, SweepEnqueue, ReadTask, DeadLetter, Requeue, Decide,
       Clock, LeaseRunsOut, RowAges, JobExhausted, ResultExpires
  <2> QED
    BY <2>1, <1>1
<1> QED
  BY <1>3, <1>4, <1>5, <1>6, <1>7, <1>8 DEF Next, Step, AgentReturns, Environment

\* A gate is left by the execution that handles the decision about it.
LEMMA BlockedFrame ==
  ASSUME Inv, [Next]_vars, NEW n \in Node, status[n] = "blocked", status'[n] # "blocked"
  PROVE  \E j \in Job : /\ exec[j].pc \in {"approve", "requeue"} /\ exec[j].node = n
                        /\ exec'[j].pc \in {"advance", "loop"}
                        /\ UNCHANGED <<gw, jobs>>
<1>1. \E j \in Job : Approve(j) \/ RequeueGate(j)
  <2>1. ASSUME NEW j \in Job, Step(j), ~Approve(j), ~RequeueGate(j) PROVE FALSE
    BY <2>1 DEF Step, AgentReturns, LoopEnds, InterruptApproval, CallAgent, AgentSucceeds, AgentAsks, AgentFails,
       Advance, Activate, Rewind, JobError, Inv, TypeOK, db, stamps, Hits, With, Ready
  <2>2. ASSUME NEW j \in Job, \/ StartResume(j) \/ JobExhausted(j) \/ ResultExpires(j) \/ Heartbeat(j)
                              \/ JobRaises(j) \/ WorkerCrash(j) \/ JobTimeout(j)
        PROVE  FALSE
    BY <2>2 DEF StartResume, JobExhausted, ResultExpires, Heartbeat, JobRaises, WorkerCrash, JobTimeout,
       JobError, Inv, TypeOK, db, stamps, With
  <2>3. ASSUME \/ UNCHANGED vars \/ Gateway \/ EnqueueTaskFails \/ EnqueueResumeFails
               \/ ApiCrash \/ \E d \in Decision : Decide(d)
        PROVE  FALSE
    BY <2>3 DEF vars, Gateway, Prepare, MarkReadyQueued, EnqueueTask, EnqueueTaskFails, UndoQueued,
       EnqueueResume, EnqueueResumeFails, ApiCrash, Decide, Inv, TypeOK, Untouched, db, stamps, Hits, With, Ready
  <2>4. ASSUME \/ StartRun \/ Sweeper \/ SweepEnqueueFails \/ \E m \in Node : Clock(m)
        PROVE  FALSE
    BY <2>4 DEF StartRun, Sweeper, Scan, ReadTask, DeadLetter, Requeue, SweepEnqueue, SweepEnqueueFails,
       Clock, LeaseRunsOut, RowAges, Inv, TypeOK, db, stamps, Hits, With
  <2> QED
    BY <2>1, <2>2, <2>3, <2>4 DEF Next, Environment
<1>2. PICK j \in Job : Approve(j) \/ RequeueGate(j)
  BY <1>1
<1>3. ~JobError(j)
  BY DEF JobError, With, Inv, TypeOK
<1>4. exec[j].node = n
  BY <1>2, <1>3 DEF Approve, RequeueGate, Inv, TypeOK, db
<1>5. exec \in [Job -> Exec] /\ exec[j] \in Exec
  BY DEF Inv, TypeOK
<1>6. exec[j].pc \in {"approve", "requeue"} /\ exec'[j].pc \in {"advance", "loop"} /\ UNCHANGED <<gw, jobs>>
  BY <1>2, <1>3, <1>5 DEF Approve, RequeueGate, Exec, api, arq
<1> QED
  BY <1>4, <1>6

\* A decision that is being written is of this step or an earlier one.
LEMMA WrittenFrame ==
  ASSUME Inv, [Next]_vars, gw'.pc = "decided"
  PROVE  \/ gw' = gw
         \/ status' = status /\ (gw'.dec # "answer" => \E h \in Node : status[h] = "blocked")
<1>0. gw \in Gw
  BY DEF Inv, TypeOK
<1>1. ASSUME NEW d \in Decision, Decide(d) PROVE gw' = gw \/ (gw'.dec = d /\ status' = status /\ (d # "answer" => With(status, "blocked") # {}))
  BY <1>1 DEF Decide
<1>2. ASSUME Gateway \/ EnqueueTaskFails \/ EnqueueResumeFails \/ ApiCrash PROVE FALSE
  <2>1. ASSUME Prepare \/ MarkReadyQueued \/ EnqueueTaskFails PROVE FALSE
    <3>1. PICK p \in {"prepared", "marked", "undo"} : gw'.pc = p
      BY <2>1, <1>0 DEF Prepare, MarkReadyQueued, EnqueueTaskFails, Gw
    <3> QED
      BY <3>1
  <2>2. ASSUME EnqueueTask \/ UndoQueued \/ EnqueueResume \/ EnqueueResumeFails \/ ApiCrash PROVE FALSE
    <3>1. gw' = GwIdle
      BY <2>2 DEF EnqueueTask, UndoQueued, EnqueueResume, EnqueueResumeFails, ApiCrash
    <3> QED
      BY <3>1 DEF GwIdle
  <2> QED
    BY <1>2, <2>1, <2>2 DEF Gateway
<1>3. ASSUME NEW j \in Job, \/ Step(j) \/ Heartbeat(j) \/ JobRaises(j) \/ WorkerCrash(j) \/ JobTimeout(j)
                            \/ StartResume(j) \/ JobExhausted(j) \/ ResultExpires(j)
      PROVE  gw' = gw
  BY <1>3, ExecutionFrame DEF StartResume, JobExhausted, ResultExpires, api
<1>4. CASE \/ UNCHANGED vars \/ StartRun \/ Sweeper \/ SweepEnqueueFails \/ \E n \in Node : Clock(n)
  BY <1>4 DEF vars, StartRun, Sweeper, Scan, SweepEnqueue, ReadTask, DeadLetter, Requeue, SweepEnqueueFails, Clock,
     LeaseRunsOut, RowAges, api
<1>5. QED
  BY <1>1, <1>2, <1>3, <1>4 DEF Next, Environment, With

\* A resume job waits since the gateway enqueued it, with the decision it was enqueued with.
LEMMA WaitFrame ==
  ASSUME Inv, [Next]_vars, WorkersLast, NEW j \in Job \ {0}, jobs'[j] = "waiting"
  PROVE  \/ jobs[j] = "waiting" /\ dec'[j] = dec[j]
         \/ gw.pc = "decided" /\ dec'[j] = gw.dec /\ status' = status
<1> DEFINE Goal == \/ jobs[j] = "waiting" /\ dec'[j] = dec[j]
                   \/ gw.pc = "decided" /\ dec'[j] = gw.dec /\ status' = status
<1>0. jobs \in [Job -> JobState] /\ gw \in Gw /\ gw.node \in Job /\ dec \in [Job -> Decision \cup {"none"}]
  BY NodesAndJobs DEF Inv, TypeOK, Gw
<1>1. CASE jobs' = jobs /\ dec' = dec
  BY <1>1
<1>2. ASSUME NEW k \in Job, NEW s \in {"active", "kept", "absent"}, jobs' = [jobs EXCEPT ![k] = s], dec' = dec
      PROVE  Goal
  BY <1>0, <1>2
<1>3. CASE EnqueueResume \/ EnqueueResumeFails
  <2>1. gw.pc = "decided" /\ status' = status
    BY <1>3 DEF EnqueueResume, EnqueueResumeFails, db
  <2>2. CASE UNCHANGED <<jobs, dec>>
    BY <2>2, <1>1
  <2>3. CASE EnqueueJob(gw.node, gw.dec)
    BY <2>1, <2>3, <1>0 DEF EnqueueJob
  <2> QED
    BY <1>3, <2>2, <2>3 DEF EnqueueResume, EnqueueResumeFails
<1>4. CASE EnqueueTask \/ EnqueueTaskFails \/ SweepEnqueue \/ SweepEnqueueFails
  <2>1. EnqueueJob(0, "none") \/ UNCHANGED <<jobs, dec>>
    BY <1>4 DEF EnqueueTask, EnqueueTaskFails, SweepEnqueue, SweepEnqueueFails
  <2> QED
    BY <2>1, <1>0, <1>1, NodesAndJobs DEF EnqueueJob
<1>5. CASE \/ UNCHANGED vars \/ Prepare \/ MarkReadyQueued \/ UndoQueued \/ ApiCrash \/ Scan
           \/ (\E n \in Node : ReadTask(n) \/ DeadLetter(n) \/ Requeue(n) \/ Clock(n))
           \/ (\E d \in Decision : Decide(d))
  BY <1>1, <1>5 DEF vars, Prepare, MarkReadyQueued, UndoQueued, ApiCrash, Scan, ReadTask, DeadLetter, Requeue, Clock,
     LeaseRunsOut, RowAges, Decide, arq
<1>6. ASSUME NEW k \in Job, Step(k) \/ Heartbeat(k) PROVE Goal
  <2>1. dec' = dec /\ (jobs' = jobs \/ jobs' = [jobs EXCEPT ![k] = "kept"])
    BY <1>6 DEF Step, AgentReturns, LoopEnds, InterruptApproval, CallAgent, AgentSucceeds, AgentAsks, AgentFails,
       Advance, Activate, Approve, Rewind, RequeueGate, Heartbeat, JobError, Finish, Proceed, arq
  <2> QED
    BY <2>1, <1>1, <1>2
<1>7. ASSUME NEW k \in Job, (k = 0 /\ StartRun) \/ StartResume(k) \/ JobExhausted(k) \/ ResultExpires(k) PROVE Goal
  <2>1. dec' = dec /\ \E s \in {"active", "kept", "absent"} : jobs' = [jobs EXCEPT ![k] = s]
    BY <1>7 DEF StartRun, StartResume, JobExhausted, ResultExpires, Begin, Finish
  <2> QED
    BY <2>1, <1>2
<1>8. ASSUME NEW k \in Job, JobRaises(k) \/ WorkerCrash(k) \/ JobTimeout(k) PROVE FALSE
  BY <1>8 DEF JobRaises, WorkerCrash, JobTimeout, Fault, WorkersLast
<1> QED
  BY <1>3, <1>4, <1>5, <1>6, <1>7, <1>8, NodesAndJobs DEF Next, Gateway, Sweeper, Environment

LEMMA MeetStep == ASSUME PlaceInv, [Next]_vars, WorkersLast, Overlap = FALSE PROVE DecisionsMeet'
<1>0. Inv /\ OneResume
  BY DEF PlaceInv, OrderInv
<1>1. ASSUME NEW n \in Node, status[n] = "blocked", status'[n] # "blocked"
      PROVE  \E k \in Job \ {0} : /\ exec[k].pc \in {"approve", "requeue"} /\ exec[k].node = n /\ jobs[k] = "active"
                                  /\ exec'[k].pc \in {"advance", "loop"} /\ UNCHANGED <<gw, jobs>>
  <2>1. PICK k \in Job : /\ exec[k].pc \in {"approve", "requeue"} /\ exec[k].node = n
                         /\ exec'[k].pc \in {"advance", "loop"} /\ UNCHANGED <<gw, jobs>>
    BY <1>0, <1>1, BlockedFrame
  <2>2. k # 0 /\ jobs[k] = "active"
    BY <2>1 DEF PlaceInv, DecisionsMeet, OrderInv, Inv, JobsDecided
  <2> QED
    BY <2>1, <2>2
<1>2. ASSUME gw'.pc = "decided", gw'.dec # "answer" PROVE \E h \in Node : status'[h] = "blocked"
  <2>1. CASE gw' = gw
    <3>1. PICK h \in Node : status[h] = "blocked"
      BY <1>2, <2>1 DEF PlaceInv, DecisionsMeet
    <3>2. status'[h] = "blocked"
      BY <1>0, <1>1, <1>2, <2>1, <3>1 DEF OneResume
    <3> QED
      BY <3>2
  <2>2. CASE gw' # gw
    BY <1>0, <1>2, <2>2, WrittenFrame
  <2> QED
    BY <2>1, <2>2
<1>3. ASSUME NEW j \in Job \ {0}, jobs'[j] = "waiting", dec'[j] # "answer" PROVE \E h \in Node : status'[h] = "blocked"
  <2>1. CASE jobs[j] = "waiting" /\ dec'[j] = dec[j]
    <3>1. PICK h \in Node : status[h] = "blocked"
      BY <1>3, <2>1 DEF PlaceInv, DecisionsMeet
    <3>2. status'[h] = "blocked"
      BY <1>0, <1>1, <2>1, <3>1 DEF OneResume
    <3> QED
      BY <3>2
  <2>2. CASE gw.pc = "decided" /\ dec'[j] = gw.dec /\ status' = status
    BY <1>3, <2>2 DEF PlaceInv, DecisionsMeet
  <2> QED
    BY <1>0, <1>3, <2>1, <2>2, WaitFrame
<1>4. ASSUME NEW j \in Job, exec'[j].pc \in {"approve", "reject"} PROVE status'[exec'[j].node] = "blocked"
  <2>1. CASE exec'[j] = exec[j]
    <3>1. status[exec[j].node] = "blocked" /\ j # 0 /\ exec[j].node \in Node
      BY <1>4, <2>1, NodesAndJobs DEF PlaceInv, DecisionsMeet, OrderInv, Inv, ExecsEntitled
    <3>2. SUFFICES ASSUME status'[exec[j].node] # "blocked" PROVE FALSE
      BY <2>1
    <3>3. PICK k \in Job \ {0} : exec[k].pc # "idle" /\ exec'[k].pc \in {"advance", "loop"}
      BY <3>1, <3>2, <1>1
    <3>4. k = j
      BY <1>4, <2>1, <3>1, <3>3, ResumesAgree DEF PlaceInv
    <3> QED
      BY <1>4, <3>3, <3>4
  <2>2. CASE /\ j # 0 /\ jobs[j] = "waiting" /\ dec[j] # "answer"
             /\ IsFirst(exec'[j].node, Gates(status)) /\ status' = status
    <3>1. PICK h \in Node : status[h] = "blocked"
      BY <2>2 DEF PlaceInv, DecisionsMeet
    <3>2. ~BeingRequeued(h)
      BY <2>2 DEF BeingRequeued, PlaceInv, OrderInv, OneResume, Inv, JobsDecided
    <3>3. exec'[j].node \in Node /\ status[exec'[j].node] \in {"running", "blocked"}
      BY <2>2, NodesAndJobs DEF IsFirst, Gates
    <3>4. status[exec'[j].node] # "running"
      BY <3>1, <3>2, <3>3 DEF PlaceInv, OnePlace, Standing, ActiveNode
    <3> QED
      BY <2>2, <3>3, <3>4
  <2> QED
    BY <1>0, <1>4, <2>1, <2>2, DecisionFrame
<1>5. ASSUME NEW j \in Job, exec'[j].pc \in {"approve", "reject", "requeue"}
      PROVE  j # 0 /\ exec'[j].view[exec'[j].node] = "blocked"
  <2>1. CASE exec'[j] = exec[j]
    BY <1>5, <2>1 DEF PlaceInv, DecisionsMeet
  <2>2. CASE /\ exec[j].pc = "reject" /\ exec'[j].node = exec[j].node
             /\ exec'[j].view[exec[j].node] = exec[j].view[exec[j].node]
    BY <2>2 DEF PlaceInv, DecisionsMeet
  <2>3. CASE j # 0 /\ exec'[j].pc = dec[j] /\ status' = status /\ exec'[j].view = status
    <3>1. exec'[j].pc # "requeue"
      BY <1>0, <2>3 DEF Inv, TypeOK, Decision
    <3> QED
      BY <1>4, <1>5, <2>3, <3>1
  <2> QED
    BY <1>0, <1>5, <2>1, <2>2, <2>3, DecisionFrame
<1> QED
  BY <1>2, <1>3, <1>4, <1>5 DEF DecisionsMeet

\* While a decision is being handled no other execution sends a gate back.
LEMMA NotRequeued ==
  ASSUME PlaceInv, NEW j \in Job, exec[j].pc \in {"approve", "reject"}, NEW h \in Node
  PROVE  ~BeingRequeued(h)
BY ResumesAgree DEF PlaceInv, DecisionsMeet, BeingRequeued

LEMMA PlaceStep == ASSUME PlaceInv, [Next]_vars, WorkersLast PROVE OnePlace'
<1>0. /\ Inv /\ OnePlace /\ exec \in [Job -> Exec] /\ status \in [Node -> Status]
      /\ \A j \in Job : exec[j] \in Exec /\ exec[j].view \in [Node -> Status]
  BY ExecFields DEF PlaceInv, OrderInv, Inv, TypeOK
<1>1. ASSUME exec' = exec,
             \A n \in Node : /\ ActiveNode(n)' => ActiveNode(n)
                             /\ status'[n] = "blocked" => status[n] = "blocked"
      PROVE  OnePlace'
  <2>1. \A n \in Node : Standing(n)' => Standing(n)
    BY <1>1 DEF Standing, BeingRequeued
  <2> QED
    BY <1>0, <1>1, <2>1, NothingOpens DEF Opening
<1>2. CASE \/ UNCHANGED vars \/ Prepare \/ EnqueueTask \/ UndoQueued \/ EnqueueResume \/ EnqueueTaskFails
           \/ EnqueueResumeFails \/ SweepEnqueueFails \/ ApiCrash \/ Sweeper
           \/ (\E d \in Decision : Decide(d))
           \/ (\E n \in Node : Clock(n))
           \/ (\E j \in Job : JobExhausted(j) \/ ResultExpires(j))
  <2>1. exec' = exec
    BY <1>2 DEF vars, Prepare, EnqueueTask, UndoQueued, EnqueueResume, EnqueueTaskFails,
       EnqueueResumeFails, SweepEnqueueFails, ApiCrash, Sweeper, Scan, SweepEnqueue, ReadTask, DeadLetter, Requeue, Decide,
       Clock, LeaseRunsOut, RowAges, JobExhausted, ResultExpires
  <2>2. CASE status' = status
    BY <1>1, <2>1, <2>2 DEF ActiveNode
  <2>3. CASE Prepare
    BY <1>1, <2>1, <2>3 DEF Prepare, ActiveNode
  <2>4. CASE \E n \in Node : \E s \in {"pending", "queued", "failed"} :
                status[n] \in {"queued", "running"} /\ status' = [status EXCEPT ![n] = s]
    BY <1>0, <1>1, <2>1, <2>4 DEF ActiveNode
  <2>5. CASE UndoQueued
    BY <1>0, <1>1, <2>1, <2>5 DEF UndoQueued, Hits, ActiveNode
  <2>6. ASSUME NEW n \in Node, ReadTask(n) \/ DeadLetter(n) \/ Requeue(n) PROVE OnePlace'
    <3>1. CASE ReadTask(n)
      BY <2>2, <3>1 DEF ReadTask, db
    <3>2. CASE DeadLetter(n) \/ Requeue(n)
      BY <2>2, <2>4, <3>2 DEF DeadLetter, Requeue, Hits
    <3>3. QED
      BY <2>6, <3>1, <3>2
  <2>7. CASE \/ UNCHANGED vars \/ EnqueueTask \/ EnqueueResume \/ EnqueueTaskFails
             \/ EnqueueResumeFails \/ SweepEnqueueFails \/ ApiCrash \/ Scan \/ SweepEnqueue
             \/ (\E d \in Decision : Decide(d))
             \/ (\E n \in Node : Clock(n))
             \/ (\E j \in Job : JobExhausted(j) \/ ResultExpires(j))
    BY <2>2, <2>7 DEF vars, EnqueueTask, EnqueueResume, EnqueueTaskFails, EnqueueResumeFails, SweepEnqueueFails,
       ApiCrash, Scan, SweepEnqueue, Decide, Clock, LeaseRunsOut, RowAges, JobExhausted, ResultExpires, db
  <2> QED
    BY <1>2, <2>3, <2>5, <2>6, <2>7 DEF Sweeper
<1>3. CASE MarkReadyQueued
  <2>1. /\ \A n \in Node : status[n] \in {"absent", "pending"}
        /\ \A j \in Job : exec[j].pc = "idle"
    BY <1>0, <1>3 DEF MarkReadyQueued, Inv, Untouched
  <2>2. PICK n \in Node : status' = [status EXCEPT ![n] = "queued"] /\ exec' = exec
    BY <1>3 DEF MarkReadyQueued
  <2> QED
    BY <1>0, <2>1, <2>2 DEF OnePlace, Standing, ActiveNode, Opening
<1>4. CASE StartRun
  <2>1. exec[0].pc = "idle"
    BY <1>0, <1>4, NodesAndJobs DEF StartRun, CanStart, Inv, JobsDecided
  <2>2. /\ \A i \in Job \ {0} : exec'[i] = exec[i]
        /\ exec'[0].pc = "loop"
    BY <1>0, <1>4, NodesAndJobs DEF StartRun, Begin
  <2>3. \A n \in Node : status'[n] = status[n] \/ (status'[n] = "running" /\ status[n] = "queued")
    BY <1>0, <1>4 DEF StartRun, With
  <2> QED
    BY <1>0, <2>1, <2>2, <2>3, InPlace, NodesAndJobs DEF ActiveNode
<1>5. ASSUME NEW j \in Job, StartResume(j) PROVE OnePlace'
  <2>1. exec[j].pc = "idle" /\ status' = status
    BY <1>0, <1>5 DEF StartResume, CanStart, Inv, JobsDecided
  <2>2. /\ \A i \in Job \ {j} : exec'[i] = exec[i]
        /\ exec'[j].pc # "activate"
    BY <1>0, <1>5 DEF StartResume, Begin, Finish, Idle, Inv, TypeOK, Decision
  <2> QED
    BY <1>0, <2>1, <2>2, InPlace DEF ActiveNode
<1>6. ASSUME NEW j \in Job, JobError(j), exec[j].pc # "requeue" PROVE OnePlace'
  <2>1. exec' = [exec EXCEPT ![j] = Idle]
    BY <1>6 DEF JobError, Finish
  <2>2. (\A i \in Job \ {j} : exec'[i] = exec[i]) /\ exec'[j].pc # "activate"
    BY <1>0, <2>1 DEF Idle
  <2>3. \A n \in Node : status'[n] = status[n] \/ status'[n] = "failed"
    BY <1>0, <1>6 DEF JobError
  <2> QED
    BY <1>0, <1>6, <2>2, <2>3, InPlace DEF ActiveNode
<1>7. ASSUME NEW j \in Job, \/ LoopEnds(j) \/ InterruptApproval(j) \/ AgentAsks(j) \/ AgentFails(j)
      PROVE  OnePlace'
  <2>1. exec' = [exec EXCEPT ![j] = Idle] /\ exec[j].pc \in {"loop", "agent"}
    BY <1>7 DEF LoopEnds, InterruptApproval, AgentAsks, AgentFails, Finish
  <2>2. (\A i \in Job \ {j} : exec'[i] = exec[i]) /\ exec'[j].pc # "activate"
    BY <1>0, <2>1 DEF Idle
  <2>3. \A n \in Node : \/ status'[n] = status[n] \/ status'[n] = "failed"
                        \/ status'[n] = "blocked" /\ status[n] = "running"
    BY <1>0, <1>7 DEF LoopEnds, InterruptApproval, AgentAsks, AgentFails, Hits
  <2> QED
    BY <1>0, <2>1, <2>2, <2>3, InPlace DEF ActiveNode
<1>8. ASSUME NEW j \in Job, CallAgent(j) \/ Heartbeat(j) \/ AgentSucceeds(j) PROVE OnePlace'
  <2>1. (\A i \in Job \ {j} : exec'[i] = exec[i]) /\ exec'[j].pc # "activate" /\ exec[j].pc \in {"loop", "agent"}
    BY <1>0, <1>8 DEF CallAgent, Heartbeat, AgentSucceeds, Exec
  <2>2. status' = status
    BY <1>8 DEF CallAgent, Heartbeat, AgentSucceeds, db
  <2> QED
    BY <1>0, <2>1, <2>2, InPlace DEF ActiveNode
<1>9. ASSUME NEW j \in Job, Advance(j) PROVE OnePlace'
  <2>1. CASE JobError(j)
    BY <1>6, <1>9, <2>1 DEF Advance
  <2>2. CASE ~JobError(j)
    <3>1. /\ exec[j].pc = "advance" /\ status[exec[j].node] = "running"
          /\ status' = [status EXCEPT ![exec[j].node] = "done"]
          /\ exec' = [exec EXCEPT ![j].pc = "activate", ![j].view[exec[j].node] = "done"]
      BY <1>9, <2>2 DEF Advance, Hits
    <3>2. exec[j].node \in Node
      BY <1>0, <3>1 DEF Inv, ExecsEntitled
    <3>3. \A i \in Job \ {j} : exec'[i] = exec[i]
      BY <1>0, <3>1
    <3>4. Standing(exec[j].node)
      BY <3>1 DEF Standing, ActiveNode
    <3>5. ASSUME NEW n \in Node, Standing(n)' PROVE n # exec[j].node /\ Standing(n)
      <4>1. n # exec[j].node /\ status'[n] = status[n]
        BY <1>0, <3>1, <3>2, <3>5 DEF Standing, ActiveNode
      <4>2. BeingRequeued(n) => BeingRequeued(n)'
        BY <3>1, <3>3, RequeueKept
      <4> QED
        BY <3>5, <4>1, <4>2 DEF Standing, ActiveNode
    <3>6. \A i \in Job : Opening(i)' => i = j \/ Opening(i)
      BY <3>3 DEF Opening
    <3> QED
      BY <1>0, <3>2, <3>4, <3>5, <3>6, NodeCloses
  <2> QED
    BY <2>1, <2>2
<1>10. ASSUME NEW j \in Job, Activate(j) PROVE OnePlace'
  <2> DEFINE hits == {n \in Ready(exec[j].view) : Hits(n, "pending")}
  <2>1. exec[j].pc = "activate" /\ \E n, r : Proceed(j, Tried(j, n), r)
    BY <1>10 DEF Activate
  <2>2. PICK n, r : Proceed(j, Tried(j, n), r)
    BY <2>1
  <2>3. (\A i \in Job \ {j} : exec'[i] = exec[i]) /\ exec'[j].pc # "activate"
    BY <1>0, <2>2 DEF Proceed, Finish, Idle, Exec
  <2>4. Opening(j) /\ \A i \in Job : Opening(i)' => i # j /\ Opening(i)
    BY <2>1, <2>3 DEF Opening
  <2>5. \E p \in Node : \A m \in Node : m # p => status'[m] = status[m]
    <3>1. CASE \E p \in hits : status' = [status EXCEPT ![p] = "running"]
      BY <1>0, <3>1 DEF Ready, With
    <3>2. CASE status' = status
      BY <3>2, TemplateAssumption DEF Node
    <3> QED
      BY <1>10, <3>1, <3>2 DEF Activate
  <2>6. PICK p \in Node : \A m \in Node : m # p => status'[m] = status[m]
    BY <2>5
  <2>7. ASSUME NEW m \in Node, Standing(m)' PROVE m = p \/ Standing(m)
    <3>1. BeingRequeued(m) => BeingRequeued(m)'
      BY <2>1, <2>3, RequeueKept
    <3> QED
      BY <2>6, <2>7, <3>1 DEF Standing, ActiveNode
  <2> QED
    BY <1>0, <2>4, <2>7, NodeOpens
<1>11. ASSUME NEW j \in Job, Approve(j) PROVE OnePlace'
  <2>1. CASE JobError(j)
    BY <1>6, <1>11, <2>1 DEF Approve
  <2>2. CASE ~JobError(j)
    <3>1. exec[j].pc = "approve" /\ status[exec[j].node] = "blocked" /\ exec[j].node \in Node
      BY <1>11, NodesAndJobs DEF Approve, PlaceInv, DecisionsMeet, OrderInv, Inv, ExecsEntitled
    <3>2. (\A i \in Job \ {j} : exec'[i] = exec[i]) /\ exec'[j].pc = "advance"
      BY <1>0, <1>11, <2>2 DEF Approve, Exec
    <3>3. \A m \in Node : m # exec[j].node => status'[m] = status[m]
      BY <1>0, <1>11, <2>2 DEF Approve, db
    <3>4. Standing(exec[j].node)
      BY <3>1, NotRequeued DEF Standing
    <3>5. ASSUME NEW m \in Node, Standing(m)' PROVE Standing(m)
      <4>1. BeingRequeued(m) => BeingRequeued(m)'
        BY <3>1, <3>2, RequeueKept
      <4> QED
        BY <3>3, <3>4, <3>5, <4>1 DEF Standing, ActiveNode
    <3>6. \A i \in Job : Opening(i)' => Opening(i)
      BY <3>2 DEF Opening
    <3> QED
      BY <1>0, <3>5, <3>6, NothingOpens
  <2> QED
    BY <2>1, <2>2
<1>12. ASSUME NEW j \in Job, Rewind(j) PROVE OnePlace'
  <2>1. CASE JobError(j)
    BY <1>6, <1>12, <2>1 DEF Rewind
  <2>2. CASE ~JobError(j)
    <3>1. /\ exec[j].pc = "reject" /\ status[exec[j].node] = "blocked" /\ exec[j].node \in Hitl
          /\ exec[j].node \in Node /\ j # 0
      BY <1>12, NodesAndJobs DEF Rewind, PlaceInv, DecisionsMeet, OrderInv, Inv, ExecsEntitled
    <3>2. PICK p : p = exec[j].node - 1
      OBVIOUS
    <3>3. /\ status' = [status EXCEPT ![p] = "running"]
          /\ exec' = [exec EXCEPT ![j].pc = "requeue", ![j].view[p] = "running"]
      BY <1>12, <2>2, <3>2 DEF Rewind
    <3>4. p \in Node /\ p # exec[j].node
      BY <3>1, <3>2, TemplateAssumption DEF Node
    <3>5. /\ \A i \in Job \ {j} : exec'[i] = exec[i]
          /\ exec'[j].pc = "requeue" /\ exec'[j].node = exec[j].node
      BY <1>0, <3>3 DEF Exec
    <3>6. Standing(exec[j].node)
      BY <3>1, NotRequeued DEF Standing
    <3>7. ASSUME NEW m \in Node, Standing(m)' PROVE m = p \/ (m # exec[j].node /\ Standing(m))
      <4>1. CASE m = exec[j].node
        <5>1. BeingRequeued(m)'
          BY <3>1, <3>5, <4>1 DEF BeingRequeued
        <5>2. status'[m] = "blocked"
          BY <1>0, <3>1, <3>3, <3>4, <4>1
        <5> QED
          BY <3>7, <5>1, <5>2 DEF Standing, ActiveNode
      <4>2. CASE m # exec[j].node /\ m # p
        <5>1. BeingRequeued(m) => BeingRequeued(m)'
          BY <3>1, <3>5, RequeueKept
        <5>2. status'[m] = status[m]
          BY <1>0, <3>3, <4>2
        <5> QED
          BY <3>7, <4>2, <5>1, <5>2 DEF Standing, ActiveNode
      <4> QED
        BY <4>1, <4>2
    <3>8. \A i \in Job : Opening(i)' => Opening(i)
      BY <3>5 DEF Opening
    <3> QED
      BY <1>0, <3>1, <3>4, <3>6, <3>7, <3>8, NodeMoves
  <2> QED
    BY <2>1, <2>2
<1>13. ASSUME NEW j \in Job, RequeueGate(j) PROVE OnePlace'
  <2>1. /\ exec[j].pc = "requeue" /\ exec[j].view[exec[j].node] = "blocked" /\ exec[j].node \in Node
    BY <1>13, NodesAndJobs DEF RequeueGate, PlaceInv, DecisionsMeet, OrderInv, Inv, ExecsEntitled
  <2>2. status' = IF status[exec[j].node] = "blocked" THEN [status EXCEPT ![exec[j].node] = "pending"] ELSE status
    BY <1>13, <2>1 DEF RequeueGate, Hits
  <2>3. (\A i \in Job \ {j} : exec'[i] = exec[i]) /\ exec'[j].pc = "loop"
    BY <1>0, <1>13 DEF RequeueGate, Exec
  <2>4. ASSUME NEW m \in Node, Standing(m)' PROVE Standing(m)
    <3>1. CASE m = exec[j].node
      BY <1>0, <2>2, <2>4, <3>1 DEF Standing, ActiveNode
    <3>2. CASE m # exec[j].node
      <4>1. BeingRequeued(m) => BeingRequeued(m)'
        BY <2>3, <3>2 DEF BeingRequeued
      <4>2. status'[m] = status[m]
        BY <1>0, <2>2, <3>2
      <4> QED
        BY <2>4, <4>1, <4>2 DEF Standing, ActiveNode
    <3> QED
      BY <3>1, <3>2
  <2>5. \A i \in Job : Opening(i)' => Opening(i)
    BY <2>3 DEF Opening
  <2> QED
    BY <1>0, <2>4, <2>5, NothingOpens
<1>14. ASSUME NEW j \in Job, JobRaises(j) \/ WorkerCrash(j) \/ JobTimeout(j) PROVE FALSE
  BY <1>14 DEF JobRaises, WorkerCrash, JobTimeout, Fault, WorkersLast
<1> QED
  BY <1>2, <1>3, <1>4, <1>5, <1>7, <1>8, <1>9, <1>10, <1>11, <1>12, <1>13, <1>14
  DEF Next, Gateway, Step, AgentReturns, Environment

\* As long as decisions do not overtake each other and executions run to their end, one node at most is
\* running or queued: for every template, however the API process and Redis fail, and whatever the
\* sweeper gives back.  (engine._activate_next, run_resume)
THEOREM OneNodeIsActive == ASSUME Overlap = FALSE, WorkersLast PROVE Spec => []SingleActive
<1>1. Init => PlaceInv
  <2>1. SUFFICES ASSUME Init PROVE PlaceInv
    OBVIOUS
  <2>2. \A j \in Job : exec[j].pc = "idle" /\ jobs[j] = "absent"
    BY <2>1 DEF Init, Idle
  <2>3. gw.pc = "idle" /\ \A n \in Node : status[n] = "absent"
    BY <2>1 DEF Init, GwIdle
  <2> QED
    BY <2>1, <2>2, <2>3, InitOrder DEF PlaceInv, OnePlace, DecisionsMeet, Standing, ActiveNode, Opening
<1>2. PlaceInv /\ [Next]_vars => PlaceInv'
  BY OrderStep, PlaceStep, MeetStep DEF PlaceInv
<1>3. PlaceInv => SingleActive
  BY DEF PlaceInv, OnePlace, Standing, ActiveNode, SingleActive
<1> QED
  BY <1>1, <1>2, <1>3, PTL DEF Spec

-----------------------------------------------------------------------------
(* TaskQueue implements TaskLifecycle: the initial state is an initial state, *)
(* and every step is a step of the task's life or leaves it alone.           *)

LEMMA SameNodes == Lifecycle!Node = Node
BY DEF Lifecycle!Node, Node

\* What the life of the task consists of is left alone.
LEMMA Stutter ==
  ASSUME UNCHANGED <<task, status, attempts, decided>>
  PROVE  [Lifecycle!Next]_Lifecycle!vars
BY DEF Lifecycle!vars

\* The steps of the gateway: the fresh task is prepared and queued, and the queued
\* node withdrawn; AttemptsBounded gives the claim that is left.
LEMMA GatewayRefines ==
  ASSUME Inv,
         \/ Gateway \/ EnqueueTaskFails \/ EnqueueResumeFails \/ ApiCrash
         \/ \E d \in Decision : Decide(d)
  PROVE  [Lifecycle!Next]_Lifecycle!vars
<1> USE DEF stamps, db, arq, api, user
<1>1. CASE Prepare
  BY <1>1, SameNodes DEF Prepare, Lifecycle!Next, Lifecycle!Prepare
<1>2. CASE MarkReadyQueued
  <2>1. PICK n \in Node : IsFirst(n, Ready(status)) /\ status' = [status EXCEPT ![n] = "queued"]
    BY <1>2 DEF MarkReadyQueued
  <2>2. status[n] = "pending" /\ attempts[n] < MaxTries
    BY <1>2, <2>1, BoundAssumption DEF MarkReadyQueued, IsFirst, Ready, With, Inv, Untouched
  <2>3. Lifecycle!Queue(n)
    BY <1>2, <2>1, <2>2 DEF MarkReadyQueued, Lifecycle!Queue, Lifecycle!Move
  <2>4. QED
    BY <2>3, SameNodes DEF Lifecycle!Next
<1>3. CASE UndoQueued
  <2>1. CASE Hits(gw.node, "queued") /\ gw.node \in Node
    <3>1. Lifecycle!Queue(gw.node)
      BY <1>3, <2>1 DEF UndoQueued, Hits, Inv, AttemptsBounded, Lifecycle!Queue, Lifecycle!Move
    <3>2. QED
      BY <2>1, <3>1, SameNodes DEF Lifecycle!Next
  <2>2. CASE ~(Hits(gw.node, "queued") /\ gw.node \in Node)
    <3>1. status' = status
      BY <1>3, <2>2 DEF UndoQueued, Inv, TypeOK
    <3>2. QED
      BY <1>3, <3>1, Stutter DEF UndoQueued
  <2>3. QED
    BY <2>1, <2>2
<1>4. CASE \/ EnqueueTask \/ EnqueueTaskFails \/ EnqueueResume \/ EnqueueResumeFails \/ ApiCrash
  BY <1>4, Stutter DEF EnqueueTask, EnqueueTaskFails, EnqueueResume, EnqueueResumeFails, ApiCrash
<1>5. ASSUME NEW d \in Decision, Decide(d) PROVE Lifecycle!Next
  BY <1>5 DEF Decide, Decision, Lifecycle!Next, Lifecycle!Decide
<1>6. QED
  BY <1>1, <1>2, <1>3, <1>4, <1>5 DEF Gateway

\* An execution exists only after the task has been prepared.
LEMMA ExecutionsAfterPrepare ==
  ASSUME Inv, NEW j \in Job, exec[j].pc # "idle"
  PROVE  task # "pending"
BY DEF Inv, Untouched

LEMMA JobErrorRefines ==
  ASSUME Inv, NEW j \in Job, JobError(j), exec[j].pc # "idle"
  PROVE  [Lifecycle!Next]_Lifecycle!vars
<1> USE DEF api, user
<1>1. CASE UNCHANGED <<task, status>>
  BY <1>1, Stutter DEF JobError
<1>2. CASE task' = "failed" /\ UNCHANGED status
  BY <1>2, ExecutionsAfterPrepare DEF JobError, Lifecycle!Next, Lifecycle!TaskEnds
<1>3. ASSUME NEW n \in With(status, "running"), task' = "failed",
             status' = [status EXCEPT ![n] = "failed"]
      PROVE  Lifecycle!Next
  BY <1>3, SameNodes DEF With, JobError, Lifecycle!Next, Lifecycle!Fail, Lifecycle!Move
<1>4. QED
  BY <1>1, <1>2, <1>3 DEF JobError

LEMMA StartRefines ==
  ASSUME Inv, StartRun \/ \E j \in Job : StartResume(j)
  PROVE  [Lifecycle!Next]_Lifecycle!vars
<1> USE DEF stamps, db, arq, api, user
<1>1. CASE StartRun
  <2>1. CASE UNCHANGED <<status, attempts>>
    BY <1>1, <2>1, Stutter DEF StartRun
  <2>2. ASSUME NEW n \in With(status, "queued"), status' = [status EXCEPT ![n] = "running"],
               attempts' = [attempts EXCEPT ![n] = @ + 1]
        PROVE  Lifecycle!Next
    <3>1. n \in Node /\ status[n] = "queued" /\ attempts[n] < MaxTries
      BY DEF With, Inv, AttemptsBounded
    <3>2. Lifecycle!Claim(n)
      BY <1>1, <2>2, <3>1 DEF StartRun, Lifecycle!Claim, Lifecycle!Move
    <3>3. QED
      BY <3>1, <3>2, SameNodes DEF Lifecycle!Next
  <2>3. QED
    BY <1>1, <2>1, <2>2 DEF StartRun
<1>2. ASSUME NEW j \in Job, StartResume(j) PROVE [Lifecycle!Next]_Lifecycle!vars
  BY <1>2, Stutter DEF StartResume
<1>3. QED
  BY <1>1, <1>2

\* The steps of an execution.  The guarded UPDATEs say where a node comes from;
\* ExecsEntitled says what the execution may do to it.
LEMMA ExecutionRefines ==
  ASSUME Inv, NEW j \in Job, Step(j)
  PROVE  [Lifecycle!Next]_Lifecycle!vars
<1> USE SameNodes, NodesAndJobs DEF stamps, db, arq, api, user
<1>1. CASE LoopEnds(j) \/ CallAgent(j) \/ AgentSucceeds(j) \/ AgentAsks(j)
  BY <1>1, Stutter DEF LoopEnds, CallAgent, AgentSucceeds, AgentAsks
<1>2. CASE InterruptApproval(j)
  <2>1. CASE status' = status
    BY <1>2, <2>1, Stutter DEF InterruptApproval
  <2>2. ASSUME NEW n \in Hitl, Hits(n, "running"), status' = [status EXCEPT ![n] = "blocked"]
        PROVE  Lifecycle!Next
    BY <1>2, <2>2 DEF InterruptApproval, Hits, Lifecycle!Next, Lifecycle!Gate, Lifecycle!Move
  <2>3. QED
    BY <1>2, <2>1, <2>2 DEF InterruptApproval
<1>3. CASE AgentFails(j)
  <2>1. exec[j].pc = "agent" /\ exec[j].node \in Node /\ task # "pending"
    BY <1>3, ExecutionsAfterPrepare DEF AgentFails, Inv, ExecsEntitled
  <2>2. QED
    BY <1>3, <2>1 DEF AgentFails, Hits, Lifecycle!Next, Lifecycle!Fail, Lifecycle!Move,
                      Lifecycle!TaskEnds
<1>4. CASE Advance(j)
  <2>1. CASE JobError(j)
    BY <1>4, <2>1, JobErrorRefines DEF Advance
  <2>2. CASE ~JobError(j)
    <3>1. exec[j].node \in Node /\ (exec[j].node \in Hitl => "approve" \in decided)
      BY <1>4 DEF Advance, Inv, ExecsEntitled
    <3>2. Lifecycle!Complete(exec[j].node)
      BY <1>4, <2>2, <3>1 DEF Advance, Hits, Lifecycle!Complete, Lifecycle!Move
    <3>3. QED
      BY <3>1, <3>2 DEF Lifecycle!Next
  <2>3. QED
    BY <2>1, <2>2
<1>5. CASE Activate(j)
  <2>1. CASE task' = "done" /\ status' = status
    BY <1>5, <2>1, ExecutionsAfterPrepare DEF Activate, Lifecycle!Next, Lifecycle!TaskEnds
  <2>2. ASSUME NEW n \in Node, Hits(n, "pending"), status' = [status EXCEPT ![n] = "running"],
               task' = task
        PROVE  Lifecycle!Next
    BY <1>5, <2>2 DEF Activate, Hits, Lifecycle!Next, Lifecycle!Activate, Lifecycle!Move
  <2>3. QED
    BY <1>5, <2>1, <2>2 DEF Activate, Ready, With
<1>6. CASE Approve(j)
  <2>1. CASE JobError(j)
    BY <1>6, <2>1, JobErrorRefines DEF Approve
  <2>2. CASE ~JobError(j) /\ status' = status
    BY <1>6, <2>2, Stutter DEF Approve
  <2>3. CASE ~JobError(j) /\ status' # status
    <3>1. exec[j].node \in Hitl /\ "approve" \in decided
      BY <1>6 DEF Approve, Inv, ExecsEntitled
    <3>2. Lifecycle!Gate(exec[j].node)
      BY <1>6, <2>3, <3>1 DEF Approve, Hits, Lifecycle!Gate, Lifecycle!Move
    <3>3. QED
      BY <3>1, <3>2 DEF Lifecycle!Next
  <2>4. QED
    BY <2>1, <2>2, <2>3
<1>7. CASE Rewind(j)
  <2>1. CASE JobError(j)
    BY <1>7, <2>1, JobErrorRefines DEF Rewind
  <2>2. CASE ~JobError(j)
    <3> DEFINE p == exec[j].node - 1
    <3>1. p + 1 \in Hitl /\ p \in Node /\ "reject" \in decided
      BY <1>7, TemplateAssumption DEF Rewind, Inv, ExecsEntitled, Node
    <3>2. Lifecycle!Reopen(p)
      BY <1>7, <2>2, <3>1 DEF Rewind, Hits, Lifecycle!Reopen, Lifecycle!Move
    <3>3. QED
      BY <3>1, <3>2 DEF Lifecycle!Next
  <2>3. QED
    BY <2>1, <2>2
<1>8. CASE RequeueGate(j)
  <2>1. CASE status' = status
    BY <1>8, <2>1, Stutter DEF RequeueGate
  <2>2. CASE status' # status
    <3>1. exec[j].node \in Hitl /\ "reject" \in decided
      BY <1>8 DEF RequeueGate, Inv, ExecsEntitled
    <3>2. Lifecycle!Gate(exec[j].node)
      BY <1>8, <2>2, <3>1 DEF RequeueGate, Hits, Lifecycle!Gate, Lifecycle!Move
    <3>3. QED
      BY <3>1, <3>2 DEF Lifecycle!Next
  <2>3. QED
    BY <2>1, <2>2
<1>9. QED
  BY <1>1, <1>2, <1>3, <1>4, <1>5, <1>6, <1>7, <1>8 DEF Step, AgentReturns

\* The sweeper and the environment.  A node that is given up has no claim left, so
\* AttemptsBounded puts it among the running ones and not in the queue.
LEMMA OutsideRefines ==
  ASSUME Inv,
         \/ Sweeper \/ SweepEnqueueFails
         \/ \E j \in Job : \/ Heartbeat(j) \/ JobRaises(j) \/ WorkerCrash(j)
                           \/ JobTimeout(j) \/ JobExhausted(j) \/ ResultExpires(j)
         \/ \E n \in Node : Clock(n)
  PROVE  [Lifecycle!Next]_Lifecycle!vars
<1> USE SameNodes DEF stamps, db, arq, api, user
<1>1. ASSUME NEW j \in Job,
             Heartbeat(j) \/ WorkerCrash(j) \/ JobTimeout(j) \/ JobExhausted(j) \/ ResultExpires(j)
      PROVE  UNCHANGED <<task, status, attempts, decided>>
  BY <1>1 DEF Heartbeat, WorkerCrash, JobTimeout, JobExhausted, ResultExpires
<1>2. ASSUME NEW j \in Job, JobRaises(j) PROVE [Lifecycle!Next]_Lifecycle!vars
  BY <1>2, JobErrorRefines DEF JobRaises
<1>3. CASE \/ Scan \/ SweepEnqueue \/ SweepEnqueueFails
           \/ \E n \in Node : ReadTask(n) \/ Clock(n)
  BY <1>3, Stutter DEF Scan, ReadTask, SweepEnqueue, SweepEnqueueFails, Clock, LeaseRunsOut, RowAges
<1>4. ASSUME NEW n \in Node, DeadLetter(n) PROVE [Lifecycle!Next]_Lifecycle!vars
  <2>1. CASE status[n] \in {"queued", "running"}
    <3>1. attempts[n] >= MaxTries
      BY <1>4 DEF DeadLetter, Inv, StaleClaimable, ClaimsSpent
    <3>2. status[n] = "running"
      BY <2>1, <3>1, BoundAssumption DEF Inv, TypeOK, AttemptsBounded
    <3>3. Lifecycle!Fail(n)
      BY <1>4, <2>1, <3>2 DEF DeadLetter, Lifecycle!Fail, Lifecycle!Move
    <3>4. QED
      BY <3>3 DEF Lifecycle!Next
  <2>2. CASE status[n] \notin {"queued", "running"}
    BY <1>4, <2>2, Stutter DEF DeadLetter
  <2>3. QED
    BY <2>1, <2>2
<1>5. ASSUME NEW n \in Node, Requeue(n) PROVE [Lifecycle!Next]_Lifecycle!vars
  <2>1. CASE Hits(n, "running")
    <3>1. attempts[n] < MaxTries /\ n \notin Hitl
      BY <1>5 DEF Requeue, Inv, StaleClaimable
    <3>2. Lifecycle!Queue(n)
      BY <1>5, <2>1, <3>1 DEF Requeue, Hits, Lifecycle!Queue, Lifecycle!Move
    <3>3. QED
      BY <3>2 DEF Lifecycle!Next
  <2>2. CASE ~Hits(n, "running")
    BY <1>5, <2>2, Stutter DEF Requeue
  <2>3. QED
    BY <2>1, <2>2
<1>6. QED
  BY <1>1, <1>2, <1>3, <1>4, <1>5, Stutter DEF Sweeper

\* The durable queue implements the life of a task: no interleaving of gateway,
\* workers, sweeper, retries and faults makes a node move in another way.
THEOREM TaskQueueImplementsLifecycle == Spec => ImplementsLifecycle
<1>1. Init => Lifecycle!Init
  BY SameNodes DEF Init, Lifecycle!Init
<1>2. Inv /\ [Next]_vars => [Lifecycle!Next]_Lifecycle!vars
  <2>1. CASE UNCHANGED vars
    BY <2>1, Stutter DEF vars
  <2>2. ASSUME Inv, Next PROVE [Lifecycle!Next]_Lifecycle!vars
    BY <2>2, GatewayRefines, StartRefines, ExecutionRefines, OutsideRefines
    DEF Next, Environment, Sweeper
  <2>3. QED
    BY <2>1, <2>2
<1>3. QED
  BY <1>1, <1>2, InvAlways, PTL DEF Spec, ImplementsLifecycle, Lifecycle!Spec
=============================================================================
