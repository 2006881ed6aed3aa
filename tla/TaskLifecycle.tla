--------------------------- MODULE TaskLifecycle ---------------------------
(***************************************************************************)
(* What the durable task queue promises about one task: the life of its    *)
(* nodes with no jobs, leases, sessions, sweeps or processes in it.  Every *)
(* commit of the gateway, the workers and the sweeper is one of these      *)
(* steps, or none; TaskQueue is shown to implement this module.            *)
(*                                                                         *)
(* It is the transition system the code has, which is wider than the table *)
(* LEGAL_TRANSITIONS of workflow/state_machine.py.                         *)
(***************************************************************************)
EXTENDS Naturals

CONSTANTS
  N,          \* nodes, numbered in template order
  Hitl,       \* the approval nodes
  MaxTries    \* claims of a node

VARIABLES
  task,       \* tasks.status
  status,     \* task_nodes.status
  attempts,   \* task_nodes.attempts
  decided     \* the kinds of decision the user has sent

vars == <<task, status, attempts, decided>>

Node == 1 .. N

Init ==
  /\ task = "pending"
  /\ status = [n \in Node |-> "absent"]
  /\ attempts = [n \in Node |-> 0]
  /\ decided = {}

\* One node moves.
Move(n, from, to) ==
  /\ status[n] = from
  /\ status' = [status EXCEPT ![n] = to]

Prepare ==
  /\ task = "pending"
  /\ task' = "running"
  /\ status' = [n \in Node |-> "pending"]
  /\ UNCHANGED <<attempts, decided>>

\* The user's decision is only recorded.
Decide(d) ==
  /\ decided' = decided \cup {d}
  /\ UNCHANGED <<task, status, attempts>>

\* Into the queue, out of it again, and back into it after a stale execution.
Queue(n) ==
  /\ \/ Move(n, "pending", "queued")
     \/ Move(n, "queued", "pending")
     \/ n \notin Hitl /\ Move(n, "running", "queued")
  /\ attempts[n] < MaxTries
  /\ UNCHANGED <<task, attempts, decided>>

\* A worker claims a queued node: the only step that costs an attempt.
Claim(n) ==
  /\ attempts[n] < MaxTries
  /\ Move(n, "queued", "running")
  /\ attempts' = [attempts EXCEPT ![n] = @ + 1]
  /\ UNCHANGED <<task, decided>>

Activate(n) ==
  /\ Move(n, "pending", "running")
  /\ UNCHANGED <<task, attempts, decided>>

Complete(n) ==
  /\ n \in Hitl => "approve" \in decided
  /\ Move(n, "running", "done")
  /\ UNCHANGED <<task, attempts, decided>>

\* An approval node is parked, released by an approval, or sent back.
Gate(n) ==
  /\ n \in Hitl
  /\ \/ Move(n, "running", "blocked")
     \/ "approve" \in decided /\ Move(n, "blocked", "running")
     \/ "reject" \in decided /\ Move(n, "blocked", "pending")
  /\ UNCHANGED <<task, attempts, decided>>

\* The node before a rejected approval is worked on again.
Reopen(n) ==
  /\ "reject" \in decided
  /\ n + 1 \in Hitl
  /\ Move(n, "done", "running")
  /\ task' = "running"
  /\ UNCHANGED <<attempts, decided>>

\* A running node fails and the task with it; or only the task ends.
Fail(n) ==
  /\ Move(n, "running", "failed")
  /\ task' = "failed"
  /\ UNCHANGED <<attempts, decided>>

TaskEnds ==
  /\ task # "pending"
  /\ task' \in {"done", "failed"}
  /\ UNCHANGED <<status, attempts, decided>>

Next ==
  \/ Prepare \/ TaskEnds
  \/ \E d \in {"approve", "reject", "answer"} : Decide(d)
  \/ \E n \in Node : \/ Queue(n) \/ Claim(n) \/ Activate(n) \/ Complete(n)
                     \/ Gate(n) \/ Reopen(n) \/ Fail(n)

Spec == Init /\ [][Next]_vars
=============================================================================
