----------------------------- MODULE EventStream -----------------------------
(***************************************************************************)
(* The events of one task on their way from the workers to the connections *)
(* of the users: make_emit (queue/arqs.py) numbers an event and publishes  *)
(* it, queue/events.py receives and sequences, and task_event_handler      *)
(* (api/ws.py) pushes it to the connections registered for the task.       *)
(*                                                                         *)
(* An event is its number and what it tells, which is the moment of the    *)
(* task's life it was emitted at: "now" counts these moments.              *)
(*                                                                         *)
(* Simplifications, by name.                                               *)
(*  - One task, one API process; authentication is on.                     *)
(*  - A user has one connection at a time.  A broken one is noticed at     *)
(*    once, and a submission that began on it is over before the client    *)
(*    connects again (it waits a second or more).                          *)
(*  - Who may see the task may submit to it.                               *)
(***************************************************************************)
EXTENDS Naturals, Sequences

CONSTANTS
  Emitter,    \* executions of the task's jobs at one time
  Client,     \* users
  MaxEvents,  \* bound: events in a behaviour
  MaxJobs,    \* bound: submissions
  MaxOpens,   \* bound: connections made
  MaxRevokes, \* bound: times a user loses access
  MaxFaults   \* bound: failures

ASSUME StreamAssumption ==
  /\ MaxEvents \in Nat /\ MaxJobs \in Nat /\ MaxOpens \in Nat
  /\ MaxRevokes \in Nat /\ MaxFaults \in Nat

VARIABLES
  now,       \* the last moment of the task's life
  jobs,      \* jobs enqueued and not begun
  emitter,   \* each execution: where it is, its event, its fallback counter
  counter,   \* taskseq:<task> in Redis
  linked,    \* the API process is subscribed to the channel
  line,      \* what the subscription holds
  expect,    \* EventSequencer._next_by_task
  hand,      \* what task_event_handler is doing
  subs,      \* _task_ws: the connections registered for the task
  submit,    \* where the submission of each client is
  access,    \* who may see the task
  open,      \* who is connected
  count,     \* how much of each bound is used up
  pushed,    \* history: the event last pushed on each connection
  gone,      \* history: the moment each user last lost access
  owed,      \* history: numbers published for each listener and not yet pushed
  listening, \* history: who has submitted on this connection and kept access
  happened   \* history: what has ever gone wrong

workers == <<now, jobs, emitter, counter>>
server  == <<linked, line, expect, hand, subs, submit>>
history == <<pushed, gone, owed, listening, happened>>
vars == <<workers, server, access, open, count, history>>

Event == [n : Nat, at : Nat]
NoEvent == [n |-> 0, at |-> 0]
Free == [pc |-> "idle", ev |-> NoEvent, todo |-> {}, visible |-> {}]
Unborn == [pc |-> "idle", ev |-> NoEvent, local |-> 0]

Execution == [pc : {"idle", "work", "number", "publish"}, ev : Event, local : Nat]
Handler == [pc : {"idle", "look", "push"}, ev : Event, todo : SUBSET Client,
            visible : SUBSET Client]
Bounded == {"events", "jobs", "opens", "revokes", "faults"}

\* What is published has a number of 1 or more.
TypeOK ==
  /\ now \in Nat /\ jobs \in Nat /\ counter \in Nat
  /\ emitter \in [Emitter -> Execution]
  /\ \A e \in Emitter : emitter[e].pc = "publish" => emitter[e].ev.n > 0
  /\ linked \in BOOLEAN
  /\ line \in Seq(Event)
  /\ expect \in Nat
  /\ hand \in Handler
  /\ subs \subseteq Client
  /\ submit \in [Client -> {"idle", "enqueue"}]
  /\ access \subseteq Client
  /\ open \subseteq Client
  /\ count \in [Bounded -> Nat]
  /\ pushed \in [Client -> Event]
  /\ gone \in [Client -> Nat]
  /\ owed \in [Client -> SUBSET Nat]
  /\ listening \subseteq Client
  /\ happened \subseteq {"failure", "overlap"}

Init ==
  /\ now = 0 /\ jobs = 0 /\ counter = 0
  /\ emitter = [e \in Emitter |-> Unborn]
  /\ linked = TRUE /\ line = <<>> /\ expect = 1 /\ hand = Free
  /\ subs = {} /\ submit = [c \in Client |-> "idle"]
  /\ access = Client /\ open = {}
  /\ count = [x \in Bounded |-> 0]
  /\ pushed = [c \in Client |-> NoEvent] /\ gone = [c \in Client |-> 0]
  /\ owed = [c \in Client |-> {}] /\ listening = {} /\ happened = {}

\* One more of what a bound counts.
Uses(x, max) == count[x] < max /\ count' = [count EXCEPT ![x] = @ + 1]
Happens(x) == happened' = happened \cup {x}
Fault == Uses("faults", MaxFaults) /\ Happens("failure")
FaultFree == UNCHANGED <<count, happened>>

-----------------------------------------------------------------------------
(* Workers: something happens in a job, is committed, and then emitted.       *)

Becomes(e, pc, ev, local) ==
  emitter' = [emitter EXCEPT ![e] = [pc |-> pc, ev |-> ev, local |-> local]]

JobBegins(e) ==
  /\ emitter[e].pc = "idle"
  /\ jobs > 0
  /\ jobs' = jobs - 1
  /\ Becomes(e, "work", NoEvent, 0)
  /\ UNCHANGED <<now, counter, server, access, open, count, history>>

\* Is another execution about to emit?
Emitting(f) == emitter[f].pc \in {"number", "publish"}
Overlaps(e) ==
  IF \E f \in Emitter \ {e} : Emitting(f) THEN Happens("overlap") ELSE UNCHANGED happened

Work(e) ==
  /\ emitter[e].pc = "work"
  /\ Uses("events", MaxEvents)
  /\ now' = now + 1
  /\ Becomes(e, "number", [n |-> 0, at |-> now'], emitter[e].local)
  /\ Overlaps(e)
  /\ UNCHANGED <<jobs, counter, server, access, open, pushed, gone, owed, listening>>

\* INCR of the task's number.  When it fails, the job's own counter goes on from
\* where it is.  Mutant: the number is taken before the counter moves.
LocalFirst(x)  == x
LocalNumber(x) == x + 1

Number(e) ==
  /\ emitter[e].pc = "number"
  /\ \/ /\ counter' = counter + 1
        /\ Becomes(e, "publish", [n |-> counter', at |-> emitter[e].ev.at], emitter[e].local)
        /\ FaultFree
     \/ /\ Fault
        /\ Becomes(e, "publish", [n |-> LocalNumber(emitter[e].local), at |-> emitter[e].ev.at],
                   emitter[e].local + 1)
        /\ UNCHANGED counter
  /\ UNCHANGED <<now, jobs, server, access, open, pushed, gone, owed, listening>>

\* PUBLISH reaches whoever is subscribed; a failure is only logged.
Publish(e) ==
  /\ emitter[e].pc = "publish"
  /\ Becomes(e, "work", NoEvent, emitter[e].local)
  /\ owed' = [c \in Client |-> IF c \in listening THEN owed[c] \cup {emitter[e].ev.n} ELSE owed[c]]
  /\ \/ line' = (IF linked THEN Append(line, emitter[e].ev) ELSE line) /\ FaultFree
     \/ UNCHANGED line /\ Fault
  /\ UNCHANGED <<now, jobs, counter, linked, expect, hand, subs, submit, access, open,
                 pushed, gone, listening>>

\* The job returns, or its process ends before it has emitted.
JobEnds(e) ==
  /\ \/ emitter[e].pc = "work" /\ FaultFree
     \/ Emitting(e) /\ Fault
  /\ emitter' = [emitter EXCEPT ![e] = Unborn]
  /\ UNCHANGED <<now, jobs, counter, server, access, open, pushed, gone, owed, listening>>

Emit(e) == JobBegins(e) \/ Work(e) \/ Number(e) \/ Publish(e) \/ JobEnds(e)

-----------------------------------------------------------------------------
(* The API process: one event at a time.                                      *)

\* EventSequencer.accept: the number that is due, no other.  Mutants: numbers may be
\* skipped; what is due does not move.
AcceptGaps(n)   == n >= expect
Accepts(n)      == n = expect
DueForgotten(n) == expect
Due(n)          == n + 1

Receive ==
  /\ hand.pc = "idle"
  /\ line # <<>>
  /\ line' = Tail(line)
  /\ IF Accepts(Head(line).n)
     THEN /\ expect' = Due(Head(line).n)
          /\ hand' = [pc |-> "look", ev |-> Head(line), todo |-> {}, visible |-> {}]
     ELSE UNCHANGED <<expect, hand>>
  /\ UNCHANGED <<workers, linked, subs, submit, access, open, count, history>>

\* The connections still to be pushed to; with the last of them the handler is over.
Pushing(todo, visible) ==
  hand' = IF todo = {} THEN Free
          ELSE [pc |-> "push", ev |-> hand.ev, todo |-> todo, visible |-> visible]

\* _visible_user_ids, and then the connections of that moment, without those that
\* are closed, where a push comes to nothing.  When the database does not answer,
\* nobody may see the event.  Mutant: the filter is left out.
VisibleAnybody == Client
Visible        == access

Look ==
  /\ hand.pc = "look"
  /\ \/ Pushing(subs \cap open, Visible) /\ FaultFree
     \/ Pushing(subs \cap open, {}) /\ Fault
  /\ UNCHANGED <<workers, linked, line, expect, subs, submit, access, open,
                 pushed, gone, owed, listening>>

\* Each push is awaited; users who may not see the event are passed over.
Push ==
  /\ \E c \in hand.todo :
       /\ Pushing(hand.todo \ {c}, hand.visible)
       /\ IF c \in hand.visible
          THEN /\ pushed' = [pushed EXCEPT ![c] = hand.ev]
               /\ owed' = [owed EXCEPT ![c] = @ \ {hand.ev.n}]
          ELSE UNCHANGED <<pushed, owed>>
  /\ UNCHANGED <<workers, linked, line, expect, subs, submit, access, open, count,
                 gone, listening, happened>>

\* The subscription breaks; what it holds is lost.  It is made again by itself.
Unlink ==
  /\ linked
  /\ Fault
  /\ linked' = FALSE /\ line' = <<>>
  /\ UNCHANGED <<workers, expect, hand, subs, submit, access, open,
                 pushed, gone, owed, listening>>

Link ==
  /\ ~linked
  /\ linked' = TRUE
  /\ UNCHANGED <<workers, line, expect, hand, subs, submit, access, open, count, history>>

\* The process ends and starts again: it knows nothing, and all are disconnected.
ApiRestarts ==
  /\ Fault
  /\ linked' = FALSE /\ line' = <<>> /\ expect' = 1 /\ hand' = Free
  /\ subs' = {} /\ submit' = [c \in Client |-> "idle"] /\ open' = {}
  /\ pushed' = [c \in Client |-> NoEvent]
  /\ owed' = [c \in Client |-> {}] /\ listening' = {}
  /\ UNCHANGED <<workers, access, gone>>

Api == Receive \/ Look \/ Push \/ Unlink \/ Link \/ ApiRestarts

-----------------------------------------------------------------------------
(* Submissions: a message or a decision sent on a connection.                 *)

\* The connection is registered before anything is enqueued, and nowhere else.
SubmitBegin(c) ==
  /\ c \in open \cap access
  /\ submit[c] = "idle"
  /\ Uses("jobs", MaxJobs)
  /\ subs' = subs \cup {c}
  /\ submit' = [submit EXCEPT ![c] = "enqueue"]
  /\ UNCHANGED <<workers, linked, line, expect, hand, access, open, history>>

\* A failed enqueue is only reported.  Afterwards a connection that has closed
\* meanwhile is unregistered.
SubmitEnqueue(c) ==
  /\ submit[c] = "enqueue"
  /\ submit' = [submit EXCEPT ![c] = "idle"]
  /\ subs' = IF c \in open THEN subs ELSE subs \ {c}
  /\ \/ /\ jobs' = jobs + 1
        /\ listening' = listening \cup ({c} \cap open \cap access)
        /\ FaultFree
     \/ Fault /\ UNCHANGED <<jobs, listening>>
  /\ UNCHANGED <<now, emitter, counter, linked, line, expect, hand, access, open,
                 pushed, gone, owed>>

Submit(c) == SubmitBegin(c) \/ SubmitEnqueue(c)

-----------------------------------------------------------------------------
(* Connections and sharing.                                                   *)

\* A connection is registered for no task.
Open(c) ==
  /\ c \notin open
  /\ submit[c] = "idle"
  /\ Uses("opens", MaxOpens)
  /\ open' = open \cup {c}
  /\ UNCHANGED <<workers, server, access, history>>

Close(c) ==
  /\ c \in open
  /\ open' = open \ {c}
  /\ IF hand.pc = "push" THEN Pushing(hand.todo \ {c}, hand.visible) ELSE UNCHANGED hand
  /\ subs' = IF submit[c] = "idle" THEN subs \ {c} ELSE subs
  /\ pushed' = [pushed EXCEPT ![c] = NoEvent]
  /\ owed' = [owed EXCEPT ![c] = {}]
  /\ listening' = listening \ {c}
  /\ UNCHANGED <<workers, linked, line, expect, submit, access, count, gone, happened>>

Revoke(c) ==
  /\ c \in access
  /\ Uses("revokes", MaxRevokes)
  /\ access' = access \ {c}
  /\ gone' = [gone EXCEPT ![c] = now]
  /\ owed' = [owed EXCEPT ![c] = {}]
  /\ listening' = listening \ {c}
  /\ UNCHANGED <<workers, server, open, pushed, happened>>

\* What has been pushed before is of no account for the order any more.
Grant(c) ==
  /\ c \in Client \ access
  /\ access' = access \cup {c}
  /\ pushed' = [pushed EXCEPT ![c] = NoEvent]
  /\ UNCHANGED <<workers, server, open, count, gone, owed, listening, happened>>

User(c) == Submit(c) \/ Open(c) \/ Close(c) \/ Revoke(c) \/ Grant(c)

-----------------------------------------------------------------------------

Next == (\E e \in Emitter : Emit(e)) \/ Api \/ (\E c \in Client : User(c))

Spec == Init /\ [][Next]_vars

\* The consumer is resumed when something has arrived, and subscribes again by itself.
Fairness == WF_vars(Receive) /\ WF_vars(Look) /\ WF_vars(Push) /\ WF_vars(Link)
FairSpec == Spec /\ Fairness

-----------------------------------------------------------------------------
(* Properties *)

\* An event is pushed on the connection, be it the one that was pushed before.
Hears(c) ==
  /\ pushed'[c] # NoEvent
  /\ \/ pushed'[c] # pushed[c]
     \/ c \in hand.visible \cap (hand.todo \ hand'.todo)

\* A connection receives rising numbers, none of them twice, whatever emitters, failures and
\* restarts do; and as long as nothing fails and its user keeps access, every number from the
\* first one on (EventSequencer.accept; late and repeated events are dropped, events.py:8).
ConnectionInOrder ==
  [][\A c \in Client : Hears(c) =>
       /\ pushed[c].n < pushed'[c].n
       /\ pushed[c].n = 0 \/ "failure" \in happened \/ pushed'[c].n = pushed[c].n + 1]_vars

\* What happens after a user has lost access is never pushed to that user, on no old
\* connection and however late the event is handled (task_event_handler asks for every
\* event who may see the task).
RevokedHearsNothing ==
  [][\A c \in Client \ access :
       pushed'[c] # pushed[c] => pushed'[c] = NoEvent \/ pushed'[c].at <= gone[c]]_vars

\* As long as nothing fails and no two executions emit at the same time, everything
\* that is published after a submission reaches the connection it came from, however
\* fast the first event follows (_submit_queue registers before it enqueues).
Clean == happened = {}
Delivered ==
  \A c \in Client, n \in 1 .. MaxEvents :
    n \in owed[c] /\ Clean ~> n \notin owed[c] \/ ~Clean
=============================================================================
