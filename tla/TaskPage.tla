------------------------------ MODULE TaskPage ------------------------------
(***************************************************************************)
(* The page of a task (TaskDetailPage.tsx, App.tsx, useZeffyWs.ts): events *)
(* of the connection and answers to its own requests both write what it    *)
(* shows of the nodes.                                                     *)
(*                                                                         *)
(* App renders whenever an event has come in, the connection opens, or the *)
(* user does something; its handler for a lost login is a new function     *)
(* each time, so that with every render the page asks for all nodes and    *)
(* applies its last event again.                                           *)
(*                                                                         *)
(* Simplifications, by name.                                               *)
(*  - A status is the number of changes the node has had.                  *)
(*  - Every event is the update of a node; an event that a task is         *)
(*    enqueued, which only asks once more, the cards that ask the user for *)
(*    a decision, and the messages, are left out.                          *)
(*  - The page does not change its task, and the login stays good.         *)
(***************************************************************************)
EXTENDS Naturals, Sequences

CONSTANTS
  Part,        \* nodes of the task
  MaxChanges,  \* bound: changes of each node
  MaxGets,     \* bound: requests under way
  MaxFaults    \* bound: requests that fail

ASSUME PageBounds == MaxChanges \in Nat /\ MaxGets \in Nat \ {0} /\ MaxFaults \in Nat

VARIABLES
  status,   \* of each node, in the database
  link,     \* wsStatus
  wire,     \* events sent and not yet received
  due,    \* something is received, or the link has changed, and nothing rendered since
  last,     \* the last event received, or NoEvent
  nodes,    \* what the page shows of each node
  gets,     \* requests under way, by number
  answer,   \* what the server has read for each
  newest,   \* the last request made
  outcome,  \* what became of it
  told,     \* the nodes when the connection last opened or was last sent an event
  faults    \* requests that failed so far

pageVars == <<status, link, wire, due, last, nodes, gets, answer, newest, outcome, told, faults>>

Count == 0 .. MaxChanges
Get == 1 .. MaxGets
Event == [node : Part, status : Count]
NoEvent == [node |-> "none", status |-> 0]
PageTypeOK ==
  /\ status \in [Part -> Count] /\ nodes \in [Part -> Count] /\ told \in [Part -> Count]
  /\ link \in {"closed", "open"} /\ wire \in Seq(Event) /\ due \in BOOLEAN
  /\ last \in Event \cup {NoEvent}
  /\ gets \in [Get -> {"free", "asked", "answered"}] /\ answer \in [Get -> [Part -> Count]]
  /\ newest \in Get /\ outcome \in {"none", "asked", "shown", "overwritten", "missed"}
  /\ faults \in 0 .. MaxFaults

Untouched == [p \in Part |-> 0]
PageInit ==
  /\ status = Untouched /\ nodes = Untouched /\ told = Untouched
  /\ link = "closed" /\ wire = <<>> /\ due = FALSE /\ last = NoEvent
  /\ gets = [g \in Get |-> "free"] /\ answer = [g \in Get |-> Untouched]
  /\ newest = 1 /\ outcome = "none" /\ faults = 0

-----------------------------------------------------------------------------
\* A node changes; most changes are sent as events, some (a node that is queued, claimed or swept)
\* are not.
NodeChanges(p, sent) ==
  /\ status[p] < MaxChanges /\ status' = [status EXCEPT ![p] = @ + 1]
  /\ IF sent /\ link = "open"
       THEN wire' = Append(wire, [node |-> p, status |-> status'[p]]) /\ told' = status'
       ELSE UNCHANGED <<wire, told>>
  /\ UNCHANGED <<link, due, last, nodes, gets, answer, newest, outcome, faults>>

\* Mutant: an event that finds a request under way makes no other.
AsksIfNone == link = "open" /\ \A h \in Get : gets[h] = "free"
\* reconcile runs when the connection is open, in the effect of every render.
Asks == link = "open"
Applied(e) == IF e = NoEvent THEN nodes ELSE [nodes EXCEPT ![e.node] = e.status]
\* The effects of a render: the page asks for the nodes, and then applies its last event.
Render ==
  /\ due' = FALSE /\ nodes' = Applied(last)
  /\ IF Asks
       THEN \E g \in Get :
              /\ gets[g] = "free" /\ gets' = [gets EXCEPT ![g] = "asked"]
              /\ newest' = g /\ outcome' = "asked"
       ELSE UNCHANGED <<gets, newest, outcome>>
  /\ UNCHANGED <<status, link, wire, last, answer, told, faults>>

EventComes ==
  /\ wire # <<>> /\ wire' = Tail(wire) /\ last' = Head(wire) /\ due' = TRUE
  /\ UNCHANGED <<status, link, nodes, gets, answer, newest, outcome, told, faults>>
\* The server has the connection among those it serves before the page knows it open.
LinkOpens ==
  /\ link = "closed" /\ link' = "open" /\ told' = status /\ due' = TRUE
  /\ UNCHANGED <<status, wire, last, nodes, gets, answer, newest, outcome, faults>>
LinkCloses ==
  /\ link = "open" /\ link' = "closed" /\ wire' = <<>> /\ due' = TRUE
  /\ UNCHANGED <<status, last, nodes, gets, answer, newest, outcome, told, faults>>

Read(g) ==
  /\ gets[g] = "asked" /\ gets' = [gets EXCEPT ![g] = "answered"]
  /\ answer' = [answer EXCEPT ![g] = status]
  /\ UNCHANGED <<status, link, wire, due, last, nodes, newest, outcome, told, faults>>
\* What the arrival of an answer, or of none, makes of the newest request
OutcomeOf(g, what) ==
  IF g = newest /\ outcome = "asked" THEN what
  ELSE IF outcome = "shown" THEN "overwritten" ELSE outcome
\* setNodes(map): whichever answer arrives is shown, and all of it.
Arrive(g) ==
  /\ gets[g] = "answered" /\ gets' = [gets EXCEPT ![g] = "free"]
  /\ nodes' = answer[g] /\ answer' = [answer EXCEPT ![g] = Untouched]
  /\ outcome' = OutcomeOf(g, "shown")
  /\ UNCHANGED <<status, link, wire, due, last, newest, told, faults>>
\* A request that fails is not made again.
Miss(g) ==
  /\ gets[g] # "free" /\ gets' = [gets EXCEPT ![g] = "free"]
  /\ faults < MaxFaults /\ faults' = faults + 1
  /\ answer' = [answer EXCEPT ![g] = Untouched]
  /\ outcome' = IF g = newest /\ outcome = "asked" THEN "missed" ELSE outcome
  /\ UNCHANGED <<status, link, wire, due, last, nodes, newest, told>>

PageNext ==
  \/ Render \/ EventComes \/ LinkOpens \/ LinkCloses
  \/ \E p \in Part, sent \in BOOLEAN : NodeChanges(p, sent)
  \/ \E g \in Get : Read(g) \/ Arrive(g) \/ Miss(g)
PageSpec == PageInit /\ [][PageNext]_pageVars

-----------------------------------------------------------------------------
AtRest == link = "open" /\ wire = <<>> /\ ~due /\ \A g \in Get : gets[g] = "free"
NothingOlder == \A p \in Part : nodes[p] >= told[p]

\* A page at rest shows no node older than it was when the last event was sent, or the connection
\* last opened: whatever events a broken connection has swallowed or a render has skipped, and
\* whatever old event a render applies again, the request of the last render makes up for them.
\* (reconcile; provided its answer is the last to arrive)
PageCatchesUp == AtRest /\ outcome = "shown" => NothingOlder
=============================================================================
