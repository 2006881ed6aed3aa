------------------------- MODULE EventStream_proofs -------------------------
(***************************************************************************)
(* Proofs about EventStream: its types, the order in which a connection    *)
(* hears events, and that users who have lost access hear nothing new.     *)
(***************************************************************************)
EXTENDS EventStream, TLAPS

-----------------------------------------------------------------------------
(* Types *)

\* TypeOK in three parts.
WorkersTyped ==
  /\ now \in Nat /\ jobs \in Nat /\ counter \in Nat
  /\ emitter \in [Emitter -> Execution]
  /\ \A e \in Emitter : emitter[e].pc = "publish" => emitter[e].ev.n > 0
ServerTyped ==
  /\ linked \in BOOLEAN /\ line \in Seq(Event) /\ expect \in Nat /\ hand \in Handler
  /\ subs \subseteq Client /\ submit \in [Client -> {"idle", "enqueue"}]
UsersTyped ==
  /\ access \subseteq Client /\ open \subseteq Client
  /\ pushed \in [Client -> Event] /\ gone \in [Client -> Nat]
  /\ owed \in [Client -> SUBSET Nat] /\ listening \subseteq Client
CountsTyped == count \in [Bounded -> Nat] /\ happened \subseteq {"failure", "overlap"}

Typed == WorkersTyped /\ ServerTyped /\ UsersTyped /\ CountsTyped

LEMMA UsesTyped ==
  ASSUME CountsTyped, NEW x \in Bounded, NEW max, Uses(x, max)
  PROVE  count' \in [Bounded -> Nat]
BY DEF CountsTyped, Uses

LEMMA FaultTyped ==
  ASSUME CountsTyped, Fault \/ FaultFree
  PROVE  CountsTyped'
<1>1. CASE Fault
  BY <1>1, UsesTyped DEF CountsTyped, Fault, Happens, Bounded
<1> QED BY <1>1 DEF CountsTyped, FaultFree

\* The place of one execution.
LEMMA BecomesTyped ==
  ASSUME WorkersTyped, NEW e \in Emitter,
         NEW pc \in {"idle", "work", "number", "publish"}, NEW ev \in Event, NEW local \in Nat,
         Becomes(e, pc, ev, local), pc = "publish" => ev.n > 0
  PROVE  /\ emitter' \in [Emitter -> Execution]
         /\ \A f \in Emitter : emitter'[f].pc = "publish" => emitter'[f].ev.n > 0
<1> DEFINE x == [pc |-> pc, ev |-> ev, local |-> local]
<1>1. x \in Execution
  BY DEF Execution
<1>2. emitter' = [emitter EXCEPT ![e] = x]
  BY DEF Becomes
<1> QED BY <1>1, <1>2 DEF WorkersTyped

LEMMA EventTyped == NoEvent \in Event
BY DEF NoEvent, Event

LEMMA PushingTyped ==
  ASSUME hand \in Handler, NEW todo \in SUBSET Client, NEW visible \in SUBSET Client,
         Pushing(todo, visible)
  PROVE  hand' \in Handler
BY EventTyped DEF Handler, Pushing, Free

LEMMA EmitKeepsTypes ==
  ASSUME Typed, NEW e \in Emitter, Emit(e)
  PROVE  Typed'
<1> USE DEF Typed
<1>1. emitter[e] \in Execution /\ emitter[e].local \in Nat /\ emitter[e].ev \in Event
      /\ emitter[e].ev.at \in Nat
  BY DEF WorkersTyped, Execution, Event
<1>2. CASE JobBegins(e)
  <2>1. WorkersTyped'
    BY <1>2, BecomesTyped, EventTyped DEF JobBegins, WorkersTyped
  <2> QED BY <1>2, <2>1 DEF JobBegins, ServerTyped, UsersTyped, CountsTyped, server, history
<1>3. CASE Work(e)
  <2>1. now' \in Nat /\ [n |-> 0, at |-> now'] \in Event
    BY <1>3 DEF Work, WorkersTyped, Event
  <2>2. WorkersTyped'
    BY <1>3, <2>1, <1>1, BecomesTyped DEF Work, WorkersTyped
  <2>3. CountsTyped'
    BY <1>3, UsesTyped DEF Work, Overlaps, Happens, CountsTyped, Bounded
  <2> QED BY <1>3, <2>2, <2>3 DEF Work, ServerTyped, UsersTyped, server
<1>4. CASE Number(e)
  <2>1. PICK n \in Nat, local \in Nat :
          n > 0 /\ Becomes(e, "publish", [n |-> n, at |-> emitter[e].ev.at], local)
    BY <1>4, <1>1 DEF Number, LocalNumber, WorkersTyped
  <2>2. [n |-> n, at |-> emitter[e].ev.at] \in Event
    BY <1>1 DEF Event
  <2>3. WorkersTyped'
    <3>1. now' \in Nat /\ jobs' \in Nat /\ counter' \in Nat
      BY <1>4 DEF Number, WorkersTyped
    <3> QED BY <2>1, <2>2, <3>1, BecomesTyped DEF WorkersTyped
  <2>4. CountsTyped'
    BY <1>4, FaultTyped DEF Number
  <2> QED BY <1>4, <2>3, <2>4 DEF Number, ServerTyped, UsersTyped, server
<1>5. CASE Publish(e)
  <2>1. WorkersTyped'
    BY <1>5, <1>1, BecomesTyped, EventTyped DEF Publish, WorkersTyped
  <2>2. line' \in Seq(Event)
    BY <1>5, <1>1 DEF Publish, ServerTyped
  <2>3. owed' \in [Client -> SUBSET Nat]
    BY <1>5, <1>1 DEF Publish, UsersTyped, Event
  <2>4. CountsTyped'
    BY <1>5, FaultTyped DEF Publish
  <2> QED BY <1>5, <2>1, <2>2, <2>3, <2>4 DEF Publish, ServerTyped, UsersTyped
<1>6. CASE JobEnds(e)
  <2>1. Becomes(e, "idle", NoEvent, 0)
    BY <1>6 DEF JobEnds, Becomes, Unborn
  <2>2. WorkersTyped'
    BY <1>6, <2>1, BecomesTyped, EventTyped DEF JobEnds, WorkersTyped
  <2>3. CountsTyped'
    BY <1>6, FaultTyped DEF JobEnds
  <2> QED BY <1>6, <2>2, <2>3 DEF JobEnds, ServerTyped, UsersTyped, server
<1> QED BY <1>2, <1>3, <1>4, <1>5, <1>6 DEF Emit

LEMMA ApiKeepsTypes ==
  ASSUME Typed, Api
  PROVE  Typed'
<1> USE DEF Typed
<1>1. CASE Receive
  <2>1. line # <<>> /\ line \in Seq(Event) /\ expect \in Nat /\ hand \in Handler
    BY <1>1 DEF Receive, ServerTyped
  <2>2. Head(line) \in Event /\ Tail(line) \in Seq(Event)
    BY <2>1
  <2>3. expect' \in Nat /\ line' \in Seq(Event)
    BY <1>1, <2>1, <2>2 DEF Receive, Due, Event
  <2>4. hand' \in Handler
    BY <1>1, <2>1, <2>2 DEF Receive, Handler
  <2> QED BY <1>1, <2>3, <2>4
          DEF Receive, WorkersTyped, ServerTyped, UsersTyped, CountsTyped, workers, history
<1>2. CASE Look
  <2>1. hand' \in Handler
    BY <1>2, PushingTyped DEF Look, Visible, ServerTyped, UsersTyped
  <2>2. CountsTyped'
    BY <1>2, FaultTyped DEF Look
  <2> QED BY <1>2, <2>1, <2>2 DEF Look, WorkersTyped, ServerTyped, UsersTyped, workers
<1>3. CASE Push
  <2>1. PICK c \in hand.todo :
          /\ Pushing(hand.todo \ {c}, hand.visible)
          /\ IF c \in hand.visible
             THEN /\ pushed' = [pushed EXCEPT ![c] = hand.ev]
                  /\ owed' = [owed EXCEPT ![c] = @ \ {hand.ev.n}]
             ELSE UNCHANGED <<pushed, owed>>
    BY <1>3 DEF Push
  <2>2. hand.todo \subseteq Client /\ hand.visible \subseteq Client /\ hand.ev \in Event
    BY DEF ServerTyped, Handler
  <2>3. hand' \in Handler
    BY <2>1, <2>2, PushingTyped DEF ServerTyped
  <2>4. pushed' \in [Client -> Event] /\ owed' \in [Client -> SUBSET Nat]
    BY <2>1, <2>2 DEF UsersTyped
  <2> QED BY <1>3, <2>3, <2>4 DEF Push, WorkersTyped, ServerTyped, UsersTyped, CountsTyped, workers
<1>4. CASE Unlink
  <2>1. CountsTyped'
    BY <1>4, FaultTyped DEF Unlink
  <2>2. <<>> \in Seq(Event)
    OBVIOUS
  <2>3. ServerTyped'
    BY <1>4, <2>2 DEF Unlink, ServerTyped
  <2> QED BY <1>4, <2>1, <2>3 DEF Unlink, WorkersTyped, UsersTyped, workers
<1>5. CASE Link
  BY <1>5 DEF Link, WorkersTyped, ServerTyped, UsersTyped, CountsTyped, workers, history
<1>6. CASE ApiRestarts
  <2>1. CountsTyped'
    BY <1>6, FaultTyped DEF ApiRestarts
  <2>2. hand' \in Handler
    BY <1>6, EventTyped DEF ApiRestarts, Free, Handler
  <2>3. <<>> \in Seq(Event) /\ expect' \in Nat
    BY <1>6 DEF ApiRestarts
  <2>4. submit' \in [Client -> {"idle", "enqueue"}]
    BY <1>6 DEF ApiRestarts
  <2>5. ServerTyped'
    BY <1>6, <2>2, <2>3, <2>4 DEF ApiRestarts, ServerTyped
  <2> QED BY <1>6, <2>1, <2>5, EventTyped DEF ApiRestarts, WorkersTyped, UsersTyped, workers
<1> QED BY <1>1, <1>2, <1>3, <1>4, <1>5, <1>6 DEF Api

LEMMA UserKeepsTypes ==
  ASSUME Typed, NEW c \in Client, User(c)
  PROVE  Typed'
<1> USE DEF Typed
<1>1. CASE SubmitBegin(c)
  <2>1. CountsTyped'
    BY <1>1, UsesTyped DEF SubmitBegin, CountsTyped, Bounded, history
  <2> QED BY <1>1, <2>1 DEF SubmitBegin, WorkersTyped, ServerTyped, UsersTyped, workers, history
<1>2. CASE SubmitEnqueue(c)
  <2>1. CountsTyped'
    BY <1>2, FaultTyped DEF SubmitEnqueue
  <2> QED BY <1>2, <2>1 DEF SubmitEnqueue, WorkersTyped, ServerTyped, UsersTyped
<1>3. CASE Open(c)
  <2>1. CountsTyped'
    BY <1>3, UsesTyped DEF Open, CountsTyped, Bounded, history
  <2> QED BY <1>3, <2>1 DEF Open, WorkersTyped, ServerTyped, UsersTyped, workers, server, history
<1>4. CASE Close(c)
  <2>1. hand.todo \ {c} \in SUBSET Client /\ hand.visible \in SUBSET Client /\ hand \in Handler
    BY DEF ServerTyped, Handler
  <2>2. hand' \in Handler
    BY <1>4, <2>1, PushingTyped DEF Close
  <2> QED BY <1>4, <2>2, EventTyped
          DEF Close, WorkersTyped, ServerTyped, UsersTyped, CountsTyped, workers
<1>5. CASE Revoke(c)
  <2>1. CountsTyped'
    BY <1>5, UsesTyped DEF Revoke, CountsTyped, Bounded
  <2> QED BY <1>5, <2>1 DEF Revoke, WorkersTyped, ServerTyped, UsersTyped, workers, server
<1>6. CASE Grant(c)
  BY <1>6, EventTyped DEF Grant, WorkersTyped, ServerTyped, UsersTyped, CountsTyped, workers, server
<1> QED BY <1>1, <1>2, <1>3, <1>4, <1>5, <1>6 DEF User, Submit

LEMMA NextKeepsTypes ==
  ASSUME TypeOK, [Next]_vars
  PROVE  TypeOK'
<1>1. Typed
  BY DEF TypeOK, Typed, WorkersTyped, ServerTyped, UsersTyped, CountsTyped
<1>2. CASE UNCHANGED vars
  BY <1>2 DEF TypeOK, vars, workers, server, history
<1>3. CASE Next
  <2>1. Typed'
    BY <1>1, <1>3, EmitKeepsTypes, ApiKeepsTypes, UserKeepsTypes DEF Next
  <2> QED BY <2>1 DEF TypeOK, Typed, WorkersTyped, ServerTyped, UsersTyped, CountsTyped
<1> QED BY <1>2, <1>3

LEMMA InitTyped == Init => TypeOK
BY DEF Init, TypeOK, Event, NoEvent, Execution, Handler, Bounded, Unborn, Free

\* Every variable keeps its type, for any executions, users, bounds and failures; what is
\* published has a number (make_emit, with its counter in Redis and the one it falls
\* back to).
THEOREM StreamTypeCorrect == Spec => []TypeOK
<1>1. Init => TypeOK
  BY InitTyped
<1>2. TypeOK /\ [Next]_vars => TypeOK'
  BY NextKeepsTypes
<1> QED BY <1>1, <1>2, PTL DEF Spec

-----------------------------------------------------------------------------
(* Who hears of what                                                         *)

\* Nothing tells of a moment that is yet to come.
Told ==
  /\ \A e \in Emitter : emitter[e].ev.at <= now
  /\ \A i \in 1 .. Len(line) : line[i].at <= now
  /\ hand.ev.at <= now

\* Whoever has lost access while the handler is pushing may still hear what the
\* handler has in hand, which is older than the loss.
HandKnown == \A c \in hand.visible \ access : hand.ev.at <= gone[c]

LEMMA NextKeepsTold ==
  ASSUME TypeOK, Told, [Next]_vars
  PROVE  Told'
<1>1. CASE UNCHANGED vars
  BY <1>1 DEF Told, vars, workers, server
<1>2. now \in Nat /\ line \in Seq(Event) /\ emitter \in [Emitter -> Execution]
  BY DEF TypeOK
<1>3. ASSUME NEW e \in Emitter, Emit(e)
      PROVE  Told'
  <2>1. /\ UNCHANGED hand /\ now' \in {now, now + 1}
        /\ \/ UNCHANGED line
           \/ line' = Append(line, emitter[e].ev)
    BY <1>3 DEF Emit, JobBegins, Work, Number, Publish, JobEnds, server
  <2>2. \E x \in Execution : x.ev.at <= now' /\ emitter' = [emitter EXCEPT ![e] = x]
    <3>1. emitter[e] \in Execution /\ emitter[e].ev.at <= now
      BY <1>2 DEF Told
    <3>2. emitter[e].ev.at \in Nat /\ emitter[e].local \in Nat
      BY <3>1 DEF Execution, Event
    <3>3. CASE JobBegins(e) \/ JobEnds(e) \/ Publish(e)
      <4>1. PICK pc \in {"idle", "work"}, local \in Nat : Becomes(e, pc, NoEvent, local)
        BY <3>2, <3>3 DEF JobBegins, JobEnds, Publish, Becomes, Unborn
      <4>2. [pc |-> pc, ev |-> NoEvent, local |-> local] \in Execution
        BY EventTyped DEF Execution
      <4>3. NoEvent.at <= now'
        BY <1>2, <2>1 DEF NoEvent
      <4> QED BY <4>1, <4>2, <4>3 DEF Becomes
    <3>4. CASE Work(e) \/ Number(e)
      <4>1. PICK pc \in {"number", "publish"}, n \in Nat, at \in Nat, local \in Nat :
              at <= now' /\ Becomes(e, pc, [n |-> n, at |-> at], local)
        <5>1. CASE Work(e)
          BY <1>2, <3>2, <5>1 DEF Work
        <5>2. CASE Number(e)
          <6>1. now' = now /\ counter + 1 \in Nat /\ emitter[e].local + 1 \in Nat
            BY <3>2, <5>2 DEF Number, TypeOK
          <6> QED BY <3>1, <3>2, <5>2, <6>1 DEF Number, LocalNumber
        <5> QED BY <3>4, <5>1, <5>2
      <4>2. [pc |-> pc, ev |-> [n |-> n, at |-> at], local |-> local] \in Execution
        BY DEF Execution, Event
      <4> QED BY <4>1, <4>2 DEF Becomes
    <3> QED BY <1>3, <3>3, <3>4 DEF Emit
  <2>3. \A f \in Emitter : emitter[f].ev.at \in Nat
    BY <1>2 DEF Execution, Event
  <2>4. \A f \in Emitter : emitter'[f].ev.at <= now'
    BY <1>2, <2>1, <2>2, <2>3 DEF Told
  <2>5. hand'.ev.at <= now'
    BY <1>2, <2>1 DEF Told, TypeOK, Handler, Event
  <2>6. \A i \in 1 .. Len(line') : line'[i].at <= now'
    <3>0. \A i \in 1 .. Len(line) : line[i] \in Event
      BY <1>2
    <3>1. \A i \in 1 .. Len(line) : line[i].at \in Nat /\ line[i].at <= now
      BY <3>0 DEF Told, Event
    <3>2. emitter[e].ev \in Event /\ emitter[e].ev.at <= now
      BY <1>2 DEF Told, Execution
    <3>3. \A i \in 1 .. Len(line) : line[i].at <= now'
      BY <1>2, <2>1, <3>1
    <3>4. emitter[e].ev.at <= now'
      BY <1>2, <2>1, <2>3, <3>2
    <3> QED BY <1>2, <2>1, <3>2, <3>3, <3>4
  <2> QED BY <2>4, <2>5, <2>6 DEF Told
<1>4. CASE Api
  <2>1. UNCHANGED <<now, emitter>>
    BY <1>4 DEF Api, Receive, Look, Push, Unlink, Link, ApiRestarts, workers
  <2>2. NoEvent.at <= now
    BY <1>2 DEF NoEvent
  <2>3. CASE Receive
    <3>1. line # <<>> /\ line' = Tail(line) /\ (hand'.ev = Head(line) \/ UNCHANGED hand)
      BY <2>3 DEF Receive
    <3>2. Head(line) = line[1] /\ 1 \in 1 .. Len(line)
      BY <1>2, <3>1
    <3>3. \A i \in 1 .. Len(line') : line'[i] = line[i + 1] /\ i + 1 \in 1 .. Len(line)
      BY <1>2, <3>1
    <3> QED BY <2>1, <3>1, <3>2, <3>3 DEF Told
  <2>4. CASE Look \/ Push
    <3>1. UNCHANGED line /\ hand'.ev \in {hand.ev, NoEvent}
      BY <2>4 DEF Look, Push, Pushing, Free
    <3> QED BY <2>1, <2>2, <3>1 DEF Told
  <2>5. CASE Unlink \/ Link \/ ApiRestarts
    <3>1. line' \in {line, <<>>} /\ hand'.ev \in {hand.ev, NoEvent}
      BY <2>5 DEF Unlink, Link, ApiRestarts, Free
    <3> QED BY <2>1, <2>2, <3>1 DEF Told
  <2> QED BY <1>4, <2>3, <2>4, <2>5 DEF Api
<1>5. ASSUME NEW c \in Client, User(c)
      PROVE  Told'
  <2>1. UNCHANGED <<now, emitter, line>> /\ hand'.ev \in {hand.ev, NoEvent}
    BY <1>5 DEF User, Submit, SubmitBegin, SubmitEnqueue, Open, Close, Revoke, Grant, Pushing, Free,
                workers, server
  <2>2. NoEvent.at <= now
    BY <1>2 DEF NoEvent
  <2> QED BY <2>1, <2>2 DEF Told
<1> QED BY <1>1, <1>3, <1>4, <1>5 DEF Next

LEMMA NextKeepsHandKnown ==
  ASSUME TypeOK, Told, HandKnown, [Next]_vars
  PROVE  HandKnown'
<1> USE DEF HandKnown
<1>1. CASE UNCHANGED vars
  BY <1>1 DEF vars, server, history
<1>2. ASSUME NEW e \in Emitter, Emit(e)
      PROVE  HandKnown'
  BY <1>2 DEF Emit, JobBegins, Work, Number, Publish, JobEnds, server, history
<1>3. CASE Receive
  BY <1>3 DEF Receive, Free, history
<1>4. CASE Look
  BY <1>4 DEF Look, Pushing, Visible, Free
<1>5. CASE Push
  BY <1>5 DEF Push, Pushing, Free
<1>6. CASE Unlink \/ Link \/ ApiRestarts
  BY <1>6 DEF Unlink, Link, ApiRestarts, Free, history
<1>7. ASSUME NEW c \in Client, User(c)
      PROVE  HandKnown'
  <2>1. CASE Submit(c) \/ Open(c)
    BY <2>1 DEF Submit, SubmitBegin, SubmitEnqueue, Open, server, history
  <2>2. CASE Close(c)
    BY <2>2 DEF Close, Pushing, Free
  <2>3. CASE Revoke(c)
    BY <2>3 DEF Revoke, Told, TypeOK, Handler, Event, workers, server
  <2>4. CASE Grant(c)
    BY <2>4 DEF Grant, server
  <2> QED BY <1>7, <2>1, <2>2, <2>3, <2>4 DEF User
<1> QED BY <1>1, <1>2, <1>3, <1>4, <1>5, <1>6, <1>7 DEF Next, Api

HearInv == TypeOK /\ Told /\ HandKnown

LEMMA HearInvariant == Spec => []HearInv
<1>1. Init => HearInv
  BY InitTyped DEF Init, HearInv, Told, HandKnown, Unborn, Free, NoEvent
<1>2. HearInv /\ [Next]_vars => HearInv'
  BY NextKeepsTypes, NextKeepsTold, NextKeepsHandKnown DEF HearInv
<1> QED BY <1>1, <1>2, PTL DEF Spec

\* What a connection is pushed: the event in hand, in a push to a user who was visible.
\* Everything else forgets what was pushed, or leaves it.
Pushed(c) == Push /\ c \in hand.todo \cap hand.visible /\ pushed'[c] = hand.ev

LEMMA OnlyPushes ==
  ASSUME TypeOK, [Next]_vars, NEW c \in Client, pushed'[c] # pushed[c]
  PROVE  pushed'[c] = NoEvent \/ Pushed(c)
<1>1. CASE UNCHANGED vars
  BY <1>1 DEF vars, history
<1>2. ASSUME NEW e \in Emitter, Emit(e)
      PROVE  FALSE
  BY <1>2 DEF Emit, JobBegins, Work, Number, Publish, JobEnds, history
<1>3. CASE Api
  <2>1. CASE Push
    <3>1. PICK d \in hand.todo :
            IF d \in hand.visible
            THEN pushed' = [pushed EXCEPT ![d] = hand.ev]
            ELSE UNCHANGED pushed
      BY <2>1 DEF Push
    <3> QED BY <2>1, <3>1 DEF Pushed, TypeOK
  <2> QED BY <1>3, <2>1 DEF Api, Receive, Look, Unlink, Link, ApiRestarts, history
<1>4. ASSUME NEW d \in Client, User(d)
      PROVE  pushed'[c] = NoEvent
  BY <1>4 DEF User, Submit, SubmitBegin, SubmitEnqueue, Open, Close, Revoke, Grant, TypeOK, history
<1> QED BY <1>1, <1>2, <1>3, <1>4 DEF Next

\* What happens after a user has lost access is never pushed to that user, for any
\* users and executions, whatever fails (task_event_handler with _visible_user_ids).
THEOREM RevokedUsersHearNothing == Spec => RevokedHearsNothing
<1>1. HearInv /\ [Next]_vars =>
        [\A c \in Client \ access :
           pushed'[c] # pushed[c] => pushed'[c] = NoEvent \/ pushed'[c].at <= gone[c]]_vars
  <2> SUFFICES ASSUME HearInv, [Next]_vars, NEW c \in Client \ access, pushed'[c] # pushed[c],
                      pushed'[c] # NoEvent
               PROVE  pushed'[c].at <= gone[c]
    OBVIOUS
  <2>1. Pushed(c)
    BY OnlyPushes DEF HearInv
  <2> QED BY <2>1 DEF Pushed, HearInv, HandKnown
<1> QED BY <1>1, HearInvariant, PTL DEF Spec, RevokedHearsNothing

-----------------------------------------------------------------------------
(* In which order                                                            *)

\* The handler has the event before the one that is due, and nobody to push to
\* before it has looked.
HandDue ==
  /\ hand.pc # "idle" => hand.ev.n + 1 = expect
  /\ hand.pc # "push" => hand.todo = {}

\* Only registered connections have heard something, and they alone are pushed to.
Registered ==
  /\ hand.todo \subseteq subs \cap open
  /\ \A c \in Client : pushed[c].n # 0 => c \in subs \cap open

\* Connections the event in hand may still be pushed to.
Waits(c) == hand.pc = "look" \/ (hand.pc = "push" /\ c \in hand.todo)
Awaits(c) == hand.pc = "look" \/ (hand.pc = "push" /\ c \in hand.todo \cap hand.visible)

\* What was heard is before what is due, and before the event that is coming.
Rising ==
  \A c \in Client : pushed[c].n < expect /\ (Waits(c) => pushed[c].n + 1 < expect)

\* As long as nothing has failed: just before, for everybody who may see the task or
\* is still to be pushed to.
InStep ==
  "failure" \notin happened =>
    \A c \in Client :
      /\ pushed[c].n # 0
      /\ c \in access \/ (hand.pc = "push" /\ Awaits(c))
      => pushed[c].n + (IF Awaits(c) THEN 2 ELSE 1) = expect

OrderInv == TypeOK /\ HandDue /\ Registered /\ Rising /\ InStep

\* What the argument needs of the types.
LEMMA OrderTypes ==
  ASSUME TypeOK
  PROVE  /\ expect \in Nat /\ hand.ev.n \in Nat
         /\ hand.todo \subseteq Client /\ hand.visible \subseteq Client
         /\ \A c \in Client : pushed[c].n \in Nat
BY DEF TypeOK, Handler, Event

\* A step that leaves all this alone, but for failures.
LEMMA OrderUntouched ==
  ASSUME OrderInv, UNCHANGED <<expect, hand, subs, access, open, pushed>>,
         happened \subseteq happened'
  PROVE  HandDue' /\ Registered' /\ Rising' /\ InStep'
<1>1. HandDue' /\ Registered'
  BY DEF OrderInv, HandDue, Registered
<1>2. Rising'
  BY DEF OrderInv, Rising, Waits
<1>3. InStep'
  BY DEF OrderInv, InStep, Awaits
<1> QED BY <1>1, <1>2, <1>3

LEMMA EmitKeepsOrder ==
  ASSUME OrderInv, NEW e \in Emitter, Emit(e)
  PROVE  HandDue' /\ Registered' /\ Rising' /\ InStep'
<1>1. UNCHANGED <<expect, hand, subs, access, open, pushed>> /\ happened \subseteq happened'
  BY DEF Emit, JobBegins, Work, Overlaps, Number, Publish, JobEnds, Fault, FaultFree, Happens,
         server, history
<1> QED BY <1>1, OrderUntouched

LEMMA ApiKeepsOrder ==
  ASSUME OrderInv, Api
  PROVE  HandDue' /\ Registered' /\ Rising' /\ InStep'
<1>0. /\ HandDue /\ Registered /\ Rising /\ InStep
      /\ expect \in Nat /\ hand.ev.n \in Nat
      /\ hand.todo \subseteq Client /\ hand.visible \subseteq Client
      /\ \A c \in Client : pushed[c].n \in Nat
  BY OrderTypes DEF OrderInv
<1>1. CASE Receive
  <2>1. CASE Accepts(Head(line).n)
    <3>1. /\ hand.pc = "idle" /\ hand'.pc = "look" /\ hand'.todo = {} /\ hand'.ev.n = expect
          /\ expect' = expect + 1
          /\ UNCHANGED <<subs, open, access, pushed, happened>>
      BY <1>1, <2>1 DEF Receive, Accepts, Due, history
    <3>2. HandDue' /\ Registered'
      BY <1>0, <3>1 DEF HandDue, Registered
    <3>3. Rising'
      BY <1>0, <3>1 DEF Rising
    <3>4. ASSUME NEW c \in Client
          PROVE  Awaits(c)' /\ ~Awaits(c) /\ UNCHANGED pushed[c]
      BY <3>1 DEF Awaits
    <3>5. InStep'
      BY <1>0, <3>1, <3>4 DEF InStep
    <3> QED BY <3>2, <3>3, <3>5
  <2>2. CASE ~Accepts(Head(line).n)
    BY <1>1, <2>2, OrderUntouched DEF Receive, history
  <2> QED BY <2>1, <2>2
<1>2. CASE Look
  <2>1. PICK seen \in SUBSET Client :
          /\ Pushing(subs \cap open, seen)
          /\ "failure" \notin happened' => seen = access
    <3>0. access \subseteq Client
      BY DEF OrderInv, TypeOK
    <3>1. CASE Pushing(subs \cap open, access)
      BY <3>0, <3>1
    <3>2. CASE Pushing(subs \cap open, {}) /\ "failure" \in happened'
      BY <3>2
    <3> QED BY <1>2, <3>1, <3>2 DEF Look, Visible, Fault, Happens
  <2>2. hand.pc = "look" /\ UNCHANGED <<expect, subs, open, access, pushed>>
        /\ happened \subseteq happened'
    BY <1>2 DEF Look, Fault, FaultFree, Happens
  <2>3. CASE subs \cap open = {}
    <3>1. hand' = Free
      BY <2>1, <2>3 DEF Pushing
    <3>2. \A c \in Client : pushed[c].n = 0
      BY <1>0, <2>3 DEF Registered
    <3>3. HandDue' /\ Registered'
      BY <1>0, <2>2, <3>1 DEF HandDue, Registered, Free
    <3>4. Rising'
      BY <1>0, <2>2, <3>1 DEF Rising, Waits, Free
    <3>5. InStep'
      BY <2>2, <3>2 DEF InStep
    <3> QED BY <3>3, <3>4, <3>5
  <2>4. CASE subs \cap open # {}
    <3>1. hand'.pc = "push" /\ hand'.todo = subs \cap open /\ hand'.visible = seen
          /\ hand'.ev = hand.ev
      BY <2>1, <2>4 DEF Pushing
    <3>2. HandDue' /\ Registered'
      BY <1>0, <2>2, <3>1 DEF HandDue, Registered
    <3>3. Rising'
      BY <1>0, <2>2, <3>1 DEF Rising, Waits
    <3>4. InStep'
      <4>1. ASSUME "failure" \notin happened', NEW c \in Client, pushed[c].n # 0,
                   c \in access \/ Awaits(c)'
            PROVE  Awaits(c)' /\ Awaits(c) /\ c \in access
        BY <1>0, <2>1, <2>2, <3>1, <4>1 DEF Awaits, Registered
      <4> QED BY <1>0, <2>2, <4>1 DEF InStep
    <3> QED BY <3>2, <3>3, <3>4
  <2> QED BY <2>3, <2>4
<1>3. CASE Push
  <2>1. PICK c \in hand.todo :
          /\ Pushing(hand.todo \ {c}, hand.visible)
          /\ IF c \in hand.visible
             THEN pushed' = [pushed EXCEPT ![c] = hand.ev]
             ELSE UNCHANGED pushed
    BY <1>3 DEF Push
  <2>2. UNCHANGED <<expect, subs, open, access, happened>> /\ hand.pc = "push" /\ c \in Client
    BY <1>0, <1>3, <2>1 DEF Push, HandDue
  <2>3. hand'.todo = hand.todo \ {c}
        /\ IF hand.todo \ {c} = {} THEN hand'.pc = "idle"
           ELSE hand'.pc = "push" /\ hand'.visible = hand.visible /\ hand'.ev = hand.ev
    BY <2>1, <2>2 DEF Pushing, Free
  <2>4. /\ expect \in Nat /\ hand.ev.n \in Nat /\ hand.ev.n + 1 = expect
        /\ \A d \in Client : pushed[d].n \in Nat
    BY <1>0, <2>2 DEF HandDue
  <2>5. ASSUME NEW d \in Client
        PROVE  pushed'[d] = IF d = c /\ c \in hand.visible THEN hand.ev ELSE pushed[d]
    BY <2>1 DEF OrderInv, TypeOK
  <2>6. HandDue' /\ Registered'
    <3>1. HandDue'
      BY <1>0, <2>1, <2>2, <2>3, <2>4 DEF HandDue
    <3>2. hand'.todo \subseteq subs' \cap open'
      BY <1>0, <2>2, <2>3 DEF Registered
    <3>3. ASSUME NEW d \in Client, pushed'[d].n # 0
          PROVE  d \in subs \cap open
      <4>1. CASE d = c
        BY <1>0, <2>1, <4>1 DEF Registered
      <4>2. CASE d # c
        BY <1>0, <2>5, <3>3, <4>2 DEF Registered
      <4> QED BY <4>1, <4>2
    <3> QED BY <2>2, <3>1, <3>2, <3>3 DEF Registered
  <2>7. ASSUME NEW d \in Client
        PROVE  pushed'[d].n < expect' /\ (Waits(d)' => pushed'[d].n + 1 < expect')
    <3>1. CASE d = c
      <4>1. ~Waits(d)'
        BY <2>2, <2>3, <3>1 DEF Waits
      <4>2. pushed'[d].n \in {hand.ev.n, pushed[d].n}
        BY <2>5, <3>1
      <4>3. pushed[d].n \in Nat /\ pushed[d].n < expect
        BY <1>0, <2>4 DEF Rising
      <4>4. hand.ev.n < expect
        BY <2>4
      <4>5. pushed'[d].n < expect'
        BY <2>2, <4>2, <4>3, <4>4
      <4> QED BY <4>1, <4>5
    <3>2. CASE d # c
      <4>1. pushed'[d] = pushed[d]
        BY <2>5, <3>2
      <4>2. Waits(d)' => Waits(d)
        BY <2>2, <2>3, <3>2 DEF Waits
      <4> QED BY <1>0, <2>2, <4>1, <4>2 DEF Rising
    <3> QED BY <3>1, <3>2
  <2>8. ASSUME "failure" \notin happened', NEW d \in Client, pushed'[d].n # 0,
               d \in access' \/ (hand'.pc = "push" /\ Awaits(d)')
        PROVE  pushed'[d].n + (IF Awaits(d)' THEN 2 ELSE 1) = expect'
    <3>1. CASE d = c
      <4>1. ~Awaits(d)'
        BY <2>2, <2>3, <3>1 DEF Awaits
      <4>2. d \in access
        BY <2>2, <2>8, <4>1
      <4>3. CASE d \in hand.visible
        BY <2>2, <2>4, <2>5, <3>1, <4>1, <4>3
      <4>4. CASE d \notin hand.visible
        <5>1. pushed'[d] = pushed[d] /\ ~Awaits(d)
          BY <2>2, <2>5, <3>1, <4>4 DEF Awaits
        <5> QED BY <1>0, <2>2, <2>8, <4>1, <4>2, <5>1 DEF InStep
      <4> QED BY <4>3, <4>4
    <3>2. CASE d # c
      <4>1. pushed'[d] = pushed[d]
        BY <2>5, <3>2
      <4>2. Awaits(d)' <=> Awaits(d)
        BY <2>2, <2>3, <3>2 DEF Awaits
      <4> QED BY <1>0, <2>2, <2>3, <2>8, <4>1, <4>2 DEF InStep
    <3> QED BY <3>1, <3>2
  <2> QED BY <2>6, <2>7, <2>8 DEF Rising, InStep
<1>4. CASE Unlink \/ Link
  <2>1. UNCHANGED <<expect, hand, subs, open, access, pushed>> /\ happened \subseteq happened'
    BY <1>4 DEF Unlink, Link, Fault, Happens, history
  <2> QED BY <2>1, OrderUntouched
<1>5. CASE ApiRestarts
  <2>1. expect' = 1 /\ hand' = Free /\ "failure" \in happened'
        /\ \A c \in Client : pushed'[c].n = 0
    BY <1>5 DEF ApiRestarts, Fault, Happens, NoEvent
  <2> QED BY <2>1 DEF HandDue, Registered, Rising, InStep, Waits, Free
<1> QED BY <1>1, <1>2, <1>3, <1>4, <1>5 DEF Api

LEMMA UserKeepsOrder ==
  ASSUME OrderInv, NEW c \in Client, User(c)
  PROVE  HandDue' /\ Registered' /\ Rising' /\ InStep'
<1>0. /\ HandDue /\ Registered /\ Rising /\ InStep
      /\ expect \in Nat /\ hand.ev.n \in Nat
      /\ hand.todo \subseteq Client /\ hand.visible \subseteq Client
      /\ pushed \in [Client -> Event]
      /\ \A d \in Client : pushed[d].n \in Nat
  BY OrderTypes DEF OrderInv, TypeOK
<1>1. CASE Submit(c) \/ Open(c)
  <2>1. /\ UNCHANGED <<expect, hand, access, pushed>> /\ happened \subseteq happened'
        /\ subs \cap open \subseteq subs' \cap open'
    BY <1>1 DEF Submit, SubmitBegin, SubmitEnqueue, Open, Fault, FaultFree, Happens, server, history
  <2>2. HandDue' /\ Registered'
    BY <1>0, <2>1 DEF HandDue, Registered
  <2>3. Rising'
    BY <1>0, <2>1 DEF Rising, Waits
  <2>4. InStep'
    BY <1>0, <2>1 DEF InStep, Awaits
  <2> QED BY <2>2, <2>3, <2>4
<1>2. CASE Close(c)
  <2>1. /\ UNCHANGED <<expect, access, happened>>
        /\ open' = open \ {c} /\ subs \ {c} \subseteq subs'
        /\ pushed' = [pushed EXCEPT ![c] = NoEvent]
    BY <1>2 DEF Close
  <2>2. /\ hand'.todo = hand.todo \ {c}
        /\ \/ hand'.pc = "idle" /\ hand'.todo = {}
           \/ hand'.pc = hand.pc /\ hand'.visible = hand.visible /\ hand'.ev = hand.ev
    BY <1>0, <1>2 DEF Close, Pushing, Free, HandDue
  <2>3. hand'.pc = "idle" => hand.pc = "idle" \/ hand.todo \subseteq {c}
    BY <1>2 DEF Close, Pushing
  <2>4. HandDue' /\ Registered'
    BY <1>0, <2>1, <2>2 DEF HandDue, Registered, NoEvent
  <2>5. Rising'
    <3>1. ASSUME NEW d \in Client
          PROVE  (pushed'[d].n = 0 \/ pushed'[d] = pushed[d]) /\ (Waits(d)' => Waits(d))
      BY <1>0, <2>1, <2>2 DEF Waits, NoEvent
    <3>2. pushed'[c].n = 0
      BY <1>0, <2>1 DEF NoEvent
    <3> QED BY <1>0, <2>1, <3>1, <3>2 DEF Rising
  <2>6. InStep'
    <3>1. ASSUME NEW d \in Client, d # c
          PROVE  pushed'[d] = pushed[d] /\ (Awaits(d)' <=> Awaits(d))
                 /\ (hand'.pc = "push" => hand.pc = "push")
      <4>1. pushed'[d] = pushed[d]
        BY <1>0, <2>1, <3>1
      <4>2. hand'.pc = "push" => hand.pc = "push"
        BY <1>0, <2>2 DEF HandDue
      <4>3. Awaits(d)' <=> Awaits(d)
        <5>1. CASE hand.pc = "push"
          <6>1. d \in hand'.todo <=> d \in hand.todo
            BY <2>2, <3>1
          <6>2. CASE hand'.pc = "push"
            BY <2>2, <5>1, <6>1, <6>2 DEF Awaits
          <6>3. CASE hand'.pc = "idle"
            BY <2>3, <3>1, <5>1, <6>3 DEF Awaits
          <6> QED BY <2>2, <5>1, <6>2, <6>3
        <5>2. CASE hand.pc # "push"
          <6>1. UNCHANGED hand
            BY <1>2, <5>2 DEF Close
          <6> QED BY <6>1 DEF Awaits
        <5> QED BY <5>1, <5>2
      <4> QED BY <4>1, <4>2, <4>3
    <3>2. pushed'[c].n = 0
      BY <1>0, <2>1 DEF NoEvent
    <3> QED BY <1>0, <2>1, <3>1, <3>2 DEF InStep
  <2> QED BY <2>4, <2>5, <2>6
<1>3. CASE Revoke(c)
  <2>1. UNCHANGED <<expect, hand, subs, open, pushed, happened>> /\ access' \subseteq access
    BY <1>3 DEF Revoke, server
  <2>2. HandDue' /\ Registered'
    BY <1>0, <2>1 DEF HandDue, Registered
  <2>3. Rising'
    BY <1>0, <2>1 DEF Rising, Waits
  <2>4. InStep'
    BY <1>0, <2>1 DEF InStep, Awaits
  <2> QED BY <2>2, <2>3, <2>4
<1>4. CASE Grant(c)
  <2>1. UNCHANGED <<expect, hand, subs, open, happened>> /\ access' = access \cup {c}
        /\ pushed'[c].n = 0 /\ \A d \in Client \ {c} : pushed'[d] = pushed[d]
    BY <1>0, <1>4 DEF Grant, NoEvent, server
  <2>2. HandDue' /\ Registered'
    BY <1>0, <2>1 DEF HandDue, Registered
  <2>3. Rising'
    <3>1. ASSUME NEW d \in Client
          PROVE  (pushed'[d].n = 0 \/ pushed'[d] = pushed[d]) /\ (Waits(d)' => Waits(d))
      BY <2>1 DEF Waits
    <3>2. \A d \in Client : Waits(d) => pushed[d].n + 1 < expect
      BY <1>0 DEF Rising
    <3>3. \A d \in Client : pushed'[d].n <= pushed[d].n /\ pushed'[d].n \in Nat
      BY <1>0, <3>1
    <3> QED BY <1>0, <2>1, <3>1, <3>2, <3>3 DEF Rising
  <2>4. InStep'
    <3>1. ASSUME NEW d \in Client
          PROVE  Awaits(d)' <=> Awaits(d)
      BY <2>1 DEF Awaits
    <3> QED BY <1>0, <2>1, <3>1 DEF InStep
  <2> QED BY <2>2, <2>3, <2>4
<1> QED BY <1>1, <1>2, <1>3, <1>4 DEF User

LEMMA OrderInvariant == Spec => []OrderInv
<1>1. Init => OrderInv
  BY InitTyped DEF Init, OrderInv, HandDue, Registered, Rising, InStep, Waits, Awaits, Free, NoEvent
<1>2. OrderInv /\ [Next]_vars => OrderInv'
  <2> SUFFICES ASSUME OrderInv, [Next]_vars
               PROVE  OrderInv'
    OBVIOUS
  <2>1. TypeOK'
    BY NextKeepsTypes DEF OrderInv
  <2>2. CASE UNCHANGED vars
    <3>1. UNCHANGED <<expect, hand, subs, access, open, pushed, happened>>
      BY <2>2 DEF vars, server, history
    <3> QED BY <2>1, <3>1, OrderUntouched DEF OrderInv
  <2> QED BY <2>1, <2>2, EmitKeepsOrder, ApiKeepsOrder, UserKeepsOrder DEF Next, OrderInv
<1> QED BY <1>1, <1>2, PTL DEF Spec

\* Nor is an event heard a second time but by a push.
LEMMA OnlyPushesAreHeard ==
  ASSUME OrderInv, [Next]_vars, NEW c \in Client, Hears(c)
  PROVE  Pushed(c)
<1>1. CASE pushed'[c] # pushed[c]
  BY <1>1, OnlyPushes DEF Hears, OrderInv
<1>2. CASE pushed'[c] = pushed[c]
  <2>1. c \in hand.visible \cap hand.todo /\ c \notin hand'.todo /\ pushed'[c] # NoEvent
    BY <1>2 DEF Hears
  <2>2. hand.pc = "push" /\ hand' # hand
    BY <2>1 DEF OrderInv, HandDue
  <2>3. CASE Push
    <3>1. PICK d \in hand.todo :
            /\ Pushing(hand.todo \ {d}, hand.visible)
            /\ d \in hand.visible => pushed' = [pushed EXCEPT ![d] = hand.ev]
      BY <2>3 DEF Push
    <3>2. d = c
      BY <2>1, <3>1 DEF Pushing
    <3> QED BY <2>1, <2>3, <3>1, <3>2 DEF Pushed, OrderInv, TypeOK
  <2>4. CASE \E d \in Client : Close(d)
    <3>1. PICK d \in Client :
            Pushing(hand.todo \ {d}, hand.visible) /\ pushed' = [pushed EXCEPT ![d] = NoEvent]
      BY <2>2, <2>4 DEF Close
    <3>2. d = c
      BY <2>1, <3>1 DEF Pushing
    <3> QED BY <2>1, <3>1, <3>2 DEF OrderInv, TypeOK
  <2>5. CASE ApiRestarts
    BY <2>1, <2>5 DEF ApiRestarts
  <2>6. CASE \/ UNCHANGED vars \/ Receive \/ Look \/ Unlink \/ Link
             \/ \E e \in Emitter : Emit(e)
             \/ \E d \in Client : Submit(d) \/ Open(d) \/ Revoke(d) \/ Grant(d)
    BY <2>2, <2>6 DEF vars, server, Receive, Look, Unlink, Link, Emit, JobBegins, Work, Number,
       Publish, JobEnds, Submit, SubmitBegin, SubmitEnqueue, Open, Revoke, Grant
  <2> QED BY <2>3, <2>4, <2>5, <2>6 DEF Next, Api, User
<1> QED BY <1>1, <1>2

\* A connection hears rising numbers, none twice, and without failures and loss of access
\* every number, for any executions that emit at once (EventSequencer.accept).
THEOREM ConnectionsHearInOrder == Spec => ConnectionInOrder
<1>1. OrderInv /\ [Next]_vars =>
        [\A c \in Client : Hears(c) =>
           /\ pushed[c].n < pushed'[c].n
           /\ pushed[c].n = 0 \/ "failure" \in happened \/ pushed'[c].n = pushed[c].n + 1]_vars
  <2> SUFFICES ASSUME OrderInv, [Next]_vars, NEW c \in Client, Hears(c)
               PROVE  /\ pushed[c].n < pushed'[c].n
                      /\ pushed[c].n = 0 \/ "failure" \in happened \/ pushed'[c].n = pushed[c].n + 1
    OBVIOUS
  <2>1. Pushed(c)
    BY OnlyPushesAreHeard
  <2>2. hand.pc = "push" /\ Awaits(c) /\ Waits(c) /\ hand.ev.n + 1 = expect /\ hand.ev = pushed'[c]
    BY <2>1 DEF Pushed, OrderInv, HandDue, Awaits, Waits, TypeOK, Handler
  <2>3. pushed[c].n \in Nat /\ expect \in Nat /\ hand.ev.n \in Nat
    BY DEF OrderInv, TypeOK, Handler, Event
  <2>4. pushed[c].n + 1 < expect
    BY <2>2 DEF OrderInv, Rising
  <2>5. "failure" \notin happened /\ pushed[c].n # 0 => pushed[c].n + 2 = expect
    BY <2>2 DEF OrderInv, InStep
  <2> QED BY <2>2, <2>3, <2>4, <2>5
<1> QED BY <1>1, OrderInvariant, PTL DEF Spec, ConnectionInOrder
=============================================================================
