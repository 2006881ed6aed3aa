------------------------------- MODULE Review -------------------------------
(***************************************************************************)
(* The review of a node's text and its revisions (_run_review_loop of      *)
(* agents/runner.py) with the gate that ends it (collab/review.py), up to  *)
(* the step that advances the task.                                        *)
(*                                                                         *)
(* A text is known by the start of the review and the round it was written *)
(* in; it is long when it is more than the 8000 characters a review reads, *)
(* and cut when it has lost its end.                                       *)
(*                                                                         *)
(* Simplifications, by name.                                               *)
(*  - Comments are values; two that the gate takes for the same are one.   *)
(*  - The deadline passes at some moment, or never.                        *)
(*  - human_override is never called outside of tests.                     *)
(*  - An audit entry that fails is passed over, but the rows the session   *)
(*    has read expire with it: where the next use of one raises, the job   *)
(*    fails, which is GiveUp.                                              *)
(***************************************************************************)
EXTENDS Naturals, FiniteSets

CONSTANTS
  Comment,      \* what a reviewer may say
  MaxComments,  \* bound: comments of one reply
  MaxRevision,  \* max_revision of the template
  MaxIter,      \* AGENT_COLLAB_REVIEW_MAX_ITER
  LoopPenalty,  \* ReviewGate.loop_penalty
  MaxCrashes    \* bound: stops of the worker during the review

ASSUME ReviewBounds ==
  /\ MaxComments \in Nat /\ MaxRevision \in Nat /\ MaxIter \in Nat
  /\ LoopPenalty \in Nat /\ MaxCrashes \in Nat

VARIABLES
  phase,      \* where the review is
  gated,      \* collaboration is on: the loop has a gate
  output,     \* the text of the node before, in the database
  text,       \* the text under review
  revisions,  \* so far
  seen,       \* how often the gate has met each comment
  late,       \* the deadline is over
  approved,   \* texts a reviewer has let pass
  crashes     \* stops so far

reviewVars == <<phase, gated, output, text, revisions, seen, late, approved, crashes>>

TextName == (0 .. MaxCrashes) \X (0 .. MaxRevision)
Text == [name : TextName, long : BOOLEAN, cut : BOOLEAN]
Loop == {"asking", "redoing"}
ReviewTypeOK ==
  /\ phase \in Loop \cup {"unborn", "passing", "recorded", "done", "failed"}
  /\ gated \in BOOLEAN /\ late \in BOOLEAN /\ output \in Text /\ text \in Text
  /\ revisions \in 0 .. MaxRevision /\ seen \in [Comment -> 0 .. LoopPenalty + MaxComments]
  /\ approved \subseteq TextName /\ crashes \in 0 .. MaxCrashes

First == <<0, 0>>
Unheard == [c \in Comment |-> 0]
ReviewInit ==
  /\ phase = "unborn" /\ gated \in BOOLEAN
  /\ \E long \in BOOLEAN : output = [name |-> First, long |-> long, cut |-> FALSE]
  /\ text = output /\ revisions = 0 /\ seen = Unheard /\ late = FALSE
  /\ approved = {} /\ crashes = 0

-----------------------------------------------------------------------------
Moves(to) == phase' = to
\* The reviewer is shown the beginning of a long text.
Shown(t) == IF t.long THEN [t EXCEPT !.long = FALSE, !.cut = TRUE] ELSE t

\* _load_context and the lines before the loop
OpenReview ==
  /\ phase = "unborn" /\ Moves("asking") /\ text' = Shown(output)
  /\ revisions' = 0 /\ seen' = Unheard /\ late' = FALSE
  /\ UNCHANGED <<gated, output, approved, crashes>>
Deadline ==
  /\ phase \in Loop /\ gated /\ ~late /\ late' = TRUE
  /\ UNCHANGED <<phase, gated, output, text, revisions, seen, approved, crashes>>

Replies == UNION {[1 .. n -> Comment] : n \in 0 .. MaxComments}
Heard(reply) == [c \in Comment |-> seen[c] + Cardinality({i \in DOMAIN reply : reply[i] = c})]
\* ReviewGate.check: too many rounds and the deadline come before the comments are counted.
TooMany == revisions + 1 > MaxIter
Repeats(reply) == \E i \in DOMAIN reply : Heard(reply)[reply[i]] >= LoopPenalty
Stopped(reply) == gated /\ (TooMany \/ late \/ Repeats(reply))
\* Where a reply leads: the gate has its say before the verdict.
After(verdict, reply) ==
  IF Stopped(reply) THEN "failed"
  ELSE IF verdict = "pass" THEN "passing"
  ELSE IF revisions + 1 > MaxRevision THEN "failed" ELSE "redoing"

\* Mutant: rounds are not counted.
CountedOnce == revisions
\* The loop's revisions += 1
Counted == revisions + 1

Judge(verdict, reply) ==
  /\ phase = "asking" /\ Moves(After(verdict, reply))
  /\ seen' = IF gated /\ ~TooMany /\ ~late THEN Heard(reply) ELSE seen
  /\ approved' = IF After(verdict, reply) = "passing" THEN approved \cup {text.name} ELSE approved
  /\ revisions' = IF After(verdict, reply) = "redoing" THEN Counted ELSE revisions
  /\ UNCHANGED <<gated, output, text, late, crashes>>
\* The agent of the node before writes its text anew.
Redo(long) ==
  /\ phase = "redoing" /\ Moves("asking")
  /\ text' = [name |-> <<crashes, revisions>>, long |-> long, cut |-> FALSE]
  /\ UNCHANGED <<gated, output, revisions, seen, late, approved, crashes>>

\* Mutant: the text that came into the review is the one recorded.
RecordedFirst == Shown(output)
\* What set_node_output writes of a text that passed
RecordedText == text
\* set_node_output waits in the session until the entry of the audit log commits it.
RecordPassed ==
  /\ phase = "passing" /\ Moves("recorded") /\ output' = RecordedText
  /\ UNCHANGED <<gated, text, revisions, seen, late, approved, crashes>>
AdvanceTask ==
  /\ phase = "recorded" /\ Moves("done")
  /\ UNCHANGED <<gated, output, text, revisions, seen, late, approved, crashes>>

\* The model cannot be reached, its reply cannot be read, or the database fails.
GiveUp ==
  /\ phase \in Loop \cup {"passing", "recorded"} /\ Moves("failed")
  /\ UNCHANGED <<gated, output, text, revisions, seen, late, approved, crashes>>
\* The worker stops, and the node is run again.
ReviewStops ==
  /\ phase \in Loop \cup {"passing", "recorded"} /\ Moves("unborn")
  /\ crashes < MaxCrashes /\ crashes' = crashes + 1
  /\ UNCHANGED <<gated, output, text, revisions, seen, late, approved>>

ReviewStep ==
  \/ OpenReview \/ RecordPassed \/ AdvanceTask
  \/ \E long \in BOOLEAN : Redo(long)
  \/ \E verdict \in {"pass", "revise"}, reply \in Replies : Judge(verdict, reply)
ReviewNext == ReviewStep \/ Deadline \/ GiveUp \/ ReviewStops

\* A call of the model ends, and a node left running is run again.
ReviewFairness == WF_reviewVars(ReviewStep)
ReviewSpec == ReviewInit /\ [][ReviewNext]_reviewVars

-----------------------------------------------------------------------------
\* The text of the node before is the one it wrote first or one that a reviewer has let pass, never
\* a revision that was rejected or whose review broke off; it loses its end only by a review it
\* has passed; and a review that is done leaves the very text that passed last.  (_run_review_loop, across restarts of the worker)
PassedIsRecorded ==
  /\ output.name \in approved \cup {First}
  /\ output.cut => output.name \in approved
  /\ phase \in {"recorded", "done"} => output.name = text.name /\ text.name \in approved
\* Every review ends, with or without a gate, however reviewer and author go on disagreeing and
\* wherever the worker stops.  (max_revision, ReviewGate)
ReviewEnds == phase = "asking" ~> phase \in {"done", "failed"}
=============================================================================
