------------------------------- MODULE Alerts -------------------------------
(***************************************************************************)
(* The alert scan of every server process and the notifications it queues  *)
(* (alerts.py, notify.py, the monitor loop of metrics.py).  The processes  *)
(* share the metric, the cool-down keys in Redis and the audit log.        *)
(*                                                                         *)
(* Simplifications, by name.                                               *)
(*  - One metric that every process reads alike, with one rule for it.     *)
(*  - A scan judges the metric as it is at that moment.                    *)
(*  - Redis answers.                                                       *)
(*  - The tries of a message are one step, which fails or not.  A rule     *)
(*    names one channel: a second one is always skipped, since the first   *)
(*    has just set the cool-down they share.                               *)
(***************************************************************************)
EXTENDS Naturals, Sequences

CONSTANTS
  Monitor,       \* server processes
  MaxFlips,      \* bound: times the metric crosses its threshold
  NotifyCap,     \* NOTIFY_MAX_PER_MIN
  MaxSendFaults  \* bound: messages whose tries all fail

ASSUME AlertBounds == MaxFlips \in Nat /\ NotifyCap \in Nat /\ MaxSendFaults \in Nat

Report == {"triggered", "resolved"}

VARIABLES
  elevated,      \* the metric is at or above its threshold
  flips,         \* crossings so far
  wasAlerted,    \* processes whose _was_alerted is set
  cooling,       \* zw:alertcooldown is set
  audited,       \* what each process last wrote to the audit log
  outgoing,      \* each process's queue of messages
  quiet,         \* reports whose zw:ncooldown is set
  sentInMinute,  \* zw:nrate of this minute
  heard,         \* what was last sent
  sendFaults

alertVars == <<elevated, flips, wasAlerted, cooling, audited, outgoing, quiet, sentInMinute, heard, sendFaults>>
messageVars == <<quiet, sentInMinute, heard, sendFaults>>

AlertTypeOK ==
  /\ elevated \in BOOLEAN /\ flips \in 0 .. MaxFlips /\ wasAlerted \subseteq Monitor
  /\ cooling \in BOOLEAN /\ audited \in [Monitor -> Report] /\ outgoing \in [Monitor -> Seq(Report)]
  /\ quiet \subseteq Report /\ sentInMinute \in 0 .. NotifyCap + 1 /\ heard \in Report
  /\ sendFaults \in 0 .. MaxSendFaults

AlertInit ==
  /\ elevated = FALSE /\ flips = 0 /\ wasAlerted = {}
  /\ cooling = FALSE /\ audited = [p \in Monitor |-> "resolved"]
  /\ outgoing = [p \in Monitor |-> <<>>] /\ quiet = {} /\ sentInMinute = 0 /\ heard = "resolved"
  /\ sendFaults = 0

-----------------------------------------------------------------------------
\* The metric rises or falls.
Cross ==
  /\ flips < MaxFlips /\ flips' = flips + 1 /\ elevated' = ~elevated
  /\ UNCHANGED <<wasAlerted, cooling, audited, outgoing, messageVars>>

Reports(p, report) ==
  /\ audited' = [audited EXCEPT ![p] = report]
  /\ outgoing' = [outgoing EXCEPT ![p] = Append(@, report)]

\* run_alert_scan: while the alert cools down nothing is marked, so the next scan tries again.
Raise(p) ==
  /\ elevated /\ p \notin wasAlerted /\ ~cooling
  /\ wasAlerted' = wasAlerted \cup {p} /\ cooling' = TRUE /\ Reports(p, "triggered")
  /\ UNCHANGED <<elevated, flips, messageVars>>
Resolve(p) ==
  /\ ~elevated /\ p \in wasAlerted
  /\ wasAlerted' = wasAlerted \ {p} /\ Reports(p, "resolved")
  /\ UNCHANGED <<elevated, flips, cooling, messageVars>>
CoolingEnds ==
  /\ cooling /\ cooling' = FALSE
  /\ UNCHANGED <<elevated, flips, wasAlerted, audited, outgoing, messageVars>>

\* dispatch_one: the message takes its cool-down, then a place in the minute, then it is sent;
\* whatever ends it, it is not tried again.
Dispatch(p) ==
  /\ outgoing[p] # <<>> /\ outgoing' = [outgoing EXCEPT ![p] = Tail(@)]
  /\ LET report == Head(outgoing[p]) IN
       \/ report \in quiet /\ UNCHANGED messageVars
       \/ /\ report \notin quiet /\ quiet' = quiet \cup {report}
          /\ \/ sentInMinute >= NotifyCap /\ sentInMinute' = NotifyCap + 1 /\ UNCHANGED <<heard, sendFaults>>
             \/ /\ sentInMinute < NotifyCap /\ sentInMinute' = sentInMinute + 1
                /\ \/ heard' = report /\ UNCHANGED sendFaults
                   \/ sendFaults < MaxSendFaults /\ sendFaults' = sendFaults + 1 /\ UNCHANGED heard
  /\ UNCHANGED <<elevated, flips, wasAlerted, cooling, audited>>
QuietEnds(report) ==
  /\ report \in quiet /\ quiet' = quiet \ {report}
  /\ UNCHANGED <<elevated, flips, wasAlerted, cooling, audited, outgoing, sentInMinute, heard, sendFaults>>
MinuteEnds ==
  /\ sentInMinute > 0 /\ sentInMinute' = 0
  /\ UNCHANGED <<elevated, flips, wasAlerted, cooling, audited, outgoing, quiet, heard, sendFaults>>

AlertNext ==
  \/ Cross \/ CoolingEnds \/ MinuteEnds \/ \E report \in Report : QuietEnds(report)
  \/ \E p \in Monitor : Raise(p) \/ Resolve(p) \/ Dispatch(p)

\* The loops of every process go on, and the keys in Redis expire.
AlertFairness ==
  /\ WF_alertVars(CoolingEnds) /\ WF_alertVars(MinuteEnds)
  /\ \A report \in Report : WF_alertVars(QuietEnds(report))
  /\ \A p \in Monitor : WF_alertVars(Raise(p)) /\ WF_alertVars(Resolve(p)) /\ WF_alertVars(Dispatch(p))
AlertSpec == AlertInit /\ [][AlertNext]_alertVars /\ AlertFairness

-----------------------------------------------------------------------------
=============================================================================
