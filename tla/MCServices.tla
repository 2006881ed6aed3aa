------------------------------ MODULE MCServices ------------------------------
(***************************************************************************)
(* The background services, and what happens around the work of agents,    *)
(* checked side by side.  They share no state that their models keep: a    *)
(* behaviour belongs to one of them, which the variable service names, and *)
(* the others rest in one of their initial states.  Each has the fairness  *)
(* of its own module.                                                      *)
(***************************************************************************)
EXTENDS ColdThaw, Alerts, Instances, InProcess, Market, Batch, Review

VARIABLE service

Service == {"thaw", "alerts", "instances", "runs", "market", "batch", "review"}
Is(s) == service = s

servicesVars == <<service, thawVars, alertVars, instanceVars, runVars, marketVars, batchVars, reviewVars>>

Init ==
  /\ service \in Service
  /\ ThawInit /\ AlertInit /\ RunInit /\ MarketInit /\ BatchInit
  /\ InstanceInit /\ (Is("instances") \/ naming = "own")
  /\ ReviewInit /\ (Is("review") \/ (~gated /\ ~output.long))

Next ==
  /\ UNCHANGED service
  /\ \/ /\ Is("thaw") /\ ThawNext
        /\ UNCHANGED <<alertVars, instanceVars, runVars, marketVars, batchVars, reviewVars>>
     \/ /\ Is("alerts") /\ AlertNext
        /\ UNCHANGED <<thawVars, instanceVars, runVars, marketVars, batchVars, reviewVars>>
     \/ /\ Is("instances") /\ InstanceNext
        /\ UNCHANGED <<thawVars, alertVars, runVars, marketVars, batchVars, reviewVars>>
     \/ /\ Is("runs") /\ RunNext
        /\ UNCHANGED <<thawVars, alertVars, instanceVars, marketVars, batchVars, reviewVars>>
     \/ /\ Is("market") /\ MarketNext
        /\ UNCHANGED <<thawVars, alertVars, instanceVars, runVars, batchVars, reviewVars>>
     \/ /\ Is("batch") /\ BatchNext
        /\ UNCHANGED <<thawVars, alertVars, instanceVars, runVars, marketVars, reviewVars>>
     \/ /\ Is("review") /\ ReviewNext
        /\ UNCHANGED <<thawVars, alertVars, instanceVars, runVars, marketVars, batchVars>>

Spec == Init /\ [][Next]_servicesVars
\* A service at rest has nothing to do, and its fairness asks for nothing; only a review could be
\* opened, so that its fairness is asked for in a behaviour about reviews.
FairSpec ==
  /\ Spec /\ ThawFairness /\ AlertFairness /\ RunFairness /\ BatchFairness
  /\ Is("review") => ReviewFairness

\* Every state variable of the service at work stays within its type: jobs and their cursors,
\* queues of messages, the lives of entries, the free places of pools and batches, the market of
\* each process, rounds and comments of reviews.  (the types each module states)
ServicesTypeOK ==
  /\ Is("thaw") => ThawTypeOK
  /\ Is("alerts") => AlertTypeOK
  /\ Is("instances") => InstanceTypeOK
  /\ Is("runs") => RunTypeOK
  /\ Is("market") => MarketTypeOK
  /\ Is("batch") => BatchTypeOK
  /\ Is("review") => ReviewTypeOK

\* Whatever these services have begun comes to its end, with everything it held given back: thaw
\* jobs and runs in the process, batches of parallel parts and reviews, whichever step fails, is
\* cancelled or begun again.  (ColdThaw, InProcess, Batch and Review say what an end is.)
EverythingEnds == ThawEnds /\ RunsEnd /\ BatchEnds /\ ReviewEnds
=============================================================================
