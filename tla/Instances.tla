------------------------------ MODULE Instances ------------------------------
(***************************************************************************)
(* The registry of running processes in Redis (instance_reg.py, as main.py *)
(* and arqs.py use it): an entry that expires, a ticker that extends it,   *)
(* and the removal at shutdown.                                            *)
(*                                                                         *)
(* Simplifications, by name.                                               *)
(*  - Time is counted in heartbeats; every ticker beats once in each.      *)
(*  - A process's name is WORKER_ID, of its own or one .env for all, or    *)
(*    drawn again at each start.                                           *)
(***************************************************************************)
EXTENDS Naturals

CONSTANTS
  Member,       \* processes, API and workers
  MaxStarts,    \* bound: starts of one process
  MaxBeatFaults \* bound: failures

ASSUME InstanceBounds == MaxStarts \in Nat /\ MaxBeatFaults \in Nat

Lifetime == 3  \* heartbeats an entry lives

VARIABLES
  naming,      \* WORKER_ID: "own", "shared" or "random"
  up,          \* processes that run
  starts,      \* times each has been started
  listed,      \* what is left of each entry's life; 0: there is none
  ticking,     \* processes whose ticker runs
  due,         \* tickers that have not beaten in this period
  silent,      \* heartbeats in a row each process has missed
  gone,        \* history: processes whose entry expired in silence, was removed or was lost
  beatFaults

instanceVars == <<naming, up, starts, listed, ticking, due, silent, gone, beatFaults>>

Name == Member \X (0 .. MaxStarts)
Common == CHOOSE p \in Member : TRUE
\* instance_id; a random one is drawn at each reading, so nothing answers to it later.
NameOf(p) == CASE naming = "own" -> <<p, 0>> [] naming = "shared" -> <<Common, 0>>
               [] OTHER -> <<p, starts[p]>>

InstanceTypeOK ==
  /\ naming \in {"own", "shared", "random"} /\ up \subseteq Member /\ starts \in [Member -> 0 .. MaxStarts]
  /\ listed \in [Name -> 0 .. Lifetime] /\ ticking \subseteq up /\ due \subseteq ticking
  /\ silent \in [Member -> 0 .. Lifetime] /\ gone \subseteq Member /\ beatFaults \in 0 .. MaxBeatFaults

InstanceInit ==
  /\ naming \in {"own", "shared", "random"}
  /\ up = {} /\ starts = [p \in Member |-> 0] /\ listed = [n \in Name |-> 0]
  /\ ticking = {} /\ due = {} /\ silent = [p \in Member |-> 0] /\ gone = {} /\ beatFaults = 0

BeatFault == beatFaults < MaxBeatFaults /\ beatFaults' = beatFaults + 1
Ends(p) == /\ up' = up \ {p} /\ ticking' = ticking \ {p} /\ due' = due \ {p}
           /\ silent' = [silent EXCEPT ![p] = 0]

\* Mutant: the entry lives as long as the pause between two heartbeats.
ShortLife == 1
EntryLife == Lifetime
Starts(p) ==
  /\ p \notin up /\ starts[p] < MaxStarts
  /\ up' = up \cup {p} /\ starts' = [starts EXCEPT ![p] = @ + 1]
  /\ gone' = gone \ {p} /\ silent' = [silent EXCEPT ![p] = 0]
  /\ UNCHANGED naming
\* The clock check passes and SET NX gives the entry, or the process runs without one and never
\* tries again.
Register(p) ==
  /\ Starts(p) /\ listed[NameOf(p)'] = 0
  /\ listed' = [listed EXCEPT ![NameOf(p)'] = EntryLife] /\ ticking' = ticking \cup {p}
  /\ UNCHANGED <<due, beatFaults>>
Refused(p) ==
  /\ Starts(p) /\ ((listed[NameOf(p)'] > 0 /\ UNCHANGED beatFaults) \/ BeatFault)
  /\ UNCHANGED <<listed, ticking, due>>

\* EXPIRE extends an entry there is; it does not bring one back.
Beat(p) ==
  /\ p \in due /\ due' = due \ {p} /\ silent' = [silent EXCEPT ![p] = 0]
  /\ listed' = [listed EXCEPT ![NameOf(p)] = IF @ = 0 THEN 0 ELSE EntryLife]
  /\ UNCHANGED <<naming, up, starts, ticking, gone, beatFaults>>
BeatFails(p) ==
  /\ p \in due /\ BeatFault /\ due' = due \ {p}
  /\ silent' = [silent EXCEPT ![p] = IF @ < Lifetime THEN @ + 1 ELSE @]
  /\ gone' = IF silent[p] + 2 >= Lifetime THEN gone \cup {p} ELSE gone
  /\ UNCHANGED <<naming, up, starts, listed, ticking>>
Period ==
  /\ due = {} /\ due' = ticking
  /\ listed' = [n \in Name |-> IF listed[n] = 0 THEN 0 ELSE listed[n] - 1]
  /\ UNCHANGED <<naming, up, starts, ticking, silent, gone, beatFaults>>

\* Shutdown deletes the entry of the name it reads now: its own or the one it shares, and
\* nothing when the name is drawn anew.
Others(p) == {q \in Member \ {p} : q \in ticking /\ NameOf(q) = NameOf(p)}
Stop(p) ==
  /\ p \in up /\ Ends(p)
  /\ IF naming = "random" THEN UNCHANGED <<listed, gone>>
     ELSE listed' = [listed EXCEPT ![NameOf(p)] = 0] /\ gone' = gone \cup Others(p)
  /\ UNCHANGED <<naming, starts, beatFaults>>
Crash(p) == p \in up /\ Ends(p) /\ UNCHANGED <<naming, starts, listed, gone, beatFaults>>
RedisLoses ==
  /\ BeatFault /\ listed' = [n \in Name |-> 0] /\ gone' = gone \cup up
  /\ UNCHANGED <<naming, up, starts, ticking, due, silent>>

InstanceNext ==
  \/ Period \/ RedisLoses
  \/ \E p \in Member : Register(p) \/ Refused(p) \/ Beat(p) \/ BeatFails(p) \/ Stop(p) \/ Crash(p)
InstanceSpec == InstanceInit /\ [][InstanceNext]_instanceVars

-----------------------------------------------------------------------------
\* A process that was given its entry is listed as long as it runs, also when it misses a
\* heartbeat but not two in a row, unless a process of the same name was stopped or Redis lost the entry.
\* (register, _heartbeat_once, unregister)
AliveIsListed == \A p \in ticking \ gone : listed[NameOf(p)] > 0
=============================================================================
