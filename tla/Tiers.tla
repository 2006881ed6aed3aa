-------------------------------- MODULE Tiers --------------------------------
(***************************************************************************)
(* Storage tiers: rows drift from hot to warm, cold and ice by their last  *)
(* access, the objects follow into cheaper storage classes of S3, a read   *)
(* brings a row back, and an object in the deep class is restored by a     *)
(* request that ensure_cold_restore makes once, guarded by three Redis     *)
(* keys that expire.  Sweeps list rows once and then work through them     *)
(* with awaits in between; every process runs its own.                     *)
(*                                                                         *)
(* Simplifications, by name.                                               *)
(*  - Time is counted in ticks.  Age 0 is within TIER_TOUCH_TTL, 1 within  *)
(*    TIER_COOL_DOWN, 2 past the warm age, 3 past the cold and ice ages;   *)
(*    a namespace policy may bring the cold age down to 2, and max(cool,.) *)
(*    lets none go lower.  RESTORE_LOCK_TTL is 1 tick, RESTORE_EXPIRE_S 2; *)
(*    a restore takes up to Thawing ticks, ensure_cold_restore none.       *)
(*  - touch_artifact and pin_tier_artifact are one step each.              *)
(*  - Redis answers; an object is not written anew.                        *)
(***************************************************************************)
EXTENDS Integers, FiniteSets

CONSTANTS
  Row,           \* artifact rows of one content
  Process,       \* server processes, each with one job at a time
  MaxPinned,     \* TIER_PINNED_MAX_COUNT
  MaxJobs,       \* bound: jobs begun
  MaxTicks,      \* bound: ticks
  MaxTierFaults  \* bound: failures

ASSUME TierBounds == {MaxPinned, MaxJobs, MaxTicks, MaxTierFaults} \subseteq Nat

LockTtl == 1
OkTtl == 2
IssuedTtl == OkTtl + LockTtl
Thawing == 2
Frozen == -1
Readable == -2

VARIABLES
  early,      \* rows whose namespace policy shortens the cold age
  tier,       \* Artifact.tier
  pinned,     \* rows with tier_pinned
  age,        \* how long ago each row's last_access is
  class,      \* the object's storage class
  thaw,       \* its restore: Frozen, Readable, or the ticks it still takes
  lock, issued, ok, \* the ticks left to its govrestore keys
  job,        \* what each process is at
  jobs, ticks, tierFaults

tierVars == <<early, tier, pinned, age, class, thaw, lock, issued, ok, job, jobs, ticks, tierFaults>>

Tier == {"hot", "warm", "cold", "ice"}
Ongoing == thaw >= 0

NoJob == [pc |-> "idle", kind |-> "none", todo |-> {}]
Job == [pc : {"idle", "warm", "list", "archive", "mark", "fix",
              "window", "pending", "issued", "promote", "lock", "request", "issue"},
        kind : {"none", "cold", "ice", "api", "physical", "restore"}, todo : SUBSET Row]

TierTypeOK ==
  /\ early \subseteq Row /\ pinned \subseteq Row
  /\ tier \in [Row -> Tier] /\ age \in [Row -> 0 .. 3]
  /\ class \in {"standard", "cold", "deep"} /\ thaw \in Readable .. Thawing
  /\ lock \in 0 .. LockTtl /\ ok \in 0 .. OkTtl /\ issued \in 0 .. IssuedTtl
  /\ job \in [Process -> Job]
  /\ jobs \in 0 .. MaxJobs /\ ticks \in 0 .. MaxTicks /\ tierFaults \in 0 .. MaxTierFaults

\* The file is fresh, or sank to the cold or to the deep class long ago.
TierInit ==
  /\ early \in SUBSET Row
  /\ pinned = {}
  /\ \E t \in {"hot", "cold", "ice"} :
       /\ tier = [r \in Row |-> t]
       /\ age = [r \in Row |-> IF t = "hot" THEN 0 ELSE 3]
       /\ class = CASE t = "hot" -> "standard" [] t = "cold" -> "cold" [] t = "ice" -> "deep"
  /\ thaw = Frozen /\ lock = 0 /\ issued = 0 /\ ok = 0
  /\ job = [p \in Process |-> NoJob]
  /\ jobs = 0 /\ ticks = 0 /\ tierFaults = 0

-----------------------------------------------------------------------------
JobAt(p, pc) == job[p].pc = pc
JobGoes(p, pc) == job' = [job EXCEPT ![p].pc = pc]
JobEnds(p) == job' = [job EXCEPT ![p] = NoJob]
JobBegins(p, state) ==
  /\ JobAt(p, "idle") /\ jobs < MaxJobs
  /\ jobs' = jobs + 1
  /\ job' = [job EXCEPT ![p] = state]
JobWith(kind, pc, todo) == [NoJob EXCEPT !.kind = kind, !.pc = pc, !.todo = todo]

\* A copy onto itself with another storage class; what is in the deep class can only be
\* copied while it is restored.
CanCopy == class = "deep" => thaw = Readable
Copies(to) == class' = to /\ thaw' = Frozen

\* set_tier_by_content: all rows of the content (update_artifact_tier, when it has one).
MarkTier(t) == tier' = [r \in Row |-> t]

Unpinned(t) == {r \in Row \ pinned : tier[r] = t}
ColdAge(r) == IF r \in early THEN 2 ELSE 3

-----------------------------------------------------------------------------
(* The sweeps. *)

\* cold_sweep_once lists the hot rows, then the warm ones.
SweepHot(p) ==
  /\ JobBegins(p, JobWith("cold", "warm", {r \in Unpinned("hot") : age[r] >= 2}))
  /\ UNCHANGED <<early, tier, pinned, age, class, thaw, lock, issued, ok, ticks, tierFaults>>
Warm(p) ==
  /\ JobAt(p, "warm")
  /\ \/ \E r \in job[p].todo :
          /\ tier' = [tier EXCEPT ![r] = "warm"]
          /\ job' = [job EXCEPT ![p].todo = @ \ {r}]
     \/ job[p].todo = {} /\ JobGoes(p, "list") /\ UNCHANGED tier
  /\ UNCHANGED <<early, pinned, age, class, thaw, lock, issued, ok, jobs, ticks, tierFaults>>
SweepWarm(p) ==
  /\ JobAt(p, "list")
  /\ job' = [job EXCEPT ![p].pc = "archive", ![p].todo = {r \in Unpinned("warm") : age[r] >= ColdAge(r)}]
  /\ UNCHANGED <<early, tier, pinned, age, class, thaw, lock, issued, ok, jobs, ticks, tierFaults>>

\* tier_to_ice_sweep_once.
SweepCold(p) ==
  /\ JobBegins(p, JobWith("ice", "archive", {r \in Unpinned("cold") : age[r] = 3}))
  /\ UNCHANGED <<early, tier, pinned, age, class, thaw, lock, issued, ok, ticks, tierFaults>>

\* tier_archive, asked for by a user: whatever the row's age, pinned or not.
ArchiveOne(p) ==
  /\ \E r \in Row : tier[r] # "cold" /\ JobBegins(p, JobWith("api", "archive", {r}))
  /\ UNCHANGED <<early, tier, pinned, age, class, thaw, lock, issued, ok, ticks, tierFaults>>

\* The object first; one that cannot be copied is passed over.
ArchiveObject(p) ==
  /\ JobAt(p, "archive")
  /\ \/ /\ job[p].todo # {} /\ CanCopy /\ JobGoes(p, "mark")
        /\ Copies(IF job[p].kind = "ice" THEN "deep" ELSE "cold")
     \/ \E r \in job[p].todo :
          /\ ~CanCopy /\ job' = [job EXCEPT ![p].todo = @ \ {r}]
          /\ UNCHANGED <<class, thaw>>
     \/ job[p].todo = {} /\ JobEnds(p) /\ UNCHANGED <<class, thaw>>
  /\ UNCHANGED <<early, tier, pinned, age, lock, issued, ok, jobs, ticks, tierFaults>>

\* Then its rows; the cold sweep does each content once.
MarkRows(p) ==
  /\ JobAt(p, "mark")
  /\ MarkTier(IF job[p].kind = "ice" THEN "ice" ELSE "cold")
  /\ \E r \in job[p].todo :
       job' = [job EXCEPT ![p].pc = "archive",
                          ![p].todo = IF job[p].kind = "cold" THEN {} ELSE @ \ {r}]
  /\ UNCHANGED <<early, pinned, age, class, thaw, lock, issued, ok, jobs, ticks, tierFaults>>

\* tier_capacity_sweep_once: the objects of cold rows are given the cold class, whatever
\* has happened to the rows since they were listed.
ListCold(p) ==
  /\ JobBegins(p, JobWith("physical", "fix", {r \in Row : tier[r] = "cold"}))
  /\ UNCHANGED <<early, tier, pinned, age, class, thaw, lock, issued, ok, ticks, tierFaults>>
FixClass(p) ==
  /\ JobAt(p, "fix")
  /\ \/ \E r \in job[p].todo :
          /\ job' = [job EXCEPT ![p].todo = @ \ {r}]
          /\ IF class # "cold" /\ CanCopy THEN Copies("cold") ELSE UNCHANGED <<class, thaw>>
     \/ job[p].todo = {} /\ JobEnds(p) /\ UNCHANGED <<class, thaw>>
  /\ UNCHANGED <<early, tier, pinned, age, lock, issued, ok, jobs, ticks, tierFaults>>

-----------------------------------------------------------------------------
(* Users. *)

\* pin_tier_artifact.
Pin(r) ==
  /\ \/ r \notin pinned /\ Cardinality(pinned) < MaxPinned /\ pinned' = pinned \cup {r}
     \/ r \in pinned /\ pinned' = pinned \ {r}
  /\ UNCHANGED <<early, tier, age, class, thaw, lock, issued, ok, job, jobs, ticks, tierFaults>>

\* touch_artifact after a whole read: nothing within the touch interval, no new access
\* time within the cool-down, and the row is hot again wherever its object is.
Touch(r) ==
  /\ age[r] >= 1
  /\ age' = [age EXCEPT ![r] = IF @ = 1 THEN @ ELSE 0]
  /\ IF tier[r] = "hot" THEN UNCHANGED tier ELSE MarkTier("hot")
  /\ UNCHANGED <<early, pinned, class, thaw, lock, issued, ok, job, jobs, ticks, tierFaults>>

-----------------------------------------------------------------------------
(* ensure_cold_restore. *)

AskRestore(p) ==
  /\ \E r \in Row : tier[r] = "ice"
  /\ JobBegins(p, JobWith("restore", "window", {}))
  /\ UNCHANGED <<early, tier, pinned, age, class, thaw, lock, issued, ok, ticks, tierFaults>>

LookWindow(p) ==
  /\ JobAt(p, "window")
  /\ IF ok > 0 THEN JobEnds(p) ELSE JobGoes(p, "pending")
  /\ UNCHANGED <<early, tier, pinned, age, class, thaw, lock, issued, ok, jobs, ticks, tierFaults>>

\* is_restore_pending; an error of S3 goes for "no".
LookPending(p) ==
  /\ JobAt(p, "pending")
  /\ \/ /\ IF Ongoing THEN JobEnds(p) ELSE JobGoes(p, "issued")
        /\ UNCHANGED tierFaults
     \/ tierFaults < MaxTierFaults /\ tierFaults' = tierFaults + 1 /\ JobGoes(p, "issued")
  /\ UNCHANGED <<early, tier, pinned, age, class, thaw, lock, issued, ok, jobs, ticks>>

LookIssued(p) ==
  /\ JobAt(p, "issued")
  /\ JobGoes(p, IF issued > 0 THEN "promote" ELSE "lock")
  /\ UNCHANGED <<early, tier, pinned, age, class, thaw, lock, issued, ok, jobs, ticks, tierFaults>>

\* _restore_set: SET NX EX.  Mutant: the time is added to what is left.
SetsMore(window, ttl) == window + ttl
Sets(window, ttl) == IF window > 0 THEN window ELSE ttl

Promote(p) ==
  /\ JobAt(p, "promote") /\ ok' = Sets(ok, OkTtl) /\ JobEnds(p)
  /\ UNCHANGED <<early, tier, pinned, age, class, thaw, lock, issued, jobs, ticks, tierFaults>>

Lock(p) ==
  /\ JobAt(p, "lock")
  /\ lock' = Sets(lock, LockTtl)
  /\ IF lock > 0 THEN JobEnds(p) ELSE JobGoes(p, "request")
  /\ UNCHANGED <<early, tier, pinned, age, class, thaw, issued, ok, jobs, ticks, tierFaults>>

\* restore_cold; S3 refuses it for an object that is not in the deep class.
Request(p) ==
  /\ JobAt(p, "request")
  /\ IF class = "deep"
     THEN /\ thaw' = IF thaw = Readable THEN thaw ELSE Thawing
          /\ JobGoes(p, "issue")
     ELSE JobEnds(p) /\ UNCHANGED thaw
  /\ UNCHANGED <<early, tier, pinned, age, class, lock, issued, ok, jobs, ticks, tierFaults>>

\* Mutant: the request is not remembered.
IssueNothing(p) ==
  /\ JobAt(p, "issue") /\ JobEnds(p)
  /\ UNCHANGED <<early, tier, pinned, age, class, thaw, lock, issued, ok, jobs, ticks, tierFaults>>
Issue(p) ==
  /\ JobAt(p, "issue") /\ issued' = Sets(issued, IssuedTtl) /\ JobEnds(p)
  /\ UNCHANGED <<early, tier, pinned, age, class, thaw, lock, ok, jobs, ticks, tierFaults>>

-----------------------------------------------------------------------------
(* Time, S3 and failures. *)

Restoring(p) == job[p].kind = "restore"
Less(n) == IF n = 0 THEN 0 ELSE n - 1

Tick ==
  /\ ticks < MaxTicks /\ \A p \in Process : ~Restoring(p)
  /\ thaw # 0
  /\ ticks' = ticks + 1
  /\ age' = [r \in Row |-> IF age[r] = 3 THEN 3 ELSE age[r] + 1]
  /\ lock' = Less(lock) /\ issued' = Less(issued) /\ ok' = Less(ok)
  /\ thaw' = IF Ongoing THEN thaw - 1 ELSE thaw
  /\ UNCHANGED <<early, tier, pinned, class, job, jobs, tierFaults>>

Thawed ==
  /\ Ongoing /\ thaw' = Readable
  /\ UNCHANGED <<early, tier, pinned, age, class, lock, issued, ok, job, jobs, ticks, tierFaults>>
Refrozen ==
  /\ thaw = Readable /\ thaw' = Frozen
  /\ UNCHANGED <<early, tier, pinned, age, class, lock, issued, ok, job, jobs, ticks, tierFaults>>

\* An error ends the job, or the process does.
JobFails(p) ==
  /\ ~JobAt(p, "idle") /\ tierFaults < MaxTierFaults
  /\ tierFaults' = tierFaults + 1 /\ JobEnds(p)
  /\ UNCHANGED <<early, tier, pinned, age, class, thaw, lock, issued, ok, jobs, ticks>>

TierNext ==
  \/ Tick \/ Thawed \/ Refrozen
  \/ \E r \in Row : Pin(r) \/ Touch(r)
  \/ \E p \in Process :
       \/ SweepHot(p) \/ Warm(p) \/ SweepWarm(p) \/ SweepCold(p) \/ ArchiveOne(p) \/ ArchiveObject(p)
       \/ MarkRows(p) \/ ListCold(p) \/ FixClass(p)
       \/ AskRestore(p) \/ LookWindow(p) \/ LookPending(p) \/ LookIssued(p) \/ Promote(p)
       \/ Lock(p) \/ Request(p) \/ Issue(p) \/ JobFails(p)

TierSpec == TierInit /\ [][TierNext]_tierVars

-----------------------------------------------------------------------------
\* A restore costs money and hours: whoever is about to ask for one does so alone, and
\* none is under way for the object, although reads come from several processes, and
\* although the question whether one is pending may fail or a process stop after it asked;
\* not both, then nothing is left that would tell the next reader.
\* (ensure_cold_restore: the lock, issued and ok keys and their times)
RestoreOnce ==
  tierFaults <= 1 =>
    \A p \in Process : JobAt(p, "request") =>
      /\ ~Ongoing
      /\ \A q \in Process \ {p} : ~JobAt(q, "request")
=============================================================================
