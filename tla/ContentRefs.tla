------------------------------ MODULE ContentRefs ------------------------------
(***************************************************************************)
(* Single artifacts and the content they share: the upload's commit with   *)
(* its claim on a content (api/upload.py, dedup_claim), the backfill that  *)
(* merges old files, the recycle bin and its sweep, and the reconciler     *)
(* (storage/governance.py).  A file is either at its own key or, once      *)
(* deduplicated, at a key made of its hash, which all files of that        *)
(* content share and artifact_content counts.  Rows, counts, objects and   *)
(* quota change in separate commits; every commit and every call to the    *)
(* store is a step here.                                                   *)
(*                                                                         *)
(* Simplifications, by name.                                               *)
(*  - One owner; all files have the same size, which is 1; version 0.      *)
(*  - Whether a file may be deduplicated (size, type, task) is open, since *)
(*    settings change; two contents never have one hash.                   *)
(*  - Soft deletion and restoration are one step each: what they read last *)
(*    and what they write belong to the same row.                          *)
(*  - The retention is not timed: the sweep lists any of the deleted rows. *)
(***************************************************************************)
EXTENDS Naturals, FiniteSets

CONSTANTS
  Path,        \* the paths of the task
  Content,     \* what may be uploaded, named by its hash
  None,        \* no content
  Caller,      \* the requests and the gc loops at work at the same time
  Gc,          \* the gc loops among them: one job after the other
  Limits,      \* what the owner may use: by policy, in total; 0 for no limit
  MaxUploads,  \* bound: uploads in a behaviour
  MaxFaults    \* bound: failures

ASSUME StoreAssumption ==
  /\ IsFiniteSet(Path) /\ IsFiniteSet(Caller)
  /\ None \notin Content
  /\ Gc \subseteq Caller /\ "failure" \notin Caller
  /\ Limits \subseteq [policy : Nat, total : Nat]
  /\ MaxUploads \in Nat /\ MaxFaults \in Nat

VARIABLES
  row,       \* artifacts: the row of each path; id 0 for none
  refs,      \* artifact_content.refs; 0 also for no row
  obj,       \* the store: the content at each key
  used,      \* quota_usage.used_bytes of the owner
  limit,     \* the limits of this installation
  call,      \* what each caller is doing
  uploads,   \* uploads so far; ids of their rows
  faults,    \* failures so far
  moved,     \* who has made a step since the last call began
  happened   \* what has ever happened, for the properties

vars == <<row, refs, obj, used, limit, call, uploads, faults, moved, happened>>

OwnKey(p)    == <<"own", p>>
SharedKey(k) == <<"shared", k>>
Shared       == {SharedKey(k) : k \in Content}
Key          == {OwnKey(p) : p \in Path} \cup Shared

Row  == [id : 0 .. MaxUploads, status : {"absent", "available", "deleted"}, key : Key]
Seen == [path : Path, id : 0 .. MaxUploads, key : Key]

Pc == {"idle", "claim", "put", "record", "bump", "unbump", "release", "erase", "unput",
       "sweep", "drelease", "derase", "dcontent", "drow", "dquota",
       "backfill", "bclaim", "bmove", "bdrop", "blink",
       "rlist", "rrefs", "orphan", "missing", "rquota", "rrow"}

\* The row a call is at, those it still has to do, keys it has listed, a content.
Call == [pc : Pc, hand : SUBSET Seen, todo : SUBSET Seen, keys : SUBSET Key,
         body : Content \cup {None}]
Idle == [pc |-> "idle", hand |-> {}, todo |-> {}, keys |-> {}, body |-> None]

TypeOK ==
  /\ row \in [Path -> Row]
  /\ refs \in [Content -> Nat]
  /\ obj \in [Key -> Content \cup {None}]
  /\ used \in Nat
  /\ limit \in Limits
  /\ call \in [Caller -> Call]
  /\ uploads \in 0 .. MaxUploads
  /\ faults \in 0 .. MaxFaults
  /\ moved \subseteq Caller \cup {"failure"}
  /\ happened \subseteq {"overlap", "failure", "sweep", "uncounted"}

NoRow(p) == [id |-> 0, status |-> "absent", key |-> OwnKey(p)]

Init ==
  /\ row = [p \in Path |-> NoRow(p)]
  /\ refs = [k \in Content |-> 0]
  /\ obj = [x \in Key |-> None]
  /\ used = 0
  /\ limit \in Limits
  /\ call = [c \in Caller |-> Idle]
  /\ uploads = 0
  /\ faults = 0
  /\ moved = {}
  /\ happened = {}

-----------------------------------------------------------------------------
(* Helpers *)

At(c, pc) == call[c].pc = pc
Goto(c, pc) == call' = [call EXCEPT ![c].pc = pc]
Return(c) == call' = [call EXCEPT ![c] = Idle]

Rows == {p \in Path : row[p].status # "absent"}
AsSeen(p) == [path |-> p, id |-> row[p].id, key |-> row[p].key]
Exists(a) == row[a.path].id = a.id

\* bump_quota: never below zero.  Mutant: without the floor.
Charge == used' = used + 1
RefundNoFloor == used' = used - 1
Refund == used' = IF used > 0 THEN used - 1 ELSE 0

\* content_upsert and content_release.  Mutants: only the first claim is counted,
\* the release is not.
ClaimFirst(k) == refs' = [refs EXCEPT ![k] = IF @ = 0 THEN 1 ELSE @]
Claim(k) == refs' = [refs EXCEPT ![k] = @ + 1]
ReleaseForgotten(k) == refs' = refs
Release(k) == refs' = [refs EXCEPT ![k] = IF @ > 0 THEN @ - 1 ELSE 0]

\* The room check_quota and restore_artifact ask for.
Room(max) == max = 0 \/ used + 1 <= max

Happens(S) == happened' = happened \cup S

Fault ==
  /\ faults < MaxFaults
  /\ faults' = faults + 1

\* A call begins: others may be at work.
Begin(c, x) ==
  /\ At(c, "idle")
  /\ call' = [call EXCEPT ![c] = x]
  /\ moved' = {c}
  /\ Happens(IF \A d \in Caller : At(d, "idle") THEN {} ELSE {"overlap"})

\* A call goes on, without or with a failure.
GoOn(c) == moved' = moved \cup {c} /\ UNCHANGED <<faults, happened>>
FailOn(c) == Fault /\ moved' = moved \cup {c, "failure"} /\ Happens({"failure"})

-----------------------------------------------------------------------------
(* upload_commit, the part after the chunks are there.                        *)

UploadBegin(c) ==
  /\ c \notin Gc
  /\ uploads < MaxUploads
  /\ Room(limit.policy)                                   \* check_quota
  /\ uploads' = uploads + 1
  /\ \E p \in Path, k \in Content, x \in Key :
       /\ x \in {OwnKey(p), SharedKey(k)}                  \* dedup_eligible
       /\ Begin(c, [Idle EXCEPT !.pc = IF x \in Shared THEN "claim" ELSE "put", !.body = k,
                      !.hand = {[path |-> p, id |-> uploads', key |-> x]}])
  /\ UNCHANGED <<row, refs, obj, used, faults>>

UploadClaim(c) ==
  /\ At(c, "claim")
  /\ Claim(call[c].body)
  /\ Goto(c, "put")
  /\ GoOn(c)
  /\ UNCHANGED <<row, obj, used, uploads>>

\* Compensation of a file that could not be recorded (or, deduplicated, stored):
\* its claim is released, or the object at its own key erased.
Undo(a) == IF a.key \in Shared THEN "release" ELSE "unput"

\* Everybody who claims a content stores it, first or not.
UploadPut(c) ==
  /\ At(c, "put")
  /\ \E a \in call[c].hand :
       \/ /\ obj' = [obj EXCEPT ![a.key] = call[c].body]
          /\ Goto(c, "record")
          /\ GoOn(c)
       \/ /\ IF a.key \in Shared THEN Goto(c, "release") ELSE Return(c)
          /\ FailOn(c)
          /\ UNCHANGED obj
  /\ UNCHANGED <<row, refs, used, uploads>>

\* Task, path and version are unique: there is one row at most for a path.
UploadRecord(c) ==
  /\ At(c, "record")
  /\ \E a \in call[c].hand :
       \/ /\ row[a.path].status = "absent"
          /\ row' = [row EXCEPT ![a.path] = [id |-> a.id, status |-> "available", key |-> a.key]]
          /\ Goto(c, "bump")
          /\ GoOn(c)
       \/ /\ row[a.path].status # "absent"
          /\ Goto(c, Undo(a))
          /\ GoOn(c)
          /\ UNCHANGED row
       \/ /\ Goto(c, Undo(a))
          /\ FailOn(c)
          /\ UNCHANGED row
  /\ UNCHANGED <<refs, obj, used, uploads>>

OverLimit == limit.total > 0 /\ used' > limit.total

\* The quota is charged; over the limit (two uploads were checked together, or the
\* policy allows more than the total) or on an error the upload is undone, but its
\* row is kept.
UploadBump(c) ==
  /\ At(c, "bump")
  /\ \E a \in call[c].hand :
       \/ /\ Charge
          /\ IF OverLimit THEN Goto(c, "unbump") ELSE Return(c)
          /\ GoOn(c)
       \/ /\ Goto(c, Undo(a))
          /\ Fault
          /\ moved' = moved \cup {c, "failure"}
          /\ Happens({"failure", "uncounted"})
          /\ UNCHANGED used
  /\ UNCHANGED <<row, refs, obj, uploads>>

UploadUnbump(c) ==
  /\ At(c, "unbump")
  /\ Refund
  /\ \E a \in call[c].hand : Goto(c, Undo(a))
  /\ moved' = moved \cup {c}
  /\ Happens({"uncounted"})
  /\ UNCHANGED <<row, refs, obj, uploads, faults>>

\* dedup_abort.  Whether anybody is left is what the release has returned.
UploadRelease(c) ==
  /\ At(c, "release")
  /\ Release(call[c].body)
  /\ IF refs'[call[c].body] = 0 THEN Goto(c, "erase") ELSE Return(c)
  /\ GoOn(c)
  /\ UNCHANGED <<row, obj, used, uploads>>

\* The compensating deletion; an error of the store is only logged.
UploadErase(c) ==
  /\ At(c, "erase") \/ At(c, "unput")
  /\ \E a \in call[c].hand :
       \/ obj' = [obj EXCEPT ![a.key] = None] /\ GoOn(c)
       \/ UNCHANGED obj /\ FailOn(c)
  /\ Return(c)
  /\ UNCHANGED <<row, refs, used, uploads>>

Upload(c) ==
  \/ UploadBegin(c) \/ UploadClaim(c) \/ UploadPut(c) \/ UploadRecord(c) \/ UploadBump(c)
  \/ UploadUnbump(c) \/ UploadRelease(c) \/ UploadErase(c)

-----------------------------------------------------------------------------
(* Requests on a stored file.                                                 *)

SoftDelete(c) ==
  /\ c \notin Gc
  /\ \E p \in Path :
       /\ row[p].status = "available"
       /\ row' = [row EXCEPT ![p].status = "deleted"]
  /\ Begin(c, Idle)
  /\ UNCHANGED <<refs, obj, used, uploads, faults>>

\* A deleted file still counts, and yet there must be room for it once more.
Restore(c) ==
  /\ c \notin Gc
  /\ Room(limit.total)
  /\ \E p \in Path :
       /\ row[p].status = "deleted"
       /\ row' = [row EXCEPT ![p].status = "available"]
  /\ Begin(c, Idle)
  /\ UNCHANGED <<refs, obj, used, uploads, faults>>

\* DELETE /artifacts/{task}/{path} erases the object at the path's own key and
\* leaves the row to the reconciler.
ApiDelete(c) ==
  /\ c \notin Gc
  /\ \E p \in Path :
       /\ obj[OwnKey(p)] # None
       /\ obj' = [obj EXCEPT ![OwnKey(p)] = None]
  /\ Begin(c, Idle)
  /\ UNCHANGED <<row, refs, used, uploads, faults>>

Request(c) == SoftDelete(c) \/ Restore(c) \/ ApiDelete(c)

-----------------------------------------------------------------------------
(* recycle_sweep_expired: delete_artifact_governed for every row it has       *)
(* listed, whatever has become of the row since.                              *)

SweepBegin(c) ==
  /\ c \in Gc
  /\ \E S \in SUBSET {p \in Path : row[p].status = "deleted"} :
       S # {} /\ Begin(c, [Idle EXCEPT !.pc = "sweep", !.todo = {AsSeen(p) : p \in S}])
  /\ UNCHANGED <<row, refs, obj, used, uploads, faults>>

SweepNext(c) ==
  /\ At(c, "sweep")
  /\ \/ call[c].todo = {} /\ Return(c)
     \/ \E a \in call[c].todo :
          call' = [call EXCEPT ![c].hand = {a}, ![c].todo = @ \ {a},
                     ![c].pc = IF a.key \in Shared THEN "drelease" ELSE "derase"]
  /\ GoOn(c)
  /\ UNCHANGED <<row, refs, obj, used, uploads>>

SweepRelease(c) ==
  /\ At(c, "drelease")
  /\ \E a \in call[c].hand :
       /\ Release(a.key[2])
       /\ Goto(c, IF refs'[a.key[2]] = 0 THEN "derase" ELSE "drow")
  /\ moved' = moved \cup {c}
  /\ Happens({"sweep"})
  /\ UNCHANGED <<row, obj, used, uploads, faults>>

SweepErase(c) ==
  /\ At(c, "derase")
  /\ \E a \in call[c].hand :
       /\ obj' = [obj EXCEPT ![a.key] = None]
       /\ Goto(c, IF a.key \in Shared /\ obj[a.key] # None THEN "dcontent" ELSE "drow")
  /\ GoOn(c)
  /\ UNCHANGED <<row, refs, used, uploads>>

\* content_delete: the row of the content goes, whatever its count is by now.
SweepContent(c) ==
  /\ At(c, "dcontent")
  /\ \E a \in call[c].hand : refs' = [refs EXCEPT ![a.key[2]] = 0]
  /\ Goto(c, "drow")
  /\ GoOn(c)
  /\ UNCHANGED <<row, obj, used, uploads>>

\* delete_artifact, by id.
Drop(a) == row' = IF Exists(a) THEN [row EXCEPT ![a.path] = NoRow(a.path)] ELSE row

SweepRow(c) ==
  /\ At(c, "drow")
  /\ \E a \in call[c].hand : Drop(a)
  /\ Goto(c, "dquota")
  /\ GoOn(c)
  /\ UNCHANGED <<refs, obj, used, uploads>>

\* Mutant: the quota is not given back.
SweepQuotaForgotten(c) ==
  /\ At(c, "dquota")
  /\ Goto(c, "sweep")
  /\ GoOn(c)
  /\ UNCHANGED <<row, refs, obj, used, uploads>>

SweepQuota(c) ==
  /\ At(c, "dquota")
  /\ Refund
  /\ Goto(c, "sweep")
  /\ GoOn(c)
  /\ UNCHANGED <<row, refs, obj, uploads>>

\* A row whose deletion fails at any point is left as it is by then.
SweepFail(c) ==
  /\ call[c].pc \in {"drelease", "derase", "dcontent", "drow", "dquota"}
  /\ Goto(c, "sweep")
  /\ FailOn(c)
  /\ UNCHANGED <<row, refs, obj, used, uploads>>

Sweep(c) ==
  \/ SweepBegin(c) \/ SweepNext(c) \/ SweepRelease(c) \/ SweepErase(c)
  \/ SweepContent(c) \/ SweepRow(c) \/ SweepQuota(c) \/ SweepFail(c)

-----------------------------------------------------------------------------
(* dedup_backfill_once: files at their own keys are merged into the content.  *)

BackfillBegin(c) ==
  /\ c \in Gc
  /\ \E S \in SUBSET {p \in Path : row[p].status = "available" /\ row[p].key \notin Shared} :
       S # {} /\ Begin(c, [Idle EXCEPT !.pc = "backfill", !.todo = {AsSeen(p) : p \in S}])
  /\ UNCHANGED <<row, refs, obj, used, uploads, faults>>

\* The file is hashed; one that cannot be read is passed over.
BackfillNext(c) ==
  /\ At(c, "backfill")
  /\ \/ call[c].todo = {} /\ Return(c)
     \/ \E a \in call[c].todo :
          call' = [call EXCEPT ![c].todo = @ \ {a}, ![c].hand = {a}, ![c].body = obj[a.key],
                     ![c].pc = IF obj[a.key] = None THEN "backfill" ELSE "bclaim"]
  /\ GoOn(c)
  /\ UNCHANGED <<row, refs, obj, used, uploads>>

BackfillClaim(c) ==
  /\ At(c, "bclaim")
  /\ Claim(call[c].body)
  /\ Goto(c, IF refs'[call[c].body] = 1 THEN "bmove" ELSE "bdrop")
  /\ GoOn(c)
  /\ UNCHANGED <<row, obj, used, uploads>>

\* The first to claim moves its file to the shared key, the others erase theirs.
BackfillMove(c) ==
  /\ At(c, "bmove") \/ At(c, "bdrop")
  /\ \E a \in call[c].hand :
       \/ /\ At(c, "bmove") /\ obj[a.key] # None
          /\ obj' = [obj EXCEPT ![SharedKey(call[c].body)] = obj[a.key], ![a.key] = None]
          /\ Goto(c, "blink")
       \/ /\ At(c, "bmove") /\ obj[a.key] = None
          /\ Goto(c, "backfill")
          /\ UNCHANGED obj
       \/ /\ At(c, "bdrop")
          /\ obj' = [obj EXCEPT ![a.key] = None]
          /\ Goto(c, "blink")
  /\ GoOn(c)
  /\ UNCHANGED <<row, refs, used, uploads>>

BackfillLink(c) ==
  /\ At(c, "blink")
  /\ \E a \in call[c].hand :
       row' = IF Exists(a) THEN [row EXCEPT ![a.path].key = SharedKey(call[c].body)] ELSE row
  /\ Goto(c, "backfill")
  /\ GoOn(c)
  /\ UNCHANGED <<refs, obj, used, uploads>>

\* A failure is logged and leaves the claim.
BackfillFail(c) ==
  /\ call[c].pc \in {"bclaim", "bmove", "bdrop", "blink"}
  /\ Goto(c, "backfill")
  /\ FailOn(c)
  /\ UNCHANGED <<row, refs, obj, used, uploads>>

Backfill(c) ==
  \/ BackfillBegin(c) \/ BackfillNext(c) \/ BackfillClaim(c) \/ BackfillMove(c)
  \/ BackfillLink(c) \/ BackfillFail(c)

-----------------------------------------------------------------------------
(* artifact_reconcile_once: rows are read, then keys listed, then counts read. *)

ReconcileBegin(c) ==
  /\ c \in Gc
  /\ Begin(c, [Idle EXCEPT !.pc = "rlist", !.todo = {AsSeen(p) : p \in Rows}])
  /\ UNCHANGED <<row, refs, obj, used, uploads, faults>>

\* A store that cannot be listed counts as empty.
ReconcileList(c) ==
  /\ At(c, "rlist")
  /\ \/ /\ call' = [call EXCEPT ![c].pc = "rrefs", ![c].keys = {x \in Key : obj[x] # None}]
        /\ GoOn(c)
     \/ Goto(c, "rrefs") /\ FailOn(c)
  /\ UNCHANGED <<row, refs, obj, used, uploads>>

\* Keys of no row are orphans unless their content is referred to; rows whose key
\* is not in the list are suspects.  Mutant: no content is ever an orphan.
KeepsAllContent(x)  == x \in Shared
KeepsReferred(x) == x \in Shared /\ refs[x[2]] > 0

ReconcileRefs(c) ==
  /\ At(c, "rrefs")
  /\ LET keys == call[c].keys
         seen == call[c].todo
     IN call' = [call EXCEPT ![c].pc = "orphan",
                   ![c].keys = {x \in keys : (\A a \in seen : a.key # x) /\ ~KeepsReferred(x)},
                   ![c].todo = {a \in seen : a.key \notin keys}]
  /\ GoOn(c)
  /\ UNCHANGED <<row, refs, obj, used, uploads>>

ReconcileOrphan(c) ==
  /\ At(c, "orphan")
  /\ \/ /\ call[c].keys = {}
        /\ Goto(c, "missing")
        /\ GoOn(c)
        /\ UNCHANGED obj
     \/ \E x \in call[c].keys :
          /\ call' = [call EXCEPT ![c].keys = @ \ {x}]
          /\ \/ obj' = [obj EXCEPT ![x] = None] /\ GoOn(c)
             \/ UNCHANGED obj /\ FailOn(c)
  /\ UNCHANGED <<row, refs, used, uploads>>

\* The key is looked up once more before all its rows go.
ReconcileMissing(c) ==
  /\ At(c, "missing")
  /\ \/ call[c].todo = {} /\ Return(c)
     \/ \E x \in {a.key : a \in call[c].todo} :
          LET recs == {a \in call[c].todo : a.key = x}
          IN call' = [call EXCEPT ![c].todo = @ \ recs,
                        ![c].hand = IF obj[x] = None THEN recs ELSE {},
                        ![c].pc = IF obj[x] = None THEN "rquota" ELSE "missing"]
  /\ GoOn(c)
  /\ UNCHANGED <<row, refs, obj, used, uploads>>

ReconcileQuota(c) ==
  /\ At(c, "rquota")
  /\ IF call[c].hand = {}
     THEN Goto(c, "missing") /\ UNCHANGED used
     ELSE Goto(c, "rrow") /\ Refund
  /\ GoOn(c)
  /\ UNCHANGED <<row, refs, obj, uploads>>

ReconcileRow(c) ==
  /\ At(c, "rrow")
  /\ \E a \in call[c].hand :
       /\ Drop(a)
       /\ call' = [call EXCEPT ![c].pc = "rquota", ![c].hand = @ \ {a}]
  /\ GoOn(c)
  /\ UNCHANGED <<refs, obj, used, uploads>>

Reconcile(c) ==
  \/ ReconcileBegin(c) \/ ReconcileList(c) \/ ReconcileRefs(c) \/ ReconcileOrphan(c)
  \/ ReconcileMissing(c) \/ ReconcileQuota(c) \/ ReconcileRow(c)

-----------------------------------------------------------------------------

\* Any exception nobody catches, or the end of the process.
Fail(c) ==
  /\ ~At(c, "idle")
  /\ FailOn(c)
  /\ Return(c)
  /\ UNCHANGED <<row, refs, obj, used, uploads>>

Next ==
  /\ UNCHANGED limit
  /\ \E c \in Caller :
       Upload(c) \/ Request(c) \/ Sweep(c) \/ Backfill(c) \/ Reconcile(c) \/ Fail(c)

Spec == Init /\ [][Next]_vars

-----------------------------------------------------------------------------
(* Properties *)

AtRest == \A c \in Caller : At(c, "idle")
Undisturbed == happened \cap {"overlap", "failure", "uncounted"} = {}

Referring(k) == {p \in Path : row[p].status # "absent" /\ row[p].key = SharedKey(k)}

\* Calls one after the other, none failed and none was undone: every content is
\* counted as often as files refer to it, deleted ones included, and is stored
\* exactly while it is counted ("refs" in db/models.py, delete_artifact_governed).
CountsExact ==
  AtRest /\ Undisturbed =>
    \A k \in Content :
      /\ refs[k] = Cardinality(Referring(k))
      /\ obj[SharedKey(k)] = IF refs[k] > 0 THEN k ELSE None

\* Calls one after the other, none failed and none was undone: the quota in use is
\* what the owner's rows say, the recycle bin included (bump_quota and its callers).
QuotaFollowsRows == AtRest /\ Undisturbed => used = Cardinality(Rows)

\* However uploads, backfills, reconcilers and failures interleave: as long as the
\* bin has not released anything and no upload was undone after its row was
\* written, no content is counted less often than files refer to it.
CountsCover ==
  happened \cap {"sweep", "uncounted"} = {} =>
    \A k \in Content : Cardinality(Referring(k)) <= refs[k]

\* After whatever has gone before, one pass of the reconciler that nobody disturbs
\* leaves no row without its object, and no object without a row or a count
\* (artifact_reconcile_once).
Reconciled ==
  [][\A c \in Caller :
       At(c, "missing") /\ call'[c].pc = "idle" /\ moved' = {c} =>
         /\ \A p \in Rows : obj[row[p].key] # None
         /\ \A x \in Key : obj[x] # None =>
              \/ \E p \in Rows : row[p].key = x
              \/ x \in Shared /\ refs[x[2]] > 0]_vars

\* What delete_artifact_governed says of itself: content that others refer to is not
\* erased.  Whether they do was decided by the release; a file that claims the
\* content between the release and the erasure loses it.
SharedSurvives ==
  [][\A c \in Caller : At(c, "derase") /\ obj' # obj =>
       \A a \in call[c].hand : \A k \in Content :
         a.key = SharedKey(k) => Referring(k) \subseteq {a.path}]_vars
=============================================================================
