------------------------------ MODULE Versions ------------------------------
(***************************************************************************)
(* The versions of one artifact path: VersionManager wraps the backend,    *)
(* gives every overwriting put a number, a record and an archived copy,    *)
(* and prunes; version_rollback puts an old version back; two sweeps of    *)
(* the GC loop clean up what is half done.  The main object, the archived  *)
(* objects and the records are in two places, and every repository call    *)
(* commits on its own, so each is a step.                                  *)
(*                                                                         *)
(* Simplifications, by name.                                               *)
(*  - ARTIFACT_VERSIONS_ENABLED; the governance rows of versions (size,    *)
(*    quota) are not kept.                                                 *)
(*  - rollback archives through the same wrapper, which makes a second     *)
(*    chain for the archive key itself under the task "_v": not kept.      *)
(*  - ARTIFACT_PENDING_TTL is longer than a put takes: the sweep finds     *)
(*    pending records whose call is over.                                  *)
(*  - An archived object may be asked for by its number only.              *)
(*  - The objects of one deletion or sweep go in one step.                 *)
(***************************************************************************)
EXTENDS Contents, Naturals, FiniteSets

CONSTANTS
  Caller,           \* requests, workers and sweeps at work on the path
  Large,            \* contents above ARTIFACT_VERSION_SIZE_LIMIT
  Keep,             \* ARTIFACT_MAX_VERSIONS
  MaxVersion,       \* bound: numbers given out
  MaxCalls,         \* bound: calls made
  MaxVersionFaults  \* bound: failures

ASSUME VersionBounds ==
  MaxVersion \in Nat /\ MaxCalls \in Nat /\ MaxVersionFaults \in Nat /\ Large \subseteq Content

Number == 1 .. MaxVersion
Run == {"r1", "r2"}

VARIABLES
  nextVersion,   \* artifact_version_seq.next_version
  version,       \* artifact_versions: the record of each number
  archived,      \* the object archived under each number
  main,          \* the object at the path's own key
  token,         \* versions somebody holds a preview token for
  vc,            \* what each caller is doing
  calls,         \* calls made
  versionFaults, \* failures so far
  parallel       \* history: has a purge shared a moment with another call, or has it failed;
                 \* were two calls ever at work; did a put pass the versions by

versionVars == <<nextVersion, version, archived, main, token, vc, calls, versionFaults, parallel>>

Record == [status : {"absent", "pending", "available", "failed"}, copy : BOOLEAN, run : Run \cup {""}, sha : Maybe]
NoRecord == [status |-> "absent", copy |-> FALSE, run |-> "", sha |-> None]

VPc == {"idle", "look", "number", "pending", "main", "copy", "fail", "mark", "prune", "drop",
        "list", "unlink", "forget", "read", "fetch", "rnumber", "rpending", "rcopy", "rmark", "settle", "restore",
        "swept", "cleaned", "keys"}
Vc == [pc : VPc, data : Maybe, run : Run \cup {""}, n : 0 .. MaxVersion, set : SUBSET Number,
       roll : 0 .. MaxVersion, old : Maybe, new : Maybe, op : {"none", "put", "purge", "sweep", "roll"}]
VIdle == [pc |-> "idle", data |-> None, run |-> "", n |-> 0, set |-> {}, roll |-> 0,
          old |-> None, new |-> None, op |-> "none"]

History == [purge : BOOLEAN, calls : BOOLEAN, bypass : BOOLEAN]

VersionTypeOK ==
  /\ nextVersion \in 0 .. MaxVersion
  /\ version \in [Number -> Record] /\ archived \in [Number -> Maybe] /\ main \in Maybe
  /\ token \subseteq Number
  /\ vc \in [Caller -> Vc]
  /\ calls \in 0 .. MaxCalls /\ versionFaults \in 0 .. MaxVersionFaults
  /\ parallel \in History

VersionInit ==
  /\ nextVersion = 0
  /\ version = [n \in Number |-> NoRecord] /\ archived = [n \in Number |-> None] /\ main = None
  /\ token = {}
  /\ vc = [c \in Caller |-> VIdle]
  /\ calls = 0 /\ versionFaults = 0
  /\ parallel = [purge |-> FALSE, calls |-> FALSE, bypass |-> FALSE]

-----------------------------------------------------------------------------
VAt(c, pc) == vc[c].pc = pc
VGoes(c, pc) == vc' = [vc EXCEPT ![c].pc = pc]
VEnds(c) == vc' = [vc EXCEPT ![c] = VIdle]

Available == {n \in Number : version[n].status = "available"}
Newest(set, k) == {n \in set : Cardinality({o \in set : o > n}) < k}
Latest == CHOOSE n \in Available : \A o \in Available : o <= n
Busy == \E c \in Caller : ~VAt(c, "idle")

\* A call begins; the history notes what else is under way.
Begins(c, state) ==
  /\ VAt(c, "idle") /\ calls < MaxCalls
  /\ calls' = calls + 1
  /\ vc' = [vc EXCEPT ![c] = state]
  /\ parallel' = [parallel EXCEPT
       !.calls = @ \/ Busy,
       !.purge = @ \/ \E o \in Caller : ~VAt(o, "idle") /\ "purge" \in {state.op, vc[o].op}]

-----------------------------------------------------------------------------
(* put *)

Put(c) ==
  /\ \E d \in Content, r \in Run :
       Begins(c, [VIdle EXCEPT !.pc = "look", !.op = "put", !.data = d, !.run = r])
  /\ UNCHANGED <<nextVersion, version, archived, main, token, versionFaults>>

\* A streamed put goes by the versions.
PutStream(c) ==
  /\ VAt(c, "idle") /\ calls < MaxCalls
  /\ calls' = calls + 1
  /\ main' \in Content
  /\ parallel' = [parallel EXCEPT !.bypass = TRUE]
  /\ UNCHANGED <<nextVersion, version, archived, token, vc, versionFaults>>

\* The same content of the same run as the latest version is not written again.
Repeats(c) ==
  /\ Available # {}
  /\ version[Latest].run = vc[c].run /\ version[Latest].sha = vc[c].data

\* What a versioned put returns to: the request is over, or rollback goes on.
PutReturns(c) == IF vc[c].op = "roll" THEN VGoes(c, "settle") ELSE VEnds(c)

PutLook(c) ==
  /\ VAt(c, "look")
  /\ IF Repeats(c) THEN PutReturns(c) ELSE VGoes(c, "number")
  /\ UNCHANGED <<nextVersion, version, archived, main, token, calls, versionFaults, parallel>>

\* next_version: UPDATE ... RETURNING.
NextNumber(c, pc) ==
  /\ nextVersion < MaxVersion
  /\ nextVersion' = nextVersion + 1
  /\ vc' = [vc EXCEPT ![c].n = nextVersion + 1, ![c].pc = pc]

PutNumber(c) ==
  /\ VAt(c, "number") /\ NextNumber(c, "pending")
  /\ UNCHANGED <<version, archived, main, token, calls, versionFaults, parallel>>

PutPending(c) ==
  /\ VAt(c, "pending")
  /\ version' = [version EXCEPT ![vc[c].n] =
       [status |-> "pending", copy |-> vc[c].data \notin Large, run |-> vc[c].run, sha |-> None]]
  /\ VGoes(c, "main")
  /\ UNCHANGED <<nextVersion, archived, main, token, calls, versionFaults, parallel>>

\* update_version_status: nothing happens when the record is gone.
Marked(n, status, sha) ==
  version' = IF version[n].status = "absent" THEN version
             ELSE [version EXCEPT ![n].status = status, ![n].sha = sha]

\* Mutant: available before the copy is there.
PutMainMarked(c) ==
  /\ VAt(c, "main")
  /\ main' = vc[c].data
  /\ Marked(vc[c].n, "available", vc[c].data)
  /\ VGoes(c, IF vc[c].data \in Large THEN "mark" ELSE "copy")
  /\ UNCHANGED <<nextVersion, archived, token, calls, versionFaults, parallel>>

PutMain(c) ==
  /\ VAt(c, "main")
  /\ main' = vc[c].data
  /\ VGoes(c, IF vc[c].data \in Large THEN "mark" ELSE "copy")
  /\ UNCHANGED <<nextVersion, version, archived, token, calls, versionFaults, parallel>>

PutCopy(c) ==
  /\ VAt(c, "copy")
  /\ archived' = [archived EXCEPT ![vc[c].n] = vc[c].data]
  /\ VGoes(c, "mark")
  /\ UNCHANGED <<nextVersion, version, main, token, calls, versionFaults, parallel>>

PutMark(c) ==
  /\ VAt(c, "mark")
  /\ Marked(vc[c].n, "available", vc[c].data)
  /\ VGoes(c, "prune")
  /\ UNCHANGED <<nextVersion, archived, main, token, calls, versionFaults, parallel>>

\* prune_versions deletes the records of the oldest available versions ...
Victims == Available \ Newest(Available, Keep)
PutPrune(c) ==
  /\ VAt(c, "prune")
  /\ version' = [n \in Number |-> IF n \in Victims THEN NoRecord ELSE version[n]]
  /\ vc' = [vc EXCEPT ![c].set = {n \in Victims : version[n].copy}, ![c].pc = "drop"]
  /\ UNCHANGED <<nextVersion, archived, main, token, calls, versionFaults, parallel>>

\* ... and then their objects go.
PutDrop(c) ==
  /\ VAt(c, "drop")
  /\ archived' = [n \in Number |-> IF n \in vc[c].set THEN None ELSE archived[n]]
  /\ PutReturns(c)
  /\ UNCHANGED <<nextVersion, version, main, token, calls, versionFaults, parallel>>

-----------------------------------------------------------------------------
(* delete, delete_version, retention_sweep *)

\* The main object first.  Mutant: its versions are left.
DeleteMain(c) ==
  /\ VAt(c, "idle") /\ calls < MaxCalls
  /\ calls' = calls + 1 /\ main' = None
  /\ UNCHANGED <<nextVersion, version, archived, token, vc, versionFaults, parallel>>
Delete(c) ==
  /\ Begins(c, [VIdle EXCEPT !.pc = "list", !.op = "purge"])
  /\ main' = None
  /\ UNCHANGED <<nextVersion, version, archived, token, versionFaults>>

DeleteList(c) ==
  /\ VAt(c, "list")
  /\ vc' = [vc EXCEPT ![c].pc = "unlink",
       ![c].set = {n \in Number : version[n].status # "absent" /\ version[n].copy}]
  /\ UNCHANGED <<nextVersion, version, archived, main, token, calls, versionFaults, parallel>>

\* One version, which has to be available.
DeleteVersion(c) ==
  /\ \E n \in Available :
       Begins(c, [VIdle EXCEPT !.pc = "unlink", !.op = "purge", !.n = n,
                               !.set = IF version[n].copy THEN {n} ELSE {}])
  /\ UNCHANGED <<nextVersion, version, archived, main, token, versionFaults>>

\* The task's retention is over: the main object and all archived ones are listed.
Retention(c) ==
  /\ Begins(c, [VIdle EXCEPT !.pc = "unlink", !.op = "purge", !.set = {n \in Number : archived[n] # None}])
  /\ main' = None
  /\ UNCHANGED <<nextVersion, version, archived, token, versionFaults>>

Unlink(c) ==
  /\ VAt(c, "unlink")
  /\ archived' = [n \in Number |-> IF n \in vc[c].set THEN None ELSE archived[n]]
  /\ VGoes(c, "forget")
  /\ UNCHANGED <<nextVersion, version, main, token, calls, versionFaults, parallel>>

\* The record of the one version, or all records of the path.
Forget(c) ==
  /\ VAt(c, "forget")
  /\ version' = [n \in Number |-> IF vc[c].n \in {0, n} THEN NoRecord ELSE version[n]]
  /\ VEnds(c)
  /\ UNCHANGED <<nextVersion, archived, main, token, calls, versionFaults, parallel>>

-----------------------------------------------------------------------------
(* The GC's sweeps *)

\* version_sweep_once lists pending records past their TTL and failed ones ...
Sweep(c) ==
  /\ \E late \in SUBSET {n \in Number : version[n].status = "pending" /\ \A o \in Caller : vc[o].n # n} :
       LET listed == late \cup {n \in Number : version[n].status = "failed"}
       IN  listed # {} /\ Begins(c, [VIdle EXCEPT !.pc = "swept", !.op = "sweep", !.set = listed])
  /\ UNCHANGED <<nextVersion, version, archived, main, token, versionFaults>>

\* ... and deletes the objects, then the records.
SweptObjects(c) ==
  /\ VAt(c, "swept")
  /\ archived' = [n \in Number |-> IF n \in vc[c].set /\ version[n].copy THEN None ELSE archived[n]]
  /\ VGoes(c, "cleaned")
  /\ UNCHANGED <<nextVersion, version, main, token, calls, versionFaults, parallel>>

SweptRecords(c) ==
  /\ VAt(c, "cleaned")
  /\ version' = [n \in Number |-> IF n \in vc[c].set THEN NoRecord ELSE version[n]]
  /\ VEnds(c)
  /\ UNCHANGED <<nextVersion, archived, main, token, calls, versionFaults, parallel>>

\* version_reconcile_once reads the keys of the records, then lists the store, and deletes
\* what no record had.
Reconcile(c) ==
  /\ Begins(c, [VIdle EXCEPT !.pc = "keys", !.op = "purge",
                             !.set = {n \in Number : version[n].status # "absent" /\ version[n].copy}])
  /\ UNCHANGED <<nextVersion, version, archived, main, token, versionFaults>>

Reconciled(c) ==
  /\ VAt(c, "keys")
  /\ archived' = [n \in Number |-> IF n \in vc[c].set THEN archived[n] ELSE None]
  /\ VEnds(c)
  /\ UNCHANGED <<nextVersion, version, main, token, calls, versionFaults, parallel>>

-----------------------------------------------------------------------------
(* Rollback *)

\* preview: a token for an available version with a copy, when the path has an artifact.
Preview(n) ==
  /\ n \in Available /\ version[n].copy /\ main # None /\ n \notin token
  /\ calls < MaxCalls /\ calls' = calls + 1
  /\ token' = token \cup {n}
  /\ UNCHANGED <<nextVersion, version, archived, main, vc, versionFaults, parallel>>

\* consume_token, then the record and the artifact's row.
Rollback(c) ==
  /\ \E n \in token :
       /\ token' = token \ {n}
       /\ IF n \in Available /\ version[n].copy
          THEN Begins(c, [VIdle EXCEPT !.pc = "read", !.op = "roll", !.roll = n])
          ELSE calls < MaxCalls /\ calls' = calls + 1 /\ UNCHANGED <<vc, parallel>>
  /\ UNCHANGED <<nextVersion, version, archived, main, versionFaults>>

\* backend.get of the current object, then of the version's.
RollRead(c) ==
  /\ VAt(c, "read")
  /\ IF main = None THEN VEnds(c)
     ELSE vc' = [vc EXCEPT ![c].pc = "fetch", ![c].old = main]
  /\ UNCHANGED <<nextVersion, version, archived, main, token, calls, versionFaults, parallel>>

RollFetch(c) ==
  /\ VAt(c, "fetch")
  /\ IF archived[vc[c].roll] = None THEN VEnds(c)
     ELSE vc' = [vc EXCEPT ![c].pc = "rnumber", ![c].new = archived[vc[c].roll]]
  /\ UNCHANGED <<nextVersion, version, archived, main, token, calls, versionFaults, parallel>>

RollNumber(c) ==
  /\ VAt(c, "rnumber") /\ NextNumber(c, "rpending")
  /\ UNCHANGED <<version, archived, main, token, calls, versionFaults, parallel>>

RollPending(c) ==
  /\ VAt(c, "rpending")
  /\ version' = [version EXCEPT ![vc[c].n] = [status |-> "pending", copy |-> TRUE, run |-> "", sha |-> None]]
  /\ VGoes(c, "rcopy")
  /\ UNCHANGED <<nextVersion, archived, main, token, calls, versionFaults, parallel>>

\* The current object becomes a version.  Mutant: the version's own content is archived.
RollCopyNew(c) ==
  /\ VAt(c, "rcopy")
  /\ archived' = [archived EXCEPT ![vc[c].n] = vc[c].new]
  /\ VGoes(c, "rmark")
  /\ UNCHANGED <<nextVersion, version, main, token, calls, versionFaults, parallel>>
RollCopy(c) ==
  /\ VAt(c, "rcopy")
  /\ archived' = [archived EXCEPT ![vc[c].n] = vc[c].old]
  /\ VGoes(c, "rmark")
  /\ UNCHANGED <<nextVersion, version, main, token, calls, versionFaults, parallel>>

\* It is available; the main key is then put through the wrapper, like any other put,
\* with no run.
RollMark(c) ==
  /\ VAt(c, "rmark")
  /\ Marked(vc[c].n, "available", vc[c].old)
  /\ vc' = [vc EXCEPT ![c].pc = "look", ![c].data = vc[c].new, ![c].run = ""]
  /\ UNCHANGED <<nextVersion, archived, main, token, calls, versionFaults, parallel>>

\* The main key is there: the artifact's row, the quota and the audit follow.
RollSettle(c) ==
  /\ VAt(c, "settle") /\ VEnds(c)
  /\ UNCHANGED <<nextVersion, version, archived, main, token, calls, versionFaults, parallel>>

\* The except clause of rollback puts the old object back, through the wrapper too.
Restore(c) ==
  /\ VAt(c, "restore")
  /\ vc' = [vc EXCEPT ![c].pc = "look", ![c].data = vc[c].old, ![c].run = "", ![c].op = "put"]
  /\ UNCHANGED <<nextVersion, version, archived, main, token, calls, versionFaults, parallel>>

-----------------------------------------------------------------------------
(* Failures *)

\* A step of a call raises.  A put that fails between its record and the mark marks the
\* record failed; a rollback restores; the rest ends where it is.
StepFails(c) ==
  /\ versionFaults < MaxVersionFaults /\ ~VAt(c, "idle")
  /\ versionFaults' = versionFaults + 1
  /\ version' = IF vc[c].pc \in {"main", "copy"} /\ version[vc[c].n].status # "absent"
                THEN [version EXCEPT ![vc[c].n].status = "failed"] ELSE version
  /\ IF vc[c].op = "roll" /\ vc[c].pc \notin {"read", "fetch"} THEN VGoes(c, "restore") ELSE VEnds(c)
  /\ parallel' = [parallel EXCEPT !.purge = @ \/ vc[c].op = "purge"]
  /\ UNCHANGED <<nextVersion, archived, main, token, calls>>

\* The process ends: with it the calls and the tokens.
ProcessEnds ==
  /\ versionFaults < MaxVersionFaults /\ Busy
  /\ versionFaults' = versionFaults + 1
  /\ vc' = [c \in Caller |-> VIdle]
  /\ token' = {}
  /\ parallel' = [parallel EXCEPT !.purge = @ \/ \E c \in Caller : vc[c].op = "purge"]
  /\ UNCHANGED <<nextVersion, version, archived, main, calls>>

VersionNext ==
  \/ \E c \in Caller :
       \/ Put(c) \/ PutStream(c) \/ PutLook(c) \/ PutNumber(c) \/ PutPending(c) \/ PutMain(c)
       \/ PutCopy(c) \/ PutMark(c) \/ PutPrune(c) \/ PutDrop(c)
       \/ Delete(c) \/ DeleteList(c) \/ DeleteVersion(c) \/ Retention(c) \/ Unlink(c) \/ Forget(c)
       \/ Sweep(c) \/ SweptObjects(c) \/ SweptRecords(c) \/ Reconcile(c) \/ Reconciled(c)
       \/ Rollback(c) \/ RollRead(c) \/ RollFetch(c) \/ RollNumber(c) \/ RollPending(c) \/ RollCopy(c)
       \/ RollMark(c) \/ RollSettle(c) \/ Restore(c) \/ StepFails(c)
  \/ \E n \in Number : Preview(n)
  \/ ProcessEnds

VersionSpec == VersionInit /\ [][VersionNext]_versionVars

-----------------------------------------------------------------------------
\* Overlapping puts, rollbacks, prunes and sweeps, failures and restarts included: what
\* the version list offers can be read, and is what was put under that number, as long as
\* no delete, retention or reconciliation has overlapped another call or failed half way.
\* (_put_versioned, rollback, prune_versions, version_sweep_once)
AvailableIsReadable ==
  ~parallel.purge /\ (\A c \in Caller : vc[c].op # "purge") =>
    \A n \in Available : version[n].copy => archived[n] = version[n].sha /\ archived[n] # None

\* One call after the other and none failing: between two calls the newest version is the
\* object readers get, unless that version has been deleted
NewestIsMain ==
  ~Busy /\ ~parallel.calls /\ ~parallel.bypass /\ versionFaults = 0 /\ nextVersion \in Available
    => main = version[nextVersion].sha

\* A rollback that runs alone leaves the content it replaced as one of the versions, provided
\* that at least two are kept.
RollbackLosesNothing ==
  [][\A c \in Caller :
       vc[c].op = "roll" /\ vc[c].pc = "settle" /\ vc'[c].pc = "idle" /\ ~parallel.calls
         => \E n \in Available' : archived'[n] = vc[c].old]_versionVars

\* One call after the other, the newest version is what readers get (none failing), and a rollback
\* loses nothing.  (VersionManager.put and delete, and rollback, whose heading promises it)
SerialVersions == []NewestIsMain /\ RollbackLosesNothing
=============================================================================
