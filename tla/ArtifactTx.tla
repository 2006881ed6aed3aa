------------------------------ MODULE ArtifactTx ------------------------------
(***************************************************************************)
(* The artifact batch of storage/governance.py: files are staged under     *)
(* artifacts/_tx/, published together by tx_commit or thrown away by       *)
(* tx_rollback, which the TTL sweep calls as well.  A batch lives in three *)
(* places that no transaction spans: the object store, the artifacts and   *)
(* artifact_tx rows, and the owner's quota.  Every repository call commits *)
(* on its own, so every commit and every storage call is a step here.      *)
(*                                                                         *)
(* One batch, one owner.  Callers are the requests and the sweep at work   *)
(* on it; nothing in the code excludes any of them while another runs.     *)
(*                                                                         *)
(* Simplifications, by name.                                               *)
(*  - Governance, quota and transactions are switched on; deduplication is *)
(*    off (its default) and encryption only changes sizes.                 *)
(*  - The TTL is not timed: the sweep may take up any pending batch.       *)
(*  - Fail is any exception out of a step that nothing catches, and the    *)
(*    end of the process: both leave what was done so far.                 *)
(***************************************************************************)
EXTENDS Integers, FiniteSets, FiniteSetsExt

CONSTANTS
  File,       \* the paths staged in the batch
  Nested,     \* the paths among them with one directory, d/f; others have none
  Size,       \* the sizes a file is staged with
  Estimate,   \* estimated_bytes of the request that opens the batch
  Limit,      \* QUOTA_TOTAL_MAX_BYTES, 0 for none
  Elsewhere,  \* bytes the owner uses outside the batch
  Caller,     \* requests and sweeps at work at the same time
  Can,        \* the calls each of them makes
  MaxStages,  \* bound: files staged in a behaviour
  MaxFaults   \* bound: calls that fail

Kind == {"open", "stage", "commit", "rollback", "sweep"}

ASSUME BatchAssumption ==
  /\ Nested \subseteq File
  /\ Size \subseteq Nat \ {0}
  /\ Estimate \in Nat /\ Limit \in Nat /\ Elsewhere \in Nat
  /\ Can \in [Caller -> SUBSET Kind]
  /\ MaxStages \in Nat /\ MaxFaults \in Nat

VARIABLES
  tx,        \* artifact_tx.status; "absent" until the row is inserted
  reserved,  \* artifact_tx.reserved_bytes
  known,     \* has the client been told the batch's id
  used,      \* quota_usage.used_bytes of the owner
  row,       \* artifacts: the row of each path; id 0 for none
  obj,       \* the store: size of the object at each place of a path, 0 for none
  call,      \* what each caller is doing
  stages,    \* files staged so far; ids of their rows
  faults     \* failures so far

vars == <<tx, reserved, known, used, row, obj, call, stages, faults>>

\* Where a path's object is: under _tx, at its own key, or at the key that
\* _final_from_staging makes of a key that is not under _tx.
Place == {"staging", "final", "stray"}

Row == [id : 0 .. MaxStages, status : {"absent", "pending", "available"},
        place : Place, size : Nat]
NoRow == [id |-> 0, status |-> "absent", place |-> "staging", size |-> 0]

\* A row as a caller has read it.
Seen == [file : File, id : 0 .. MaxStages, place : Place, size : Nat]

Pc == {"idle", "unreserve", "insert", "mark", "put", "record",
       "list", "move", "rekey", "publish", "close", "settle",
       "rlist", "erase", "drop", "rclose", "refund"}

\* The rows a call has listed, those it still has to do, the one it is at, and
\* reserved_bytes as it has read it.
Call == [pc : Pc, seen : SUBSET Seen, todo : SUBSET Seen, hand : SUBSET Seen, reserved : Nat]
Idle == [pc |-> "idle", seen |-> {}, todo |-> {}, hand |-> {}, reserved |-> 0]

TypeOK ==
  /\ tx \in {"absent", "pending", "committed", "rolled_back"}
  /\ reserved \in {0, Estimate}
  /\ known \in BOOLEAN
  /\ used \in Nat
  /\ row \in [File -> Row]
  /\ obj \in [File -> [Place -> {0} \cup Size]]
  /\ call \in [Caller -> Call]
  /\ stages \in 0 .. MaxStages
  /\ faults \in 0 .. MaxFaults

Init ==
  /\ tx = "absent"
  /\ reserved = 0
  /\ known = FALSE
  /\ used = Elsewhere
  /\ row = [f \in File |-> NoRow]
  /\ obj = [f \in File |-> [p \in Place |-> 0]]
  /\ call = [c \in Caller |-> Idle]
  /\ stages = 0
  /\ faults = 0

-----------------------------------------------------------------------------
(* Helpers *)

At(c, pc) == call[c].pc = pc

\* bump_quota: never below zero.  Mutant: the floor is gone.
BumpBelowZero(delta) == used' = used + delta
Bump(delta) == used' = IF used + delta > 0 THEN used + delta ELSE 0

\* tx.status == "pending", as commit reads it.  Mutant: another status passes too.
NotYetCommitted == tx \notin {"absent", "committed"}
StillPending == tx = "pending"

AsSeen(f) == [file |-> f, id |-> row[f].id, place |-> row[f].place, size |-> row[f].size]

\* list_tx_staged: the pending rows.  Mutant: those still under _tx.
UnmovedRows == {AsSeen(f) : f \in {g \in File : row[g].status = "pending" /\ row[g].place = "staging"}}
StagedRows  == {AsSeen(f) : f \in {g \in File : row[g].status = "pending"}}

\* artifacts_in_tx: all rows.
AllRows == {AsSeen(f) : f \in {g \in File : row[g].status # "absent"}}

\* Does the row that was read still exist.
Exists(a) == row[a.file].id = a.id

\* tx_rollback erases only objects under _tx.  Mutants: all of them, none of them.
ErasesAny(a)  == TRUE
ErasesNone(a) == FALSE
Erases(a)     == a.place = "staging"

\* _final_from_staging cuts a prefix of fixed length off whatever key it gets:
\* a path with a directory yields a key elsewhere, a flat one an exception.
Movable(a) == a.place = "staging" \/ (a.place = "final" /\ a.file \in Nested)
Target(a)  == IF a.place = "staging" THEN "final" ELSE "stray"

\* What is settled at the end of a commit.  Mutant: the reservation is kept.
SettleAll(c) == MapThenSumSet(LAMBDA a : a.size, call[c].seen)
Settlement(c) == MapThenSumSet(LAMBDA a : a.size, call[c].seen) - call[c].reserved

Goto(c, pc) == call' = [call EXCEPT ![c].pc = pc]
Return(c) == call' = [call EXCEPT ![c] = Idle]

-----------------------------------------------------------------------------
(* tx_open: reserve (and take it back over the limit), insert, note it down. *)

OpenReserve(c) ==
  /\ At(c, "idle") /\ "open" \in Can[c]
  /\ tx = "absent" /\ \A d \in Caller : At(d, "idle")
  /\ Bump(Estimate)
  /\ Goto(c, IF Limit > 0 /\ Estimate > 0 /\ used' > Limit THEN "unreserve" ELSE "insert")
  /\ UNCHANGED <<tx, reserved, known, row, obj, stages, faults>>

OpenUnreserve(c) ==
  /\ At(c, "unreserve")
  /\ Bump(-Estimate)
  /\ Return(c)
  /\ UNCHANGED <<tx, reserved, known, row, obj, stages, faults>>

OpenInsert(c) ==
  /\ At(c, "insert")
  /\ tx' = "pending"
  /\ IF Estimate > 0
     THEN Goto(c, "mark") /\ UNCHANGED known
     ELSE Return(c) /\ known' = TRUE
  /\ UNCHANGED <<reserved, used, row, obj, stages, faults>>

OpenMark(c) ==
  /\ At(c, "mark")
  /\ reserved' = Estimate
  /\ known' = TRUE
  /\ Return(c)
  /\ UNCHANGED <<tx, used, row, obj, stages, faults>>

-----------------------------------------------------------------------------
(* tx_stage_write: status read, object put, row recorded. *)

StageBegin(c) ==
  /\ At(c, "idle") /\ "stage" \in Can[c]
  /\ known /\ tx = "pending"
  /\ stages < MaxStages
  /\ stages' = stages + 1
  /\ \E f \in File, s \in Size :
       call' = [call EXCEPT ![c].pc = "put",
                  ![c].hand = {[file |-> f, id |-> stages', place |-> "staging", size |-> s]}]
  /\ UNCHANGED <<tx, reserved, known, used, row, obj, faults>>

StagePut(c) ==
  /\ At(c, "put")
  /\ \E a \in call[c].hand : obj' = [obj EXCEPT ![a.file]["staging"] = a.size]
  /\ Goto(c, "record")
  /\ UNCHANGED <<tx, reserved, known, used, row, stages, faults>>

\* Task, path and version are unique: a path staged before is refused here,
\* after its object has been replaced.
StageRecord(c) ==
  /\ At(c, "record")
  /\ \E a \in call[c].hand :
       row' = IF row[a.file].status = "absent"
              THEN [row EXCEPT ![a.file] = [id |-> a.id, status |-> "pending",
                                            place |-> "staging", size |-> a.size]]
              ELSE row
  /\ Return(c)
  /\ UNCHANGED <<tx, reserved, known, used, obj, stages, faults>>

-----------------------------------------------------------------------------
(* tx_commit.  Phase 1 moves every object and writes its new key into the row, *)
(* phase 2 makes the rows available, closes the batch and settles the quota.   *)

CommitBegin(c) ==
  /\ At(c, "idle") /\ "commit" \in Can[c]
  /\ known /\ StillPending
  /\ call' = [call EXCEPT ![c].pc = "list", ![c].reserved = reserved]
  /\ UNCHANGED <<tx, reserved, known, used, row, obj, stages, faults>>

CommitList(c) ==
  /\ At(c, "list")
  /\ call' = [call EXCEPT ![c].pc = "move", ![c].seen = StagedRows, ![c].todo = StagedRows]
  /\ UNCHANGED <<tx, reserved, known, used, row, obj, stages, faults>>

\* A row's object is moved, over whatever is there; writing the row is the next
\* step.  No object, or no key to move it to, is an exception.
CommitMove(c) ==
  /\ At(c, "move")
  /\ \/ /\ call[c].todo = {}
        /\ call' = [call EXCEPT ![c].pc = "publish", ![c].todo = call[c].seen]
        /\ UNCHANGED obj
     \/ \E a \in call[c].todo :
          IF Movable(a) /\ obj[a.file][a.place] # 0
          THEN /\ obj' = [obj EXCEPT ![a.file][Target(a)] = obj[a.file][a.place],
                                     ![a.file][a.place] = 0]
               /\ call' = [call EXCEPT ![c].pc = "rekey", ![c].hand = {a},
                                       ![c].todo = @ \ {a}]
          ELSE Return(c) /\ UNCHANGED obj
  /\ UNCHANGED <<tx, reserved, known, used, row, stages, faults>>

CommitRekey(c) ==
  /\ At(c, "rekey")
  /\ \E a \in call[c].hand :
       row' = IF Exists(a)
              THEN [row EXCEPT ![a.file].place = Target(a), ![a.file].status = "pending"]
              ELSE row
  /\ Goto(c, "move")
  /\ UNCHANGED <<tx, reserved, known, used, obj, stages, faults>>

\* One commit for each row: update_artifact_status commits by itself.
CommitPublish(c) ==
  /\ At(c, "publish")
  /\ \/ /\ call[c].todo = {}
        /\ Goto(c, "close")
        /\ UNCHANGED row
     \/ \E a \in call[c].todo :
          /\ row' = IF Exists(a) THEN [row EXCEPT ![a.file].status = "available"] ELSE row
          /\ call' = [call EXCEPT ![c].todo = @ \ {a}]
  /\ UNCHANGED <<tx, reserved, known, used, obj, stages, faults>>

CommitClose(c) ==
  /\ At(c, "close")
  /\ tx' = "committed"
  /\ Goto(c, "settle")
  /\ UNCHANGED <<reserved, known, used, row, obj, stages, faults>>

CommitSettle(c) ==
  /\ At(c, "settle")
  /\ Bump(Settlement(c))
  /\ Return(c)
  /\ UNCHANGED <<tx, reserved, known, row, obj, stages, faults>>

-----------------------------------------------------------------------------
(* tx_rollback, by the user or by tx_sweep_expired, which needs no id.        *)

RollbackBegin(c) ==
  /\ At(c, "idle")
  /\ \/ "rollback" \in Can[c] /\ known
     \/ "sweep" \in Can[c] /\ \A d \in Caller : ~At(d, "mark")   \* old enough
  /\ tx = "pending"
  /\ call' = [call EXCEPT ![c].pc = "rlist", ![c].reserved = reserved]
  /\ UNCHANGED <<tx, reserved, known, used, row, obj, stages, faults>>

RollbackList(c) ==
  /\ At(c, "rlist")
  /\ call' = [call EXCEPT ![c].pc = "erase", ![c].todo = AllRows]
  /\ UNCHANGED <<tx, reserved, known, used, row, obj, stages, faults>>

\* The object of a row that was still staged when it was listed.  The store may
\* refuse: that is suppressed, and the row deleted all the same.
RollbackErase(c) ==
  /\ At(c, "erase")
  /\ \/ /\ call[c].todo = {}
        /\ Goto(c, "rclose")
        /\ UNCHANGED <<obj, faults>>
     \/ \E a \in call[c].todo :
          /\ call' = [call EXCEPT ![c].pc = "drop", ![c].hand = {a}, ![c].todo = @ \ {a}]
          /\ \/ /\ obj' = IF Erases(a) THEN [obj EXCEPT ![a.file][a.place] = 0] ELSE obj
                /\ UNCHANGED faults
             \/ /\ Erases(a) /\ faults < MaxFaults
                /\ faults' = faults + 1
                /\ UNCHANGED obj
  /\ UNCHANGED <<tx, reserved, known, used, row, stages>>

RollbackDrop(c) ==
  /\ At(c, "drop")
  /\ \E a \in call[c].hand :
       row' = IF Exists(a) THEN [row EXCEPT ![a.file] = NoRow] ELSE row
  /\ Goto(c, "erase")
  /\ UNCHANGED <<tx, reserved, known, used, obj, stages, faults>>

\* Mutant: the status is not written.
RollbackCloseForgotten(c) ==
  /\ At(c, "rclose")
  /\ Goto(c, "refund")
  /\ UNCHANGED <<tx, reserved, known, used, row, obj, stages, faults>>

RollbackClose(c) ==
  /\ At(c, "rclose")
  /\ tx' = "rolled_back"
  /\ Goto(c, "refund")
  /\ UNCHANGED <<reserved, known, used, row, obj, stages, faults>>

RollbackRefund(c) ==
  /\ At(c, "refund")
  /\ Bump(-call[c].reserved)
  /\ Return(c)
  /\ UNCHANGED <<tx, reserved, known, row, obj, stages, faults>>

-----------------------------------------------------------------------------

Fail(c) ==
  /\ ~At(c, "idle")
  /\ faults < MaxFaults
  /\ faults' = faults + 1
  /\ Return(c)
  /\ UNCHANGED <<tx, reserved, known, used, row, obj, stages>>

Open(c) == OpenReserve(c) \/ OpenUnreserve(c) \/ OpenInsert(c) \/ OpenMark(c)

Stage(c) == StageBegin(c) \/ StagePut(c) \/ StageRecord(c)

Commit(c) ==
  \/ CommitBegin(c) \/ CommitList(c) \/ CommitMove(c) \/ CommitRekey(c)
  \/ CommitPublish(c) \/ CommitClose(c) \/ CommitSettle(c)

Rollback(c) ==
  \/ RollbackBegin(c) \/ RollbackList(c) \/ RollbackErase(c) \/ RollbackDrop(c)
  \/ RollbackClose(c) \/ RollbackRefund(c)

Next == \E c \in Caller : Open(c) \/ Stage(c) \/ Commit(c) \/ Rollback(c) \/ Fail(c)

\* A call that was begun goes on, and the sweep comes round every interval;
\* nobody has to begin any other call.
Fairness ==
  \A c \in Caller :
    /\ WF_vars(~At(c, "idle") /\ (Open(c) \/ Stage(c) \/ Commit(c) \/ Rollback(c)))
    /\ WF_vars("sweep" \in Can[c] /\ Rollback(c))

Spec == Init /\ [][Next]_vars
FairSpec == Spec /\ Fairness

-----------------------------------------------------------------------------
(* Properties that hold.                                                     *)

AtRest == \A c \in Caller : At(c, "idle")

Visible == {f \in File : row[f].status = "available"}
Bytes(S) == MapThenSumSet(LAMBDA f : row[f].size, S)

\* Whatever fails and whoever sweeps or rolls back meanwhile, a file that readers
\* can see has an object behind it at the key its row names (objects are moved
\* before rows are published, and rollback erases nothing that has been moved).
\* It needs that no two commits of the batch overlap.
VisibleHasObject == \A f \in Visible : obj[f][row[f].place] # 0

\* Calls one after the other, and none has failed: the quota in use is what is
\* visible and, while the batch is open, what it has reserved.
QuotaExact ==
  AtRest /\ faults = 0 =>
    used = Elsewhere + Bytes(Visible) + (IF tx = "pending" THEN reserved ELSE 0)

\* Calls one after the other, and none has failed: a batch that was rolled back
\* leaves no row and no object.
RolledBackClean ==
  AtRest /\ faults = 0 /\ tx = "rolled_back" =>
    /\ \A f \in File : row[f] = NoRow
    /\ \A f \in File, p \in Place : obj[f][p] = 0

\* Calls one after the other, any of them failing half way and tried again: a
\* committed batch has no file left that readers cannot see.
CommittedComplete == tx = "committed" => \A f \in File : row[f].status # "pending"

\* Calls one after the other: a batch is closed once, and for good.
ClosedForGood ==
  [][(tx \in {"committed", "rolled_back"}) => tx' = tx]_vars

\* The sweep sees to it that no batch stays open.
NeverStuckOpen == (tx = "pending") ~> (tx # "pending")
=============================================================================
