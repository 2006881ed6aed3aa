----------------------------- MODULE MCTaskQueue -----------------------------
(* Small instances of TaskQueue.  The two-node template is a supervisor and an *)
(* approval; the three-node one has a plain node between them, as the shipped  *)
(* templates do.  No shipped template gives depends_on, so Deps is empty.      *)
EXTENDS TaskQueue

MCHitl2 == {2}
MCHitl3 == {3}
MCAsk == {1}
MCDeps == [n \in Node |-> {}]
=============================================================================
