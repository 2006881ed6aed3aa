--------------------------- MODULE MCEventStream ---------------------------
(* A small instance of EventStream: one user, two executions. *)
EXTENDS EventStream
=============================================================================
