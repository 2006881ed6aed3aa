----------------------------- MODULE MCArtifactTx -----------------------------
(* Small instances of ArtifactTx: two files, one flat and one in a directory.   *)
EXTENDS ArtifactTx

\* One client, one call after the other.
MCOne == [c \in Caller |-> Kind \ {"sweep"}]

\* A client, and beside it the TTL sweep or another request that stages.
MCShared == [c \in Caller |-> IF c = "client" THEN Kind \ {"sweep"} ELSE {"stage", "sweep"}]
=============================================================================
