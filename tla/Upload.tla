------------------------------- MODULE Upload -------------------------------
(***************************************************************************)
(* Resumable uploads to one path (api/upload.py) and the browser's loop    *)
(* that drives them (client/src/lib/upload.ts): init finds or makes the    *)
(* upload, chunks are put one after the other from where it stands, commit *)
(* puts them together at the artifact's key.  The server keeps no lock:    *)
(* an upload is a .meta object and one object per chunk in the store, and  *)
(* every request reads and writes them in steps of its own.                *)
(*                                                                         *)
(* Simplifications, by name.                                               *)
(*  - All files have the same size, so that two of them differ in their    *)
(*    MD5 only; the caller may declare the MD5 or, as the page does, not.  *)
(*  - Deduplication is off (its default), the quota and the free disk are  *)
(*    large enough, permissions hold.                                      *)
(*  - Listing and deleting the objects of one upload is one step.          *)
(*  - The store is ObjectStore's: a put is whole or not at all.            *)
(***************************************************************************)
EXTENDS Contents, Naturals

CONSTANTS
  Uploader,    \* browsers at work on the path
  Chunks,      \* chunks of a file
  MaxUploads,  \* bound: uploads begun by init
  MaxInits     \* bound: init requests

ASSUME UploadBounds == Chunks \in Nat /\ MaxUploads \in Nat /\ MaxInits \in Nat

Chunk == 1 .. Chunks
UploadId == 1 .. MaxUploads

VARIABLES
  sealed,    \* ARTIFACT_ENCRYPT_ENABLED
  meta,      \* the .meta object of each upload
  part,      \* the chunk objects of each upload
  stored,    \* the object at the artifact's key, chunk by chunk
  described, \* the contents the artifact's row describes (its sha256)
  begun,     \* uploads begun
  inits,     \* init requests made
  up         \* what each browser and the request it waits for are doing

uploadVars == <<sealed, meta, part, stored, described, begun, inits, up>>

Bytes == [Chunk -> Maybe]
Empty == [i \in Chunk |-> None]
Whole(f) == [i \in Chunk |-> f]

Meta == [there : BOOLEAN, md5 : Maybe, stale : BOOLEAN]
NoMeta == [there |-> FALSE, md5 |-> None, stale |-> FALSE]

UploadPc == {"idle", "init", "scan", "create", "ready", "chunk", "bump", "bumping",
             "check", "hash", "place", "seal", "record", "answer"}
Up == [pc : UploadPc, file : Maybe, md5 : Maybe, id : 0 .. MaxUploads, at : 1 .. Chunks + 1,
       doomed : SUBSET UploadId, hash : Bytes, placed : Bytes]
UpIdle == [pc |-> "idle", file |-> None, md5 |-> None, id |-> 0, at |-> 1,
           doomed |-> {}, hash |-> Empty, placed |-> Empty]

UploadTypeOK ==
  /\ sealed \in BOOLEAN
  /\ meta \in [UploadId -> Meta] /\ part \in [UploadId -> Bytes]
  /\ {stored, described} \subseteq Bytes
  /\ begun \in 0 .. MaxUploads /\ inits \in 0 .. MaxInits
  /\ up \in [Uploader -> Up]

UploadInit ==
  /\ sealed \in BOOLEAN
  /\ meta = [u \in UploadId |-> NoMeta]
  /\ part = [u \in UploadId |-> Empty]
  /\ stored = Empty /\ described = Empty
  /\ begun = 0 /\ inits = 0
  /\ up = [k \in Uploader |-> UpIdle]

-----------------------------------------------------------------------------
UpAt(k, pc) == up[k].pc = pc
UpGoes(k, pc) == up' = [up EXCEPT ![k].pc = pc]
UpStops(k) == up' = [up EXCEPT ![k] = UpIdle]

\* _upload_next_offset: up to the first chunk that is missing.
NextOffset(u) == CHOOSE n \in 1 .. Chunks + 1 :
                   /\ \A i \in Chunk : i < n => part[u][i] # None
                   /\ n \in Chunk => part[u][n] = None

Metas == {u \in UploadId : meta[u].there}

\* The upload init may go on with.  Mutant: the MD5 is not compared.
SameSize(k, u) == u \in Metas
SameSignature(k, u) == u \in Metas /\ meta[u].md5 = up[k].md5

Without(doomed, m, empty) == [u \in UploadId |-> IF u \in doomed THEN empty ELSE m[u]]
Deleted(doomed) == meta' = Without(doomed, meta, NoMeta) /\ part' = Without(doomed, part, Empty)

-----------------------------------------------------------------------------
(* init *)

Choose(k) ==
  /\ UpAt(k, "idle") /\ inits < MaxInits
  /\ inits' = inits + 1
  /\ \E f \in Content : \E m \in {f, None} :
       up' = [up EXCEPT ![k] = [UpIdle EXCEPT !.pc = "init", !.file = f, !.md5 = m]]
  /\ UNCHANGED <<sealed, meta, part, stored, described, begun>>

\* _cleanup_stale_uploads finds what has been idle for too long ...
InitLooks(k) ==
  /\ UpAt(k, "init")
  /\ up' = [up EXCEPT ![k].pc = "scan", ![k].doomed = {u \in Metas : meta[u].stale}]
  /\ UNCHANGED <<sealed, meta, part, stored, described, begun, inits>>

\* ... and deletes it; _scan_active_uploads then reads the others.
InitScan(k) ==
  /\ UpAt(k, "scan")
  /\ Deleted(up[k].doomed)
  /\ LET others == Metas \ up[k].doomed
         mine   == {u \in others : SameSignature(k, u)}
     IN  \/ \E u \in mine :
              up' = [up EXCEPT ![k].pc = "ready", ![k].id = u, ![k].at = NextOffset(u), ![k].doomed = {}]
         \/ mine = {} /\ up' = [up EXCEPT ![k].pc = "create", ![k].doomed = others]
  /\ UNCHANGED <<sealed, stored, described, begun, inits>>

\* Uploads of other files to the path are thrown away, and a new one is made.
InitCreate(k) ==
  /\ UpAt(k, "create") /\ begun < MaxUploads
  /\ LET u == begun + 1 IN
     /\ begun' = u
     /\ part' = Without(up[k].doomed, part, Empty)
     /\ meta' = [Without(up[k].doomed, meta, NoMeta) EXCEPT
                   ![u] = [there |-> TRUE, md5 |-> up[k].md5, stale |-> FALSE]]
     /\ up' = [up EXCEPT ![k].pc = "ready", ![k].id = u, ![k].at = 1, ![k].doomed = {}]
  /\ UNCHANGED <<sealed, stored, described, inits>>

-----------------------------------------------------------------------------
(* chunk *)

ChunkRead(k) ==
  /\ UpAt(k, "ready") /\ up[k].at \in Chunk
  /\ IF meta[up[k].id].there THEN UpGoes(k, "chunk") ELSE UpStops(k)
  /\ UNCHANGED <<sealed, meta, part, stored, described, begun, inits>>

\* Only the next chunk, or one there is already, which is written again if it differs.
ChunkWrite(k) ==
  /\ UpAt(k, "chunk")
  /\ IF up[k].at > NextOffset(up[k].id)
     THEN UpStops(k) /\ UNCHANGED part
     ELSE UpGoes(k, "bump") /\ part' = [part EXCEPT ![up[k].id][up[k].at] = up[k].file]
  /\ UNCHANGED <<sealed, meta, stored, described, begun, inits>>

\* _bump_upload_active reads .meta and writes it back: a .meta deleted in between is there
\* again.
BumpRead(k) ==
  /\ UpAt(k, "bump")
  /\ IF meta[up[k].id].there THEN UpGoes(k, "bumping") ELSE UpStops(k)
  /\ UNCHANGED <<sealed, meta, part, stored, described, begun, inits>>

BumpWrite(k) ==
  /\ UpAt(k, "bumping")
  /\ meta' = [meta EXCEPT ![up[k].id] = [there |-> TRUE, md5 |-> up[k].md5, stale |-> FALSE]]
  /\ up' = [up EXCEPT ![k].pc = "ready", ![k].at = @ + 1]
  /\ UNCHANGED <<sealed, part, stored, described, begun, inits>>

-----------------------------------------------------------------------------
(* commit *)

CommitRead(k) ==
  /\ UpAt(k, "ready") /\ up[k].at = Chunks + 1
  /\ IF meta[up[k].id].there THEN UpGoes(k, "check") ELSE UpStops(k)
  /\ UNCHANGED <<sealed, meta, part, stored, described, begun, inits>>

CommitCheck(k) ==
  /\ UpAt(k, "check")
  /\ IF NextOffset(up[k].id) # Chunks + 1 THEN UpStops(k)
     ELSE UpGoes(k, IF sealed THEN "seal" ELSE "hash")
  /\ UNCHANGED <<sealed, meta, part, stored, described, begun, inits>>

\* The chunks as _concat streams them; a missing one is an error.
Streamable(k) == \A i \in Chunk : part[up[k].id][i] # None
Digest(k) == part[up[k].id]
Md5Fits(k) == up[k].md5 # None => Digest(k) = Whole(up[k].md5)

\* First the chunks are read for their hashes ...
CommitHash(k) ==
  /\ UpAt(k, "hash")
  /\ IF Streamable(k) /\ Md5Fits(k)
     THEN up' = [up EXCEPT ![k].pc = "place", ![k].hash = Digest(k)]
     ELSE UpStops(k)
  /\ UNCHANGED <<sealed, meta, part, stored, described, begun, inits>>

\* ... then once more to be put at the artifact's key.
CommitPlace(k) ==
  /\ UpAt(k, "place")
  /\ IF Streamable(k)
     THEN /\ stored' = Digest(k)
          /\ up' = [up EXCEPT ![k].pc = "record", ![k].placed = Digest(k)]
     ELSE UpStops(k) /\ UNCHANGED stored
  /\ UNCHANGED <<sealed, meta, part, described, begun, inits>>

\* With encryption there is one pass, and the MD5 is looked at when the object is already
\* in place.
CommitSeal(k) ==
  /\ UpAt(k, "seal")
  /\ IF Streamable(k)
     THEN /\ stored' = Digest(k)
          /\ IF Md5Fits(k)
             THEN up' = [up EXCEPT ![k].pc = "record", ![k].hash = Digest(k), ![k].placed = Digest(k)]
             ELSE UpStops(k)
     ELSE UpStops(k) /\ UNCHANGED stored
  /\ UNCHANGED <<sealed, meta, part, described, begun, inits>>

\* The artifact's row; if it cannot be written the object is deleted again.
CommitRecord(k) ==
  /\ UpAt(k, "record")
  /\ \/ described' = up[k].hash /\ UpGoes(k, "answer") /\ UNCHANGED stored
     \/ stored' = Empty /\ UpStops(k) /\ UNCHANGED described
  /\ UNCHANGED <<sealed, meta, part, begun, inits>>

\* _delete_upload, and 200 to the browser.
CommitAnswer(k) ==
  /\ UpAt(k, "answer")
  /\ Deleted({up[k].id})
  /\ UpStops(k)
  /\ UNCHANGED <<sealed, stored, described, begun, inits>>

-----------------------------------------------------------------------------
(* Everything else *)

Cancel(k) ==
  /\ UpAt(k, "ready")
  /\ IF meta[up[k].id].there THEN Deleted({up[k].id}) ELSE UNCHANGED <<meta, part>>
  /\ UpStops(k)
  /\ UNCHANGED <<sealed, stored, described, begun, inits>>

\* The browser goes away, or a request fails on the way; what it has put stays.
Leave(k) ==
  /\ UpAt(k, "ready") /\ UpStops(k)
  /\ UNCHANGED <<sealed, meta, part, stored, described, begun, inits>>

\* UPLOAD_TTL passes.
GrowStale(u) ==
  /\ meta[u].there /\ ~meta[u].stale
  /\ meta' = [meta EXCEPT ![u].stale = TRUE]
  /\ UNCHANGED <<sealed, part, stored, described, begun, inits, up>>

UploadNext ==
  \/ \E k \in Uploader :
       \/ Choose(k) \/ InitLooks(k) \/ InitScan(k) \/ InitCreate(k)
       \/ ChunkRead(k) \/ ChunkWrite(k) \/ BumpRead(k) \/ BumpWrite(k)
       \/ CommitRead(k) \/ CommitCheck(k) \/ CommitHash(k) \/ CommitPlace(k) \/ CommitSeal(k)
       \/ CommitRecord(k) \/ CommitAnswer(k) \/ Cancel(k) \/ Leave(k)
  \/ \E u \in UploadId : GrowStale(u)

UploadSpec == UploadInit /\ [][UploadNext]_uploadVars

-----------------------------------------------------------------------------
\* Whoever else uploads to the path, cancels, resumes or cleans up in the meantime: a
\* browser that declared its MD5 is only told that its upload is committed when what was
\* put at the key is its own file from the first chunk to the last, and its hash is the
\* one recorded.  The chunks are read twice, and another request may write them between
\* the two; only the signature compared by init keeps a different file away.
\* (upload_init, upload_chunk, upload_commit of api/upload.py)
DeclaredIsStored ==
  \A k \in Uploader :
    up[k].pc = "answer" /\ up[k].md5 # None =>
      up[k].placed = Whole(up[k].file) /\ up[k].hash = Whole(up[k].file)
=============================================================================
