------------------------------ MODULE Backends ------------------------------
(***************************************************************************)
(* One key of the object store as the two backends keep it.  LocalBackend  *)
(* has up to three files for a key: the hot one, a copy moved to _cold by  *)
(* archive_cold, and one from before the upgrade; a read takes the first   *)
(* there is.  S3Backend has one object and writes it by way of a temporary *)
(* one.  Local calls on bytes have no await and are one step; a streamed   *)
(* write and every S3 request may be interleaved with anything.            *)
(*                                                                         *)
(* Simplifications, by name.                                               *)
(*  - mode "new" writes another key and is not told apart here.            *)
(*  - A move's source is a key of its own, which nobody else writes.       *)
(*  - Fail is any error of the disk or of S3, Die the end of the process;  *)
(*    ST_TMP_MAX_AGE is longer than any write takes.                       *)
(***************************************************************************)
EXTENDS Contents, Naturals

CONSTANTS
  Client,         \* operations that may be under way at the same time
  MaxOperations,  \* bound: operations in a behaviour
  MaxStoreFaults  \* bound: failures

ASSUME BackendBounds == MaxOperations \in Nat /\ MaxStoreFaults \in Nat

VARIABLES
  store,      \* the configured backend
  hot,        \* the file at the key, or S3's object
  cold,       \* the file under _cold
  legacy,     \* the file of the old layout
  temporary,  \* the temporary file or object of each operation
  multipart,  \* operations with a multipart upload S3 still keeps open
  io,         \* what each operation is doing
  seenHeld,   \* contents the key has had (history)
  operations, \* operations begun
  storeFaults \* failures so far

backendVars == <<store, hot, cold, legacy, temporary, multipart, io, seenHeld, operations, storeFaults>>

\* _resolve_read.
Visible == IF hot # None THEN hot ELSE IF cold # None THEN cold ELSE legacy

IoIdle == [pc |-> "idle", op |-> "none", data |-> None, mode |-> "overwrite", stream |-> FALSE]
Io == [pc : {"idle", "asked", "reading", "filling", "sending", "parts", "copying", "cleaning"},
       op : {"none", "write", "move", "delete", "read"}, data : Maybe,
       mode : {"overwrite", "no_overwrite"}, stream : BOOLEAN]

BackendTypeOK ==
  /\ store \in {"local", "s3"}
  /\ {hot, cold, legacy} \subseteq Maybe
  /\ temporary \in [Client -> Maybe \cup {"partial"}]
  /\ multipart \subseteq Client
  /\ io \in [Client -> Io]
  /\ seenHeld \subseteq Content
  /\ operations \in 0 .. MaxOperations
  /\ storeFaults \in 0 .. MaxStoreFaults

BackendInit ==
  /\ store \in {"local", "s3"}
  /\ hot = None /\ cold = None
  /\ legacy \in (IF store = "local" THEN Maybe ELSE {None})
  /\ temporary = [c \in Client |-> None]
  /\ multipart = {}
  /\ io = [c \in Client |-> IoIdle]
  /\ seenHeld = {legacy} \ {None}
  /\ operations = 0 /\ storeFaults = 0

-----------------------------------------------------------------------------
IoAt(c, pc) == io[c].pc = pc
IoGoes(c, pc) == io' = [io EXCEPT ![c].pc = pc]
IoEnds(c) == io' = [io EXCEPT ![c] = IoIdle]
HotBecomes(c) == hot' = io[c].data /\ seenHeld' = seenHeld \cup {io[c].data}

Ask(c) ==
  /\ IoAt(c, "idle") /\ operations < MaxOperations
  /\ operations' = operations + 1
  /\ \/ \E d \in Content, m \in {"overwrite", "no_overwrite"}, s \in BOOLEAN :
          io' = [io EXCEPT ![c] = [pc |-> "asked", op |-> "write", data |-> d, mode |-> m, stream |-> s]]
     \/ \E d \in Content : io' = [io EXCEPT ![c] = [IoIdle EXCEPT !.pc = "asked", !.op = "move", !.data = d]]
     \/ \E op \in {"delete", "read"} : io' = [io EXCEPT ![c] = [IoIdle EXCEPT !.pc = "asked", !.op = op]]
  /\ UNCHANGED <<store, hot, cold, legacy, temporary, multipart, seenHeld, storeFaults>>

\* get, stream, size, fingerprint and exists: the file is opened, or S3 asked, in one step.
\* What is opened is what is read, whatever takes its place meanwhile.
Open(c) ==
  /\ IoAt(c, "asked") /\ io[c].op = "read"
  /\ io' = [io EXCEPT ![c].pc = "reading", ![c].data = Visible]
  /\ UNCHANGED <<store, hot, cold, legacy, temporary, multipart, seenHeld, operations, storeFaults>>
Close(c) ==
  /\ IoAt(c, "reading") /\ IoEnds(c)
  /\ UNCHANGED <<store, hot, cold, legacy, temporary, multipart, seenHeld, operations, storeFaults>>

\* put on the local disk, up to its first await: the mode is checked against the hot
\* file alone; bytes are written and renamed at once, a stream begins to fill a
\* temporary file.
LocalRefuses(c) == io[c].mode = "no_overwrite" /\ hot # None
LocalWrite(c) ==
  /\ store = "local" /\ IoAt(c, "asked") /\ io[c].op = "write"
  /\ \/ LocalRefuses(c) /\ IoEnds(c) /\ UNCHANGED <<hot, seenHeld, temporary>>
     \/ ~LocalRefuses(c) /\ ~io[c].stream /\ HotBecomes(c) /\ IoEnds(c) /\ UNCHANGED temporary
     \/ /\ ~LocalRefuses(c) /\ io[c].stream /\ IoGoes(c, "filling")
        /\ temporary' = [temporary EXCEPT ![c] = "partial"]
        /\ UNCHANGED <<hot, seenHeld>>
  /\ UNCHANGED <<store, cold, legacy, multipart, operations, storeFaults>>

\* os.replace at the end of the stream.
LocalReplace(c) ==
  /\ IoAt(c, "filling") /\ HotBecomes(c) /\ IoEnds(c)
  /\ temporary' = [temporary EXCEPT ![c] = None]
  /\ UNCHANGED <<store, cold, legacy, multipart, operations, storeFaults>>

LocalMove(c) ==
  /\ store = "local" /\ IoAt(c, "asked") /\ io[c].op = "move"
  /\ HotBecomes(c) /\ IoEnds(c)
  /\ UNCHANGED <<store, cold, legacy, temporary, multipart, operations, storeFaults>>

\* delete removes the one file a read would have found.
LocalDelete(c) ==
  /\ store = "local" /\ IoAt(c, "asked") /\ io[c].op = "delete"
  /\ hot' = None
  /\ cold' = IF hot = None THEN None ELSE cold
  /\ legacy' = IF hot = None /\ cold = None THEN None ELSE legacy
  /\ IoEnds(c)
  /\ UNCHANGED <<store, temporary, multipart, seenHeld, operations, storeFaults>>

\* archive_cold: the hot file replaces what was archived before; S3 only changes the
\* storage class.
Archive ==
  /\ store = "local" /\ hot # None
  /\ cold' = hot /\ hot' = None
  /\ UNCHANGED <<store, legacy, temporary, multipart, io, seenHeld, operations, storeFaults>>

\* cleanup_tmp removes what a dead write left on the disk.  On S3 it asks list for the
\* temporary keys, and list leaves those out: nothing is removed.
CleanupTmp(c) ==
  /\ store = "local" /\ IoAt(c, "idle") /\ temporary[c] # None
  /\ temporary' = [temporary EXCEPT ![c] = None]
  /\ UNCHANGED <<store, hot, cold, legacy, multipart, io, seenHeld, operations, storeFaults>>

-----------------------------------------------------------------------------
\* S3 put: the mode is checked by a request of its own.
S3Head(c) ==
  /\ store = "s3" /\ IoAt(c, "asked") /\ io[c].op = "write"
  /\ IF io[c].mode = "no_overwrite" /\ hot # None THEN IoEnds(c) ELSE IoGoes(c, "sending")
  /\ UNCHANGED <<store, hot, cold, legacy, temporary, multipart, seenHeld, operations, storeFaults>>

\* _write_atomic: the temporary object in one request, or in parts.
\* Mutant: bytes go to the key itself, and the temporary object is not waited for.
S3SendInPlace(c) ==
  /\ IoAt(c, "sending") /\ hot' \in Content /\ IoGoes(c, "copying")
  /\ UNCHANGED <<store, cold, legacy, temporary, multipart, seenHeld, operations, storeFaults>>
S3Send(c) ==
  /\ IoAt(c, "sending")
  /\ IF io[c].stream
     THEN multipart' = multipart \cup {c} /\ IoGoes(c, "parts") /\ UNCHANGED temporary
     ELSE temporary' = [temporary EXCEPT ![c] = io[c].data] /\ IoGoes(c, "copying") /\ UNCHANGED multipart
  /\ UNCHANGED <<store, hot, cold, legacy, seenHeld, operations, storeFaults>>

S3Complete(c) ==
  /\ IoAt(c, "parts")
  /\ multipart' = multipart \ {c}
  /\ temporary' = [temporary EXCEPT ![c] = io[c].data]
  /\ IoGoes(c, "copying")
  /\ UNCHANGED <<store, hot, cold, legacy, seenHeld, operations, storeFaults>>

\* copy_object to the key, of a written or of a moved object.
S3Copy(c) ==
  /\ \/ IoAt(c, "copying")
     \/ store = "s3" /\ IoAt(c, "asked") /\ io[c].op = "move"
  /\ HotBecomes(c) /\ IoGoes(c, "cleaning")
  /\ UNCHANGED <<store, cold, legacy, temporary, multipart, operations, storeFaults>>

\* delete_object of the temporary object, or of a move's source.
S3Clean(c) ==
  /\ IoAt(c, "cleaning")
  /\ temporary' = [temporary EXCEPT ![c] = None]
  /\ IoEnds(c)
  /\ UNCHANGED <<store, hot, cold, legacy, multipart, seenHeld, operations, storeFaults>>

S3Delete(c) ==
  /\ store = "s3" /\ IoAt(c, "asked") /\ io[c].op = "delete"
  /\ hot' = None /\ IoEnds(c)
  /\ UNCHANGED <<store, cold, legacy, temporary, multipart, seenHeld, operations, storeFaults>>

-----------------------------------------------------------------------------
\* A step fails: the except clauses remove the temporary file or object and abort the
\* upload, which may fail as well on S3.
Fail(c) ==
  /\ ~IoAt(c, "idle") /\ storeFaults < MaxStoreFaults
  /\ storeFaults' = storeFaults + 1 /\ IoEnds(c)
  /\ \/ temporary' = [temporary EXCEPT ![c] = None] /\ multipart' = multipart \ {c}
     \/ store = "s3" /\ UNCHANGED <<temporary, multipart>>
  /\ UNCHANGED <<store, hot, cold, legacy, seenHeld, operations>>

\* The process ends: what is temporary stays.
Die(c) ==
  /\ ~IoAt(c, "idle") /\ storeFaults < MaxStoreFaults
  /\ storeFaults' = storeFaults + 1 /\ IoEnds(c)
  /\ UNCHANGED <<store, hot, cold, legacy, temporary, multipart, seenHeld, operations>>

BackendNext ==
  \/ Archive
  \/ \E c \in Client :
       \/ Ask(c) \/ Open(c) \/ Close(c)
       \/ LocalWrite(c) \/ LocalReplace(c) \/ LocalMove(c) \/ LocalDelete(c) \/ CleanupTmp(c)
       \/ S3Head(c) \/ S3Send(c) \/ S3Complete(c) \/ S3Copy(c) \/ S3Clean(c) \/ S3Delete(c)
       \/ Fail(c) \/ Die(c)

BackendSpec == BackendInit /\ [][BackendNext]_backendVars

-----------------------------------------------------------------------------
\* What a client has asked for and what has not taken effect.
AskedOf(c) ==
  IF io[c].pc \in {"idle", "reading", "cleaning"} THEN [op |-> "none", data |-> None]
  ELSE IF io[c].op \in {"delete", "read"} THEN [op |-> io[c].op, data |-> None]
  ELSE [op |-> "write", data |-> io[c].data]

Store == INSTANCE ObjectStore
           WITH object <- Visible, held <- seenHeld, asked <- [c \in Client |-> AskedOf(c)],
                answer <- [c \in Client |-> IF IoAt(c, "reading") THEN io[c].data ELSE None]

\* Both backends implement the store the other modules rely on: whatever fails or is
\* interleaved, a reader of the key sees a write entirely or not at all, an archived
\* file is still the same object, nothing but an asked operation changes it, and a read
\* answers what one moment held.
\* (put, get, stream, move, delete and archive_cold of storage/local.py and storage/s3.py)
StoreImplemented == Store!ObjectSpec
=============================================================================
