---------------------------- MODULE Storage_proofs ----------------------------
(***************************************************************************)
(* Proofs about the storage components and the client's view of them: the  *)
(* two backends implement the object store; uploads, versions, downloads,  *)
(* keys, restores, switches and the page of a task keep what they promise. *)
(***************************************************************************)
EXTENDS Backends, Upload, Versions, Keys, Tiers, GovSync, Download, TaskPage,
        FiniteSetTheorems, WellFoundedInduction, TLAPS

-----------------------------------------------------------------------------
(* The backends implement the object store *)

\* The contents under a key have all been seen there, and S3 has one object for it.
FilesSeen ==
  /\ {hot, cold, legacy} \subseteq seenHeld \cup {None}
  /\ store = "s3" => cold = None /\ legacy = None
\* What an operation does suits what was asked: a write or a move has something to write, and what is
\* under way in the disk or in S3 is a write.
Purposeful(o) ==
  /\ o.pc \in {"filling", "sending", "parts", "copying"} => o.op = "write"
  /\ o.pc = "asked" => o.op # "none"
  /\ o.pc \in {"asked", "filling", "sending", "parts", "copying"} /\ o.op \in {"write", "move"}
       => o.data \in Content
BackendIInv == BackendTypeOK /\ FilesSeen /\ \A c \in Client : Purposeful(io[c])

LEMMA IoIdleFits == IoIdle \in Io /\ Purposeful(IoIdle)
BY DEF IoIdle, Io, Maybe, Purposeful

\* One operation moves on, and the rest of them stays.
LEMMA IoMoves ==
  ASSUME BackendIInv, NEW c \in Client, NEW o \in Io, Purposeful(o), io' = [io EXCEPT ![c] = o]
  PROVE  /\ io' \in [Client -> Io] /\ \A d \in Client : Purposeful(io'[d])
         /\ io'[c] = o /\ \A d \in Client \ {c} : io'[d] = io[d]
BY DEF BackendIInv, BackendTypeOK

\* A step of an operation that changes no file.
LEMMA QuietKeeps ==
  ASSUME BackendIInv, NEW c \in Client, NEW o \in Io, Purposeful(o), io' = [io EXCEPT ![c] = o],
         UNCHANGED <<store, hot, cold, legacy, seenHeld>>,
         temporary' \in [Client -> Maybe \cup {"partial"}], multipart' \subseteq Client,
         operations' \in 0 .. MaxOperations, storeFaults' \in 0 .. MaxStoreFaults
  PROVE  BackendIInv'
<1>1. io' \in [Client -> Io] /\ \A d \in Client : Purposeful(io'[d])
  BY IoMoves
<1>2. BackendTypeOK' /\ FilesSeen'
  BY <1>1 DEF BackendIInv, BackendTypeOK, FilesSeen
<1> QED BY <1>1, <1>2 DEF BackendIInv

\* A step that puts the contents an operation brought at the key.
LEMMA HotKeeps ==
  ASSUME BackendIInv, NEW c \in Client, NEW o \in Io, Purposeful(o), io' = [io EXCEPT ![c] = o],
         HotBecomes(c), io[c].data \in Content,
         UNCHANGED <<store, cold, legacy, multipart, operations, storeFaults>>,
         temporary' \in [Client -> Maybe \cup {"partial"}]
  PROVE  BackendIInv'
<1>1. io' \in [Client -> Io] /\ \A d \in Client : Purposeful(io'[d])
  BY IoMoves
<1>2. hot' \in Maybe /\ hot' \in seenHeld' /\ seenHeld \subseteq seenHeld' /\ seenHeld' \subseteq Content
  BY DEF HotBecomes, Maybe, BackendIInv, BackendTypeOK
<1>3. BackendTypeOK' /\ FilesSeen'
  BY <1>1, <1>2 DEF BackendIInv, BackendTypeOK, FilesSeen
<1> QED BY <1>1, <1>3 DEF BackendIInv

LEMMA AskReadKeep ==
  ASSUME BackendIInv, NEW c \in Client, Ask(c) \/ Open(c) \/ Close(c)
  PROVE  BackendIInv'
<1> USE DEF BackendIInv
<1>1. CASE Ask(c)
  <2>1. PICK o \in Io : Purposeful(o) /\ io' = [io EXCEPT ![c] = o]
    <3>1. ASSUME NEW d \in Content, NEW m \in {"overwrite", "no_overwrite"}, NEW s \in BOOLEAN,
                 io' = [io EXCEPT ![c] = [pc |-> "asked", op |-> "write", data |-> d, mode |-> m, stream |-> s]]
          PROVE  \E o \in Io : Purposeful(o) /\ io' = [io EXCEPT ![c] = o]
      BY <3>1 DEF Io, Maybe, Purposeful
    <3>2. ASSUME NEW d \in Content,
                 io' = [io EXCEPT ![c] = [IoIdle EXCEPT !.pc = "asked", !.op = "move", !.data = d]]
          PROVE  \E o \in Io : Purposeful(o) /\ io' = [io EXCEPT ![c] = o]
      BY <3>2 DEF Io, IoIdle, Maybe, Purposeful
    <3>3. ASSUME NEW op \in {"delete", "read"},
                 io' = [io EXCEPT ![c] = [IoIdle EXCEPT !.pc = "asked", !.op = op]]
          PROVE  \E o \in Io : Purposeful(o) /\ io' = [io EXCEPT ![c] = o]
      BY <3>3 DEF Io, IoIdle, Maybe, Purposeful
    <3> QED BY <1>1, <3>1, <3>2, <3>3 DEF Ask
  <2>2. operations' \in 0 .. MaxOperations
    <3>1. operations < MaxOperations /\ operations' = operations + 1
      BY <1>1 DEF Ask
    <3> QED BY <3>1, BackendBounds DEF BackendTypeOK
  <2> QED BY <1>1, <2>1, <2>2, QuietKeeps DEF Ask, BackendTypeOK
<1>2. CASE Open(c)
  <2> DEFINE o == [io[c] EXCEPT !.pc = "reading", !.data = Visible]
  <2>1. io[c] \in Io /\ Visible \in Maybe /\ io[c].op = "read"
    BY <1>2 DEF BackendTypeOK, Visible, Open
  <2>2. o \in Io /\ Purposeful(o)
    BY <2>1 DEF Io, Purposeful
  <2>3. io' = [io EXCEPT ![c] = o]
    BY <1>2 DEF Open, BackendTypeOK
  <2> QED BY <1>2, <2>2, <2>3, QuietKeeps DEF Open, BackendTypeOK
<1>3. CASE Close(c)
  BY <1>3, IoIdleFits, QuietKeeps DEF Close, IoEnds, BackendTypeOK
<1> QED BY <1>1, <1>2, <1>3

\* Where an operation goes on to, with what it carries.
LEMMA IoGoesFits ==
  ASSUME BackendIInv, NEW c \in Client, NEW pc \in {"filling", "sending", "parts", "copying", "cleaning"},
         IoGoes(c, pc), pc = "cleaning" \/ (io[c].op = "write" /\ io[c].data \in Content)
  PROVE  \E o \in Io : Purposeful(o) /\ io' = [io EXCEPT ![c] = o]
<1> DEFINE o == [io[c] EXCEPT !.pc = pc]
<1>1. io[c] \in Io
  BY DEF BackendIInv, BackendTypeOK
<1>2. o \in Io /\ Purposeful(o)
  BY <1>1 DEF Io, Purposeful
<1>3. io' = [io EXCEPT ![c] = o]
  BY DEF IoGoes, BackendIInv, BackendTypeOK
<1> QED BY <1>2, <1>3

\* What is written, moved or on its way has contents.
LEMMA HasData ==
  ASSUME BackendIInv, NEW c \in Client,
         \/ IoAt(c, "asked") /\ io[c].op \in {"write", "move"}
         \/ IoAt(c, "filling") \/ IoAt(c, "sending") \/ IoAt(c, "parts") \/ IoAt(c, "copying")
  PROVE  /\ io[c].data \in Content /\ io[c].data \in Maybe
         /\ ~IoAt(c, "asked") => io[c].op = "write"
BY DEF BackendIInv, Purposeful, IoAt, Maybe

LEMMA TemporaryTyped ==
  ASSUME BackendIInv, NEW c \in Client, NEW x \in Maybe \cup {"partial"},
         temporary' = temporary \/ temporary' = [temporary EXCEPT ![c] = x]
  PROVE  temporary' \in [Client -> Maybe \cup {"partial"}]
BY DEF BackendIInv, BackendTypeOK

LEMMA LocalKeeps ==
  ASSUME BackendIInv, NEW c \in Client,
         LocalWrite(c) \/ LocalReplace(c) \/ LocalMove(c) \/ LocalDelete(c) \/ CleanupTmp(c)
  PROVE  BackendIInv'
<1>1. None \in Maybe \cup {"partial"} /\ "partial" \in Maybe \cup {"partial"}
  BY DEF Maybe
<1>2. CASE LocalWrite(c)
  <2>1. io[c].data \in Content /\ io[c].op = "write" /\ temporary' \in [Client -> Maybe \cup {"partial"}]
    BY <1>1, <1>2, HasData, TemporaryTyped DEF LocalWrite
  <2>2. CASE IoEnds(c) /\ UNCHANGED <<hot, seenHeld>>
    BY <1>2, <2>1, <2>2, IoIdleFits, QuietKeeps DEF LocalWrite, IoEnds, BackendIInv, BackendTypeOK
  <2>3. CASE IoEnds(c) /\ HotBecomes(c)
    BY <1>2, <2>1, <2>3, IoIdleFits, HotKeeps DEF LocalWrite, IoEnds
  <2>4. CASE IoGoes(c, "filling") /\ UNCHANGED <<hot, seenHeld>>
    <3>1. PICK o \in Io : Purposeful(o) /\ io' = [io EXCEPT ![c] = o]
      BY <2>1, <2>4, IoGoesFits
    <3> QED BY <1>2, <2>1, <2>4, <3>1, QuietKeeps DEF LocalWrite, BackendIInv, BackendTypeOK
  <2> QED BY <1>2, <2>2, <2>3, <2>4 DEF LocalWrite
<1>3. CASE LocalReplace(c)
  <2>1. io[c].data \in Content /\ temporary' \in [Client -> Maybe \cup {"partial"}]
    BY <1>1, <1>3, HasData, TemporaryTyped DEF LocalReplace
  <2> QED BY <1>3, <2>1, IoIdleFits, HotKeeps DEF LocalReplace, IoEnds
<1>4. CASE LocalMove(c)
  <2>1. io[c].data \in Content /\ temporary' \in [Client -> Maybe \cup {"partial"}]
    BY <1>1, <1>4, HasData, TemporaryTyped DEF LocalMove
  <2> QED BY <1>4, <2>1, IoIdleFits, HotKeeps DEF LocalMove, IoEnds
<1>5. CASE LocalDelete(c)
  <2>1. io' \in [Client -> Io] /\ \A d \in Client : Purposeful(io'[d])
    BY <1>5, IoIdleFits, IoMoves DEF LocalDelete, IoEnds
  <2>2. BackendTypeOK' /\ FilesSeen'
    BY <1>5, <2>1 DEF LocalDelete, BackendIInv, BackendTypeOK, FilesSeen, Maybe
  <2> QED BY <2>1, <2>2 DEF BackendIInv
<1>6. CASE CleanupTmp(c)
  <2>1. temporary' \in [Client -> Maybe \cup {"partial"}]
    BY <1>1, <1>6, TemporaryTyped DEF CleanupTmp
  <2> QED BY <1>6, <2>1 DEF CleanupTmp, BackendIInv, BackendTypeOK, FilesSeen
<1> QED BY <1>2, <1>3, <1>4, <1>5, <1>6

LEMMA ArchiveKeeps ==
  ASSUME BackendIInv, Archive
  PROVE  BackendIInv'
BY DEF Archive, BackendIInv, BackendTypeOK, FilesSeen, Maybe

LEMMA S3Keeps ==
  ASSUME BackendIInv, NEW c \in Client,
         S3Head(c) \/ S3Send(c) \/ S3Complete(c) \/ S3Copy(c) \/ S3Clean(c) \/ S3Delete(c)
  PROVE  BackendIInv'
<1>1. None \in Maybe \cup {"partial"} /\ Maybe \subseteq Maybe \cup {"partial"}
  BY DEF Maybe
<1>2. CASE S3Head(c)
  <2>1. io[c].data \in Content /\ io[c].op = "write"
    BY <1>2, HasData DEF S3Head
  <2>2. PICK o \in Io : Purposeful(o) /\ io' = [io EXCEPT ![c] = o]
    BY <1>2, <2>1, IoIdleFits, IoGoesFits DEF S3Head, IoEnds
  <2> QED BY <1>2, <2>2, QuietKeeps DEF S3Head, BackendIInv, BackendTypeOK
<1>3. CASE S3Send(c)
  <2>1. io[c].data \in Content /\ io[c].data \in Maybe /\ io[c].op = "write"
    BY <1>3, HasData DEF S3Send, IoAt
  <2>2. PICK o \in Io : Purposeful(o) /\ io' = [io EXCEPT ![c] = o]
    BY <1>3, <2>1, IoGoesFits DEF S3Send
  <2>3. temporary' \in [Client -> Maybe \cup {"partial"}] /\ multipart' \subseteq Client
    BY <1>1, <1>3, <2>1, TemporaryTyped DEF S3Send, BackendIInv, BackendTypeOK
  <2> QED BY <1>3, <2>2, <2>3, QuietKeeps DEF S3Send, BackendIInv, BackendTypeOK
<1>4. CASE S3Complete(c)
  <2>1. io[c].data \in Content /\ io[c].data \in Maybe /\ io[c].op = "write"
    BY <1>4, HasData DEF S3Complete, IoAt
  <2>2. PICK o \in Io : Purposeful(o) /\ io' = [io EXCEPT ![c] = o]
    BY <1>4, <2>1, IoGoesFits DEF S3Complete
  <2>3. temporary' \in [Client -> Maybe \cup {"partial"}] /\ multipart' \subseteq Client
    BY <1>1, <1>4, <2>1, TemporaryTyped DEF S3Complete, BackendIInv, BackendTypeOK
  <2> QED BY <1>4, <2>2, <2>3, QuietKeeps DEF S3Complete, BackendIInv, BackendTypeOK
<1>5. CASE S3Copy(c)
  <2>1. io[c].data \in Content
    BY <1>5, HasData DEF S3Copy
  <2>2. PICK o \in Io : Purposeful(o) /\ io' = [io EXCEPT ![c] = o]
    BY <1>5, IoGoesFits DEF S3Copy
  <2> QED BY <1>5, <2>1, <2>2, HotKeeps DEF S3Copy, BackendIInv, BackendTypeOK
<1>6. CASE S3Clean(c)
  <2>1. temporary' \in [Client -> Maybe \cup {"partial"}]
    BY <1>1, <1>6, TemporaryTyped DEF S3Clean
  <2> QED BY <1>6, <2>1, IoIdleFits, QuietKeeps DEF S3Clean, IoEnds, BackendIInv, BackendTypeOK
<1>7. CASE S3Delete(c)
  <2>1. io' \in [Client -> Io] /\ \A d \in Client : Purposeful(io'[d])
    BY <1>7, IoIdleFits, IoMoves DEF S3Delete, IoEnds
  <2>2. BackendTypeOK' /\ FilesSeen'
    BY <1>7, <2>1 DEF S3Delete, BackendIInv, BackendTypeOK, FilesSeen, Maybe
  <2> QED BY <2>1, <2>2 DEF BackendIInv
<1> QED BY <1>2, <1>3, <1>4, <1>5, <1>6, <1>7

LEMMA BreakKeeps ==
  ASSUME BackendIInv, NEW c \in Client, Fail(c) \/ Die(c)
  PROVE  BackendIInv'
<1>1. None \in Maybe \cup {"partial"}
  BY DEF Maybe
<1>2. temporary' \in [Client -> Maybe \cup {"partial"}] /\ multipart' \subseteq Client
  BY <1>1, TemporaryTyped DEF Fail, Die, BackendIInv, BackendTypeOK
<1>3. storeFaults' \in 0 .. MaxStoreFaults
  BY BackendBounds DEF Fail, Die, BackendIInv, BackendTypeOK
<1> QED BY <1>2, <1>3, IoIdleFits, QuietKeeps DEF Fail, Die, IoEnds, BackendIInv, BackendTypeOK

LEMMA BackendInitInv ==
  ASSUME BackendInit
  PROVE  BackendIInv
BY IoIdleFits, BackendBounds DEF BackendInit, BackendIInv, BackendTypeOK, FilesSeen, Maybe

LEMMA BackendStepInv ==
  ASSUME BackendIInv, [BackendNext]_backendVars
  PROVE  BackendIInv'
<1>1. CASE UNCHANGED backendVars
  BY <1>1 DEF backendVars, BackendIInv, BackendTypeOK, FilesSeen
<1> QED BY <1>1, AskReadKeep, LocalKeeps, ArchiveKeeps, S3Keeps, BreakKeeps DEF BackendNext

\* Whatever contents, clients and bounds there are, the state of both backends keeps its types.
\* (storage/local.py, storage/s3.py)
THEOREM BackendTypeCorrect == BackendSpec => []BackendTypeOK
<1>1. BackendSpec => []BackendIInv
  BY BackendInitInv, BackendStepInv, PTL DEF BackendSpec
<1> QED BY <1>1, PTL DEF BackendIInv

\* What the store's callers see: nothing of what an operation is at but what it has asked for and what
\* it is being answered.
Asked == [c \in Client |-> AskedOf(c)]
AnswerOf(c) == IF IoAt(c, "reading") THEN io[c].data ELSE None
Answer == [c \in Client |-> AnswerOf(c)]

\* One operation moves on; what the others have asked for and are answered stays.
LEMMA SeenMoves ==
  ASSUME BackendIInv, NEW c \in Client, NEW o \in Io, io' = [io EXCEPT ![c] = o]
  PROVE  /\ Asked' = [Asked EXCEPT ![c] = AskedOf(c)']
         /\ Answer' = [Answer EXCEPT ![c] = AnswerOf(c)']
<1>1. io'[c] = o /\ \A d \in Client \ {c} : io'[d] = io[d]
  BY DEF BackendIInv, BackendTypeOK
<1>2. \A d \in Client \ {c} : AskedOf(d)' = AskedOf(d) /\ AnswerOf(d)' = AnswerOf(d)
  BY <1>1 DEF AskedOf, AnswerOf, IoAt
<1> QED BY <1>2 DEF Asked, Answer

\* What an operation has asked for, by where it is.
LEMMA AskedWhat ==
  ASSUME BackendIInv, NEW c \in Client
  PROVE  /\ IoAt(c, "idle") \/ IoAt(c, "reading") \/ IoAt(c, "cleaning") <=> AskedOf(c) = Store!Nothing
         /\ IoAt(c, "filling") \/ IoAt(c, "sending") \/ IoAt(c, "parts") \/ IoAt(c, "copying")
              => AskedOf(c) = [op |-> "write", data |-> io[c].data]
         /\ IoAt(c, "asked") /\ io[c].op \in {"write", "move"}
              => AskedOf(c) = [op |-> "write", data |-> io[c].data]
         /\ IoAt(c, "asked") /\ io[c].op \in {"delete", "read"} => AskedOf(c) = [op |-> io[c].op, data |-> None]
         /\ AskedOf(c) # Store!Nothing => AskedOf(c) \in Store!Requests
<1>1. io[c] \in Io /\ Purposeful(io[c])
  BY DEF BackendIInv, BackendTypeOK
<1>2. CASE io[c].pc \in {"idle", "reading", "cleaning"}
  BY <1>1, <1>2 DEF AskedOf, IoAt, Store!Nothing
<1>3. CASE io[c].pc \in {"asked", "filling", "sending", "parts", "copying"}
  <2>1. CASE io[c].op \in {"delete", "read"}
    <3>1. AskedOf(c) = [op |-> io[c].op, data |-> None] /\ io[c].pc = "asked"
      BY <1>1, <1>3, <2>1 DEF AskedOf, Purposeful
    <3> QED BY <2>1, <3>1 DEF IoAt, Store!Nothing, Store!Requests
  <2>2. CASE io[c].op \in {"write", "move"}
    <3>1. AskedOf(c) = [op |-> "write", data |-> io[c].data] /\ io[c].data \in Content
      BY <1>1, <1>3, <2>2 DEF AskedOf, Purposeful
    <3>2. AskedOf(c) \in Store!Requests /\ AskedOf(c) # Store!Nothing
      BY <3>1 DEF Store!Requests, Store!Nothing
    <3> QED BY <1>3, <2>2, <3>1, <3>2 DEF IoAt
  <2> QED BY <1>1, <1>3, <2>1, <2>2 DEF Io, Purposeful
<1> QED BY <1>1, <1>2, <1>3 DEF Io

LEMMA ReadingAnswers ==
  ASSUME BackendIInv, NEW c \in Client
  PROVE  IoAt(c, "reading") => AskedOf(c) = Store!Nothing
BY DEF IoAt, AskedOf, Store!Nothing

Quiet == UNCHANGED <<Visible, seenHeld, Asked, Answer>>
StoreStep == Store!ObjectNext \/ Quiet

\* An operation that leaves the store without having changed it: what it asked for is refused, or what
\* it was answered has been given.
LEMMA LeavesStore ==
  ASSUME BackendIInv, NEW c \in Client, IoEnds(c), UNCHANGED <<hot, cold, legacy, seenHeld>>
  PROVE  StoreStep
<1>1. Visible' = Visible /\ seenHeld' = seenHeld
  BY DEF Visible
<1>2. io'[c] = IoIdle /\ io' = [io EXCEPT ![c] = IoIdle]
  BY DEF IoEnds, BackendIInv, BackendTypeOK
<1>3. AskedOf(c)' = Store!Nothing /\ AnswerOf(c)' = None
  BY <1>2 DEF AskedOf, AnswerOf, IoAt, IoIdle, Store!Nothing
<1>4. Asked' = [Asked EXCEPT ![c] = Store!Nothing] /\ Answer' = [Answer EXCEPT ![c] = None]
  BY <1>2, <1>3, SeenMoves, IoIdleFits
<1>5. CASE AskedOf(c) = Store!Nothing
  <2>1. Asked' = Asked
    BY <1>4, <1>5 DEF Asked
  <2> QED BY <1>1, <1>4, <2>1 DEF StoreStep, Store!ObjectNext, Store!Answered, Asked, Answer, AnswerOf
<1>6. CASE AskedOf(c) # Store!Nothing
  <2>1. ~IoAt(c, "reading")
    BY <1>6, ReadingAnswers
  <2>2. Answer' = Answer /\ Asked[c] = AskedOf(c)
    BY <1>4, <2>1 DEF Answer, AnswerOf, Asked
  <2> QED BY <1>1, <1>4, <1>6, <2>2 DEF StoreStep, Store!ObjectNext, Store!Refused, Asked, Answer, AnswerOf
<1> QED BY <1>5, <1>6

\* An operation that goes on towards its write: nobody sees it.
LEMMA GoesUnseen ==
  ASSUME BackendIInv, NEW c \in Client, NEW pc \in {"filling", "sending", "parts", "copying"}, IoGoes(c, pc),
         io[c].op = "write", ~IoAt(c, "reading"), ~IoAt(c, "idle"), ~IoAt(c, "cleaning"),
         UNCHANGED <<hot, cold, legacy, seenHeld>>
  PROVE  StoreStep
<1> DEFINE o == [io[c] EXCEPT !.pc = pc]
<1>1. io[c] \in Io /\ o \in Io /\ io' = [io EXCEPT ![c] = o] /\ io'[c] = o
  BY DEF IoGoes, BackendIInv, BackendTypeOK, Io
<1>2. o.pc = pc /\ o.op = "write" /\ o.data = io[c].data
  BY <1>1 DEF Io
<1>3. AskedOf(c)' = AskedOf(c) /\ AnswerOf(c)' = AnswerOf(c)
  BY <1>1, <1>2 DEF AskedOf, AnswerOf, IoAt
<1>4. Asked' = Asked /\ Answer' = Answer
  BY <1>1, <1>3, SeenMoves DEF Asked, Answer
<1>5. Visible' = Visible
  BY DEF Visible
<1> QED BY <1>4, <1>5 DEF StoreStep, Quiet

\* A write or a move takes effect.
LEMMA WriteSeen ==
  ASSUME BackendIInv, NEW c \in Client, HotBecomes(c), UNCHANGED <<cold, legacy>>,
         io[c].data \in Content, AskedOf(c) = [op |-> "write", data |-> io[c].data],
         ~IoAt(c, "reading"), IoEnds(c) \/ IoGoes(c, "cleaning")
  PROVE  StoreStep
<1>1. PICK o \in Io : io' = [io EXCEPT ![c] = o] /\ io'[c] = o /\ o.pc \in {"idle", "cleaning"}
  <2>1. CASE IoEnds(c)
    BY <2>1, IoIdleFits DEF IoEnds, IoIdle, BackendIInv, BackendTypeOK
  <2>2. CASE IoGoes(c, "cleaning")
    <3> DEFINE o == [io[c] EXCEPT !.pc = "cleaning"]
    <3>1. io[c] \in Io /\ o \in Io /\ o.pc = "cleaning" /\ io' = [io EXCEPT ![c] = o] /\ io'[c] = o
      BY <2>2 DEF IoGoes, BackendIInv, BackendTypeOK, Io
    <3> QED BY <3>1
  <2> QED BY <2>1, <2>2
<1>2. AskedOf(c)' = Store!Nothing /\ AnswerOf(c)' = None /\ AnswerOf(c) = None
  BY <1>1 DEF AskedOf, AnswerOf, IoAt, Store!Nothing
<1>3. Asked' = [Asked EXCEPT ![c] = Store!Nothing] /\ Answer' = Answer
  BY <1>1, <1>2, SeenMoves DEF Answer
<1>4. Visible' = io[c].data /\ seenHeld' = seenHeld \cup {io[c].data}
  BY NoneIsNoContent DEF HotBecomes, Visible
<1>5. Asked[c] = [op |-> "write", data |-> io[c].data]
  BY DEF Asked
<1>6. Store!Written(c)
  BY <1>3, <1>4, <1>5 DEF Store!Written, Asked, Answer, AnswerOf
<1> QED BY <1>6 DEF StoreStep, Store!ObjectNext

\* A delete takes effect: what comes to light has stood there before.
LEMMA DeleteSeen ==
  ASSUME BackendIInv, NEW c \in Client, IoAt(c, "asked"), io[c].op = "delete", IoEnds(c),
         Visible' \in seenHeld \cup {None}, seenHeld' = seenHeld
  PROVE  StoreStep
<1>1. io'[c] = IoIdle /\ io' = [io EXCEPT ![c] = IoIdle]
  BY DEF IoEnds, BackendIInv, BackendTypeOK
<1>2. AskedOf(c)' = Store!Nothing /\ AnswerOf(c)' = None /\ AnswerOf(c) = None
  BY <1>1 DEF AskedOf, AnswerOf, IoAt, IoIdle, Store!Nothing
<1>3. Asked' = [Asked EXCEPT ![c] = Store!Nothing] /\ Answer' = Answer
  BY <1>1, <1>2, SeenMoves, IoIdleFits DEF Answer
<1>4. Asked[c].op = "delete"
  BY AskedWhat DEF Asked
<1>5. Store!Deleted(c)
  BY <1>3, <1>4 DEF Store!Deleted, Asked, Answer, AnswerOf
<1> QED BY <1>5 DEF StoreStep, Store!ObjectNext

LEMMA AskSeen ==
  ASSUME BackendIInv, NEW c \in Client, Ask(c)
  PROVE  StoreStep
<1>1. PICK o \in Io : /\ Purposeful(o) /\ o.pc = "asked" /\ io' = [io EXCEPT ![c] = o]
  <2>1. ASSUME NEW d \in Content, NEW m \in {"overwrite", "no_overwrite"}, NEW s \in BOOLEAN,
               io' = [io EXCEPT ![c] = [pc |-> "asked", op |-> "write", data |-> d, mode |-> m, stream |-> s]]
        PROVE  \E o \in Io : Purposeful(o) /\ o.pc = "asked" /\ io' = [io EXCEPT ![c] = o]
    BY <2>1 DEF Io, Maybe, Purposeful
  <2>2. ASSUME NEW d \in Content,
               io' = [io EXCEPT ![c] = [IoIdle EXCEPT !.pc = "asked", !.op = "move", !.data = d]]
        PROVE  \E o \in Io : Purposeful(o) /\ o.pc = "asked" /\ io' = [io EXCEPT ![c] = o]
    BY <2>2 DEF Io, IoIdle, Maybe, Purposeful
  <2>3. ASSUME NEW op \in {"delete", "read"},
               io' = [io EXCEPT ![c] = [IoIdle EXCEPT !.pc = "asked", !.op = op]]
        PROVE  \E o \in Io : Purposeful(o) /\ o.pc = "asked" /\ io' = [io EXCEPT ![c] = o]
    BY <2>3 DEF Io, IoIdle, Maybe, Purposeful
  <2> QED BY <2>1, <2>2, <2>3 DEF Ask
<1>2. io'[c] = o
  BY <1>1 DEF BackendIInv, BackendTypeOK
<1>3. AskedOf(c)' \in Store!Requests
  <2>1. CASE o.op \in {"write", "move"}
    <3>1. AskedOf(c)' = [op |-> "write", data |-> o.data] /\ o.data \in Content
      BY <1>1, <1>2, <2>1 DEF AskedOf, Purposeful
    <3> QED BY <3>1 DEF Store!Requests
  <2>2. CASE o.op \in {"delete", "read"}
    <3>1. AskedOf(c)' = [op |-> o.op, data |-> None]
      BY <1>1, <1>2, <2>2 DEF AskedOf
    <3> QED BY <2>2, <3>1 DEF Store!Requests
  <2> QED BY <1>1, <2>1, <2>2 DEF Io, Purposeful
<1>4. AnswerOf(c)' = None /\ AnswerOf(c) = None /\ AskedOf(c) = Store!Nothing
  BY <1>1, <1>2, AskedWhat DEF Ask, AnswerOf, IoAt
<1>5. Asked' = [Asked EXCEPT ![c] = AskedOf(c)'] /\ Answer' = Answer /\ Asked[c] = Store!Nothing
  BY <1>1, <1>4, SeenMoves DEF Answer, Asked
<1>6. Visible' = Visible /\ seenHeld' = seenHeld
  BY DEF Ask, Visible
<1>7. Store!Ask(c)
  BY <1>3, <1>5, <1>6 DEF Store!Ask, Asked, Answer, AnswerOf
<1> QED BY <1>7 DEF StoreStep, Store!ObjectNext

LEMMA OpenSeen ==
  ASSUME BackendIInv, NEW c \in Client, Open(c)
  PROVE  StoreStep
<1> DEFINE o == [io[c] EXCEPT !.pc = "reading", !.data = Visible]
<1>1. io[c] \in Io /\ Visible \in Maybe
  BY DEF BackendIInv, BackendTypeOK, Visible
<1>2. o \in Io /\ io' = [io EXCEPT ![c] = o] /\ io'[c] = o /\ o.pc = "reading" /\ o.data = Visible
  BY <1>1 DEF Open, Io, BackendIInv, BackendTypeOK
<1>3. AskedOf(c)' = Store!Nothing /\ AnswerOf(c)' = Visible
  BY <1>2 DEF AskedOf, AnswerOf, IoAt, Store!Nothing
<1>4. Asked' = [Asked EXCEPT ![c] = Store!Nothing] /\ Answer' = [Answer EXCEPT ![c] = Visible]
  BY <1>2, <1>3, SeenMoves
<1>5. Asked[c].op = "read"
  BY AskedWhat DEF Asked, Open
<1>6. Visible' = Visible /\ seenHeld' = seenHeld
  BY DEF Open, Visible
<1>7. Store!Read(c)
  BY <1>4, <1>5, <1>6 DEF Store!Read, Asked, Answer, AnswerOf
<1> QED BY <1>7 DEF StoreStep, Store!ObjectNext

LEMMA LocalSeen ==
  ASSUME BackendIInv, NEW c \in Client,
         LocalWrite(c) \/ LocalReplace(c) \/ LocalMove(c) \/ LocalDelete(c) \/ CleanupTmp(c)
  PROVE  StoreStep
<1>1. CASE LocalWrite(c)
  <2>1. /\ io[c].data \in Content /\ io[c].op = "write" /\ ~IoAt(c, "reading") /\ ~IoAt(c, "idle")
        /\ ~IoAt(c, "cleaning") /\ AskedOf(c) = [op |-> "write", data |-> io[c].data]
    BY <1>1, HasData, AskedWhat DEF LocalWrite, IoAt
  <2>2. CASE LocalRefuses(c) /\ IoEnds(c) /\ UNCHANGED <<hot, seenHeld, temporary>>
    BY <1>1, <2>2, LeavesStore DEF LocalWrite
  <2>3. CASE HotBecomes(c) /\ IoEnds(c)
    BY <1>1, <2>1, <2>3, WriteSeen DEF LocalWrite
  <2>4. CASE IoGoes(c, "filling") /\ UNCHANGED <<hot, seenHeld>>
    BY <1>1, <2>1, <2>4, GoesUnseen DEF LocalWrite
  <2> QED BY <1>1, <2>2, <2>3, <2>4 DEF LocalWrite
<1>2. CASE LocalReplace(c)
  <2>1. /\ io[c].data \in Content /\ ~IoAt(c, "reading")
        /\ AskedOf(c) = [op |-> "write", data |-> io[c].data]
    BY <1>2, HasData, AskedWhat DEF LocalReplace, IoAt
  <2> QED BY <1>2, <2>1, WriteSeen DEF LocalReplace
<1>3. CASE LocalMove(c)
  <2>1. /\ io[c].data \in Content /\ ~IoAt(c, "reading")
        /\ AskedOf(c) = [op |-> "write", data |-> io[c].data]
    BY <1>3, HasData, AskedWhat DEF LocalMove, IoAt
  <2> QED BY <1>3, <2>1, WriteSeen DEF LocalMove
<1>4. CASE LocalDelete(c)
  <2>1. Visible' \in seenHeld \cup {None}
    BY <1>4 DEF LocalDelete, Visible, BackendIInv, FilesSeen
  <2> QED BY <1>4, <2>1, DeleteSeen DEF LocalDelete
<1>5. CASE CleanupTmp(c)
  BY <1>5 DEF CleanupTmp, StoreStep, Quiet, Visible, Asked, Answer, AskedOf, AnswerOf, IoAt
<1> QED BY <1>1, <1>2, <1>3, <1>4, <1>5

LEMMA S3Seen ==
  ASSUME BackendIInv, NEW c \in Client,
         S3Head(c) \/ S3Send(c) \/ S3Complete(c) \/ S3Copy(c) \/ S3Clean(c) \/ S3Delete(c)
  PROVE  StoreStep
<1>1. CASE S3Head(c)
  <2>1. io[c].op = "write" /\ ~IoAt(c, "reading") /\ ~IoAt(c, "idle") /\ ~IoAt(c, "cleaning")
    BY <1>1 DEF S3Head, IoAt
  <2> QED BY <1>1, <2>1, LeavesStore, GoesUnseen DEF S3Head
<1>2. CASE S3Send(c)
  <2>1. io[c].op = "write" /\ ~IoAt(c, "reading") /\ ~IoAt(c, "idle") /\ ~IoAt(c, "cleaning")
    BY <1>2, HasData DEF S3Send, IoAt
  <2> QED BY <1>2, <2>1, GoesUnseen DEF S3Send
<1>3. CASE S3Complete(c)
  <2>1. io[c].op = "write" /\ ~IoAt(c, "reading") /\ ~IoAt(c, "idle") /\ ~IoAt(c, "cleaning")
    BY <1>3, HasData DEF S3Complete, IoAt
  <2> QED BY <1>3, <2>1, GoesUnseen DEF S3Complete
<1>4. CASE S3Copy(c)
  <2>1. /\ io[c].data \in Content /\ ~IoAt(c, "reading")
        /\ AskedOf(c) = [op |-> "write", data |-> io[c].data]
    BY <1>4, HasData, AskedWhat DEF S3Copy, IoAt
  <2> QED BY <1>4, <2>1, WriteSeen DEF S3Copy
<1>5. CASE S3Clean(c)
  BY <1>5, LeavesStore DEF S3Clean
<1>6. CASE S3Delete(c)
  <2>1. Visible' = None
    BY <1>6 DEF S3Delete, Visible, BackendIInv, FilesSeen
  <2> QED BY <1>6, <2>1, DeleteSeen DEF S3Delete
<1> QED BY <1>1, <1>2, <1>3, <1>4, <1>5, <1>6

LEMMA ArchiveSeen ==
  ASSUME BackendIInv, Archive
  PROVE  StoreStep
BY DEF Archive, StoreStep, Quiet, Visible, Asked, Answer, AskedOf, AnswerOf, IoAt

LEMMA BackendStepSeen ==
  ASSUME BackendIInv, [BackendNext]_backendVars
  PROVE  StoreStep
<1>1. CASE UNCHANGED backendVars
  BY <1>1 DEF backendVars, StoreStep, Quiet, Visible, Asked, Answer, AskedOf, AnswerOf, IoAt
<1>2. ASSUME NEW c \in Client, Close(c) \/ Fail(c) \/ Die(c)
      PROVE  StoreStep
  BY <1>2, LeavesStore DEF Close, Fail, Die
<1> QED BY <1>1, <1>2, AskSeen, OpenSeen, LocalSeen, S3Seen, ArchiveSeen DEF BackendNext

LEMMA BackendInitSeen ==
  ASSUME BackendInit
  PROVE  Store!ObjectInit
<1>1. Visible = legacy /\ legacy \in Maybe
  BY DEF BackendInit, Visible, Maybe
<1>2. \A c \in Client : AskedOf(c) = Store!Nothing /\ ~IoAt(c, "reading")
  BY DEF BackendInit, AskedOf, IoIdle, IoAt, Store!Nothing
<1> QED BY <1>1, <1>2 DEF BackendInit, Store!ObjectInit, Store!Maybe, Maybe

\* Whatever contents, clients and bounds there are, both backends do nothing that the store does not
\* allow: each of their steps, with its failures and deaths, is an operation of the store
\* taking effect at once, or is not seen at all.
\* (put, get, stream, move, delete and archive_cold of storage/local.py and storage/s3.py)
THEOREM BackendsImplementStore == BackendSpec => StoreImplemented
<1>1. ASSUME BackendIInv, [BackendNext]_backendVars
      PROVE  [Store!ObjectNext]_<<Visible, seenHeld, [c \in Client |-> AskedOf(c)],
                                  [c \in Client |-> IF IoAt(c, "reading") THEN io[c].data ELSE None]>>
  BY <1>1, BackendStepSeen DEF StoreStep, Quiet, Asked, Answer, AnswerOf
<1>2. BackendSpec => []BackendIInv
  BY BackendInitInv, BackendStepInv, PTL DEF BackendSpec
<1> QED BY <1>1, <1>2, BackendInitSeen, PTL DEF BackendSpec, StoreImplemented, Store!ObjectSpec

-----------------------------------------------------------------------------
(* The page of a task *)

\* Nothing is on its way to the page that makes it render again.
Rendered == link = "open" /\ wire = <<>> /\ ~due
\* From the last render on, the newest request was asked, and is answered, when the nodes had come at
\* least as far as the page was told.
NewestSuffices ==
  Rendered =>
    /\ outcome = "asked" /\ gets[newest] = "answered" => \A p \in Part : answer[newest][p] >= told[p]
    /\ outcome = "shown" => NothingOlder
ToldHappened == \A p \in Part : told[p] <= status[p]
PageIInv == PageTypeOK /\ ToldHappened /\ NewestSuffices

LEMMA UntouchedTyped == Untouched \in [Part -> Count] /\ \A p \in Part : Untouched[p] = 0
BY PageBounds DEF Untouched, Count

LEMMA CountsTyped ==
  ASSUME PageTypeOK, NEW p \in Part
  PROVE  /\ status[p] \in Nat /\ nodes[p] \in Nat /\ told[p] \in Nat
         /\ \A g \in Get : answer[g] \in [Part -> Count] /\ answer[g][p] \in Nat
BY PageBounds DEF PageTypeOK, Count

\* A step that tells the page nothing and answers nothing.
LEMMA NewestStays ==
  ASSUME NewestSuffices, UNCHANGED <<link, wire, due, nodes, gets, answer, newest, outcome, told>>
  PROVE  NewestSuffices'
<1>1. Rendered' = Rendered /\ NothingOlder' = NothingOlder
  BY DEF Rendered, NothingOlder
<1> QED BY <1>1 DEF NewestSuffices

LEMMA NodeChangesKeeps ==
  ASSUME PageIInv, NEW p \in Part, NEW sent \in BOOLEAN, NodeChanges(p, sent)
  PROVE  PageIInv'
<1>1. /\ status \in [Part -> Count] /\ told \in [Part -> Count] /\ status[p] < MaxChanges
      /\ status' = [status EXCEPT ![p] = status[p] + 1]
      /\ UNCHANGED <<link, due, last, nodes, gets, answer, newest, outcome, faults>>
  BY DEF PageIInv, PageTypeOK, NodeChanges
<1>2. status' \in [Part -> Count] /\ \A q \in Part : status'[q] >= status[q]
  BY <1>1, PageBounds DEF Count
<1>3. CASE sent /\ link = "open"
  <2>1. wire' = Append(wire, [node |-> p, status |-> status'[p]]) /\ told' = status' /\ wire \in Seq(Event)
    BY <1>3 DEF NodeChanges, PageIInv, PageTypeOK
  <2>2. [node |-> p, status |-> status'[p]] \in Event
    BY <1>2 DEF Event
  <2>3. wire' \in Seq(Event) /\ wire' # <<>>
    BY <2>1, <2>2
  <2>4. PageTypeOK'
    BY <1>1, <1>2, <2>1, <2>3 DEF PageIInv, PageTypeOK
  <2>5. ToldHappened'
    BY <1>2, <2>1, PageBounds DEF ToldHappened, Count
  <2> QED BY <2>3, <2>4, <2>5 DEF PageIInv, NewestSuffices, Rendered
<1>4. CASE ~(sent /\ link = "open")
  <2>1. UNCHANGED <<wire, told>>
    BY <1>4 DEF NodeChanges
  <2>2. PageTypeOK'
    BY <1>1, <1>2, <2>1 DEF PageIInv, PageTypeOK
  <2>3. ToldHappened'
    BY <1>1, <1>2, <2>1, PageBounds DEF PageIInv, ToldHappened, Count
  <2>4. NewestSuffices'
    BY <1>1, <2>1, NewestStays DEF PageIInv
  <2> QED BY <2>2, <2>3, <2>4 DEF PageIInv
<1> QED BY <1>3, <1>4

LEMMA RenderKeeps ==
  ASSUME PageIInv, Render
  PROVE  PageIInv'
<1>1. nodes' \in [Part -> Count]
  <2>1. last \in Event \cup {NoEvent} /\ nodes \in [Part -> Count]
    BY DEF PageIInv, PageTypeOK
  <2>2. last # NoEvent => last.node \in Part /\ last.status \in Count
    BY <2>1 DEF Event
  <2> QED BY <2>1, <2>2 DEF Render, Applied
<1>2. CASE Asks
  <2>1. PICK g \in Get : gets' = [gets EXCEPT ![g] = "asked"] /\ newest' = g /\ outcome' = "asked"
    BY <1>2 DEF Render
  <2>2. gets' \in [Get -> {"free", "asked", "answered"}] /\ gets'[newest'] = "asked"
    BY <2>1 DEF PageIInv, PageTypeOK
  <2>3. PageTypeOK'
    BY <1>1, <2>1, <2>2 DEF Render, PageIInv, PageTypeOK
  <2> QED BY <2>1, <2>2, <2>3 DEF Render, PageIInv, ToldHappened, NewestSuffices
<1>3. CASE ~Asks
  <2>1. PageTypeOK'
    BY <1>1, <1>3 DEF Render, PageIInv, PageTypeOK
  <2>2. link' # "open"
    BY <1>3 DEF Render, Asks
  <2> QED BY <2>1, <2>2 DEF Render, PageIInv, ToldHappened, NewestSuffices, Rendered
<1> QED BY <1>2, <1>3

\* What makes the page render again.
LEMMA LinkStepKeeps ==
  ASSUME PageIInv, EventComes \/ LinkOpens \/ LinkCloses
  PROVE  PageIInv'
<1>1. due' = TRUE
  BY DEF EventComes, LinkOpens, LinkCloses
<1>2. wire' \in Seq(Event) /\ last' \in Event \cup {NoEvent}
  <2>1. wire \in Seq(Event)
    BY DEF PageIInv, PageTypeOK
  <2>2. wire # <<>> => Head(wire) \in Event /\ Tail(wire) \in Seq(Event)
    BY <2>1
  <2>3. <<>> \in Seq(Event) /\ last \in Event \cup {NoEvent}
    BY DEF PageIInv, PageTypeOK
  <2>4. CASE EventComes
    BY <2>2, <2>4 DEF EventComes
  <2>5. CASE LinkOpens \/ LinkCloses
    BY <2>1, <2>3, <2>5 DEF LinkOpens, LinkCloses
  <2> QED BY <2>4, <2>5
<1>3. PageTypeOK'
  BY <1>1, <1>2 DEF EventComes, LinkOpens, LinkCloses, PageIInv, PageTypeOK
<1>4. ToldHappened'
  BY CountsTyped DEF EventComes, LinkOpens, LinkCloses, PageIInv, ToldHappened
<1> QED BY <1>1, <1>3, <1>4 DEF PageIInv, NewestSuffices, Rendered

LEMMA ReadKeeps ==
  ASSUME PageIInv, NEW g \in Get, Read(g)
  PROVE  PageIInv'
<1>1. /\ gets' = [gets EXCEPT ![g] = "answered"] /\ answer' = [answer EXCEPT ![g] = status]
      /\ UNCHANGED <<status, link, wire, due, last, nodes, newest, outcome, told, faults>>
  BY DEF Read
<1>2. PageTypeOK'
  BY <1>1 DEF PageIInv, PageTypeOK
<1>3. ASSUME Rendered, outcome = "asked", gets'[newest] = "answered", NEW p \in Part
      PROVE  answer'[newest][p] >= told[p]
  <2>1. newest \in Get /\ gets \in [Get -> {"free", "asked", "answered"}] /\ answer \in [Get -> [Part -> Count]]
    BY DEF PageIInv, PageTypeOK
  <2>2. CASE newest = g
    <3>1. answer'[newest] = status
      BY <1>1, <2>1, <2>2
    <3> QED BY <3>1, CountsTyped DEF PageIInv, ToldHappened
  <2>3. CASE newest # g
    <3>1. answer'[newest] = answer[newest] /\ gets'[newest] = gets[newest]
      BY <1>1, <2>1, <2>3
    <3> QED BY <1>3, <3>1 DEF PageIInv, NewestSuffices
  <2> QED BY <2>2, <2>3
<1> QED BY <1>1, <1>2, <1>3 DEF PageIInv, ToldHappened, NewestSuffices, Rendered, NothingOlder

\* An answer arrives, or none does.
LEMMA ArriveKeeps ==
  ASSUME PageIInv, NEW g \in Get, Arrive(g) \/ Miss(g)
  PROVE  PageIInv'
<1>1. /\ gets' = [gets EXCEPT ![g] = "free"] /\ answer' = [answer EXCEPT ![g] = Untouched]
      /\ UNCHANGED <<status, link, wire, due, last, newest, told>>
  BY DEF Arrive, Miss
<1>2. newest \in Get /\ gets \in [Get -> {"free", "asked", "answered"}] /\ answer \in [Get -> [Part -> Count]]
  BY DEF PageIInv, PageTypeOK
<1>3. nodes' \in [Part -> Count] /\ faults' \in 0 .. MaxFaults
  BY <1>2, PageBounds DEF Arrive, Miss, PageIInv, PageTypeOK
<1>4. outcome' \in {"none", "asked", "shown", "overwritten", "missed"}
  BY DEF Arrive, Miss, OutcomeOf, PageIInv, PageTypeOK
<1>5. PageTypeOK'
  BY <1>1, <1>2, <1>3, <1>4, UntouchedTyped DEF PageIInv, PageTypeOK
<1>6. ToldHappened'
  BY <1>1 DEF PageIInv, ToldHappened
<1>7. NewestSuffices'
  <2>1. SUFFICES ASSUME Rendered
                 PROVE  /\ outcome' = "asked" /\ gets'[newest] = "answered"
                             => \A p \in Part : answer'[newest][p] >= told[p]
                        /\ outcome' = "shown" => \A p \in Part : nodes'[p] >= told[p]
    BY <1>1 DEF NewestSuffices, Rendered, NothingOlder
  <2>2. CASE g = newest /\ outcome = "asked"
    <3>1. gets'[newest] = "free"
      BY <1>1, <1>2, <2>2
    <3>2. outcome' = "shown" => gets[newest] = "answered" /\ nodes' = answer[newest]
      BY <2>2 DEF Arrive, Miss, OutcomeOf
    <3> QED BY <2>1, <2>2, <3>1, <3>2 DEF PageIInv, NewestSuffices
  <2>3. CASE g = newest /\ outcome # "asked"
    <3>1. outcome' # "asked"
      BY <2>3 DEF Arrive, Miss, OutcomeOf
    <3>2. outcome' = "shown" => outcome = "shown" /\ nodes' = nodes
      BY <2>3 DEF Arrive, Miss, OutcomeOf
    <3> QED BY <2>1, <3>1, <3>2 DEF PageIInv, NewestSuffices, NothingOlder
  <2>4. CASE g # newest
    <3>1. answer'[newest] = answer[newest] /\ gets'[newest] = gets[newest]
      BY <1>1, <1>2, <2>4
    <3>2. outcome' = "asked" => outcome = "asked"
      BY <2>4 DEF Arrive, Miss, OutcomeOf
    <3>3. outcome' = "shown" => outcome = "shown" /\ nodes' = nodes
      BY <2>4 DEF Arrive, Miss, OutcomeOf
    <3> QED BY <2>1, <3>1, <3>2, <3>3 DEF PageIInv, NewestSuffices, NothingOlder
  <2> QED BY <2>2, <2>3, <2>4
<1> QED BY <1>5, <1>6, <1>7 DEF PageIInv

LEMMA PageInitInv ==
  ASSUME PageInit
  PROVE  PageIInv
<1>1. PageTypeOK
  <2>1. <<>> \in Seq(Event) /\ 1 \in Get /\ 0 \in 0 .. MaxFaults
    BY PageBounds DEF Get
  <2>2. /\ [g \in Get |-> "free"] \in [Get -> {"free", "asked", "answered"}]
        /\ [g \in Get |-> Untouched] \in [Get -> [Part -> Count]]
    BY UntouchedTyped
  <2> QED BY <2>1, <2>2, UntouchedTyped DEF PageInit, PageTypeOK
<1>2. ToldHappened
  BY UntouchedTyped DEF PageInit, ToldHappened
<1> QED BY <1>1, <1>2 DEF PageInit, PageIInv, NewestSuffices, Rendered

LEMMA PageStepInv ==
  ASSUME PageIInv, [PageNext]_pageVars
  PROVE  PageIInv'
<1>1. CASE UNCHANGED pageVars
  <2>1. UNCHANGED <<status, link, wire, due, last, nodes, gets, answer, newest, outcome, told, faults>>
    BY <1>1 DEF pageVars
  <2>2. PageTypeOK' /\ ToldHappened'
    BY <2>1 DEF PageIInv, PageTypeOK, ToldHappened
  <2> QED BY <2>1, <2>2, NewestStays DEF PageIInv
<1> QED BY <1>1, NodeChangesKeeps, RenderKeeps, LinkStepKeeps, ReadKeeps, ArriveKeeps DEF PageNext

\* However many nodes and requests there are, the state of the page and of its connection keeps its
\* types.  (TaskDetailPage.tsx)
THEOREM PageTypeCorrect == PageSpec => []PageTypeOK
<1>1. PageSpec => []PageIInv
  BY PageInitInv, PageStepInv, PTL DEF PageSpec
<1> QED BY <1>1, PTL DEF PageIInv

\* However many nodes change and requests are under way, a page at rest whose last request was answered
\* last shows no node older than it was told: in whatever order events, renders, answers and
\* broken connections come.  (reconcile of TaskDetailPage.tsx)
THEOREM PageIsCurrent == PageSpec => []PageCatchesUp
<1>1. PageIInv => PageCatchesUp
  BY DEF PageIInv, PageCatchesUp, AtRest, NewestSuffices, Rendered
<1>2. PageSpec => []PageIInv
  BY PageInitInv, PageStepInv, PTL DEF PageSpec
<1> QED BY <1>1, <1>2, PTL

-----------------------------------------------------------------------------
(* Keys and their rotation *)

\* Without a key file of its own, a blob's HMAC key derives from the master it is sealed with.
MacFollows(b) == macfile \/ b.mac = b.ver
AllBlobs == {mainBlob} \cup oldBlobs \cup {sealing[p].blob : p \in Server}
\* What a process may be about to put.
MaySeal(p) == {0, Current(p)} \cup (IF Config[running[p]].gray THEN {Current(p) + 1} ELSE {})
SealsOwn == \A p \in Server : sealing[p].blob.ver \in MaySeal(p)
\* As long as nobody has gone beyond the first phase, there is only the first key.
FirstOnly ==
  setting = "first" =>
    /\ \A p \in Server : running[p] = "first"
    /\ \A b \in AllBlobs : b.ver \in {0, 1}
\* From the check on, when nothing was missed in it and no old copy put back, every process seals with
\* the new key and the artifact does not need the old one.
OldKeyUnused ==
  rotation = [restored |-> FALSE, unseen |-> FALSE] /\ (cleared \/ setting = "retired") =>
    /\ setting \in {"second", "retired"} /\ \A p \in Server : running[p] \in {"second", "retired"}
    /\ mainBlob.ver # 1
KeyIInv ==
  /\ KeyTypeOK /\ (\A b \in AllBlobs : MacFollows(b))
  /\ SealsOwn /\ FirstOnly /\ OldKeyUnused

LEMMA Settings ==
  /\ Setting = {"first", "gray", "second", "retired", "back"}
  /\ Config["first"] = [current |-> 1, legacy |-> {}, gray |-> FALSE]
  /\ Config["gray"] = [current |-> 1, legacy |-> {}, gray |-> TRUE]
  /\ Config["second"] = [current |-> 2, legacy |-> {1}, gray |-> FALSE]
  /\ Config["retired"] = [current |-> 2, legacy |-> {}, gray |-> FALSE]
  /\ Config["back"] = [current |-> 1, legacy |-> {2}, gray |-> FALSE]
BY DEF Setting, Config

\* A process's key is one of the two, and the next one only ever the second.
LEMMA MaySealTyped ==
  ASSUME KeyTypeOK, NEW p \in Server
  PROVE  /\ Current(p) \in {1, 2} /\ MaySeal(p) \subseteq 0 .. 2
         /\ running[p] = "first" => MaySeal(p) = {0, 1}
         /\ running[p] \in {"second", "retired"} => MaySeal(p) = {0, 2}
<1>1. running[p] \in {"first", "gray", "second", "retired", "back"}
  BY Settings DEF KeyTypeOK
<1>2. CASE running[p] = "first"
  BY <1>2, Settings DEF Current, MaySeal
<1>3. CASE running[p] = "gray"
  BY <1>3, Settings DEF Current, MaySeal
<1>4. CASE running[p] = "second"
  BY <1>4, Settings DEF Current, MaySeal
<1>5. CASE running[p] = "retired"
  BY <1>5, Settings DEF Current, MaySeal
<1>6. CASE running[p] = "back"
  BY <1>6, Settings DEF Current, MaySeal
<1> QED BY <1>1, <1>2, <1>3, <1>4, <1>5, <1>6

LEMMA PlainFits ==
  ASSUME KeyTypeOK, NEW p \in Server
  PROVE  /\ Resting \in Sealing /\ Resting.blob.ver = 0 /\ Resting.blob.ver \in MaySeal(p)
         /\ MacFollows(Resting.blob)
BY DEF Resting, Sealing, Blob, MaySeal, MacFollows

\* What a process seals, or seals anew.
LEMMA SealedFits ==
  ASSUME KeyTypeOK, NEW p \in Server, NEW b \in Blob, b \in Sealed(p) \/ \E a \in Blob : b = Rewrapped(p, a)
  PROVE  b.ver \in MaySeal(p) /\ MacFollows(b)
<1>1. CASE b \in Sealed(p)
  BY <1>1 DEF Sealed, MaySeal, MacOf, MacFollows
<1>2. ASSUME NEW a \in Blob, b = Rewrapped(p, a)
      PROVE  b.ver \in MaySeal(p) /\ MacFollows(b)
  <2>1. b.ver = Current(p) /\ b.mac = MacOf(Current(p), p)
    BY <1>2 DEF Rewrapped, Blob
  <2> QED BY <2>1 DEF MaySeal, MacOf, MacFollows
<1> QED BY <1>1, <1>2

LEMMA SealedTyped ==
  ASSUME KeyTypeOK, NEW p \in Server
  PROVE  Sealed(p) \subseteq Blob /\ \A a \in Blob : Rewrapped(p, a) \in Blob
<1>1. Current(p) \in 0 .. 2 /\ MaySeal(p) \subseteq 0 .. 2
  BY MaySealTyped
<1>2. \A v \in MaySeal(p) : MacOf(v, p) \in 0 .. 2
  BY <1>1 DEF MacOf
<1>3. MacOf(Current(p), p) \in 0 .. 2
  BY <1>1 DEF MacOf
<1>4. ASSUME NEW b \in Sealed(p)
      PROVE  b \in Blob
  <2>1. b = [ver |-> 0, mac |-> 0] \/ \E v \in MaySeal(p) : b = [ver |-> v, mac |-> MacOf(v, p)]
    BY <1>4 DEF Sealed, MaySeal
  <2> QED BY <1>1, <1>2, <2>1 DEF Blob
<1>5. ASSUME NEW a \in Blob
      PROVE  Rewrapped(p, a) \in Blob
  BY <1>1, <1>3, <1>5 DEF Rewrapped, Blob
<1> QED BY <1>4, <1>5

\* A process begins to seal something.
LEMMA SealingKeeps ==
  ASSUME KeyIInv, NEW p \in Server, Encrypt(p) \/ RewrapRead(p)
  PROVE  KeyIInv'
<1>1. KeyTypeOK /\ mainBlob \in Blob /\ sealing \in [Server -> Sealing]
  BY DEF KeyIInv, KeyTypeOK
<1>2. PICK b \in Blob, pc \in {"put", "rewrap"} :
        /\ b \in Sealed(p) \/ \E a \in Blob : b = Rewrapped(p, a)
        /\ sealing' = [sealing EXCEPT ![p] = [pc |-> pc, blob |-> b]]
  <2>1. CASE Encrypt(p)
    <3>1. PICK b \in Sealed(p) : sealing' = [sealing EXCEPT ![p] = [pc |-> "put", blob |-> b]]
      BY <2>1 DEF Encrypt
    <3> QED BY <1>1, <3>1, SealedTyped
  <2>2. CASE RewrapRead(p)
    <3>1. sealing' = [sealing EXCEPT ![p] = [pc |-> "rewrap", blob |-> Rewrapped(p, mainBlob)]]
      BY <2>2 DEF RewrapRead
    <3> QED BY <1>1, <3>1, SealedTyped
  <2> QED BY <2>1, <2>2
<1>3. /\ UNCHANGED <<setting, running, keyfiles, macfile, mainBlob, oldBlobs, cleared, rotation>>
      /\ unlocked' \subseteq Server
  BY <1>1 DEF Encrypt, RewrapRead, Unlocking, KeyTypeOK
<1>4. sealing' \in [Server -> Sealing] /\ \A q \in Server : sealing'[q].blob = IF q = p THEN b ELSE sealing[q].blob
  BY <1>1, <1>2 DEF Sealing
<1>5. KeyTypeOK'
  BY <1>1, <1>3, <1>4 DEF KeyTypeOK
<1>6. b.ver \in MaySeal(p) /\ MacFollows(b)
  BY <1>1, <1>2, SealedFits
<1>7. \A x \in AllBlobs' : x = b \/ x \in AllBlobs
  BY <1>3, <1>4 DEF AllBlobs
<1>8. \A x : MacFollows(x)' = MacFollows(x)
  BY <1>3 DEF MacFollows
<1>9. \A q \in Server : MaySeal(q)' = MaySeal(q)
  BY <1>3 DEF MaySeal, Current
<1>10. SealsOwn'
  BY <1>4, <1>6, <1>9 DEF KeyIInv, SealsOwn
<1>11. FirstOnly'
  <2>1. setting = "first" => b.ver \in {0, 1}
    BY <1>1, <1>6, MaySealTyped DEF KeyIInv, FirstOnly
  <2> QED BY <1>3, <1>7, <2>1 DEF KeyIInv, FirstOnly
<1>12. OldKeyUnused'
  BY <1>3 DEF KeyIInv, OldKeyUnused
<1> QED BY <1>5, <1>6, <1>7, <1>8, <1>10, <1>11, <1>12 DEF KeyIInv

\* A step after which there are no blobs that there were not before.
LEMMA NoNewBlobs ==
  ASSUME \A b \in AllBlobs : MacFollows(b), macfile' = macfile, AllBlobs' \subseteq AllBlobs
  PROVE  \A b \in AllBlobs' : MacFollows(b)'
BY DEF MacFollows

\* The blob a process was about to put, or an archived copy, becomes the artifact.
LEMMA PutKeeps ==
  ASSUME KeyIInv, NEW p \in Server, PutBlob(p)
  PROVE  KeyIInv'
<1>1. /\ KeyTypeOK /\ mainBlob' = sealing[p].blob /\ oldBlobs' = oldBlobs \cup {mainBlob'}
      /\ sealing' = [sealing EXCEPT ![p] = Resting] /\ sealing[p] \in Sealing
      /\ UNCHANGED <<setting, running, unlocked, keyfiles, macfile, cleared, rotation>>
  BY DEF KeyIInv, KeyTypeOK, PutBlob
<1>2. sealing' \in [Server -> Sealing] /\ \A q \in Server : sealing'[q] = IF q = p THEN Resting ELSE sealing[q]
  BY <1>1, PlainFits DEF KeyTypeOK
<1>3. KeyTypeOK'
  BY <1>1, <1>2 DEF KeyTypeOK, Sealing
<1>4. \A x \in AllBlobs' : x = Resting.blob \/ x \in AllBlobs
  BY <1>1, <1>2 DEF AllBlobs
<1>5. \A x \in AllBlobs' : MacFollows(x)'
  BY <1>1, <1>4, PlainFits DEF KeyIInv, MacFollows
<1>6. SealsOwn'
  <2>1. \A q \in Server : MaySeal(q)' = MaySeal(q)
    BY <1>1 DEF MaySeal, Current
  <2> QED BY <1>1, <1>2, <2>1, PlainFits DEF KeyIInv, SealsOwn
<1>7. FirstOnly'
  BY <1>1, <1>4, PlainFits DEF KeyIInv, FirstOnly
<1>8. OldKeyUnused'
  <2>1. running[p] \in {"second", "retired"} => sealing[p].blob.ver # 1
    BY <1>1, MaySealTyped DEF KeyIInv, SealsOwn
  <2> QED BY <1>1, <2>1 DEF KeyIInv, OldKeyUnused
<1> QED BY <1>3, <1>5, <1>6, <1>7, <1>8 DEF KeyIInv

LEMMA RestoreCopyKeeps ==
  ASSUME KeyIInv, RestoreCopy
  PROVE  KeyIInv'
<1>1. /\ KeyTypeOK /\ mainBlob' \in oldBlobs /\ rotation' = [rotation EXCEPT !.restored = TRUE]
      /\ UNCHANGED <<setting, running, unlocked, keyfiles, macfile, oldBlobs, sealing, cleared>>
  BY DEF KeyIInv, RestoreCopy
<1>2. KeyTypeOK' /\ rotation'.restored
  BY <1>1 DEF KeyTypeOK
<1>3. AllBlobs' \subseteq AllBlobs
  BY <1>1 DEF AllBlobs
<1>4. \A x \in AllBlobs' : MacFollows(x)'
  BY <1>1, <1>3, NoNewBlobs DEF KeyIInv
<1>5. SealsOwn'
  BY <1>1 DEF KeyIInv, SealsOwn, MaySeal, Current
<1>6. FirstOnly'
  BY <1>1, <1>3 DEF KeyIInv, FirstOnly
<1>7. OldKeyUnused'
  BY <1>2 DEF OldKeyUnused
<1> QED BY <1>2, <1>4, <1>5, <1>6, <1>7 DEF KeyIInv

\* The check passes, or is forced.
LEMMA RetireKeeps ==
  ASSUME KeyIInv, NEW p \in Server, Retire(p)
  PROVE  KeyIInv'
<1>1. PICK forced \in BOOLEAN, overlooked \in BOOLEAN :
        /\ forced \/ ~Referenced(1, overlooked)
        /\ rotation' = [rotation EXCEPT !.unseen = rotation.unseen \/ forced \/ overlooked \/ ~Settled]
  BY DEF Retire
<1>2. /\ KeyTypeOK /\ running[p] = "second" /\ cleared' = TRUE
      /\ UNCHANGED <<setting, running, unlocked, keyfiles, macfile, mainBlob, oldBlobs, sealing>>
  BY DEF KeyIInv, Retire
<1>3. rotation' \in [restored : BOOLEAN, unseen : BOOLEAN]
      /\ rotation'.unseen = (rotation.unseen \/ forced \/ overlooked \/ ~Settled)
  BY <1>1, <1>2 DEF KeyTypeOK
<1>4. KeyTypeOK'
  BY <1>2, <1>3 DEF KeyTypeOK
<1>5. AllBlobs' \subseteq AllBlobs
  BY <1>2 DEF AllBlobs
<1>6. \A x \in AllBlobs' : MacFollows(x)'
  BY <1>2, <1>5, NoNewBlobs DEF KeyIInv
<1>7. SealsOwn'
  BY <1>2 DEF KeyIInv, SealsOwn, MaySeal, Current
<1>8. FirstOnly'
  BY <1>2, <1>5 DEF KeyIInv, FirstOnly
<1>9. OldKeyUnused'
  <2>1. SUFFICES ASSUME rotation' = [restored |-> FALSE, unseen |-> FALSE]
                 PROVE  /\ setting \in {"second", "retired"}
                        /\ \A q \in Server : running[q] \in {"second", "retired"}
                        /\ mainBlob.ver # 1
    BY <1>2 DEF OldKeyUnused
  <2>2. ~forced /\ ~overlooked /\ Settled
    BY <1>3, <2>1
  <2>3. mainBlob.ver # 1
    BY <1>1, <2>2 DEF Referenced
  <2>4. setting = "second" /\ \A q \in Server : running[q] = "second"
    BY <1>2, <2>2 DEF Settled
  <2> QED BY <2>3, <2>4
<1> QED BY <1>4, <1>6, <1>7, <1>8, <1>9 DEF KeyIInv

LEMMA DeployKeeps ==
  ASSUME KeyIInv, Deploy
  PROVE  KeyIInv'
<1>1. /\ KeyTypeOK /\ setting' \in Setting /\ <<setting, setting'>> \in Phases /\ cleared' = FALSE
      /\ setting' = "retired" => cleared
      /\ UNCHANGED <<running, unlocked, keyfiles, macfile, mainBlob, oldBlobs, sealing, rotation>>
  BY DEF KeyIInv, Deploy
<1>2. setting' # "first"
  BY <1>1 DEF Phases
<1>3. KeyTypeOK'
  BY <1>1 DEF KeyTypeOK
<1>4. AllBlobs' \subseteq AllBlobs
  BY <1>1 DEF AllBlobs
<1>5. \A x \in AllBlobs' : MacFollows(x)'
  BY <1>1, <1>4, NoNewBlobs DEF KeyIInv
<1>6. SealsOwn'
  BY <1>1 DEF KeyIInv, SealsOwn, MaySeal, Current
<1>7. FirstOnly'
  BY <1>2 DEF FirstOnly
<1>8. OldKeyUnused'
  BY <1>1 DEF KeyIInv, OldKeyUnused
<1> QED BY <1>3, <1>5, <1>6, <1>7, <1>8 DEF KeyIInv

LEMMA RestartServerKeeps ==
  ASSUME KeyIInv, NEW p \in Server, RestartServer(p)
  PROVE  KeyIInv'
<1>1. /\ KeyTypeOK /\ running' = [running EXCEPT ![p] = setting] /\ sealing' = [sealing EXCEPT ![p] = Resting]
      /\ unlocked' = unlocked \ {p}
      /\ UNCHANGED <<setting, keyfiles, macfile, mainBlob, oldBlobs, cleared, rotation>>
  BY DEF KeyIInv, RestartServer
<1>2. /\ running' \in [Server -> Setting]
      /\ \A q \in Server : running'[q] = IF q = p THEN setting ELSE running[q]
  BY <1>1 DEF KeyTypeOK
<1>3. sealing' \in [Server -> Sealing] /\ \A q \in Server : sealing'[q] = IF q = p THEN Resting ELSE sealing[q]
  BY <1>1, PlainFits DEF KeyTypeOK
<1>4. KeyTypeOK'
  BY <1>1, <1>2, <1>3 DEF KeyTypeOK
<1>5. \A x \in AllBlobs' : x = Resting.blob \/ x \in AllBlobs
  BY <1>1, <1>3 DEF AllBlobs
<1>6. \A x \in AllBlobs' : MacFollows(x)'
  BY <1>1, <1>5, PlainFits DEF KeyIInv, MacFollows
<1>7. SealsOwn'
  <2>1. \A q \in Server \ {p} : MaySeal(q)' = MaySeal(q)
    BY <1>2 DEF MaySeal, Current
  <2>2. Resting.blob.ver \in MaySeal(p)'
    BY <1>1, PlainFits DEF MaySeal
  <2> QED BY <1>3, <2>1, <2>2 DEF KeyIInv, SealsOwn
<1>8. FirstOnly'
  BY <1>1, <1>2, <1>5, PlainFits DEF KeyIInv, FirstOnly
<1>9. OldKeyUnused'
  BY <1>1, <1>2 DEF KeyIInv, OldKeyUnused
<1> QED BY <1>4, <1>6, <1>7, <1>8, <1>9 DEF KeyIInv

\* The key files come and go, or nothing happens.
LEMMA KeyFilesKeep ==
  ASSUME KeyIInv, KeyFiles \/ UNCHANGED keyVars
  PROVE  KeyIInv'
<1>1. /\ UNCHANGED <<setting, running, unlocked, macfile, mainBlob, oldBlobs, sealing, cleared, rotation>>
      /\ keyfiles' \in BOOLEAN
  BY DEF KeyFiles, keyVars, KeyIInv, KeyTypeOK
<1>2. KeyTypeOK' /\ AllBlobs' = AllBlobs
  BY <1>1 DEF KeyIInv, KeyTypeOK, AllBlobs
<1>3. \A x \in AllBlobs' : MacFollows(x)'
  BY <1>1, <1>2, NoNewBlobs DEF KeyIInv
<1>4. SealsOwn' /\ FirstOnly' /\ OldKeyUnused'
  BY <1>1, <1>2 DEF KeyIInv, SealsOwn, MaySeal, Current, FirstOnly, OldKeyUnused
<1> QED BY <1>2, <1>3, <1>4 DEF KeyIInv

LEMMA KeyInitInv ==
  ASSUME KeyInit
  PROVE  KeyIInv
<1>1. /\ setting = "first" /\ running = [p \in Server |-> "first"] /\ mainBlob = Resting.blob
      /\ oldBlobs = {mainBlob} /\ sealing = [p \in Server |-> Resting] /\ cleared = FALSE
  BY DEF KeyInit, Resting
<1>2. Resting \in Sealing /\ Resting.blob \in Blob /\ Resting.blob.ver = 0 /\ Resting.blob.mac = 0
  BY DEF Resting, Sealing, Blob
<1>3. KeyTypeOK
  BY <1>1, <1>2, Settings DEF KeyInit, KeyTypeOK
<1>4. \A b \in AllBlobs : b = Resting.blob
  BY <1>1 DEF AllBlobs
<1>5. SealsOwn
  BY <1>1, <1>2 DEF SealsOwn, MaySeal
<1> QED BY <1>1, <1>2, <1>3, <1>4, <1>5 DEF KeyIInv, MacFollows, FirstOnly, OldKeyUnused

LEMMA KeyStepInv ==
  ASSUME KeyIInv, [KeyNext]_keyVars
  PROVE  KeyIInv'
BY SealingKeeps, PutKeeps, RestoreCopyKeeps, RetireKeeps, DeployKeeps, RestartServerKeeps, KeyFilesKeep
   DEF KeyNext

\* Whatever processes there are, the settings, blobs and what each process is about to put keep their
\* types.  (storage/crypto_gate.py)
THEOREM KeyTypeCorrect == KeySpec => []KeyTypeOK
<1>1. KeySpec => []KeyIInv
  BY KeyInitInv, KeyStepInv, PTL DEF KeySpec
<1> QED BY <1>1, PTL DEF KeyIInv

\* In any number of processes, with the key files at hand and HMAC keys derived from them, and no phase
\* under way: before and after the switch everything opens, and once the old key is gone the
\* artifact still does, unless the check that let it go was forced, missed something or came
\* too early, or an old copy was put back.  (encrypt_artifact, rotate_rewrap_deks, retire_legacy_key)
THEOREM KeysAlwaysSuffice == KeySpec => []KeysSuffice
<1>1. ASSUME KeyIInv, Settled, keyfiles, ~macfile, NEW p \in Server
      PROVE  /\ setting \in {"first", "second"} => \A b \in oldBlobs \cup {mainBlob} : Opens(p, b)
             /\ setting = "retired" /\ rotation = [restored |-> FALSE, unseen |-> FALSE]
                  => Opens(p, mainBlob)
  <2>1. running[p] = setting
    BY <1>1 DEF Settled
  <2>2. \A b \in oldBlobs \cup {mainBlob} : b \in Blob /\ b.mac = b.ver /\ b \in AllBlobs
    BY <1>1 DEF KeyIInv, KeyTypeOK, MacFollows, AllBlobs
  <2>3. \A v : MacOf(v, p) = v
    BY <1>1 DEF MacOf
  <2>4. ASSUME setting = "first", NEW b \in oldBlobs \cup {mainBlob}
        PROVE  Opens(p, b)
    <3>1. Current(p) = 1 /\ Legacy(p) = {}
      BY <2>1, <2>4, Settings DEF Current, Legacy
    <3>2. b.ver \in {0, 1} /\ b.mac = MacOf(b.ver, p)
      BY <1>1, <2>2, <2>3, <2>4 DEF KeyIInv, FirstOnly
    <3> QED BY <1>1, <3>1, <3>2 DEF Opens, CanUnlock
  <2>5. ASSUME setting = "second", NEW b \in oldBlobs \cup {mainBlob}
        PROVE  Opens(p, b)
    <3>1. Current(p) = 2 /\ Legacy(p) = {1}
      BY <2>1, <2>5, Settings DEF Current, Legacy
    <3>2. b.ver \in 0 .. 2 /\ b.mac = MacOf(b.ver, p)
      BY <2>2, <2>3, <2>5 DEF Blob
    <3>3. CanUnlock(p)
      BY <1>1, <3>1 DEF CanUnlock
    <3> QED BY <3>1, <3>2, <3>3 DEF Opens
  <2>6. ASSUME setting = "retired", rotation = [restored |-> FALSE, unseen |-> FALSE]
        PROVE  Opens(p, mainBlob)
    <3>1. Current(p) = 2 /\ Legacy(p) = {}
      BY <2>1, <2>6, Settings DEF Current, Legacy
    <3>2. mainBlob.ver \in {0, 2} /\ mainBlob.mac = MacOf(mainBlob.ver, p)
      BY <1>1, <2>2, <2>3, <2>6 DEF KeyIInv, OldKeyUnused, Blob
    <3> QED BY <1>1, <3>1, <3>2 DEF Opens, CanUnlock
  <2> QED BY <2>4, <2>5, <2>6
<1>2. KeyIInv => KeysSuffice
  BY <1>1 DEF KeysSuffice
<1>3. KeySpec => []KeyIInv
  BY KeyInitInv, KeyStepInv, PTL DEF KeySpec
<1> QED BY <1>2, <1>3, PTL

-----------------------------------------------------------------------------
(* A download that ends well is one version *)

\* Every block under a fingerprint is of the version the fingerprint tells, in what is kept ...
KeptFits(k) == \A b \in BlockNo : k.got[b] \in {0, k.etag.ver}
\* ... and in what is in memory, unless nobody looks at fingerprints.
BlocksFit == \A b \in BlockNo : download.got[b] \in {0, download.etag.ver}
Fits ==
  /\ \A k \in kept : KeptFits(k)
  /\ download.pc \in {"blocks", "done"} /\ download.mode # "disk" => BlocksFit
  /\ download.pc = "done" /\ download.mode # "disk" => OneVersion
\* The server works on a block only while blocks are fetched; the disk is written past what is kept.
AskedInTime == download.pc # "blocks" => \A b \in BlockNo : request[b].stage = "none"
DownloadIInv ==
  /\ DownloadTypeOK /\ AskedInTime
  /\ download.mode = "disk" => ~download.saving
  /\ ~crossed => Fits

Downloads == [pc : {"idle", "sized", "blocks", "done", "failed"}, mode : Mode, etag : Etag,
              got : [BlockNo -> Ver], restarts : 0 .. MaxRestart, saving : BOOLEAN]
Requests == [stage : {"none", "asked", "sized", "tagged"}, size : {0} \cup Sizes, ver : Ver,
             tries : 0 .. RangeRetry]

LEMMA NothingYet ==
  /\ 0 \in Ver /\ Nothing \in Etag /\ NoBlocks \in [BlockNo -> Ver]
  /\ NoRequests \in [BlockNo -> Requests] /\ NoRequest \in Requests
  /\ Idle \in Downloads /\ \A mode \in Mode : [Idle EXCEPT !.mode = mode] \in Downloads
  /\ \A b \in BlockNo : NoBlocks[b] = 0 /\ NoRequests[b] = NoRequest
  /\ NoRequest.stage = "none"
<1>1. 0 \in Ver
  BY DownloadBounds DEF Ver
<1>2. Nothing \in Etag /\ NoBlocks \in [BlockNo -> Ver]
  BY <1>1 DEF Nothing, Etag, NoBlocks
<1>3. NoRequest \in Requests /\ NoRequest.stage = "none"
  BY <1>1, DownloadBounds DEF NoRequest, Requests
<1>4. NoRequests \in [BlockNo -> Requests] /\ \A b \in BlockNo : NoBlocks[b] = 0 /\ NoRequests[b] = NoRequest
  BY <1>3 DEF NoRequests, NoBlocks
<1>5. Idle \in Downloads /\ \A mode \in Mode : [Idle EXCEPT !.mode = mode] \in Downloads
  <2>1. 0 \in 0 .. MaxRestart
    BY DownloadBounds
  <2>2. Idle \in Downloads
    BY <1>2, <2>1 DEF Idle, Downloads, Mode
  <2> QED BY <2>2 DEF Downloads
<1> QED BY <1>1, <1>2, <1>3, <1>4, <1>5

\* A download that stops, well or not, is asked for nothing any more.
LEMMA EndedTyped ==
  ASSUME DownloadIInv, NEW result \in {"done", "failed"}, Ended(result)
  PROVE  /\ download' \in Downloads /\ request' \in [BlockNo -> Requests]
         /\ AskedInTime' /\ download'.pc = result
         /\ download'.mode = download.mode /\ download'.saving = download.saving
         /\ download'.got = download.got /\ download'.etag = download.etag
<1>1. download \in Downloads
  BY DEF DownloadIInv, DownloadTypeOK, Downloads
<1>2. download' \in Downloads /\ download'.pc = result
  BY <1>1 DEF Ended, Downloads
<1>3. request' \in [BlockNo -> Requests] /\ AskedInTime'
  BY NothingYet DEF Ended, AskedInTime
<1> QED BY <1>1, <1>2, <1>3 DEF Ended, Downloads

\* A download that has failed fits as soon as what is kept does.
LEMMA FailedKeeps ==
  ASSUME DownloadIInv, Ended("failed"), kept' \subseteq kept, crossed' \in BOOLEAN, ~crossed' => ~crossed,
         UNCHANGED <<file, downloads>>, downloadFaults' \in 0 .. MaxDownloadFaults
  PROVE  DownloadIInv'
<1>1. download' \in Downloads /\ request' \in [BlockNo -> Requests] /\ AskedInTime'
      /\ download'.pc = "failed" /\ (download'.mode = "disk" => ~download'.saving)
  BY EndedTyped DEF DownloadIInv
<1>2. DownloadTypeOK'
  BY <1>1 DEF DownloadIInv, DownloadTypeOK, Downloads, Requests
<1>3. ~crossed' => Fits'
  BY <1>1 DEF DownloadIInv, Fits, KeptFits
<1> QED BY <1>1, <1>2, <1>3 DEF DownloadIInv

\* The file has changed: what there is of it goes.
LEMMA RestartsKeep ==
  ASSUME DownloadIInv, Restarts, crossed' \in BOOLEAN, ~crossed' => ~crossed, download.pc = "blocks",
         UNCHANGED <<file, downloads, downloadFaults>>
  PROVE  DownloadIInv'
<1>1. kept' \subseteq kept
  BY DEF Restarts, Drops, Under
<1>2. CASE Ended("failed")
  BY <1>1, <1>2, FailedKeeps DEF DownloadIInv, DownloadTypeOK
<1>3. CASE /\ download.restarts < MaxRestart /\ download.mode # "disk"
           /\ download' = [download EXCEPT !.got = NoBlocks, !.restarts = @ + 1] /\ request' = NoRequests
  <2>1. download \in Downloads
    BY DEF DownloadIInv, DownloadTypeOK, Downloads
  <2> DEFINE more == download.restarts + 1
  <2>2. more \in 0 .. MaxRestart
    BY <1>3, <2>1, DownloadBounds DEF Downloads
  <2> HIDE DEF more
  <2>3. download' = [download EXCEPT !.got = NoBlocks, !.restarts = more]
    BY <1>3 DEF more
  <2>4. download' \in Downloads /\ download'.pc = "blocks" /\ download'.mode # "disk"
        /\ download'.got = NoBlocks
    BY <1>3, <2>1, <2>2, <2>3, NothingYet DEF Downloads
  <2>5. DownloadTypeOK' /\ AskedInTime'
    BY <1>1, <1>3, <2>4, NothingYet
    DEF DownloadIInv, DownloadTypeOK, AskedInTime, Downloads, Requests
  <2>6. ~crossed' => Fits'
    BY <1>1, <2>4, NothingYet DEF DownloadIInv, Fits, BlocksFit, KeptFits
  <2> QED BY <2>4, <2>5, <2>6 DEF DownloadIInv
<1> QED BY <1>2, <1>3 DEF Restarts

\* The request for a block goes one stage further or is made again.
LEMMA AskingKeeps ==
  ASSUME DownloadIInv, NEW b \in BlockNo, NEW r \in Requests, request' = [request EXCEPT ![b] = r],
         download.pc = "blocks", UNCHANGED <<file, download, kept, downloads>>,
         crossed' \in BOOLEAN, ~crossed' => ~crossed, downloadFaults' \in 0 .. MaxDownloadFaults
  PROVE  DownloadIInv'
<1>1. request' \in [BlockNo -> Requests]
  BY DEF DownloadIInv, DownloadTypeOK, Requests
<1>2. DownloadTypeOK'
  BY <1>1 DEF DownloadIInv, DownloadTypeOK, Requests
<1>3. AskedInTime' /\ (download'.mode = "disk" => ~download'.saving)
  BY DEF DownloadIInv, AskedInTime
<1>4. ~crossed' => Fits'
  BY DEF DownloadIInv, Fits, BlocksFit, KeptFits, OneVersion, BlocksOf
<1> QED BY <1>2, <1>3, <1>4 DEF DownloadIInv

LEMMA TriesAgainKeeps ==
  ASSUME DownloadIInv, NEW b \in BlockNo, TriesAgain(b), download.pc = "blocks",
         UNCHANGED <<file, downloads>>, crossed' \in BOOLEAN, ~crossed' => ~crossed,
         downloadFaults' \in 0 .. MaxDownloadFaults
  PROVE  DownloadIInv'
<1>1. CASE Ended("failed")
  BY <1>1, FailedKeeps DEF TriesAgain
<1>2. CASE /\ request[b].tries + 1 < RangeRetry
           /\ request' = [request EXCEPT ![b] = [NoRequest EXCEPT !.stage = "asked", !.tries = request[b].tries + 1]]
           /\ UNCHANGED download
  <2>1. request[b].tries \in 0 .. RangeRetry
    BY DEF DownloadIInv, DownloadTypeOK
  <2>2. request[b].tries + 1 \in 0 .. RangeRetry
    BY <1>2, <2>1, DownloadBounds
  <2>3. [NoRequest EXCEPT !.stage = "asked", !.tries = request[b].tries + 1] \in Requests
    BY <2>2, NothingYet DEF Requests
  <2> QED BY <1>2, <2>3, AskingKeeps DEF TriesAgain
<1> QED BY <1>1, <1>2 DEF TriesAgain

\* A block of the version the fingerprint tells is taken into memory and kept.
LEMMA AcceptsKeeps ==
  ASSUME DownloadIInv, NEW b \in BlockNo, Accepts(b), download.pc = "blocks", crossed' \in BOOLEAN,
         ~crossed' => ~crossed, UNCHANGED <<file, downloads>>,
         ~crossed' /\ download.mode # "disk" => file.ver = download.etag.ver
  PROVE  DownloadIInv'
<1> DEFINE got  == [download.got EXCEPT ![b] = file.ver]
           etag == download.etag
           before == IF Under(etag) = {} THEN NoBlocks ELSE (CHOOSE k \in Under(etag) : TRUE).got
           entry == [etag |-> etag, got |-> [before EXCEPT ![b] = got[b]], last |-> b, complete |-> FALSE]
<1>1. /\ download \in Downloads /\ file.ver \in Ver /\ request \in [BlockNo -> Requests] /\ kept \subseteq Kept
      /\ downloadFaults \in 0 .. MaxDownloadFaults
  BY DEF DownloadIInv, DownloadTypeOK, Downloads, Etag, Requests
<1>2. got \in [BlockNo -> Ver] /\ etag \in Etag
  BY <1>1 DEF Downloads
<1>3. before \in [BlockNo -> Ver]
  BY <1>1, NothingYet DEF Under, Kept
<1>4. entry \in Kept
  BY <1>1, <1>2, <1>3 DEF Kept
<1>5. request' \in [BlockNo -> Requests]
  BY <1>1, NothingYet DEF Accepts
<1>6. Keeps(b, got)
  BY DEF Accepts
<1>7. /\ download' \in Downloads /\ download'.pc = "blocks" /\ download'.mode = download.mode
      /\ download'.etag = etag /\ download'.got = got
      /\ download'.saving => download.saving
      /\ downloadFaults' \in 0 .. MaxDownloadFaults
      /\ kept' \subseteq kept \/ (download.saving /\ kept' \subseteq kept \cup {entry})
  <2>1. CASE /\ download.saving /\ kept' = (kept \ Under(etag)) \cup {entry}
             /\ UNCHANGED downloadFaults /\ download' = [download EXCEPT !.got = got]
    BY <1>1, <1>2, <2>1 DEF Downloads
  <2>2. CASE /\ download.saving /\ downloadFaults < MaxDownloadFaults /\ downloadFaults' = downloadFaults + 1
             /\ kept' = kept \ Under(etag) /\ download' = [download EXCEPT !.got = got, !.saving = FALSE]
    <3>1. downloadFaults' \in 0 .. MaxDownloadFaults
      BY <1>1, <2>2, DownloadBounds
    <3> QED BY <1>1, <1>2, <2>2, <3>1 DEF Downloads
  <2>3. CASE ~download.saving /\ download' = [download EXCEPT !.got = got] /\ UNCHANGED <<kept, downloadFaults>>
    BY <1>1, <1>2, <2>3 DEF Downloads
  <2> QED BY <1>6, <2>1, <2>2, <2>3 DEF Keeps
<1>8. DownloadTypeOK'
  BY <1>4, <1>5, <1>7 DEF DownloadIInv, DownloadTypeOK, Downloads, Requests
<1>9. AskedInTime' /\ (download'.mode = "disk" => ~download'.saving)
  BY <1>7 DEF AskedInTime, DownloadIInv
<1>10. ASSUME ~crossed' PROVE Fits'
  <2>1. Fits
    BY <1>10 DEF DownloadIInv
  <2>2. download.mode # "disk" => \A c \in BlockNo : got[c] \in {0, etag.ver}
    BY <1>1, <1>10, <2>1 DEF Fits, BlocksFit, Downloads
  <2>3. download.saving => KeptFits(entry)
    <3>1. \A c \in BlockNo : before[c] \in {0, etag.ver}
      BY <2>1, NothingYet DEF Fits, KeptFits, Under
    <3>2. download.saving => got[b] = etag.ver
      BY <1>1, <1>10 DEF DownloadIInv, Downloads
    <3> QED BY <1>3, <3>1, <3>2 DEF KeptFits
  <2>4. \A k \in kept' : KeptFits(k)
    BY <1>7, <2>1, <2>3 DEF Fits
  <2>5. download.mode # "disk" => BlocksFit'
    BY <1>7, <2>2 DEF BlocksFit
  <2> QED BY <1>7, <2>4, <2>5 DEF Fits, KeptFits
<1> QED BY <1>8, <1>9, <1>10 DEF DownloadIInv

LEMMA DownloadInitInv == DownloadInit => DownloadIInv
<1> SUFFICES ASSUME DownloadInit PROVE DownloadIInv OBVIOUS
<1>1. 1 \in Ver /\ 0 \in 0 .. MaxDownloads /\ 0 \in 0 .. MaxDownloadFaults
  BY DownloadBounds DEF Ver
<1>2. file \in Etag
  BY <1>1 DEF DownloadInit, Etag
<1>3. DownloadTypeOK
  BY <1>1, <1>2, NothingYet DEF DownloadInit, DownloadTypeOK, Downloads, Requests
<1>4. AskedInTime /\ download.pc = "idle" /\ download.mode = "serial"
  BY NothingYet DEF DownloadInit, AskedInTime, Idle
<1> QED BY <1>3, <1>4 DEF DownloadIInv, Fits, DownloadInit

\* A step that touches neither the requests nor what is downloaded.
LEMMA ElsewhereKeeps ==
  ASSUME DownloadIInv, UNCHANGED <<download, request, crossed, downloads, downloadFaults>>,
         kept' \subseteq kept, file' \in Etag
  PROVE  DownloadIInv'
<1>1. DownloadTypeOK'
  BY DEF DownloadIInv, DownloadTypeOK
<1>2. ~crossed' => Fits'
  BY DEF DownloadIInv, Fits, BlocksFit, KeptFits, OneVersion, BlocksOf
<1> QED BY <1>1, <1>2 DEF DownloadIInv, AskedInTime

\* The download becomes another one that is asked for nothing yet, and what is kept stays.
LEMMA BecomesKeeps ==
  ASSUME DownloadIInv, NEW d \in Downloads, download' = d, d.mode = "disk" => ~d.saving,
         UNCHANGED <<file, kept, crossed, downloadFaults>>, downloads' \in 0 .. MaxDownloads,
         request' \in [BlockNo -> Requests], \A b \in BlockNo : request'[b].stage = "none",
         ~crossed /\ d.pc \in {"blocks", "done"} /\ d.mode # "disk" => BlocksFit',
         ~crossed /\ d.pc = "done" /\ d.mode # "disk" => OneVersion'
  PROVE  DownloadIInv'
<1>1. DownloadTypeOK'
  BY DEF DownloadIInv, DownloadTypeOK, Downloads, Requests
<1>2. AskedInTime' /\ (download'.mode = "disk" => ~download'.saving)
  BY DEF AskedInTime
<1>3. ~crossed' => Fits'
  BY DEF DownloadIInv, Fits, KeptFits
<1> QED BY <1>1, <1>2, <1>3 DEF DownloadIInv

\* What is taken up from what was kept is of the version its fingerprint tells.
LEMMA TakenFits ==
  ASSUME DownloadIInv, NEW etag \in Etag
  PROVE  /\ Taken(etag) \in [BlockNo -> Ver]
         /\ ~crossed => \A b \in BlockNo : Taken(etag)[b] \in {0, etag.ver}
<1> DEFINE usable == {k \in Under(etag) : ~k.complete /\ \A b \in 0 .. k.last : k.got[b] # 0}
<1>1. CASE usable = {}
  BY <1>1, NothingYet DEF Taken
<1>2. CASE usable # {}
  <2>1. PICK k \in usable : Taken(etag) = k.got
    BY <1>2 DEF Taken
  <2>2. k \in Kept /\ k \in kept /\ k.etag = etag
    BY <2>1 DEF Under, DownloadIInv, DownloadTypeOK
  <2> QED BY <2>1, <2>2 DEF Kept, DownloadIInv, Fits, KeptFits
<1> QED BY <1>1, <1>2

\* The fingerprint is known: small artifacts are there at once, the others block by block.
LEMMA ProbeTagKeeps == ASSUME DownloadIInv, ProbeTag PROVE DownloadIInv'
<1> DEFINE etag  == [download.etag EXCEPT !.ver = file.ver]
           saves == download.mode = "persisted"
           all   == [b \in BlockNo |-> IF b \in BlocksOf(file.size) THEN file.ver ELSE 0]
           small == [download EXCEPT !.etag = [size |-> file.size, ver |-> file.ver], !.got = all,
                                     !.pc = IF file.size = 0 THEN "failed" ELSE "done"]
           got   == IF saves THEN Taken(etag) ELSE NoBlocks
           large == [download EXCEPT !.etag = etag, !.saving = saves, !.pc = "blocks", !.got = got]
<1>1. /\ download \in Downloads /\ file \in Etag /\ file.ver \in Ver
      /\ request \in [BlockNo -> Requests] /\ downloads \in 0 .. MaxDownloads
      /\ \A b \in BlockNo : request[b].stage = "none"
  BY DEF DownloadIInv, DownloadTypeOK, Downloads, Requests, Etag, AskedInTime, ProbeTag
<1>2. CASE download.mode # "disk" /\ Becomes(small)
  <2>1. all \in [BlockNo -> Ver] /\ \A b \in BlockNo : all[b] \in {0, file.ver}
    BY <1>1, NothingYet
  <2>2. [size |-> file.size, ver |-> file.ver] \in Etag
    BY <1>1 DEF Etag
  <2> DEFINE e == [size |-> file.size, ver |-> file.ver]
             end == IF file.size = 0 THEN "failed" ELSE "done"
  <2>3. e \in Etag /\ e.size = file.size /\ e.ver = file.ver /\ end \in {"failed", "done"}
    BY <2>2
  <2>4. \A b \in BlocksOf(file.size) : all[b] = file.ver
    BY DEF BlocksOf
  <2> HIDE DEF e, end, all
  <2>5. small = [download EXCEPT !.etag = e, !.got = all, !.pc = end]
    BY DEF e, end
  <2>6. /\ small \in Downloads /\ small.got = all /\ small.etag = e /\ small.mode = download.mode
    BY <1>1, <2>1, <2>3, <2>5 DEF Downloads
  <2> HIDE DEF small
  <2>7. download' = small /\ UNCHANGED <<request, file, kept, crossed, downloads, downloadFaults>>
    BY <1>2 DEF Becomes, ProbeTag
  <2>8. BlocksFit'
    BY <2>1, <2>3, <2>6, <2>7 DEF BlocksFit
  <2>9. OneVersion'
    BY <2>3, <2>4, <2>6, <2>7 DEF OneVersion, BlocksOf
  <2> QED BY <1>1, <1>2, <2>6, <2>7, <2>8, <2>9, BecomesKeeps
<1>3. CASE Becomes(large)
  <2>1. etag \in Etag /\ etag.ver = file.ver
    BY <1>1 DEF Downloads, Etag
  <2>2. got \in [BlockNo -> Ver] /\ (~crossed => \A b \in BlockNo : got[b] \in {0, etag.ver})
    BY <2>1, TakenFits, NothingYet
  <2>3. saves \in BOOLEAN
    OBVIOUS
  <2> HIDE DEF etag, got
  <2>4. /\ large \in Downloads /\ large.got = got /\ large.etag = etag /\ large.mode = download.mode
        /\ large.pc = "blocks" /\ large.saving = saves
    BY <1>1, <2>1, <2>2 DEF Downloads
  <2>5. large.mode = "disk" => ~large.saving
    BY <2>4
  <2> HIDE DEF large
  <2>6. download' = large /\ UNCHANGED <<request, file, kept, crossed, downloads, downloadFaults>>
    BY <1>3 DEF Becomes, ProbeTag
  <2>7. ~crossed => BlocksFit'
    BY <2>2, <2>4, <2>6 DEF BlocksFit
  <2> QED BY <1>1, <2>4, <2>5, <2>6, <2>7, BecomesKeeps
<1> QED BY <1>2, <1>3 DEF ProbeTag

LEMMA ProbeSizeKeeps == ASSUME DownloadIInv, NEW mode \in Mode, ProbeSize(mode) PROVE DownloadIInv'
<1> DEFINE pc   == IF file.size = 0 THEN "failed" ELSE "sized"
           etag == [Nothing EXCEPT !.size = file.size]
           d    == [Idle EXCEPT !.mode = mode, !.etag.size = file.size, !.pc = pc]
<1>1. /\ file \in Etag /\ request \in [BlockNo -> Requests] /\ downloads \in 0 .. MaxDownloads
      /\ \A b \in BlockNo : request[b].stage = "none"
  BY DEF DownloadIInv, DownloadTypeOK, Requests, AskedInTime, ProbeSize
<1>2. etag \in Etag /\ pc \in {"failed", "sized"}
  BY <1>1, NothingYet DEF Etag
<1>3. d = [Idle EXCEPT !.mode = mode, !.etag = etag, !.pc = pc]
  BY DEF Idle
<1> HIDE DEF etag, pc
<1>4. d \in Downloads /\ d.pc = pc /\ ~d.saving
  BY <1>2, <1>3, NothingYet DEF Downloads, Idle
<1>5. download' = d /\ UNCHANGED <<file, kept, crossed, downloadFaults, request>>
  BY DEF ProbeSize, Becomes, pc
<1>6. downloads' \in 0 .. MaxDownloads
  BY <1>1, DownloadBounds DEF ProbeSize
<1> HIDE DEF d
<1> QED BY <1>1, <1>2, <1>4, <1>5, <1>6, BecomesKeeps

\* No block is missing at the end.
LEMMA CompleteKeeps == ASSUME DownloadIInv, Complete PROVE DownloadIInv'
<1> DEFINE finished == {[k EXCEPT !.complete = TRUE] : k \in Under(download.etag)}
<1>1. /\ download' \in Downloads /\ request' \in [BlockNo -> Requests] /\ AskedInTime'
      /\ download'.pc = "done" /\ download'.mode = download.mode /\ download'.saving = download.saving
      /\ download'.got = download.got /\ download'.etag = download.etag
  BY EndedTyped DEF Complete
<1>2. kept' \subseteq kept \cup finished
  BY DEF Complete
<1>3. ASSUME NEW k \in finished
      PROVE  k \in Kept /\ (~crossed => KeptFits(k))
  <2>1. PICK o \in Under(download.etag) : k = [o EXCEPT !.complete = TRUE]
    OBVIOUS
  <2>2. o \in kept /\ o \in Kept
    BY <2>1 DEF Under, DownloadIInv, DownloadTypeOK
  <2>3. k \in Kept /\ k.got = o.got /\ k.etag = o.etag
    BY <2>1, <2>2 DEF Kept
  <2> QED BY <2>2, <2>3 DEF DownloadIInv, Fits, KeptFits
<1>4. DownloadTypeOK'
  BY <1>1, <1>2, <1>3 DEF DownloadIInv, DownloadTypeOK, Downloads, Requests, Complete
<1>5. ASSUME ~crossed' PROVE Fits'
  <2>1. Fits /\ download.pc = "blocks" /\ Wanted = {}
    BY <1>5 DEF DownloadIInv, Complete
  <2>2. \A k \in kept' : KeptFits(k)
    BY <1>2, <1>3, <1>5, <2>1 DEF Fits, Complete
  <2>3. download.mode # "disk" => BlocksFit'
    BY <1>1, <2>1 DEF Fits, BlocksFit
  <2>4. \A b \in BlocksOf(download.etag.size) : b \in BlockNo /\ download.got[b] # 0
    BY <2>1 DEF Wanted, BlocksOf
  <2>5. download.mode # "disk" => OneVersion'
    BY <1>1, <2>1, <2>4 DEF Fits, BlocksFit, OneVersion, BlocksOf
  <2> QED BY <1>1, <2>2, <2>3, <2>5 DEF Fits, KeptFits
<1> QED BY <1>1, <1>4, <1>5 DEF DownloadIInv

LEMMA ReceivesKeeps == ASSUME DownloadIInv, NEW b \in BlockNo, Receives(b) PROVE DownloadIInv'
<1> DEFINE length   == Length(b, request[b].size)
           expected == length = Length(b, download.etag.size)
           disk     == download.mode = "disk"
           whole    == Length(b, file.size) >= length
<1>1. download.pc = "blocks" /\ downloadFaults \in 0 .. MaxDownloadFaults
  BY DEF Receives, DownloadIInv, AskedInTime, DownloadTypeOK
<1>2. crossed' = (crossed \/ file.ver # request[b].ver)
  BY DEF Receives
<1>3. crossed' \in BOOLEAN /\ (~crossed' => ~crossed /\ file.ver = request[b].ver)
  BY <1>2
<1>4. UNCHANGED <<file, downloads>>
  BY DEF Receives
<1>5. CASE Ended("failed") /\ UNCHANGED <<kept, downloadFaults>>
  BY <1>1, <1>3, <1>4, <1>5, FailedKeeps
<1>6. CASE TriesAgain(b) /\ UNCHANGED downloadFaults
  BY <1>1, <1>3, <1>4, <1>6, TriesAgainKeeps
<1>7. CASE Restarts /\ UNCHANGED downloadFaults
  BY <1>1, <1>3, <1>4, <1>7, RestartsKeep
<1>8. CASE (disk \/ (expected /\ SameEtag(b))) /\ Accepts(b)
  <2>1. ~crossed' /\ download.mode # "disk" => file.ver = download.etag.ver
    BY <1>3, <1>8 DEF SameEtag
  <2> QED BY <1>1, <1>3, <1>4, <1>8, <2>1, AcceptsKeeps
<1> QED BY <1>5, <1>6, <1>7, <1>8 DEF Receives

\* Each stage of the server's answer.
LEMMA AnswersKeep ==
  ASSUME DownloadIInv, NEW b \in BlockNo, AskBlock(b) \/ AnswerSize(b) \/ AnswerTag(b) \/ RequestFails(b)
  PROVE  DownloadIInv'
<1>1. /\ request[b] \in Requests /\ file \in Etag /\ crossed \in BOOLEAN
      /\ downloadFaults \in 0 .. MaxDownloadFaults
  BY DEF DownloadIInv, DownloadTypeOK, Requests
<1>2. download.pc = "blocks"
  BY DEF AskBlock, AnswerSize, AnswerTag, RequestFails, DownloadIInv, AskedInTime
<1>3. CASE AskBlock(b)
  <2>1. [request[b] EXCEPT !.stage = "asked"] \in Requests
    BY <1>1 DEF Requests
  <2>2. request' = [request EXCEPT ![b] = [request[b] EXCEPT !.stage = "asked"]]
    BY <1>3 DEF AskBlock
  <2> QED BY <1>1, <1>2, <1>3, <2>1, <2>2, AskingKeeps DEF AskBlock
<1>4. CASE AnswerSize(b)
  <2>1. CASE Ended("failed") /\ UNCHANGED kept
    BY <1>1, <1>4, <2>1, FailedKeeps DEF AnswerSize
  <2>2. CASE Restarts
    BY <1>1, <1>2, <1>4, <2>2, RestartsKeep DEF AnswerSize
  <2>3. CASE /\ request' = [request EXCEPT ![b].stage = "sized", ![b].size = file.size]
             /\ UNCHANGED <<download, kept>>
    <3> DEFINE r == [request[b] EXCEPT !.stage = "sized", !.size = file.size]
    <3>1. r \in Requests
      BY <1>1 DEF Requests, Etag
    <3>2. request \in [BlockNo -> Requests]
      BY DEF DownloadIInv, DownloadTypeOK, Requests
    <3>3. request' = [request EXCEPT ![b] = r]
      BY <2>3, <3>2
    <3> QED BY <1>1, <1>2, <1>4, <2>3, <3>1, <3>3, AskingKeeps DEF AnswerSize
  <2> QED BY <1>4, <2>1, <2>2, <2>3 DEF AnswerSize
<1>5. CASE AnswerTag(b)
  <2> DEFINE r == [request[b] EXCEPT !.stage = "tagged", !.ver = file.ver]
  <2>1. r \in Requests
    BY <1>1 DEF Requests, Etag
  <2>2. request \in [BlockNo -> Requests]
    BY DEF DownloadIInv, DownloadTypeOK, Requests
  <2>3. request' = [request EXCEPT ![b] = r]
    BY <1>5, <2>2 DEF AnswerTag
  <2> QED BY <1>1, <1>2, <1>5, <2>1, <2>3, AskingKeeps DEF AnswerTag
<1>6. CASE RequestFails(b)
  <2>1. downloadFaults' \in 0 .. MaxDownloadFaults
    BY <1>1, <1>6, DownloadBounds DEF RequestFails
  <2> QED BY <1>1, <1>2, <1>6, <2>1, TriesAgainKeeps DEF RequestFails
<1> QED BY <1>3, <1>4, <1>5, <1>6

LEMMA DownloadStepInv == DownloadIInv /\ [DownloadNext]_downloadVars => DownloadIInv'
<1> SUFFICES ASSUME DownloadIInv, [DownloadNext]_downloadVars PROVE DownloadIInv'
  OBVIOUS
<1>1. CASE Replace
  <2>1. PICK n \in {0} \cup Sizes : file' = [size |-> n, ver |-> file.ver + 1]
    BY <1>1 DEF Replace
  <2>2. file.ver + 1 \in Ver
    BY <1>1, DownloadBounds DEF Replace, DownloadIInv, DownloadTypeOK, Etag, Ver
  <2>3. file' \in Etag
    BY <2>1, <2>2 DEF Etag
  <2> QED BY <1>1, <2>3, ElsewhereKeeps DEF Replace
<1>2. CASE ProbeTag
  BY <1>2, ProbeTagKeeps
<1>3. CASE Complete
  BY <1>3, CompleteKeeps
<1>4. CASE CleanUp
  BY <1>4, ElsewhereKeeps DEF CleanUp, DownloadIInv, DownloadTypeOK
<1>5. CASE ClosePage
  <2>1. downloads \in 0 .. MaxDownloads
    BY DEF DownloadIInv, DownloadTypeOK
  <2>2. request' \in [BlockNo -> Requests] /\ \A b \in BlockNo : request'[b].stage = "none"
    BY <1>5, NothingYet DEF ClosePage
  <2>3. Idle.pc = "idle" /\ Idle.mode # "disk"
    BY DEF Idle
  <2> QED BY <1>5, <2>1, <2>2, <2>3, NothingYet, BecomesKeeps DEF ClosePage
<1>6. CASE \E mode \in Mode : ProbeSize(mode)
  BY <1>6, ProbeSizeKeeps
<1>7. CASE \E b \in BlockNo : Receives(b)
  BY <1>7, ReceivesKeeps
<1>8. CASE \E b \in BlockNo : AskBlock(b) \/ AnswerSize(b) \/ AnswerTag(b) \/ RequestFails(b)
  BY <1>8, AnswersKeep
<1>9. CASE UNCHANGED downloadVars
  <2>1. UNCHANGED <<file, download, request, kept, crossed, downloads, downloadFaults>>
    BY <1>9 DEF downloadVars
  <2> QED BY <2>1, ElsewhereKeeps DEF DownloadIInv, DownloadTypeOK
<1> QED BY <1>1, <1>2, <1>3, <1>4, <1>5, <1>6, <1>7, <1>8, <1>9 DEF DownloadNext

\* The state of a download keeps its types.  (range.ts, resume-db.ts, stream-disk.ts)
THEOREM DownloadTypeCorrect == DownloadSpec => []DownloadTypeOK
<1>1. DownloadIInv => DownloadTypeOK
  BY DEF DownloadIInv
<1> QED BY <1>1, DownloadInitInv, DownloadStepInv, PTL DEF DownloadSpec

\* However often the artifact is replaced and the download is begun again, taken up or run in
\* parallel: it ends with all blocks of the one version its ETag tells, or it does not end well,
\* unless the server sent a body under another version's fingerprint.
\* (fetchBlock, fetchResumable, persistedDownloadArtifact)
THEOREM DownloadsAreWhole == DownloadSpec => []WholeOrError
<1>1. DownloadIInv => WholeOrError
  BY DEF DownloadIInv, Fits, WholeOrError
<1> QED BY <1>1, DownloadInitInv, DownloadStepInv, PTL DEF DownloadSpec

-----------------------------------------------------------------------------
(* A declared upload is what is stored *)

LEMMA SmallestNumber ==
  ASSUME NEW S \in SUBSET Nat, S # {}
  PROVE  \E n \in S : \A m \in S : n <= m
<1> DEFINE R == OpToRel(<, Nat)
<1>1. IsWellFoundedOn(R, Nat)
  BY NatLessThanWellFounded
<1>2. \A m, n \in Nat : m < n => <<m, n>> \in R
  BY Zenon DEF OpToRel
<1> HIDE DEF R
<1>3. PICK n \in S : \A m \in S : ~(<<m, n>> \in R)
  BY <1>1, WFMin, Zenon
<1>4. \A m \in S : ~(m < n)
  BY <1>2, <1>3
<1> QED BY <1>4

\* The first chunk that is missing, or the one after the last.
LEMMA NextOffsetIs ==
  ASSUME NEW u \in UploadId, part \in [UploadId -> Bytes]
  PROVE  /\ NextOffset(u) \in 1 .. Chunks + 1
         /\ \A i \in Chunk : i < NextOffset(u) => part[u][i] # None
         /\ NextOffset(u) \in Chunk => part[u][NextOffset(u)] = None
<1> DEFINE missing == {i \in Chunk : part[u][i] = None}
           Next1(n) == /\ \A i \in Chunk : i < n => part[u][i] # None
                       /\ n \in Chunk => part[u][n] = None
<1>1. \E n \in 1 .. Chunks + 1 : Next1(n)
  <2>1. CASE missing = {}
    <3>1. Chunks + 1 \in 1 .. Chunks + 1 /\ Chunks + 1 \notin Chunk
      BY UploadBounds DEF Chunk
    <3> QED BY <2>1, <3>1
  <2>2. CASE missing # {}
    <3>1. missing \in SUBSET Nat
      BY UploadBounds DEF Chunk
    <3>2. PICK n \in missing : \A m \in missing : n <= m
      BY <2>2, <3>1, SmallestNumber
    <3>3. n \in 1 .. Chunks + 1 /\ \A i \in Chunk : i < n => i \notin missing
      BY <3>2, UploadBounds DEF Chunk
    <3> QED BY <3>2, <3>3
  <2> QED BY <2>1, <2>2
<1> QED BY <1>1 DEF NextOffset

\* What has been said of an upload: by its .meta object and by the browsers at work on it.
Claims(u) == {up[k].md5 : k \in {l \in Uploader : up[l].id = u}}
               \cup (IF meta[u].there THEN {meta[u].md5} ELSE {})
\* All say the same, the chunks are of the file that was declared, and nobody has begun what is to
\* come.
Agreed ==
  /\ \A u \in UploadId : \A m, n \in Claims(u) : m = n
  /\ \A u \in UploadId : \A i \in Chunk : \A m \in Claims(u) : m = None \/ part[u][i] \in {None, m}
  /\ \A u \in UploadId : u > begun => Claims(u) = {} /\ part[u] = Empty
\* A browser declares its own file, has an upload from "ready" on, and what it has read of a declared
\* one is its file.
OwnFile(o) ==
  /\ o.md5 \in {None, o.file}
  /\ o.pc \in {"idle", "init", "scan", "create"} => o.id = 0
  /\ o.pc \notin {"idle", "init", "scan", "create"} => o.id \in UploadId
  /\ o.pc \in {"chunk", "bump", "bumping"} => o.at \in Chunk
  /\ o.md5 # None /\ o.pc \in {"place", "record", "answer"} => o.hash = Whole(o.file)
  /\ o.md5 # None /\ o.pc \in {"record", "answer"} => o.placed = Whole(o.file)
UploadIInv == UploadTypeOK /\ Agreed /\ \A k \in Uploader : OwnFile(up[k])

LEMMA UpIdleFits == UpIdle \in Up /\ OwnFile(UpIdle) /\ UpIdle.id = 0 /\ Empty \in Bytes /\ NoMeta \in Meta
<1>1. Empty \in Bytes
  BY DEF Empty, Bytes, Maybe
<1>2. 0 \in 0 .. MaxUploads /\ 1 \in 1 .. Chunks + 1
  BY UploadBounds
<1>3. UpIdle \in Up
  BY <1>1, <1>2 DEF UpIdle, Up, UploadPc, Maybe
<1> QED BY <1>1, <1>3 DEF UpIdle, OwnFile, NoMeta, Meta, Maybe

\* A browser takes a step and the others stay.
LEMMA UpMoves ==
  ASSUME UploadIInv, NEW k \in Uploader, NEW o \in Up, OwnFile(o), up' = [up EXCEPT ![k] = o]
  PROVE  /\ up' \in [Uploader -> Up] /\ \A l \in Uploader : OwnFile(up'[l])
         /\ up'[k] = o /\ \A l \in Uploader \ {k} : up'[l] = up[l]
BY DEF UploadIInv, UploadTypeOK

\* When nobody says anything new and chunks only go, all still agree.
LEMMA LessAgrees ==
  ASSUME Agreed, begun' = begun, \A u \in UploadId : Claims(u)' \subseteq Claims(u),
         \A u \in UploadId : part'[u] = part[u] \/ part'[u] = Empty
  PROVE  Agreed'
<1>1. \A u \in UploadId : \A i \in Chunk : part'[u][i] \in {None, part[u][i]}
  BY DEF Empty
<1>2. \A u \in UploadId : \A m, n \in Claims(u)' : m = n
  BY DEF Agreed
<1>3. \A u \in UploadId : \A i \in Chunk : \A m \in Claims(u)' : m = None \/ part'[u][i] \in {None, m}
  BY <1>1 DEF Agreed
<1>4. \A u \in UploadId : u > begun' => Claims(u)' = {} /\ part'[u] = Empty
  BY DEF Agreed
<1> QED BY <1>2, <1>3, <1>4 DEF Agreed

\* A browser that says what it said, or nothing any more, of the upload it was at work on.
LEMMA SaysLess ==
  ASSUME UploadIInv, NEW k \in Uploader, NEW o \in Up, up' = [up EXCEPT ![k] = o],
         o.id = 0 \/ (o.id = up[k].id /\ o.md5 = up[k].md5),
         \A u \in UploadId : meta'[u].there => meta[u].there /\ meta'[u].md5 = meta[u].md5
  PROVE  \A u \in UploadId : Claims(u)' \subseteq Claims(u)
<1> SUFFICES ASSUME NEW u \in UploadId, NEW m \in Claims(u)' PROVE m \in Claims(u)
  OBVIOUS
<1>1. u # 0
  BY UploadBounds DEF UploadId
<1>2. up'[k] = o /\ \A l \in Uploader \ {k} : up'[l] = up[l]
  BY DEF UploadIInv, UploadTypeOK
<1>3. CASE \E l \in Uploader : up'[l].id = u /\ m = up'[l].md5
  BY <1>1, <1>2, <1>3 DEF Claims
<1>4. CASE meta'[u].there /\ m = meta'[u].md5
  BY <1>4 DEF Claims
<1> QED BY <1>3, <1>4 DEF Claims

\* What most steps have in common: one browser moves on, .meta objects and chunks only go.
LEMMA UpStepKeeps ==
  ASSUME UploadIInv, NEW k \in Uploader, NEW o \in Up, OwnFile(o), up' = [up EXCEPT ![k] = o],
         o.id = 0 \/ (o.id = up[k].id /\ o.md5 = up[k].md5),
         \A u \in UploadId : meta'[u] = meta[u] \/ meta'[u] = NoMeta, meta' \in [UploadId -> Meta],
         \A u \in UploadId : part'[u] = part[u] \/ part'[u] = Empty, part' \in [UploadId -> Bytes],
         {stored', described'} \subseteq Bytes, UNCHANGED <<sealed, begun>>, inits' \in 0 .. MaxInits
  PROVE  UploadIInv'
<1>1. up' \in [Uploader -> Up] /\ \A l \in Uploader : OwnFile(up'[l])
  BY UpMoves
<1>2. UploadTypeOK'
  BY <1>1 DEF UploadIInv, UploadTypeOK
<1>3. \A u \in UploadId : meta'[u].there => meta[u].there /\ meta'[u].md5 = meta[u].md5
  BY DEF NoMeta
<1>4. \A u \in UploadId : Claims(u)' \subseteq Claims(u)
  BY <1>3, SaysLess
<1>5. Agreed'
  BY <1>4, LessAgrees DEF UploadIInv
<1> QED BY <1>1, <1>2, <1>5 DEF UploadIInv

LEMMA WithoutIs ==
  ASSUME NEW doomed, UploadTypeOK, Deleted(doomed)
  PROVE  /\ meta' \in [UploadId -> Meta] /\ part' \in [UploadId -> Bytes]
         /\ \A u \in UploadId : meta'[u] = meta[u] \/ meta'[u] = NoMeta
         /\ \A u \in UploadId : part'[u] = part[u] \/ part'[u] = Empty
BY UpIdleFits DEF Deleted, Without, UploadTypeOK

LEMMA UpStopsKeeps ==
  ASSUME UploadIInv, NEW k \in Uploader, UpStops(k),
         (UNCHANGED <<meta, part>>) \/ \E doomed \in SUBSET UploadId : Deleted(doomed),
         {stored', described'} \subseteq Bytes, UNCHANGED <<sealed, begun, inits>>
  PROVE  UploadIInv'
<1>1. /\ meta' \in [UploadId -> Meta] /\ part' \in [UploadId -> Bytes]
      /\ \A u \in UploadId : meta'[u] = meta[u] \/ meta'[u] = NoMeta
      /\ \A u \in UploadId : part'[u] = part[u] \/ part'[u] = Empty
  BY WithoutIs DEF UploadIInv, UploadTypeOK
<1>2. inits' \in 0 .. MaxInits
  BY DEF UploadIInv, UploadTypeOK
<1> QED BY <1>1, <1>2, UpIdleFits, UpStepKeeps DEF UpStops

\* A browser moves on with what it has.
LEMMA UpGoesKeeps ==
  ASSUME UploadIInv, NEW k \in Uploader, NEW pc \in UploadPc, UpGoes(k, pc),
         UNCHANGED <<sealed, meta, part, stored, begun, inits>>, described' \in Bytes,
         pc \notin {"idle", "init", "scan", "create"}, up[k].pc \notin {"idle", "init", "scan", "create"},
         pc \in {"chunk", "bump", "bumping"} => up[k].at \in Chunk,
         pc \in {"place", "record", "answer"} => up[k].pc = "record"
  PROVE  UploadIInv'
<1> DEFINE o == [up[k] EXCEPT !.pc = pc]
<1>1. up[k] \in Up /\ OwnFile(up[k])
  BY DEF UploadIInv, UploadTypeOK
<1>2. /\ o \in Up /\ o.pc = pc /\ o.id = up[k].id /\ o.md5 = up[k].md5 /\ o.file = up[k].file
      /\ o.at = up[k].at /\ o.hash = up[k].hash /\ o.placed = up[k].placed
  BY <1>1 DEF Up
<1>3. OwnFile(o)
  BY <1>1, <1>2 DEF OwnFile
<1>4. up' = [up EXCEPT ![k] = o]
  BY DEF UpGoes
<1>5. meta' \in [UploadId -> Meta] /\ part' \in [UploadId -> Bytes] /\ {stored', described'} \subseteq Bytes
      /\ inits' \in 0 .. MaxInits
  BY DEF UploadIInv, UploadTypeOK
<1> HIDE DEF o
<1> QED BY <1>2, <1>3, <1>4, <1>5, UpStepKeeps

LEMMA ChooseKeeps == ASSUME UploadIInv, NEW k \in Uploader, Choose(k) PROVE UploadIInv'
<1>1. PICK f \in Content : \E m \in {f, None} :
        up' = [up EXCEPT ![k] = [UpIdle EXCEPT !.pc = "init", !.file = f, !.md5 = m]]
  BY DEF Choose
<1>2. PICK m \in {f, None} :
        up' = [up EXCEPT ![k] = [UpIdle EXCEPT !.pc = "init", !.file = f, !.md5 = m]]
  BY <1>1
<1> DEFINE o == [UpIdle EXCEPT !.pc = "init", !.file = f, !.md5 = m]
<1>3. o \in Up /\ o.pc = "init" /\ o.id = 0 /\ o.md5 = m /\ o.file = f
  BY UpIdleFits DEF Up, UploadPc, Maybe
<1>4. OwnFile(o)
  BY <1>3 DEF OwnFile
<1>5. inits' \in 0 .. MaxInits
  BY UploadBounds DEF Choose, UploadIInv, UploadTypeOK
<1>6. meta' \in [UploadId -> Meta] /\ part' \in [UploadId -> Bytes] /\ {stored', described'} \subseteq Bytes
  BY DEF UploadIInv, UploadTypeOK, Choose
<1> HIDE DEF o
<1>7. up' = [up EXCEPT ![k] = o]
  BY <1>2 DEF o
<1> QED BY <1>3, <1>4, <1>5, <1>6, <1>7, UpStepKeeps DEF Choose

LEMMA InitLooksKeeps == ASSUME UploadIInv, NEW k \in Uploader, InitLooks(k) PROVE UploadIInv'
<1> DEFINE stale == {u \in Metas : meta[u].stale}
           o == [up[k] EXCEPT !.pc = "scan", !.doomed = stale]
<1>1. up[k] \in Up /\ OwnFile(up[k]) /\ up[k].pc = "init"
  BY DEF UploadIInv, UploadTypeOK, InitLooks, UpAt
<1>2. stale \in SUBSET UploadId
  BY DEF Metas
<1> HIDE DEF stale
<1>3. o \in Up /\ o.pc = "scan" /\ o.id = up[k].id /\ o.md5 = up[k].md5 /\ o.file = up[k].file
  BY <1>1, <1>2 DEF Up, UploadPc
<1>4. OwnFile(o)
  BY <1>1, <1>3 DEF OwnFile
<1>5. up' = [up EXCEPT ![k] = o]
  BY DEF InitLooks, UploadIInv, UploadTypeOK, stale
<1>6. meta' \in [UploadId -> Meta] /\ part' \in [UploadId -> Bytes] /\ {stored', described'} \subseteq Bytes
      /\ inits' \in 0 .. MaxInits
  BY DEF UploadIInv, UploadTypeOK, InitLooks
<1> HIDE DEF o
<1> QED BY <1>3, <1>4, <1>5, <1>6, UpStepKeeps DEF InitLooks

\* A browser that goes on with an upload says what its .meta object says.
LEMMA InitScanKeeps == ASSUME UploadIInv, NEW k \in Uploader, InitScan(k) PROVE UploadIInv'
<1> DEFINE others == Metas \ up[k].doomed
           mine   == {u \in others : SameSignature(k, u)}
<1>1. up[k] \in Up /\ OwnFile(up[k]) /\ up[k].pc = "scan" /\ up[k].id = 0
  BY DEF UploadIInv, UploadTypeOK, InitScan, UpAt, OwnFile
<1>2. Deleted(up[k].doomed) /\ UNCHANGED <<sealed, stored, described, begun, inits>>
  BY DEF InitScan
<1>3. /\ meta' \in [UploadId -> Meta] /\ part' \in [UploadId -> Bytes]
      /\ \A u \in UploadId : meta'[u] = meta[u] \/ meta'[u] = NoMeta
      /\ \A u \in UploadId : part'[u] = part[u] \/ part'[u] = Empty
  BY <1>2, WithoutIs DEF UploadIInv
<1>4. {stored', described'} \subseteq Bytes /\ inits' \in 0 .. MaxInits
  BY <1>2 DEF UploadIInv, UploadTypeOK
<1>5. others \in SUBSET UploadId
  BY DEF Metas
<1>6. CASE up' = [up EXCEPT ![k].pc = "create", ![k].doomed = others]
  <2> DEFINE o == [up[k] EXCEPT !.pc = "create", !.doomed = others]
  <2> HIDE DEF others
  <2>1. o \in Up /\ o.pc = "create" /\ o.id = up[k].id /\ o.md5 = up[k].md5 /\ o.file = up[k].file
    BY <1>1, <1>5 DEF Up, UploadPc
  <2>2. OwnFile(o)
    BY <1>1, <2>1 DEF OwnFile
  <2>3. up' = [up EXCEPT ![k] = o]
    BY <1>6 DEF UploadIInv, UploadTypeOK
  <2> HIDE DEF o
  <2> QED BY <1>2, <1>3, <1>4, <2>1, <2>2, <2>3, UpStepKeeps
<1>7. ASSUME NEW u \in mine,
             up' = [up EXCEPT ![k].pc = "ready", ![k].id = u, ![k].at = NextOffset(u), ![k].doomed = {}]
      PROVE  UploadIInv'
  <2> DEFINE next == NextOffset(u)
             o == [up[k] EXCEPT !.pc = "ready", !.id = u, !.at = next, !.doomed = {}]
  <2>1. u \in UploadId /\ meta[u].there /\ meta[u].md5 = up[k].md5
    BY <1>7 DEF SameSignature, Metas
  <2>2. next \in 1 .. Chunks + 1 /\ u \in 0 .. MaxUploads
    BY <2>1, NextOffsetIs, UploadBounds DEF UploadIInv, UploadTypeOK, UploadId
  <2> HIDE DEF next
  <2>3. o \in Up /\ o.pc = "ready" /\ o.id = u /\ o.md5 = up[k].md5 /\ o.file = up[k].file
    BY <1>1, <2>2 DEF Up, UploadPc
  <2>4. OwnFile(o)
    BY <1>1, <2>1, <2>3 DEF OwnFile
  <2>5. up' = [up EXCEPT ![k] = o]
    BY <1>7 DEF UploadIInv, UploadTypeOK, next
  <2> HIDE DEF o
  <2>6. /\ up' \in [Uploader -> Up] /\ \A l \in Uploader : OwnFile(up'[l])
        /\ up'[k] = o /\ \A l \in Uploader \ {k} : up'[l] = up[l]
    BY <2>3, <2>4, <2>5, UpMoves
  <2>7. ASSUME NEW v \in UploadId, NEW m \in Claims(v)' PROVE m \in Claims(v)
    <3>1. CASE \E l \in Uploader : up'[l].id = v /\ m = up'[l].md5
      BY <2>1, <2>3, <2>6, <3>1 DEF Claims
    <3>2. CASE meta'[v].there /\ m = meta'[v].md5
      BY <1>3, <3>2 DEF Claims, NoMeta
    <3> QED BY <2>7, <3>1, <3>2 DEF Claims
  <2>8. Agreed'
    BY <1>2, <1>3, <2>7, LessAgrees DEF UploadIInv
  <2> QED BY <1>2, <1>3, <1>4, <2>6, <2>8 DEF UploadIInv, UploadTypeOK
<1> QED BY <1>6, <1>7 DEF InitScan

\* A new upload is nobody's but its browser's, and empty.
LEMMA InitCreateKeeps == ASSUME UploadIInv, NEW k \in Uploader, InitCreate(k) PROVE UploadIInv'
<1>1. PICK u : u = begun + 1
  OBVIOUS
<1> DEFINE o == [up[k] EXCEPT !.pc = "ready", !.id = u, !.at = 1, !.doomed = {}]
           new == [there |-> TRUE, md5 |-> up[k].md5, stale |-> FALSE]
           rest == Without(up[k].doomed, meta, NoMeta)
<1>2. up[k] \in Up /\ OwnFile(up[k]) /\ begun \in 0 .. MaxUploads
  BY DEF UploadIInv, UploadTypeOK
<1>3. /\ begun < MaxUploads /\ begun' = u /\ UNCHANGED <<sealed, stored, described, inits>>
      /\ part' = Without(up[k].doomed, part, Empty) /\ meta' = [rest EXCEPT ![u] = new]
      /\ up' = [up EXCEPT ![k].pc = "ready", ![k].id = u, ![k].at = 1, ![k].doomed = {}]
  BY <1>1 DEF InitCreate
<1>4. u \in UploadId /\ u \in 0 .. MaxUploads /\ 1 \in 1 .. Chunks + 1 /\ u > begun
  BY <1>2, <1>3, <1>1, UploadBounds DEF UploadId
<1>5. \A v \in UploadId : v > u => v > begun
  BY <1>2, <1>1, UploadBounds DEF UploadId
<1>6. o \in Up /\ o.pc = "ready" /\ o.id = u /\ o.md5 = up[k].md5 /\ o.file = up[k].file
  BY <1>2, <1>4 DEF Up, UploadPc
<1>7. OwnFile(o)
  BY <1>2, <1>4, <1>6 DEF OwnFile
<1>8. up' = [up EXCEPT ![k] = o]
  BY <1>3 DEF UploadIInv, UploadTypeOK
<1> HIDE DEF o
<1>9. /\ up' \in [Uploader -> Up] /\ \A l \in Uploader : OwnFile(up'[l])
      /\ up'[k] = o /\ \A l \in Uploader \ {k} : up'[l] = up[l]
  BY <1>6, <1>7, <1>8, UpMoves
<1>10. new \in Meta
  BY <1>2 DEF Meta, Up
<1>11. rest \in [UploadId -> Meta] /\ \A v \in UploadId : rest[v] = meta[v] \/ rest[v] = NoMeta
  BY UpIdleFits DEF Without, UploadIInv, UploadTypeOK
<1>12. part' \in [UploadId -> Bytes] /\ \A v \in UploadId : part'[v] = part[v] \/ part'[v] = Empty
  BY <1>3, UpIdleFits DEF Without, UploadIInv, UploadTypeOK
<1> HIDE DEF new, rest
<1>13. meta' \in [UploadId -> Meta] /\ meta'[u] = new /\ \A v \in UploadId \ {u} : meta'[v] = rest[v]
  BY <1>3, <1>4, <1>10, <1>11
<1>14. Claims(u) = {} /\ part[u] = Empty
  BY <1>4 DEF UploadIInv, Agreed
<1>15. \A m \in Claims(u)' : m = up[k].md5
  <2>1. \A l \in Uploader \ {k} : up[l].id # u
    BY <1>14 DEF Claims
  <2>2. meta'[u].md5 = up[k].md5
    BY <1>13 DEF new
  <2> QED BY <1>6, <1>9, <2>1, <2>2 DEF Claims
<1>16. ASSUME NEW v \in UploadId \ {u} PROVE Claims(v)' \subseteq Claims(v)
  <2> SUFFICES ASSUME NEW m \in Claims(v)' PROVE m \in Claims(v)
    OBVIOUS
  <2>1. CASE \E l \in Uploader : up'[l].id = v /\ m = up'[l].md5
    BY <1>6, <1>9, <1>16, <2>1 DEF Claims
  <2>2. CASE meta'[v].there /\ m = meta'[v].md5
    BY <1>11, <1>13, <1>16, <2>2 DEF Claims, NoMeta
  <2> QED BY <2>1, <2>2 DEF Claims
<1>17. Agreed'
  <2>1. \A v \in UploadId : \A m, n \in Claims(v)' : m = n
    BY <1>15, <1>16 DEF UploadIInv, Agreed
  <2>2. \A v \in UploadId : \A i \in Chunk : part'[v][i] \in {None, part[v][i]}
    BY <1>12 DEF Empty
  <2>3. \A i \in Chunk : part'[u][i] = None
    BY <1>4, <1>12, <1>14 DEF Empty
  <2>4. \A v \in UploadId : \A i \in Chunk : \A m \in Claims(v)' : m = None \/ part'[v][i] \in {None, m}
    BY <1>16, <2>2, <2>3 DEF UploadIInv, Agreed
  <2>5. \A v \in UploadId : v > u => v # u /\ v > begun
    BY <1>4, <1>5 DEF UploadId
  <2>6. \A v \in UploadId : v > u => Claims(v)' = {} /\ part'[v] = Empty
    BY <1>12, <1>16, <2>5 DEF UploadIInv, Agreed
  <2> QED BY <1>3, <2>1, <2>4, <2>6 DEF Agreed
<1>18. UploadTypeOK'
  BY <1>3, <1>4, <1>9, <1>12, <1>13 DEF UploadIInv, UploadTypeOK
<1> QED BY <1>9, <1>17, <1>18 DEF UploadIInv

\* A chunk is of the file that was declared.
LEMMA ChunkWriteKeeps == ASSUME UploadIInv, NEW k \in Uploader, ChunkWrite(k) PROVE UploadIInv'
<1>1. up[k] \in Up /\ OwnFile(up[k]) /\ up[k].pc = "chunk" /\ up[k].at \in Chunk /\ up[k].id \in UploadId
  BY DEF UploadIInv, UploadTypeOK, OwnFile, ChunkWrite, UpAt
<1>2. CASE UpStops(k) /\ UNCHANGED part
  <2>1. {stored', described'} \subseteq Bytes
    BY DEF UploadIInv, UploadTypeOK, ChunkWrite
  <2> QED BY <1>2, <2>1, UpStopsKeeps DEF ChunkWrite
<1>3. CASE UpGoes(k, "bump") /\ part' = [part EXCEPT ![up[k].id][up[k].at] = up[k].file]
  <2> DEFINE o == [up[k] EXCEPT !.pc = "bump"]
             id == up[k].id
  <2>1. o \in Up /\ o.id = id /\ o.md5 = up[k].md5 /\ o.file = up[k].file /\ o.at = up[k].at /\ o.pc = "bump"
    BY <1>1 DEF Up, UploadPc
  <2>2. OwnFile(o)
    BY <1>1, <2>1 DEF OwnFile
  <2>3. up' = [up EXCEPT ![k] = o]
    BY <1>3 DEF UpGoes
  <2> HIDE DEF o
  <2>4. /\ up' \in [Uploader -> Up] /\ \A l \in Uploader : OwnFile(up'[l])
        /\ up'[k] = o /\ \A l \in Uploader \ {k} : up'[l] = up[l]
    BY <2>1, <2>2, <2>3, UpMoves
  <2>5. part \in [UploadId -> Bytes] /\ up[k].file \in Maybe
    BY <1>1 DEF UploadIInv, UploadTypeOK, Up
  <2>6. part[id] \in [Chunk -> Maybe]
    BY <1>1, <2>5 DEF Bytes
  <2>7. [part[id] EXCEPT ![up[k].at] = up[k].file] \in Bytes
    BY <1>1, <2>5, <2>6 DEF Bytes
  <2>8. part' = [part EXCEPT ![id] = [part[id] EXCEPT ![up[k].at] = up[k].file]]
    BY <1>3
  <2>9. /\ part' \in [UploadId -> Bytes] /\ \A v \in UploadId \ {id} : part'[v] = part[v]
        /\ part'[id] = [part[id] EXCEPT ![up[k].at] = up[k].file]
    BY <1>1, <2>5, <2>7, <2>8
  <2>10. \A i \in Chunk : part'[id][i] \in {part[id][i], up[k].file}
    BY <2>6, <2>9
  <2>11. UNCHANGED <<sealed, meta, stored, described, begun, inits>>
    BY DEF ChunkWrite
  <2>12. \A v \in UploadId : Claims(v)' \subseteq Claims(v)
    BY <2>1, <2>3, <2>11, SaysLess
  <2>13. up[k].md5 \in Claims(id)
    BY DEF Claims
  <2>14. id <= begun
    BY <1>1, <2>13, UploadBounds DEF UploadIInv, UploadTypeOK, Agreed, UploadId
  <2>15. \A m \in Claims(id) : m = up[k].md5 /\ m \in {None, up[k].file}
    BY <1>1, <2>13 DEF UploadIInv, Agreed, OwnFile
  <2>16. Agreed'
    <3>1. \A v \in UploadId : \A m, n \in Claims(v)' : m = n
      BY <2>12 DEF UploadIInv, Agreed
    <3>2. ASSUME NEW v \in UploadId, NEW i \in Chunk, NEW m \in Claims(v)', m # None
          PROVE  part'[v][i] \in {None, m}
      <4>1. m \in Claims(v) /\ part[v][i] \in {None, m}
        BY <2>12, <3>2 DEF UploadIInv, Agreed
      <4>2. CASE v = id
        BY <2>10, <2>15, <3>2, <4>1, <4>2
      <4>3. CASE v # id
        BY <2>9, <4>1, <4>3
      <4> QED BY <4>2, <4>3
    <3>3. \A v \in UploadId : v > begun => v # id
      BY <1>1, <2>14, UploadBounds DEF UploadIInv, UploadTypeOK, UploadId
    <3>4. \A v \in UploadId : v > begun' => Claims(v)' = {} /\ part'[v] = Empty
      BY <2>9, <2>11, <2>12, <3>3 DEF UploadIInv, Agreed
    <3> QED BY <3>1, <3>2, <3>4 DEF Agreed
  <2>17. UploadTypeOK'
    BY <2>4, <2>9, <2>11 DEF UploadIInv, UploadTypeOK
  <2> QED BY <2>4, <2>16, <2>17 DEF UploadIInv
<1> QED BY <1>2, <1>3 DEF ChunkWrite

\* A .meta object that is written again, or for the first time after it was deleted, says what its
\* browser says.
LEMMA BumpWriteKeeps == ASSUME UploadIInv, NEW k \in Uploader, BumpWrite(k) PROVE UploadIInv'
<1> DEFINE more == up[k].at + 1
           o == [up[k] EXCEPT !.pc = "ready", !.at = more]
           id == up[k].id
           new == [there |-> TRUE, md5 |-> up[k].md5, stale |-> FALSE]
<1>1. up[k] \in Up /\ OwnFile(up[k]) /\ up[k].at \in Chunk /\ id \in UploadId
  BY DEF UploadIInv, UploadTypeOK, OwnFile, BumpWrite, UpAt
<1>2. more \in 1 .. Chunks + 1
  BY <1>1, UploadBounds DEF Chunk
<1>3. /\ meta' = [meta EXCEPT ![id] = new] /\ up' = [up EXCEPT ![k] = o]
      /\ UNCHANGED <<sealed, part, stored, described, begun, inits>>
  BY DEF BumpWrite, UploadIInv, UploadTypeOK
<1> HIDE DEF more
<1>4. o \in Up /\ o.id = id /\ o.md5 = up[k].md5 /\ o.file = up[k].file /\ o.pc = "ready"
  BY <1>1, <1>2 DEF Up, UploadPc
<1>5. OwnFile(o)
  BY <1>1, <1>4 DEF OwnFile
<1> HIDE DEF o
<1>6. /\ up' \in [Uploader -> Up] /\ \A l \in Uploader : OwnFile(up'[l])
      /\ up'[k] = o /\ \A l \in Uploader \ {k} : up'[l] = up[l]
  BY <1>3, <1>4, <1>5, UpMoves
<1>7. new \in Meta /\ new.md5 = up[k].md5
  BY <1>1 DEF Meta, Up
<1> HIDE DEF new
<1>8. /\ meta' \in [UploadId -> Meta] /\ meta'[id] = new
      /\ \A v \in UploadId \ {id} : meta'[v] = meta[v]
  BY <1>1, <1>3, <1>7 DEF UploadIInv, UploadTypeOK
<1>9. ASSUME NEW v \in UploadId PROVE Claims(v)' \subseteq Claims(v)
  <2> SUFFICES ASSUME NEW m \in Claims(v)' PROVE m \in Claims(v)
    OBVIOUS
  <2>1. CASE \E l \in Uploader : up'[l].id = v /\ m = up'[l].md5
    BY <1>4, <1>6, <2>1 DEF Claims
  <2>2. CASE meta'[v].there /\ m = meta'[v].md5
    <3>1. CASE v = id
      BY <1>7, <1>8, <2>2, <3>1 DEF Claims
    <3>2. CASE v # id
      BY <1>8, <2>2, <3>2 DEF Claims
    <3> QED BY <3>1, <3>2
  <2> QED BY <2>1, <2>2 DEF Claims
<1>10. Agreed'
  BY <1>3, <1>9, LessAgrees DEF UploadIInv
<1>11. UploadTypeOK'
  BY <1>3, <1>6, <1>8 DEF UploadIInv, UploadTypeOK
<1> QED BY <1>6, <1>10, <1>11 DEF UploadIInv

\* What is read from the chunks of a declared upload is the declared file.
LEMMA DigestIs ==
  ASSUME UploadIInv, NEW k \in Uploader, up[k].id \in UploadId, Streamable(k)
  PROVE  Digest(k) \in Bytes /\ (up[k].md5 # None => Digest(k) = Whole(up[k].file))
<1>1. Digest(k) \in Bytes
  BY DEF Digest, UploadIInv, UploadTypeOK
<1>2. ASSUME up[k].md5 # None PROVE Digest(k) = Whole(up[k].file)
  <2>1. up[k].md5 \in Claims(up[k].id)
    BY DEF Claims
  <2>2. up[k].md5 = up[k].file
    BY <1>2 DEF UploadIInv, OwnFile
  <2>3. \A i \in Chunk : Digest(k)[i] = up[k].file
    BY <1>2, <2>1, <2>2 DEF UploadIInv, Agreed, Digest, Streamable
  <2> QED BY <1>1, <2>3 DEF Bytes, Whole
<1> QED BY <1>1, <1>2

\* A commit notes what it has read, and goes on.
LEMMA CommitNotes ==
  ASSUME UploadIInv, NEW k \in Uploader, NEW pc \in {"place", "record"}, NEW hash \in Bytes, NEW placed \in Bytes,
         up' = [up EXCEPT ![k].pc = pc, ![k].hash = hash, ![k].placed = placed], up[k].id \in UploadId,
         up[k].md5 # None => hash = Whole(up[k].file),
         up[k].md5 # None /\ pc = "record" => placed = Whole(up[k].file),
         stored' \in Bytes, UNCHANGED <<sealed, meta, part, described, begun, inits>>
  PROVE  UploadIInv'
<1> DEFINE o == [up[k] EXCEPT !.pc = pc, !.hash = hash, !.placed = placed]
<1>1. up[k] \in Up /\ OwnFile(up[k]) /\ up \in [Uploader -> Up]
  BY DEF UploadIInv, UploadTypeOK
<1>2. /\ o \in Up /\ o.pc = pc /\ o.id = up[k].id /\ o.md5 = up[k].md5 /\ o.file = up[k].file
      /\ o.hash = hash /\ o.placed = placed
  BY <1>1 DEF Up, UploadPc
<1>3. OwnFile(o)
  BY <1>1, <1>2 DEF OwnFile
<1>4. up' = [up EXCEPT ![k] = o]
  BY <1>1
<1>5. meta' \in [UploadId -> Meta] /\ part' \in [UploadId -> Bytes] /\ {stored', described'} \subseteq Bytes
      /\ inits' \in 0 .. MaxInits
  BY DEF UploadIInv, UploadTypeOK
<1> HIDE DEF o
<1> QED BY <1>2, <1>3, <1>4, <1>5, UpStepKeeps

LEMMA CommitKeeps ==
  ASSUME UploadIInv, NEW k \in Uploader, CommitHash(k) \/ CommitPlace(k) \/ CommitSeal(k)
  PROVE  UploadIInv'
<1>1. up[k] \in Up /\ OwnFile(up[k]) /\ up \in [Uploader -> Up] /\ {stored, described} \subseteq Bytes
  BY DEF UploadIInv, UploadTypeOK
<1>2. up[k].id \in UploadId /\ {up[k].hash, up[k].placed} \subseteq Bytes
  BY <1>1 DEF OwnFile, CommitHash, CommitPlace, CommitSeal, UpAt, Up
<1>3. CASE CommitHash(k)
  <2>1. UNCHANGED <<sealed, meta, part, stored, described, begun, inits>>
    BY <1>3 DEF CommitHash
  <2>2. CASE UpStops(k)
    BY <1>1, <2>1, <2>2, UpStopsKeeps
  <2>3. CASE Streamable(k) /\ up' = [up EXCEPT ![k].pc = "place", ![k].hash = Digest(k)]
    <3>1. up' = [up EXCEPT ![k].pc = "place", ![k].hash = Digest(k), ![k].placed = up[k].placed]
      BY <1>1, <2>3 DEF Up
    <3> QED BY <1>1, <1>2, <2>1, <2>3, <3>1, DigestIs, CommitNotes
  <2> QED BY <1>3, <2>2, <2>3 DEF CommitHash
<1>4. CASE CommitPlace(k)
  <2>1. UNCHANGED <<sealed, meta, part, described, begun, inits>>
    BY <1>4 DEF CommitPlace
  <2>2. CASE UpStops(k) /\ UNCHANGED stored
    BY <1>1, <2>1, <2>2, UpStopsKeeps
  <2>3. CASE /\ Streamable(k) /\ stored' = Digest(k)
             /\ up' = [up EXCEPT ![k].pc = "record", ![k].placed = Digest(k)]
    <3>1. up' = [up EXCEPT ![k].pc = "record", ![k].hash = up[k].hash, ![k].placed = Digest(k)]
      BY <1>1, <2>3 DEF Up
    <3>2. up[k].md5 # None => up[k].hash = Whole(up[k].file)
      BY <1>1, <1>4 DEF CommitPlace, UpAt, OwnFile
    <3> QED BY <1>2, <2>1, <2>3, <3>1, <3>2, DigestIs, CommitNotes
  <2> QED BY <1>4, <2>2, <2>3 DEF CommitPlace
<1>5. CASE CommitSeal(k)
  <2>1. UNCHANGED <<sealed, meta, part, described, begun, inits>>
    BY <1>5 DEF CommitSeal
  <2>2. CASE UpStops(k) /\ UNCHANGED stored
    BY <1>1, <2>1, <2>2, UpStopsKeeps
  <2>3. CASE Streamable(k) /\ stored' = Digest(k) /\ UpStops(k)
    BY <1>1, <1>2, <2>1, <2>3, DigestIs, UpStopsKeeps
  <2>4. CASE /\ Streamable(k) /\ stored' = Digest(k)
             /\ up' = [up EXCEPT ![k].pc = "record", ![k].hash = Digest(k), ![k].placed = Digest(k)]
    BY <1>2, <2>1, <2>4, DigestIs, CommitNotes
  <2> QED BY <1>5, <2>2, <2>3, <2>4 DEF CommitSeal
<1> QED BY <1>3, <1>4, <1>5

LEMMA GrowStaleKeeps == ASSUME UploadIInv, NEW u \in UploadId, GrowStale(u) PROVE UploadIInv'
<1>1. meta \in [UploadId -> Meta] /\ meta[u] \in Meta
  BY DEF UploadIInv, UploadTypeOK
<1>2. meta' = [meta EXCEPT ![u] = [meta[u] EXCEPT !.stale = TRUE]]
  BY <1>1 DEF GrowStale
<1>3. [meta[u] EXCEPT !.stale = TRUE] \in Meta
  BY <1>1 DEF Meta
<1>4. /\ meta' \in [UploadId -> Meta]
      /\ \A v \in UploadId : meta'[v].there = meta[v].there /\ meta'[v].md5 = meta[v].md5
  <2>1. /\ [meta[u] EXCEPT !.stale = TRUE].there = meta[u].there
        /\ [meta[u] EXCEPT !.stale = TRUE].md5 = meta[u].md5
    BY <1>1 DEF Meta
  <2> QED BY <1>1, <1>2, <1>3, <2>1
<1>5. UNCHANGED <<sealed, part, stored, described, begun, inits, up>>
  BY DEF GrowStale
<1>6. \A v \in UploadId : Claims(v)' \subseteq Claims(v)
  BY <1>4, <1>5 DEF Claims
<1>7. Agreed'
  BY <1>5, <1>6, LessAgrees DEF UploadIInv
<1> QED BY <1>4, <1>5, <1>7 DEF UploadIInv, UploadTypeOK

\* What a browser's step asks of its record.
LEMMA UploadBrowserKeeps ==
  ASSUME UploadIInv, NEW k \in Uploader,
         \/ ChunkRead(k) \/ BumpRead(k) \/ CommitRead(k) \/ CommitCheck(k) \/ CommitRecord(k)
         \/ CommitAnswer(k) \/ Cancel(k) \/ Leave(k)
  PROVE  UploadIInv'
<1>1. /\ {stored, described, Empty} \subseteq Bytes /\ up[k] \in Up /\ OwnFile(up[k])
      /\ {up[k].hash, up[k].placed} \subseteq Bytes
  BY UpIdleFits DEF UploadIInv, UploadTypeOK, Up
<1>2. {"chunk", "bumping", "check", "seal", "hash", "answer"} \subseteq UploadPc
  BY DEF UploadPc
<1>3. CASE ChunkRead(k)
  BY <1>1, <1>2, <1>3, UpGoesKeeps, UpStopsKeeps DEF ChunkRead, UpAt
<1>4. CASE BumpRead(k)
  BY <1>1, <1>2, <1>4, UpGoesKeeps, UpStopsKeeps DEF BumpRead, UpAt, OwnFile
<1>5. CASE CommitRead(k)
  BY <1>1, <1>2, <1>5, UpGoesKeeps, UpStopsKeeps DEF CommitRead, UpAt
<1>6. CASE CommitCheck(k)
  BY <1>1, <1>2, <1>6, UpGoesKeeps, UpStopsKeeps DEF CommitCheck, UpAt
<1>7. CASE CommitRecord(k)
  BY <1>1, <1>2, <1>7, UpGoesKeeps, UpStopsKeeps DEF CommitRecord, UpAt
<1>8. CASE CommitAnswer(k)
  <2>1. {up[k].id} \in SUBSET UploadId
    BY <1>1, <1>8 DEF CommitAnswer, UpAt, OwnFile
  <2> QED BY <1>1, <1>8, <2>1, UpStopsKeeps DEF CommitAnswer
<1>9. CASE Cancel(k)
  <2>1. {up[k].id} \in SUBSET UploadId
    BY <1>1, <1>9 DEF Cancel, UpAt, OwnFile
  <2>2. UNCHANGED <<meta, part>> \/ Deleted({up[k].id})
    BY <1>9 DEF Cancel
  <2> QED BY <1>1, <1>9, <2>1, <2>2, UpStopsKeeps DEF Cancel
<1>10. CASE Leave(k)
  BY <1>1, <1>10, UpStopsKeeps DEF Leave
<1> QED BY <1>3, <1>4, <1>5, <1>6, <1>7, <1>8, <1>9, <1>10

LEMMA UploadInitInv == UploadInit => UploadIInv
<1> SUFFICES ASSUME UploadInit PROVE UploadIInv OBVIOUS
<1>1. UploadTypeOK
  <2>1. 0 \in 0 .. MaxUploads /\ 0 \in 0 .. MaxInits
    BY UploadBounds
  <2> QED BY <2>1, UpIdleFits DEF UploadInit, UploadTypeOK
<1>2. \A k \in Uploader : up[k] = UpIdle
  BY DEF UploadInit
<1>3. \A u \in UploadId : Claims(u) = {} /\ part[u] = Empty
  BY <1>2, UpIdleFits, UploadBounds DEF UploadInit, Claims, NoMeta, UploadId
<1>4. Agreed
  BY <1>3 DEF Agreed
<1> QED BY <1>1, <1>2, <1>4, UpIdleFits DEF UploadIInv

LEMMA UploadStepInv == UploadIInv /\ [UploadNext]_uploadVars => UploadIInv'
<1> SUFFICES ASSUME UploadIInv, [UploadNext]_uploadVars PROVE UploadIInv'
  OBVIOUS
<1>1. ASSUME NEW k \in Uploader, Choose(k) \/ InitLooks(k) \/ InitScan(k) \/ InitCreate(k)
      PROVE  UploadIInv'
  BY <1>1, ChooseKeeps, InitLooksKeeps, InitScanKeeps, InitCreateKeeps
<1>2. ASSUME NEW k \in Uploader, ChunkWrite(k) \/ BumpWrite(k) PROVE UploadIInv'
  BY <1>2, ChunkWriteKeeps, BumpWriteKeeps
<1>3. ASSUME NEW k \in Uploader, CommitHash(k) \/ CommitPlace(k) \/ CommitSeal(k) PROVE UploadIInv'
  BY <1>3, CommitKeeps
<1>4. ASSUME NEW k \in Uploader,
             \/ ChunkRead(k) \/ BumpRead(k) \/ CommitRead(k) \/ CommitCheck(k) \/ CommitRecord(k)
             \/ CommitAnswer(k) \/ Cancel(k) \/ Leave(k)
      PROVE  UploadIInv'
  BY <1>4, UploadBrowserKeeps
<1>5. ASSUME NEW u \in UploadId, GrowStale(u) PROVE UploadIInv'
  BY <1>5, GrowStaleKeeps
<1>6. CASE UNCHANGED uploadVars
  <2>1. UNCHANGED <<sealed, meta, part, stored, described, begun, inits, up>>
    BY <1>6 DEF uploadVars
  <2>2. UploadTypeOK' /\ \A k \in Uploader : OwnFile(up'[k])
    BY <2>1 DEF UploadIInv, UploadTypeOK
  <2>3. Agreed'
    BY <2>1 DEF UploadIInv, Agreed, Claims
  <2> QED BY <2>2, <2>3 DEF UploadIInv
<1> QED BY <1>1, <1>2, <1>3, <1>4, <1>5, <1>6 DEF UploadNext

\* The state of uploads keeps its types; in particular every upload has a next chunk.
\* (upload_init, upload_chunk, upload_commit)
THEOREM UploadTypeCorrect == UploadSpec => []UploadTypeOK
<1>1. UploadIInv => UploadTypeOK
  BY DEF UploadIInv
<1> QED BY <1>1, UploadInitInv, UploadStepInv, PTL DEF UploadSpec

\* Whoever else uploads to the path, cancels, resumes or cleans up: what is put at the key and
\* recorded for a browser that declared its MD5 is its own file, whole.
\* (upload_init, upload_chunk, upload_commit)
THEOREM DeclaredUploadsAreStored == UploadSpec => []DeclaredIsStored
<1>1. UploadIInv => DeclaredIsStored
  BY DEF UploadIInv, OwnFile, DeclaredIsStored
<1> QED BY <1>1, UploadInitInv, UploadStepInv, PTL DEF UploadSpec

-----------------------------------------------------------------------------
(* The versions on offer can be read *)

\* A call that has a number and has not made its version available yet.
Working == {"pending", "main", "copy", "mark", "rpending", "rcopy", "rmark"}
Owns(c) == vc[c].pc \in Working
Unowned(n) == \A c \in Caller : Owns(c) => vc[c].n # n
Owned ==
  /\ \A c \in Caller : Owns(c) => vc[c].n \in Number /\ vc[c].n <= nextVersion
  /\ \A c, d \in Caller : c # d /\ Owns(c) /\ Owns(d) => vc[c].n # vc[d].n
Given == \A n \in Number : version[n].status # "absent" => n <= nextVersion

\* What a call carries.
Carries(o) ==
  /\ o.pc = "idle" => o.op = "none"
  /\ o.op = "purge" <=> o.pc \in {"list", "unlink", "forget", "keys"}
  /\ o.pc \in {"look", "number", "pending", "main", "copy", "mark"} => o.data \in Content
  /\ o.pc \in {"read", "fetch", "rnumber", "rpending", "rcopy", "rmark"} => o.op = "roll"
  /\ o.pc \in {"rnumber", "rpending", "rcopy", "rmark"} => o.new \in Content
  /\ o.op = "roll" => o.roll \in Number /\ (o.pc # "read" => o.old \in Content)
  /\ o.pc = "restore" => o.old \in Content
  /\ o.pc = "list" => o.n = 0
  /\ o.pc = "unlink" /\ o.n # 0 => o.set \subseteq {o.n}

\* As long as no purge has met another call: a version under way has a record that is pending, with
\* what will be read already there when it is about to be marked; what is about to be dropped or
\* swept is not on offer and nobody's; a reconciliation knows every copy.
Orderly(c) ==
  /\ vc[c].pc \in {"pending", "rpending"} => version[vc[c].n].status = "absent"
  /\ vc[c].pc \in {"main", "copy", "mark", "rcopy", "rmark"} => version[vc[c].n].status \in {"absent", "pending"}
  /\ vc[c].pc \in {"main", "copy"} /\ version[vc[c].n].copy => vc[c].data \notin Large
  /\ vc[c].pc = "mark" /\ version[vc[c].n].copy => archived[vc[c].n] = vc[c].data
  /\ vc[c].pc = "rmark" => archived[vc[c].n] = vc[c].old
  /\ vc[c].pc \in {"drop", "swept", "cleaned"} =>
       \A n \in vc[c].set : n <= nextVersion /\ version[n].status # "available" /\ Unowned(n)
  /\ vc[c].pc = "keys" =>
       \A n \in Number : version[n].status # "absent" /\ version[n].copy => n \in vc[c].set
\* A purge is alone, and what it is about to forget need not be readable any more.
Alone == \A c, d \in Caller : c # d /\ vc[c].op = "purge" => vc[d].pc = "idle"
Forgotten(n) == \E c \in Caller : vc[c].pc = "forget" /\ vc[c].n \in {0, n}
CanBeRead(n) ==
  version[n].status = "available" /\ version[n].copy /\ ~Forgotten(n) =>
    archived[n] = version[n].sha /\ archived[n] # None
InOrder == Alone /\ (\A c \in Caller : Orderly(c)) /\ \A n \in Number : CanBeRead(n)
VersionIInv ==
  /\ VersionTypeOK /\ Owned /\ Given /\ \A c \in Caller : Carries(vc[c])
  /\ ~parallel.purge => InOrder

LEMMA VIdleFits == VIdle \in Vc /\ Carries(VIdle) /\ VIdle.pc = "idle" /\ VIdle.op = "none" /\ NoRecord \in Record
<1>1. 0 \in 0 .. MaxVersion
  BY VersionBounds
<1>2. VIdle \in Vc
  BY <1>1 DEF VIdle, Vc, VPc, Maybe
<1> QED BY <1>2 DEF VIdle, Carries, NoRecord, Record, Maybe

\* One call moves on and the others stay.
LEMMA CallMoves ==
  ASSUME VersionIInv, NEW c \in Caller, NEW o \in Vc, Carries(o), vc' = [vc EXCEPT ![c] = o]
  PROVE  /\ vc' \in [Caller -> Vc] /\ \A d \in Caller : Carries(vc'[d])
         /\ vc'[c] = o /\ \A d \in Caller \ {c} : vc'[d] = vc[d]
BY DEF VersionIInv, VersionTypeOK

\* A step of a put, a sweep or a rollback: it may change what its own version has, and take away what
\* is nobody's.
LEMMA CallKeeps ==
  ASSUME VersionIInv, NEW c \in Caller, NEW o \in Vc, Carries(o), vc' = [vc EXCEPT ![c] = o],
         version' \in [Number -> Record], archived' \in [Number -> Maybe], main' \in Maybe,
         token' \subseteq Number, calls' \in 0 .. MaxCalls, versionFaults' \in 0 .. MaxVersionFaults,
         parallel' \in History, ~parallel'.purge => ~parallel.purge,
         ~parallel'.purge => o.op # "purge" /\ \A d \in Caller : vc[d].op # "purge",
         nextVersion' \in 0 .. MaxVersion, nextVersion <= nextVersion',
         o.pc \in Working => o.n \in Number /\ o.n <= nextVersion',
         o.pc \in Working => (Owns(c) /\ o.n = vc[c].n) \/ o.n > nextVersion,
         Given',
         ~parallel'.purge =>
           \A n \in Number : \/ version'[n] = version[n] /\ archived'[n] = archived[n]
                             \/ Owns(c) /\ n = vc[c].n
                             \/ version'[n].status # "available" /\ Unowned(n),
         ~parallel'.purge =>
           Orderly(c)' /\ \A n \in Number : Owns(c) /\ n = vc[c].n => CanBeRead(n)'
  PROVE  VersionIInv'
<1>1. /\ vc' \in [Caller -> Vc] /\ \A d \in Caller : Carries(vc'[d])
      /\ vc'[c] = o /\ \A d \in Caller \ {c} : vc'[d] = vc[d]
  BY CallMoves
<1>2. VersionTypeOK'
  BY <1>1 DEF VersionTypeOK
<1>3. nextVersion \in Nat /\ nextVersion' \in Nat /\ Number \subseteq Nat
  BY VersionBounds DEF VersionIInv, VersionTypeOK, Number
<1>4. Owned'
  <2>1. \A d \in Caller \ {c} : Owns(d)' <=> Owns(d)
    BY <1>1 DEF Owns
  <2>2. Owns(c)' <=> o.pc \in Working
    BY <1>1 DEF Owns
  <2>3. ASSUME NEW d \in Caller, Owns(d)' PROVE vc'[d].n \in Number /\ vc'[d].n <= nextVersion'
    <3>1. CASE d = c
      BY <1>1, <2>2, <2>3, <3>1
    <3>2. CASE d # c
      <4>1. Owns(d) /\ vc'[d] = vc[d]
        BY <1>1, <2>1, <2>3, <3>2
      <4>2. vc[d].n \in Number /\ vc[d].n <= nextVersion
        BY <4>1 DEF VersionIInv, Owned
      <4>3. \A n \in Nat : n <= nextVersion => n <= nextVersion'
        BY <1>3
      <4> QED BY <1>3, <4>1, <4>2, <4>3
    <3> QED BY <3>1, <3>2
  <2>4. ASSUME NEW d \in Caller \ {c}, Owns(d)', Owns(c)' PROVE vc'[d].n # vc'[c].n
    <3>1. Owns(d) /\ vc'[d].n = vc[d].n /\ vc[d].n \in Number /\ vc[d].n <= nextVersion
      BY <1>1, <2>1, <2>4 DEF VersionIInv, Owned
    <3>2. CASE Owns(c) /\ o.n = vc[c].n
      BY <1>1, <3>1, <3>2 DEF VersionIInv, Owned
    <3>3. CASE o.n > nextVersion /\ o.n \in Number
      BY <1>1, <1>3, <3>1, <3>3
    <3> QED BY <2>2, <2>4, <3>2, <3>3
  <2>5. \A d, e \in Caller : d # e /\ Owns(d)' /\ Owns(e)' => vc'[d].n # vc'[e].n
    BY <1>1, <2>1, <2>4 DEF VersionIInv, Owned
  <2> QED BY <2>3, <2>5 DEF Owned
<1>5. ASSUME ~parallel'.purge PROVE InOrder'
  <2>1. InOrder /\ \A d \in Caller : vc'[d].op # "purge"
    BY <1>1, <1>5 DEF VersionIInv
  <2>2. Alone'
    BY <2>1 DEF Alone
  <2>3. \A n \in Number : Unowned(n) /\ n <= nextVersion => Unowned(n)'
    BY <1>1, <1>3 DEF Unowned, Owns
  <2>4. ASSUME NEW d \in Caller \ {c} PROVE Orderly(d)'
    <3>1. vc'[d] = vc[d] /\ Orderly(d) /\ vc[d].pc # "keys" /\ vc[d] \in Vc
      BY <1>1, <1>5, <2>1, <2>4 DEF InOrder, VersionIInv, Carries, VersionTypeOK
    <3>2. CASE Owns(d)
      <4>1. vc[d].n \in Number /\ ~(Owns(c) /\ vc[c].n = vc[d].n) /\ ~Unowned(vc[d].n)
        BY <2>4, <3>2 DEF VersionIInv, Owned, Unowned
      <4>2. version'[vc[d].n] = version[vc[d].n] /\ archived'[vc[d].n] = archived[vc[d].n]
        BY <1>5, <4>1
      <4> QED BY <3>1, <3>2, <4>2 DEF Orderly, Owns, Working
    <3>3. CASE vc[d].pc \in {"drop", "swept", "cleaned"}
      <4>1. ASSUME NEW n \in vc[d].set
            PROVE  n <= nextVersion' /\ version'[n].status # "available" /\ Unowned(n)'
        <5>1. n \in Number /\ n <= nextVersion /\ version[n].status # "available" /\ Unowned(n)
          BY <3>1, <3>3, <4>1 DEF Orderly, Vc
        <5>2. ~(Owns(c) /\ n = vc[c].n)
          BY <5>1 DEF Unowned
        <5>3. version'[n].status # "available"
          BY <1>5, <5>1, <5>2
        <5> QED BY <1>3, <2>3, <5>1, <5>3
      <4> QED BY <3>1, <3>3, <4>1 DEF Orderly
    <3>4. CASE ~Owns(d) /\ vc[d].pc \notin {"drop", "swept", "cleaned"}
      BY <3>1, <3>4 DEF Orderly, Owns, Working
    <3> QED BY <3>2, <3>3, <3>4
  <2>5. \A d \in Caller : vc[d].pc # "forget" /\ vc'[d].pc # "forget"
    BY <1>1, <1>5, <2>1 DEF VersionIInv, Carries
  <2>6. ASSUME NEW n \in Number PROVE CanBeRead(n)'
    <3>1. CASE version'[n] = version[n] /\ archived'[n] = archived[n]
      BY <2>1, <2>5, <3>1 DEF InOrder, CanBeRead, Forgotten
    <3>2. CASE Owns(c) /\ n = vc[c].n
      BY <1>5, <3>2
    <3>3. CASE version'[n].status # "available"
      BY <3>3 DEF CanBeRead
    <3> QED BY <1>5, <3>1, <3>2, <3>3
  <2> QED BY <1>5, <2>2, <2>4, <2>6 DEF InOrder
<1> QED BY <1>1, <1>2, <1>4, <1>5 DEF VersionIInv

\* When a purge is alone with the path only the path has to be in order.
LEMMA PurgeKeeps ==
  ASSUME VersionIInv, NEW c \in Caller, NEW o \in Vc, Carries(o), vc' = [vc EXCEPT ![c] = o],
         version' \in [Number -> Record], archived' \in [Number -> Maybe], main' \in Maybe,
         UNCHANGED <<token, nextVersion, versionFaults>>, calls' \in 0 .. MaxCalls,
         parallel' \in History, ~parallel'.purge => ~parallel.purge,
         o.pc \notin Working, Given',
         ~parallel'.purge => \A d \in Caller \ {c} : vc[d].pc = "idle",
         ~parallel'.purge => Orderly(c)' /\ \A n \in Number : CanBeRead(n)'
  PROVE  VersionIInv'
<1>1. /\ vc' \in [Caller -> Vc] /\ \A d \in Caller : Carries(vc'[d])
      /\ vc'[c] = o /\ \A d \in Caller \ {c} : vc'[d] = vc[d]
  BY CallMoves
<1>2. VersionTypeOK'
  BY <1>1 DEF VersionTypeOK, VersionIInv
<1>3. Owned'
  BY <1>1 DEF VersionIInv, Owned, Owns
<1>4. ASSUME ~parallel'.purge PROVE InOrder'
  <2>1. \A d \in Caller \ {c} : vc'[d].pc = "idle" /\ vc'[d].op = "none"
    BY <1>1, <1>4 DEF Carries
  <2>2. Alone'
    BY <2>1 DEF Alone
  <2>3. \A d \in Caller \ {c} : Orderly(d)'
    BY <2>1 DEF Orderly
  <2> QED BY <1>4, <2>2, <2>3 DEF InOrder
<1> QED BY <1>1, <1>2, <1>3, <1>4 DEF VersionIInv


LEMMA VersionTyped ==
  ASSUME VersionIInv, NEW c \in Caller
  PROVE  /\ version \in [Number -> Record] /\ archived \in [Number -> Maybe] /\ main \in Maybe
         /\ token \subseteq Number /\ vc \in [Caller -> Vc] /\ vc[c] \in Vc /\ Carries(vc[c])
         /\ nextVersion \in 0 .. MaxVersion /\ calls \in 0 .. MaxCalls
         /\ versionFaults \in 0 .. MaxVersionFaults /\ parallel \in History
         /\ Owns(c) => vc[c].n \in Number /\ vc[c].n <= nextVersion
BY DEF VersionIInv, VersionTypeOK, Owned

\* Next to a call that is no purge there is none.
LEMMA NoPurge ==
  ASSUME VersionIInv, NEW c \in Caller, vc[c].pc # "idle", vc[c].op # "purge", ~parallel.purge
  PROVE  \A d \in Caller : vc[d].op # "purge"
BY DEF VersionIInv, InOrder, Alone

\* A step that changes neither records nor objects of versions.
LEMMA QuietCallKeeps ==
  ASSUME VersionIInv, NEW c \in Caller, NEW o \in Vc, Carries(o), vc' = [vc EXCEPT ![c] = o],
         UNCHANGED <<nextVersion, version, archived>>, main' \in Maybe, token' \subseteq Number,
         calls' \in 0 .. MaxCalls, versionFaults' \in 0 .. MaxVersionFaults,
         parallel' \in History, ~parallel'.purge => ~parallel.purge,
         ~parallel'.purge => o.op # "purge" /\ \A d \in Caller : vc[d].op # "purge",
         o.pc \in Working => Owns(c) /\ o.n = vc[c].n, ~parallel'.purge => Orderly(c)'
  PROVE  VersionIInv'
<1>1. /\ version' \in [Number -> Record] /\ archived' \in [Number -> Maybe]
      /\ nextVersion' \in 0 .. MaxVersion /\ nextVersion <= nextVersion'
      /\ o.pc \in Working => o.n \in Number /\ o.n <= nextVersion'
  BY VersionTyped, VersionBounds
<1>2. Given'
  BY DEF VersionIInv, Given
<1>3. ASSUME ~parallel'.purge, NEW n \in Number PROVE CanBeRead(n)'
  <2>1. \A d \in Caller : vc[d].pc # "forget"
    BY <1>3 DEF VersionIInv, Carries
  <2> QED BY <1>3, <2>1 DEF VersionIInv, InOrder, CanBeRead, Forgotten
<1> QED BY <1>1, <1>2, <1>3, CallKeeps

\* The history of calls, when one begins.
LEMMA BeginsNotes ==
  ASSUME VersionIInv, NEW c \in Caller, NEW o \in Vc, Begins(c, o)
  PROVE  /\ vc[c].pc = "idle" /\ vc' = [vc EXCEPT ![c] = o] /\ calls' \in 0 .. MaxCalls
         /\ parallel' \in History /\ (~parallel'.purge => ~parallel.purge)
         /\ ~parallel'.purge /\ o.op = "purge" => \A d \in Caller \ {c} : vc[d].pc = "idle"
         /\ ~parallel'.purge => \A d \in Caller : vc[d].op # "purge"
<1>1. parallel \in History /\ calls \in 0 .. MaxCalls
  BY DEF VersionIInv, VersionTypeOK
<1>2. calls' \in 0 .. MaxCalls
  BY <1>1, VersionBounds DEF Begins
<1> DEFINE met == \E d \in Caller : ~VAt(d, "idle") /\ "purge" \in {o.op, vc[d].op}
           both == parallel.calls \/ Busy
           hit  == parallel.purge \/ met
<1>3. parallel' = [parallel EXCEPT !.calls = both, !.purge = hit]
  BY DEF Begins
<1>4. both \in BOOLEAN /\ hit \in BOOLEAN
  BY <1>1 DEF History, Busy
<1> HIDE DEF both, hit
<1>5. parallel' \in History /\ parallel'.purge = hit
  BY <1>1, <1>3, <1>4 DEF History
<1>6. ~parallel'.purge => ~parallel.purge /\ ~met
  BY <1>5 DEF hit
<1>7. \A d \in Caller : vc[d].op = "purge" => vc[d].pc # "idle"
  BY DEF VersionIInv, Carries
<1> QED BY <1>2, <1>5, <1>6, <1>7 DEF Begins, VAt

LEMMA BeginsKeeps ==
  ASSUME VersionIInv, NEW c \in Caller, NEW o \in Vc, Carries(o), Begins(c, o), o.op # "purge",
         o.pc \notin Working, UNCHANGED <<nextVersion, version, archived, main, versionFaults>>,
         token' \subseteq Number, ~parallel'.purge => Orderly(c)'
  PROVE  VersionIInv'
<1>1. main' \in Maybe /\ versionFaults' \in 0 .. MaxVersionFaults
  BY VersionTyped
<1> QED BY <1>1, BeginsNotes, QuietCallKeeps

\* A call that moves on, or ends, and changes nothing else but the main object.
LEMMA GoesKeeps ==
  ASSUME VersionIInv, NEW c \in Caller, NEW o \in Vc, Carries(o), vc' = [vc EXCEPT ![c] = o],
         vc[c].pc # "idle", vc[c].op # "purge", o.op # "purge", main' \in Maybe,
         UNCHANGED <<nextVersion, version, archived, token, calls, versionFaults, parallel>>,
         o.pc \in Working => Owns(c) /\ o.n = vc[c].n, ~parallel.purge => Orderly(c)'
  PROVE  VersionIInv'
<1>1. /\ token' \subseteq Number /\ calls' \in 0 .. MaxCalls /\ versionFaults' \in 0 .. MaxVersionFaults
      /\ parallel' \in History
  BY VersionTyped
<1> QED BY <1>1, NoPurge, QuietCallKeeps

LEMMA VEndsKeeps ==
  ASSUME VersionIInv, NEW c \in Caller, VEnds(c), vc[c].pc # "idle", vc[c].op # "purge",
         UNCHANGED <<nextVersion, version, archived, main, token, calls, versionFaults, parallel>>
  PROVE  VersionIInv'
<1>1. vc'[c].pc = "idle" /\ main' \in Maybe
  BY VersionTyped, VIdleFits DEF VEnds
<1>2. Orderly(c)'
  BY <1>1 DEF Orderly
<1> QED BY <1>1, <1>2, VIdleFits, GoesKeeps DEF VEnds, Working

\* The record of a call that goes on with what it has.
LEMMA VGoesIs ==
  ASSUME VersionIInv, NEW c \in Caller, NEW pc \in VPc, VGoes(c, pc)
  PROVE  LET o == [vc[c] EXCEPT !.pc = pc] IN
           /\ o \in Vc /\ vc' = [vc EXCEPT ![c] = o] /\ vc'[c] = o /\ o.pc = pc
           /\ o.op = vc[c].op /\ o.data = vc[c].data /\ o.run = vc[c].run /\ o.n = vc[c].n
           /\ o.set = vc[c].set /\ o.roll = vc[c].roll /\ o.old = vc[c].old /\ o.new = vc[c].new
<1>1. vc[c] \in Vc /\ vc \in [Caller -> Vc]
  BY VersionTyped
<1> QED BY <1>1 DEF VGoes, Vc

LEMMA PutAskKeeps == ASSUME VersionIInv, NEW c \in Caller, Put(c) PROVE VersionIInv'
<1>1. PICK d \in Content, r \in Run :
        Begins(c, [VIdle EXCEPT !.pc = "look", !.op = "put", !.data = d, !.run = r])
  BY DEF Put
<1>2. PICK o : o = [VIdle EXCEPT !.pc = "look", !.op = "put", !.data = d, !.run = r]
  OBVIOUS
<1>3. /\ o \in Vc /\ o.pc = "look" /\ o.op = "put" /\ o.data = d
      /\ UNCHANGED <<nextVersion, version, archived, main, token, versionFaults>>
  BY <1>2, VIdleFits DEF Vc, VPc, Maybe, Put
<1>4. Carries(o) /\ o.pc \notin Working
  BY <1>3 DEF Carries, Working
<1>5. vc'[c] = o /\ token' \subseteq Number
  BY <1>1, <1>2, <1>3, BeginsNotes, VersionTyped
<1>6. Orderly(c)'
  BY <1>3, <1>5 DEF Orderly
<1> QED BY <1>1, <1>2, <1>3, <1>4, <1>5, <1>6, BeginsKeeps

LEMMA PutLookKeeps == ASSUME VersionIInv, NEW c \in Caller, PutLook(c) PROVE VersionIInv'
<1>1. /\ vc[c] \in Vc /\ Carries(vc[c]) /\ vc[c].pc = "look" /\ vc[c].op # "purge"
      /\ UNCHANGED <<nextVersion, version, archived, main, token, calls, versionFaults, parallel>>
  BY VersionTyped DEF PutLook, VAt, Carries
<1>2. CASE VEnds(c)
  BY <1>1, <1>2, VEndsKeeps
<1>3. ASSUME NEW pc \in {"number", "settle"}, VGoes(c, pc) PROVE VersionIInv'
  <2>1. pc \in VPc
    BY DEF VPc
  <2>2. PICK o : o = [vc[c] EXCEPT !.pc = pc]
    OBVIOUS
  <2>3. /\ o \in Vc /\ vc' = [vc EXCEPT ![c] = o] /\ vc'[c] = o /\ o.pc = pc
        /\ o.op = vc[c].op /\ o.data = vc[c].data /\ o.roll = vc[c].roll /\ o.old = vc[c].old
    BY <1>3, <2>1, <2>2, VGoesIs
  <2>4. Carries(o) /\ o.pc \notin Working /\ Orderly(c)' /\ main' \in Maybe
    BY <1>1, <2>3, VersionTyped DEF Carries, Working, Orderly
  <2> QED BY <1>1, <2>3, <2>4, GoesKeeps
<1> QED BY <1>2, <1>3 DEF PutLook, PutReturns

\* A new number has no record yet.
LEMMA NumberKeeps == ASSUME VersionIInv, NEW c \in Caller, PutNumber(c) \/ RollNumber(c) PROVE VersionIInv'
<1>1. PICK pc \in {"pending", "rpending"} :
        /\ NextNumber(c, pc) /\ vc[c].pc = (IF pc = "pending" THEN "number" ELSE "rnumber")
        /\ UNCHANGED <<version, archived, main, token, calls, versionFaults, parallel>>
  BY DEF PutNumber, RollNumber, VAt
<1>2. PICK n : n = nextVersion + 1
  OBVIOUS
<1>3. PICK o : o = [vc[c] EXCEPT !.n = n, !.pc = pc]
  OBVIOUS
<1>4. /\ version \in [Number -> Record] /\ archived \in [Number -> Maybe] /\ main \in Maybe
      /\ token \subseteq Number /\ vc \in [Caller -> Vc] /\ vc[c] \in Vc /\ Carries(vc[c])
      /\ nextVersion \in 0 .. MaxVersion /\ calls \in 0 .. MaxCalls
      /\ versionFaults \in 0 .. MaxVersionFaults /\ parallel \in History
  BY VersionTyped
<1>5. /\ n \in Number /\ nextVersion' = n /\ n \in 0 .. MaxVersion /\ n > nextVersion
      /\ nextVersion <= nextVersion' /\ n <= nextVersion'
  BY <1>1, <1>2, <1>4, VersionBounds DEF NextNumber, Number
<1>6. /\ o \in Vc /\ vc' = [vc EXCEPT ![c] = o] /\ vc'[c] = o /\ o.pc = pc /\ o.n = n
      /\ o.op = vc[c].op /\ o.data = vc[c].data /\ o.roll = vc[c].roll /\ o.old = vc[c].old
      /\ o.new = vc[c].new
  <2>1. vc' = [vc EXCEPT ![c] = o]
    BY <1>1, <1>2, <1>3, <1>4 DEF NextNumber
  <2> QED BY <1>3, <1>4, <1>5, <2>1 DEF Vc, VPc
<1>7. Carries(o) /\ vc[c].op # "purge" /\ ~Owns(c)
  BY <1>1, <1>4, <1>6 DEF Carries, Owns, Working
<1>8. version[n].status = "absent"
  BY <1>4, <1>5, VersionBounds DEF VersionIInv, Given, Number
<1>9. Orderly(c)'
  BY <1>1, <1>6, <1>8 DEF Orderly
<1>10. Given'
  <2>1. \A m \in Number : m <= nextVersion => m <= nextVersion'
    BY <1>4, <1>5, VersionBounds DEF Number
  <2> QED BY <1>1, <2>1 DEF VersionIInv, Given
<1>11. ~parallel.purge => o.op # "purge" /\ \A d \in Caller : vc[d].op # "purge"
  BY <1>1, <1>6, <1>7, NoPurge
<1> QED BY <1>1, <1>4, <1>5, <1>6, <1>7, <1>9, <1>10, <1>11, CallKeeps

\* A call that has a number moves on, and changes what is under its number only.
LEMMA OwnerKeeps ==
  ASSUME VersionIInv, NEW c \in Caller, Owns(c), NEW o \in Vc, Carries(o), vc' = [vc EXCEPT ![c] = o],
         o.op # "purge", o.n = vc[c].n, NEW r \in Record, NEW d \in Maybe,
         version' = [version EXCEPT ![vc[c].n] = r], archived' = [archived EXCEPT ![vc[c].n] = d],
         UNCHANGED <<nextVersion, token, calls, parallel>>,
         versionFaults' \in 0 .. MaxVersionFaults, main' \in Maybe,
         ~parallel.purge => Orderly(c)',
         ~parallel.purge /\ r.status = "available" /\ r.copy => d = r.sha /\ d # None
  PROVE  VersionIInv'
<1>1. /\ version \in [Number -> Record] /\ archived \in [Number -> Maybe]
      /\ token \subseteq Number /\ vc \in [Caller -> Vc] /\ Carries(vc[c])
      /\ nextVersion \in 0 .. MaxVersion /\ calls \in 0 .. MaxCalls /\ parallel \in History
      /\ vc[c].n \in Number /\ vc[c].n <= nextVersion /\ vc[c].pc # "idle" /\ vc[c].op # "purge"
  BY VersionTyped DEF Owns, Working, Carries
<1>2. /\ version' \in [Number -> Record] /\ archived' \in [Number -> Maybe]
      /\ version'[vc[c].n] = r /\ archived'[vc[c].n] = d
      /\ \A n \in Number \ {vc[c].n} : version'[n] = version[n] /\ archived'[n] = archived[n]
  BY <1>1
<1>3. Given'
  BY <1>1, <1>2 DEF VersionIInv, Given
<1>4. ~parallel.purge => \A e \in Caller : vc[e].op # "purge"
  BY <1>1, NoPurge
<1>5. ASSUME ~parallel.purge, NEW n \in Number, n = vc[c].n PROVE CanBeRead(n)'
  BY <1>2, <1>5 DEF CanBeRead
<1>6. nextVersion' \in 0 .. MaxVersion /\ nextVersion <= nextVersion' /\ o.n \in Number /\ o.n <= nextVersion'
  BY <1>1, VersionBounds
<1> QED BY <1>1, <1>2, <1>3, <1>4, <1>5, <1>6, CallKeeps

\* The record of a call that has a number.
LEMMA OwnerIs ==
  ASSUME VersionIInv, NEW c \in Caller, Owns(c)
  PROVE  /\ vc[c].n \in Number /\ version[vc[c].n] \in Record /\ archived[vc[c].n] \in Maybe
         /\ version = [version EXCEPT ![vc[c].n] = version[vc[c].n]]
         /\ archived = [archived EXCEPT ![vc[c].n] = archived[vc[c].n]]
         /\ ~parallel.purge => version[vc[c].n].status \in {"absent", "pending"} /\ Orderly(c)
<1>1. vc[c].n \in Number /\ version \in [Number -> Record] /\ archived \in [Number -> Maybe]
  BY VersionTyped
<1>2. ~parallel.purge => Orderly(c)
  BY DEF VersionIInv, InOrder
<1>3. ~parallel.purge => version[vc[c].n].status \in {"absent", "pending"}
  BY <1>2 DEF Orderly, Owns, Working
<1> QED BY <1>1, <1>2, <1>3

LEMMA PendingKeeps == ASSUME VersionIInv, NEW c \in Caller, PutPending(c) \/ RollPending(c) PROVE VersionIInv'
<1>1. PICK pc \in {"main", "rcopy"} :
        /\ VGoes(c, pc) /\ vc[c].pc = (IF pc = "main" THEN "pending" ELSE "rpending")
        /\ UNCHANGED <<nextVersion, archived, main, token, calls, versionFaults, parallel>>
        /\ \E copy \in BOOLEAN, run \in Run \cup {""} :
             /\ version' = [version EXCEPT ![vc[c].n] =
                              [status |-> "pending", copy |-> copy, run |-> run, sha |-> None]]
             /\ pc = "main" => copy = (vc[c].data \notin Large)
  <2>1. vc[c].run \in Run \cup {""} /\ (vc[c].data \notin Large) \in BOOLEAN
    BY VersionTyped DEF Vc
  <2>2. CASE PutPending(c)
    BY <2>1, <2>2 DEF PutPending, VAt
  <2>3. CASE RollPending(c)
    BY <2>3 DEF RollPending, VAt
  <2> QED BY <2>2, <2>3
<1>2. PICK copy \in BOOLEAN, run \in Run \cup {""} :
        /\ version' = [version EXCEPT ![vc[c].n] =
                         [status |-> "pending", copy |-> copy, run |-> run, sha |-> None]]
        /\ pc = "main" => copy = (vc[c].data \notin Large)
  BY <1>1
<1>3. PICK o : o = [vc[c] EXCEPT !.pc = pc]
  OBVIOUS
<1>4. pc \in VPc
  BY DEF VPc
<1>5. /\ o \in Vc /\ vc' = [vc EXCEPT ![c] = o] /\ vc'[c] = o /\ o.pc = pc
      /\ o.op = vc[c].op /\ o.data = vc[c].data /\ o.n = vc[c].n
      /\ o.roll = vc[c].roll /\ o.old = vc[c].old /\ o.new = vc[c].new
  BY <1>1, <1>3, <1>4, VGoesIs
<1>6. Carries(vc[c]) /\ main \in Maybe /\ versionFaults \in 0 .. MaxVersionFaults
      /\ version \in [Number -> Record]
  BY VersionTyped
<1>7. Carries(o) /\ Owns(c) /\ o.op # "purge"
  BY <1>1, <1>5, <1>6 DEF Carries, Owns, Working
<1>8. PICK r : r = [status |-> "pending", copy |-> copy, run |-> run, sha |-> None]
  OBVIOUS
<1>9. r \in Record /\ r.status = "pending" /\ r.copy = copy
  BY <1>8 DEF Record, Maybe
<1>10. version'[vc[c].n] = r
  BY <1>2, <1>6, <1>7, <1>8, OwnerIs
<1>11. pc = "main" /\ version'[vc[c].n].copy => vc[c].data \notin Large
  BY <1>2, <1>9, <1>10
<1>12. Orderly(c)'
  BY <1>1, <1>5, <1>9, <1>10, <1>11 DEF Orderly
<1> QED BY <1>1, <1>2, <1>5, <1>6, <1>7, <1>8, <1>9, <1>12, OwnerIs, OwnerKeeps

LEMMA PutMainKeeps == ASSUME VersionIInv, NEW c \in Caller, PutMain(c) PROVE VersionIInv'
<1>1. PICK pc \in {"mark", "copy"} : VGoes(c, pc) /\ (pc = "mark" <=> vc[c].data \in Large)
  BY DEF PutMain
<1>2. /\ vc[c].pc = "main" /\ main' = vc[c].data
      /\ UNCHANGED <<nextVersion, version, archived, token, calls, versionFaults, parallel>>
  BY DEF PutMain, VAt
<1>3. PICK o : o = [vc[c] EXCEPT !.pc = pc]
  OBVIOUS
<1>4. pc \in VPc /\ Carries(vc[c]) /\ vc[c] \in Vc
  BY VersionTyped DEF VPc
<1>5. /\ o \in Vc /\ vc' = [vc EXCEPT ![c] = o] /\ vc'[c] = o /\ o.pc = pc
      /\ o.op = vc[c].op /\ o.data = vc[c].data /\ o.n = vc[c].n
      /\ o.roll = vc[c].roll /\ o.old = vc[c].old
  BY <1>1, <1>3, <1>4, VGoesIs
<1>6. Carries(o) /\ Owns(c) /\ vc[c].op # "purge" /\ main' \in Maybe
  BY <1>2, <1>4, <1>5 DEF Carries, Owns, Working, Vc
<1>7. ~parallel.purge => Orderly(c)'
  BY <1>1, <1>2, <1>5 DEF Orderly, VersionIInv, InOrder
<1> QED BY <1>2, <1>5, <1>6, <1>7, GoesKeeps

LEMMA CopyKeeps == ASSUME VersionIInv, NEW c \in Caller, PutCopy(c) \/ RollCopy(c) PROVE VersionIInv'
<1>1. PICK pc \in {"mark", "rmark"} :
        /\ VGoes(c, pc) /\ vc[c].pc = (IF pc = "mark" THEN "copy" ELSE "rcopy")
        /\ archived' = [archived EXCEPT ![vc[c].n] = IF pc = "mark" THEN vc[c].data ELSE vc[c].old]
        /\ UNCHANGED <<nextVersion, version, main, token, calls, versionFaults, parallel>>
  BY DEF PutCopy, RollCopy, VAt
<1>2. PICK d : d = IF pc = "mark" THEN vc[c].data ELSE vc[c].old
  OBVIOUS
<1>3. PICK o : o = [vc[c] EXCEPT !.pc = pc]
  OBVIOUS
<1>4. /\ pc \in VPc /\ Carries(vc[c]) /\ vc[c] \in Vc /\ main \in Maybe
      /\ versionFaults \in 0 .. MaxVersionFaults /\ archived \in [Number -> Maybe]
  BY VersionTyped DEF VPc
<1>5. /\ o \in Vc /\ vc' = [vc EXCEPT ![c] = o] /\ vc'[c] = o /\ o.pc = pc
      /\ o.op = vc[c].op /\ o.data = vc[c].data /\ o.n = vc[c].n
      /\ o.roll = vc[c].roll /\ o.old = vc[c].old /\ o.new = vc[c].new
  BY <1>1, <1>3, <1>4, VGoesIs
<1>6. Carries(o) /\ Owns(c) /\ o.op # "purge" /\ d \in Maybe
  BY <1>1, <1>2, <1>4, <1>5 DEF Carries, Owns, Working, Vc
<1>7. archived'[vc[c].n] = d
  BY <1>1, <1>2, <1>4, <1>6, OwnerIs
<1>8. ~parallel.purge => Orderly(c)'
  BY <1>1, <1>2, <1>5, <1>6, <1>7, OwnerIs DEF Orderly
<1>9. PICK r : r = version[vc[c].n]
  OBVIOUS
<1>10. r \in Record /\ version' = [version EXCEPT ![vc[c].n] = r] /\ (~parallel.purge => r.status # "available")
  BY <1>1, <1>6, <1>9, OwnerIs
<1>11. archived' = [archived EXCEPT ![vc[c].n] = d]
  BY <1>1, <1>2
<1>12. /\ UNCHANGED <<nextVersion, token, calls, parallel>>
       /\ main' \in Maybe /\ versionFaults' \in 0 .. MaxVersionFaults
  BY <1>1, <1>4
<1>13. ~parallel.purge /\ r.status = "available" /\ r.copy => d = r.sha /\ d # None
  BY <1>10
<1> QED BY <1>5, <1>6, <1>8, <1>10, <1>11, <1>12, <1>13, OwnerKeeps

\* The record becomes available, if it is still there, when what is to be read is there.
LEMMA MarkKeeps == ASSUME VersionIInv, NEW c \in Caller, PutMark(c) \/ RollMark(c) PROVE VersionIInv'
<1>1. /\ vc[c] \in Vc /\ Carries(vc[c]) /\ main \in Maybe /\ versionFaults \in 0 .. MaxVersionFaults
      /\ vc \in [Caller -> Vc] /\ version \in [Number -> Record]
  BY VersionTyped
<1>2. PICK o \in Vc, sha \in Content :
        /\ vc' = [vc EXCEPT ![c] = o] /\ o.pc \in {"prune", "look"} /\ o.n = vc[c].n /\ o.op # "purge"
        /\ Carries(o) /\ Owns(c) /\ Marked(vc[c].n, "available", sha)
        /\ UNCHANGED <<nextVersion, archived, main, token, calls, versionFaults, parallel>>
        /\ ~parallel.purge /\ version[vc[c].n].copy => archived[vc[c].n] = sha
  <2>1. CASE PutMark(c)
    <3>1. /\ vc[c].pc = "mark" /\ VGoes(c, "prune") /\ Marked(vc[c].n, "available", vc[c].data)
          /\ UNCHANGED <<nextVersion, archived, main, token, calls, versionFaults, parallel>>
      BY <2>1 DEF PutMark, VAt
    <3>2. PICK o : o = [vc[c] EXCEPT !.pc = "prune"]
      OBVIOUS
    <3>3. "prune" \in VPc
      BY DEF VPc
    <3>4. /\ o \in Vc /\ vc' = [vc EXCEPT ![c] = o] /\ o.pc = "prune"
          /\ o.op = vc[c].op /\ o.n = vc[c].n /\ o.roll = vc[c].roll /\ o.old = vc[c].old
      BY <3>1, <3>2, <3>3, VGoesIs
    <3>5. Carries(o) /\ o.op # "purge" /\ Owns(c) /\ vc[c].data \in Content
      BY <1>1, <3>1, <3>4 DEF Carries, Owns, Working
    <3>6. ~parallel.purge /\ version[vc[c].n].copy => archived[vc[c].n] = vc[c].data
      BY <3>1 DEF VersionIInv, InOrder, Orderly
    <3> QED BY <3>1, <3>4, <3>5, <3>6
  <2>2. CASE RollMark(c)
    <3>1. /\ vc[c].pc = "rmark" /\ Marked(vc[c].n, "available", vc[c].old)
          /\ vc' = [vc EXCEPT ![c].pc = "look", ![c].data = vc[c].new, ![c].run = ""]
          /\ UNCHANGED <<nextVersion, archived, main, token, calls, versionFaults, parallel>>
      BY <2>2 DEF RollMark, VAt
    <3>2. PICK o : o = [vc[c] EXCEPT !.pc = "look", !.data = vc[c].new, !.run = ""]
      OBVIOUS
    <3>3. vc' = [vc EXCEPT ![c] = o]
      BY <1>1, <3>1, <3>2
    <3>4. /\ o \in Vc /\ o.pc = "look" /\ o.data = vc[c].new
          /\ o.op = vc[c].op /\ o.n = vc[c].n /\ o.roll = vc[c].roll /\ o.old = vc[c].old
      BY <1>1, <3>2 DEF Vc, VPc
    <3>5. Carries(o) /\ o.op # "purge" /\ Owns(c) /\ vc[c].old \in Content
      BY <1>1, <3>1, <3>4 DEF Carries, Owns, Working
    <3>6. ~parallel.purge => archived[vc[c].n] = vc[c].old
      BY <3>1 DEF VersionIInv, InOrder, Orderly
    <3> QED BY <3>1, <3>3, <3>4, <3>5, <3>6
  <2> QED BY <2>1, <2>2
<1>3. PICK r : r = IF version[vc[c].n].status = "absent" THEN version[vc[c].n]
                   ELSE [version[vc[c].n] EXCEPT !.status = "available", !.sha = sha]
  OBVIOUS
<1>4. /\ vc[c].n \in Number /\ version[vc[c].n] \in Record /\ archived[vc[c].n] \in Maybe
      /\ version = [version EXCEPT ![vc[c].n] = version[vc[c].n]]
      /\ archived = [archived EXCEPT ![vc[c].n] = archived[vc[c].n]]
  BY <1>2, OwnerIs
<1>5. /\ r \in Record
      /\ r.status = "available" => r.sha = sha /\ r.copy = version[vc[c].n].copy
  BY <1>3, <1>4 DEF Record, Maybe
<1>6. version' = [version EXCEPT ![vc[c].n] = r]
  BY <1>1, <1>2, <1>3, <1>4 DEF Marked
<1>7. PICK d : d = archived[vc[c].n]
  OBVIOUS
<1>8. d \in Maybe /\ archived' = [archived EXCEPT ![vc[c].n] = d]
  BY <1>2, <1>4, <1>7
<1>9. ~parallel.purge /\ r.status = "available" /\ r.copy => d = r.sha /\ d # None
  BY <1>2, <1>5, <1>7, NoneIsNoContent
<1>10. vc'[c] = o
  BY <1>1, <1>2
<1>11. Orderly(c)'
  BY <1>2, <1>10 DEF Orderly
<1> QED BY <1>1, <1>2, <1>5, <1>6, <1>8, <1>9, <1>11, OwnerKeeps

\* A step of a put or a sweep that takes away what is nobody's.
LEMMA TakesKeeps ==
  ASSUME VersionIInv, NEW c \in Caller, NEW o \in Vc, Carries(o), vc' = [vc EXCEPT ![c] = o],
         vc[c].pc # "idle", vc[c].op # "purge", o.op # "purge", ~Owns(c), o.pc \notin Working,
         version' \in [Number -> Record], archived' \in [Number -> Maybe],
         UNCHANGED <<nextVersion, main, token, calls, versionFaults, parallel>>,
         \A n \in Number : version'[n].status \in {version[n].status, "absent"},
         ~parallel.purge =>
           \A n \in Number : \/ version'[n] = version[n] /\ archived'[n] = archived[n]
                             \/ version'[n].status # "available" /\ Unowned(n),
         ~parallel.purge => Orderly(c)'
  PROVE  VersionIInv'
<1>1. /\ main' \in Maybe /\ token' \subseteq Number /\ calls' \in 0 .. MaxCalls
      /\ versionFaults' \in 0 .. MaxVersionFaults /\ parallel' \in History
      /\ nextVersion' \in 0 .. MaxVersion /\ nextVersion <= nextVersion'
  BY VersionTyped, VersionBounds
<1>2. Given'
  BY DEF VersionIInv, Given
<1>3. ~parallel.purge => \A d \in Caller : vc[d].op # "purge"
  BY NoPurge
<1> QED BY <1>1, <1>2, <1>3, CallKeeps

\* What is on offer is nobody's any more.
LEMMA OfferedIsUnowned ==
  ASSUME VersionIInv, ~parallel.purge, NEW n \in Number, version[n].status \in {"available", "failed"}
  PROVE  Unowned(n) /\ n <= nextVersion
<1>1. ASSUME NEW c \in Caller, Owns(c), vc[c].n = n PROVE FALSE
  BY <1>1, OwnerIs
<1> QED BY <1>1 DEF Unowned, VersionIInv, Given

LEMMA PruneKeeps == ASSUME VersionIInv, NEW c \in Caller, PutPrune(c) PROVE VersionIInv'
<1>1. PICK set : set = {n \in Victims : version[n].copy}
  OBVIOUS
<1>2. PICK o : o = [vc[c] EXCEPT !.set = set, !.pc = "drop"]
  OBVIOUS
<1>3. /\ vc[c].pc = "prune" /\ Carries(vc[c]) /\ vc[c] \in Vc /\ vc \in [Caller -> Vc]
      /\ version \in [Number -> Record] /\ archived \in [Number -> Maybe]
      /\ UNCHANGED <<nextVersion, archived, main, token, calls, versionFaults, parallel>>
      /\ version' = [n \in Number |-> IF n \in Victims THEN NoRecord ELSE version[n]]
  BY VersionTyped DEF PutPrune, VAt
<1>4. Victims \subseteq Available /\ Available \subseteq Number
  BY DEF Victims, Available
<1>5. set \in SUBSET Number /\ \A n \in set : n \in Victims
  BY <1>1, <1>4
<1>6. vc' = [vc EXCEPT ![c] = o]
  BY <1>1, <1>2, <1>3 DEF PutPrune
<1>7. /\ o \in Vc /\ o.pc = "drop" /\ o.set = set /\ o.op = vc[c].op /\ o.n = vc[c].n
      /\ o.roll = vc[c].roll /\ o.old = vc[c].old
  BY <1>2, <1>3, <1>5 DEF Vc, VPc
<1>8. Carries(o) /\ vc[c].op # "purge" /\ o.op # "purge" /\ o.pc \notin Working /\ ~Owns(c)
  BY <1>3, <1>7 DEF Carries, Owns, Working
<1>9. /\ version' \in [Number -> Record] /\ archived' \in [Number -> Maybe]
      /\ \A n \in Number : version'[n] = version[n] \/ (n \in Victims /\ version'[n].status = "absent")
      /\ \A n \in Victims : version'[n].status = "absent"
  BY <1>3, <1>4, VIdleFits DEF NoRecord
<1>10. ASSUME ~parallel.purge, NEW n \in Victims PROVE Unowned(n) /\ n <= nextVersion /\ n \in Number
  BY <1>4, <1>10, OfferedIsUnowned DEF Available
<1>11. vc'[c] = o /\ \A d \in Caller : Owns(d)' => Owns(d) /\ vc'[d] = vc[d]
  BY <1>3, <1>6, <1>7, <1>8 DEF Owns
<1>12. ASSUME ~parallel.purge PROVE Orderly(c)'
  <2>1. \A n \in set : Unowned(n)'
    BY <1>5, <1>10, <1>11, <1>12 DEF Unowned
  <2>2. \A n \in set : n <= nextVersion' /\ version'[n].status # "available"
    BY <1>3, <1>5, <1>9, <1>10, <1>12
  <2> QED BY <1>7, <1>11, <2>1, <2>2 DEF Orderly
<1>13. ~parallel.purge =>
         \A n \in Number : \/ version'[n] = version[n] /\ archived'[n] = archived[n]
                           \/ version'[n].status # "available" /\ Unowned(n)
  BY <1>3, <1>9, <1>10
<1>14. \A n \in Number : version'[n].status \in {version[n].status, "absent"}
  BY <1>9
<1> QED BY <1>3, <1>6, <1>7, <1>8, <1>9, <1>12, <1>13, <1>14, TakesKeeps

\* Dropping and sweeping take away objects and records of versions that are not on offer.
LEMMA DropKeeps ==
  ASSUME VersionIInv, NEW c \in Caller, PutDrop(c) \/ SweptObjects(c) \/ SweptRecords(c)
  PROVE  VersionIInv'
<1>1. /\ vc[c].pc \in {"drop", "swept", "cleaned"} /\ Carries(vc[c]) /\ vc[c] \in Vc /\ vc \in [Caller -> Vc]
      /\ version \in [Number -> Record] /\ archived \in [Number -> Maybe]
      /\ UNCHANGED <<nextVersion, main, token, calls, versionFaults, parallel>>
      /\ version' \in [Number -> Record] /\ archived' \in [Number -> Maybe]
      /\ \A n \in Number : \/ version'[n] = version[n] /\ archived'[n] = archived[n]
                           \/ n \in vc[c].set /\ version'[n].status \in {version[n].status, "absent"}
  <2>1. /\ Carries(vc[c]) /\ vc[c] \in Vc /\ vc \in [Caller -> Vc]
        /\ version \in [Number -> Record] /\ archived \in [Number -> Maybe]
    BY VersionTyped
  <2>2. CASE PutDrop(c)
    BY <2>1, <2>2 DEF PutDrop, VAt, Maybe
  <2>3. CASE SweptObjects(c)
    BY <2>1, <2>3 DEF SweptObjects, VAt, Maybe
  <2>4. CASE SweptRecords(c)
    BY <2>1, <2>4, VIdleFits DEF SweptRecords, VAt, NoRecord
  <2> QED BY <2>1, <2>2, <2>3, <2>4
<1>2. vc[c].op # "purge" /\ ~Owns(c)
  BY <1>1 DEF Carries, Owns, Working
<1>3. \A n \in Number : version'[n].status \in {version[n].status, "absent"}
  BY <1>1
<1>4. ~parallel.purge => \A n \in vc[c].set : n <= nextVersion /\ version[n].status # "available" /\ Unowned(n)
  BY <1>1 DEF VersionIInv, InOrder, Orderly
<1>5. ~parallel.purge =>
        \A n \in Number : \/ version'[n] = version[n] /\ archived'[n] = archived[n]
                          \/ version'[n].status # "available" /\ Unowned(n)
  BY <1>1, <1>4
<1>6. \/ vc' = [vc EXCEPT ![c] = VIdle]
      \/ vc[c].pc = "swept" /\ vc' = [vc EXCEPT ![c] = [vc[c] EXCEPT !.pc = "cleaned"]]
      \/ vc[c].pc = "drop" /\ VGoes(c, "settle")
  BY DEF PutDrop, PutReturns, SweptObjects, SweptRecords, VEnds, VGoes, VAt
<1>7. CASE vc' = [vc EXCEPT ![c] = VIdle]
  <2>1. vc'[c] = VIdle
    BY <1>1, <1>7
  <2>2. Orderly(c)'
    BY <2>1, VIdleFits DEF Orderly
  <2> QED BY <1>1, <1>2, <1>3, <1>5, <1>7, <2>2, VIdleFits, TakesKeeps DEF Working
<1>8. CASE vc[c].pc = "swept" /\ vc' = [vc EXCEPT ![c] = [vc[c] EXCEPT !.pc = "cleaned"]]
  <2>1. PICK o : o = [vc[c] EXCEPT !.pc = "cleaned"]
    OBVIOUS
  <2>2. vc' = [vc EXCEPT ![c] = o]
    BY <1>8, <2>1
  <2>3. /\ o \in Vc /\ o.pc = "cleaned" /\ o.set = vc[c].set /\ o.op = vc[c].op /\ o.n = vc[c].n
        /\ o.roll = vc[c].roll /\ o.old = vc[c].old
    BY <1>1, <1>8, <2>1 DEF Vc, VPc
  <2>4. Carries(o) /\ o.pc \notin Working
    BY <1>1, <1>8, <2>3 DEF Carries, Working
  <2>5. vc'[c] = o /\ \A d \in Caller : Owns(d)' => Owns(d) /\ vc'[d] = vc[d]
    BY <1>1, <2>3, <2>4, <2>2 DEF Owns
  <2>6. ASSUME ~parallel.purge, NEW n \in vc[c].set
        PROVE  n <= nextVersion' /\ version'[n].status # "available" /\ Unowned(n)'
    <3>1. n \in Number
      BY <1>1, <2>6 DEF Vc
    <3> QED BY <1>1, <1>3, <1>4, <2>5, <2>6, <3>1 DEF Unowned
  <2>7. ~parallel.purge => Orderly(c)'
    BY <2>3, <2>5, <2>6 DEF Orderly
  <2> QED BY <1>1, <1>2, <1>3, <1>5, <2>3, <2>4, <2>7, <2>2, TakesKeeps
<1>9. CASE vc[c].pc = "drop" /\ VGoes(c, "settle")
  <2>1. "settle" \in VPc
    BY DEF VPc
  <2>2. PICK o : o = [vc[c] EXCEPT !.pc = "settle"]
    OBVIOUS
  <2>3. /\ o \in Vc /\ vc' = [vc EXCEPT ![c] = o] /\ vc'[c] = o /\ o.pc = "settle"
        /\ o.op = vc[c].op /\ o.roll = vc[c].roll /\ o.old = vc[c].old
    BY <1>9, <2>1, <2>2, VGoesIs
  <2>4. Carries(o) /\ o.pc \notin Working /\ Orderly(c)'
    BY <1>1, <1>9, <2>3 DEF Carries, Working, Orderly
  <2> QED BY <1>1, <1>2, <1>3, <1>5, <2>3, <2>4, TakesKeeps
<1> QED BY <1>6, <1>7, <1>8, <1>9

\* A rollback is over.
LEMMA RollSettleKeeps == ASSUME VersionIInv, NEW c \in Caller, RollSettle(c) PROVE VersionIInv'
<1>1. vc[c].pc = "settle" /\ vc[c].op # "purge"
  BY DEF RollSettle, VAt, VersionIInv, Carries
<1> QED BY <1>1, VEndsKeeps DEF RollSettle

LEMMA SweepKeeps == ASSUME VersionIInv, NEW c \in Caller, Sweep(c) PROVE VersionIInv'
<1>1. PICK late \in SUBSET {n \in Number : version[n].status = "pending" /\ \A o \in Caller : vc[o].n # n} :
        Begins(c, [VIdle EXCEPT !.pc = "swept", !.op = "sweep",
                                !.set = late \cup {n \in Number : version[n].status = "failed"}])
  BY DEF Sweep
<1>2. PICK set : set = late \cup {n \in Number : version[n].status = "failed"}
  OBVIOUS
<1>3. PICK o : o = [VIdle EXCEPT !.pc = "swept", !.op = "sweep", !.set = set]
  OBVIOUS
<1>4. set \in SUBSET Number /\ UNCHANGED <<nextVersion, version, archived, main, token, versionFaults>>
  BY <1>2 DEF Sweep
<1>5. o \in Vc /\ o.pc = "swept" /\ o.op = "sweep" /\ o.set = set
  BY <1>3, <1>4, VIdleFits DEF Vc, VPc
<1>6. Carries(o) /\ o.pc \notin Working
  BY <1>5 DEF Carries, Working
<1>7. Begins(c, o)
  BY <1>1, <1>2, <1>3
<1>8. vc' = [vc EXCEPT ![c] = o] /\ (~parallel'.purge => ~parallel.purge) /\ vc \in [Caller -> Vc]
  BY <1>5, <1>7, BeginsNotes, VersionTyped
<1>9. vc'[c] = o /\ \A d \in Caller : Owns(d)' => Owns(d) /\ vc'[d] = vc[d]
  BY <1>5, <1>6, <1>8 DEF Owns
<1>10. ASSUME ~parallel'.purge, NEW n \in set
       PROVE  n <= nextVersion' /\ version'[n].status # "available" /\ Unowned(n)'
  <2>1. CASE n \in late
    BY <1>4, <1>9, <2>1 DEF Unowned, VersionIInv, Given
  <2>2. CASE n \in Number /\ version[n].status = "failed"
    BY <1>4, <1>8, <1>9, <1>10, <2>2, OfferedIsUnowned DEF Unowned
  <2> QED BY <1>2, <1>10, <2>1, <2>2
<1>11. ~parallel'.purge => Orderly(c)'
  BY <1>5, <1>9, <1>10 DEF Orderly
<1>12. token' \subseteq Number
  BY <1>4, VersionTyped
<1> QED BY <1>4, <1>5, <1>6, <1>7, <1>11, <1>12, BeginsKeeps

LEMMA RollbackKeeps == ASSUME VersionIInv, NEW c \in Caller, Rollback(c) PROVE VersionIInv'
<1>1. /\ token' \subseteq Number /\ UNCHANGED <<nextVersion, version, archived, main, versionFaults>>
      /\ calls \in 0 .. MaxCalls /\ parallel \in History /\ vc \in [Caller -> Vc]
      /\ version \in [Number -> Record] /\ archived \in [Number -> Maybe] /\ main \in Maybe
      /\ versionFaults \in 0 .. MaxVersionFaults /\ nextVersion \in 0 .. MaxVersion
  BY VersionTyped DEF Rollback
<1>2. CASE calls < MaxCalls /\ calls' = calls + 1 /\ UNCHANGED <<vc, parallel>>
  <2>1. calls' \in 0 .. MaxCalls
    BY <1>1, <1>2, VersionBounds
  <2>2. VersionTypeOK'
    BY <1>1, <1>2, <2>1 DEF VersionTypeOK
  <2> QED BY <1>1, <1>2, <2>2
          DEF VersionIInv, Owned, Owns, Given, InOrder, Alone, Orderly, Unowned, CanBeRead, Forgotten
<1>3. ASSUME NEW n \in token, n \in Available,
             Begins(c, [VIdle EXCEPT !.pc = "read", !.op = "roll", !.roll = n])
      PROVE  VersionIInv'
  <2>1. PICK o : o = [VIdle EXCEPT !.pc = "read", !.op = "roll", !.roll = n]
    OBVIOUS
  <2>2. n \in Number /\ n \in 0 .. MaxVersion
    BY <1>3, VersionBounds DEF Available, Number
  <2>3. o \in Vc /\ o.pc = "read" /\ o.op = "roll" /\ o.roll = n
    BY <2>1, <2>2, VIdleFits DEF Vc, VPc
  <2>4. Carries(o) /\ o.pc \notin Working /\ Begins(c, o)
    BY <1>3, <2>1, <2>2, <2>3 DEF Carries, Working
  <2>5. vc'[c] = o
    BY <1>1, <2>3, <2>4, BeginsNotes
  <2>6. Orderly(c)'
    BY <2>3, <2>5 DEF Orderly
  <2> QED BY <1>1, <2>3, <2>4, <2>6, BeginsKeeps
<1> QED BY <1>2, <1>3 DEF Rollback

\* rollback reads what there is and what it is to put back; its except clause puts back the first.
LEMMA RollReadsKeep ==
  ASSUME VersionIInv, NEW c \in Caller, RollRead(c) \/ RollFetch(c) \/ Restore(c)
  PROVE  VersionIInv'
<1>1. /\ vc[c].pc \in {"read", "fetch", "restore"} /\ vc[c] \in Vc /\ Carries(vc[c]) /\ vc \in [Caller -> Vc]
      /\ vc[c].op # "purge" /\ main' \in Maybe /\ archived \in [Number -> Maybe]
      /\ UNCHANGED <<nextVersion, version, archived, main, token, calls, versionFaults, parallel>>
  BY VersionTyped DEF RollRead, RollFetch, Restore, VAt, Carries
<1>2. CASE VEnds(c)
  BY <1>1, <1>2, VEndsKeeps
<1>3. ASSUME NEW o \in Vc, Carries(o), vc' = [vc EXCEPT ![c] = o], o.op # "purge",
             o.pc \in {"fetch", "rnumber", "look"}
      PROVE  VersionIInv'
  <2>1. vc'[c] = o
    BY <1>1, <1>3
  <2>2. Orderly(c)' /\ o.pc \notin Working
    BY <1>3, <2>1 DEF Orderly, Working
  <2> QED BY <1>1, <1>3, <2>2, GoesKeeps
<1>4. CASE vc[c].pc = "read" /\ main \in Content /\ vc' = [vc EXCEPT ![c].pc = "fetch", ![c].old = main]
  <2>1. PICK o : o = [vc[c] EXCEPT !.pc = "fetch", !.old = main]
    OBVIOUS
  <2>2. /\ o \in Vc /\ o.pc = "fetch" /\ o.old = main /\ o.op = vc[c].op /\ o.roll = vc[c].roll
        /\ vc' = [vc EXCEPT ![c] = o]
    BY <1>1, <1>4, <2>1 DEF Vc, VPc, Maybe
  <2>3. Carries(o)
    BY <1>1, <1>4, <2>2 DEF Carries
  <2> QED BY <1>1, <1>3, <2>2, <2>3
<1>5. CASE /\ vc[c].pc = "fetch" /\ archived[vc[c].roll] # None
           /\ vc' = [vc EXCEPT ![c].pc = "rnumber", ![c].new = archived[vc[c].roll]]
  <2>1. vc[c].roll \in Number
    BY <1>1, <1>5 DEF Carries
  <2>2. archived[vc[c].roll] \in Content
    BY <1>1, <1>5, <2>1 DEF Maybe
  <2>3. PICK new : new = archived[vc[c].roll]
    OBVIOUS
  <2>4. PICK o : o = [vc[c] EXCEPT !.pc = "rnumber", !.new = new]
    OBVIOUS
  <2>5. /\ o \in Vc /\ o.pc = "rnumber" /\ o.new = new /\ o.op = vc[c].op /\ o.roll = vc[c].roll
        /\ o.old = vc[c].old /\ vc' = [vc EXCEPT ![c] = o]
    BY <1>1, <1>5, <2>2, <2>3, <2>4 DEF Vc, VPc, Maybe
  <2>6. Carries(o)
    BY <1>1, <1>5, <2>2, <2>3, <2>5 DEF Carries
  <2> QED BY <1>1, <1>3, <2>5, <2>6
<1>6. CASE Restore(c)
  <2>1. PICK o : o = [vc[c] EXCEPT !.pc = "look", !.data = vc[c].old, !.run = "", !.op = "put"]
    OBVIOUS
  <2>2. vc[c].pc = "restore" /\ vc[c].old \in Content
    BY <1>1, <1>6 DEF Restore, VAt, Carries
  <2>3. o \in Vc /\ o.pc = "look" /\ o.op = "put" /\ o.data = vc[c].old /\ vc' = [vc EXCEPT ![c] = o]
    BY <1>1, <1>6, <2>1 DEF Vc, VPc, Restore
  <2>4. Carries(o)
    BY <2>2, <2>3 DEF Carries
  <2> QED BY <1>3, <2>3, <2>4
<1> QED BY <1>1, <1>2, <1>4, <1>5, <1>6 DEF RollRead, RollFetch, VAt, Maybe

\* A call that fails leaves its version failed, or where it is; a purge that fails is noted.
LEMMA StepFailsKeeps == ASSUME VersionIInv, NEW c \in Caller, StepFails(c) PROVE VersionIInv'
<1> DEFINE hit == parallel.purge \/ vc[c].op = "purge"
<1>1. /\ version \in [Number -> Record] /\ archived \in [Number -> Maybe] /\ main \in Maybe
      /\ token \subseteq Number /\ vc \in [Caller -> Vc] /\ vc[c] \in Vc /\ Carries(vc[c])
      /\ nextVersion \in 0 .. MaxVersion /\ calls \in 0 .. MaxCalls
      /\ versionFaults \in 0 .. MaxVersionFaults /\ parallel \in History
      /\ Owns(c) => vc[c].n \in Number /\ vc[c].n <= nextVersion
  BY VersionTyped
<1>2. /\ vc[c].pc # "idle" /\ versionFaults' \in 0 .. MaxVersionFaults
      /\ UNCHANGED <<nextVersion, archived, main, token, calls>>
      /\ parallel' = [parallel EXCEPT !.purge = hit]
  BY <1>1, VersionBounds DEF StepFails, VAt
<1>3. hit \in BOOLEAN
  BY <1>1 DEF History
<1>4. parallel' \in History /\ parallel'.purge = hit
  <2> HIDE DEF hit
  <2> QED BY <1>1, <1>2, <1>3 DEF History
<1>5. ~parallel'.purge => ~parallel.purge /\ vc[c].op # "purge"
  BY <1>4
<1>6. PICK o \in Vc : Carries(o) /\ vc' = [vc EXCEPT ![c] = o] /\ o.pc \in {"idle", "restore"}
                       /\ o.op \in {"none", "roll"}
  <2>1. CASE VEnds(c)
    BY <2>1, VIdleFits DEF VEnds
  <2>2. CASE vc[c].op = "roll" /\ vc[c].pc # "read" /\ VGoes(c, "restore")
    <3>1. PICK o : o = [vc[c] EXCEPT !.pc = "restore"]
      OBVIOUS
    <3>2. /\ o \in Vc /\ o.pc = "restore" /\ o.op = "roll" /\ o.old = vc[c].old /\ o.roll = vc[c].roll
          /\ vc' = [vc EXCEPT ![c] = o]
      BY <1>1, <2>2, <3>1 DEF Vc, VPc, VGoes
    <3>3. Carries(o)
      BY <1>1, <2>2, <3>2 DEF Carries
    <3> QED BY <3>2, <3>3
  <2> QED BY <2>1, <2>2 DEF StepFails
<1>7. vc'[c] = o /\ o.pc \notin Working /\ o.op # "purge"
  BY <1>1, <1>6 DEF Working
<1>8. Orderly(c)'
  BY <1>6, <1>7 DEF Orderly
<1>9. ~parallel'.purge => \A d \in Caller : vc[d].op # "purge"
  BY <1>2, <1>5, NoPurge
<1>10. /\ version' \in [Number -> Record]
       /\ \A n \in Number : \/ version'[n] = version[n]
                            \/ /\ Owns(c) /\ n = vc[c].n /\ version[n].status # "absent"
                               /\ version'[n].status = "failed"
  <2>1. CASE version' = version
    BY <1>1, <2>1
  <2>2. CASE /\ vc[c].pc \in {"main", "copy"} /\ version[vc[c].n].status # "absent"
             /\ version' = [version EXCEPT ![vc[c].n].status = "failed"]
    <3>1. Owns(c) /\ vc[c].n \in Number
      BY <1>1, <2>2 DEF Owns, Working
    <3>2. PICK r : r = [version[vc[c].n] EXCEPT !.status = "failed"]
      OBVIOUS
    <3>3. version[vc[c].n] \in Record
      BY <1>1, <3>1
    <3>4. r \in Record /\ r.status = "failed"
      BY <3>2, <3>3 DEF Record
    <3>5. version' = [version EXCEPT ![vc[c].n] = r]
      BY <2>2, <3>2
    <3> QED BY <1>1, <2>2, <3>1, <3>4, <3>5
  <2> QED BY <2>1, <2>2 DEF StepFails
<1>11. Given'
  BY <1>2, <1>10 DEF VersionIInv, Given
<1>12. ASSUME ~parallel'.purge, NEW n \in Number, Owns(c), n = vc[c].n PROVE CanBeRead(n)'
  <2>1. version[n].status # "available"
    BY <1>5, <1>12, OwnerIs
  <2> QED BY <1>10, <2>1 DEF CanBeRead
<1>13. /\ archived' \in [Number -> Maybe] /\ main' \in Maybe /\ token' \subseteq Number
       /\ calls' \in 0 .. MaxCalls /\ nextVersion' \in 0 .. MaxVersion /\ nextVersion <= nextVersion'
  BY <1>1, <1>2, VersionBounds
<1>14. \A n \in Number : \/ version'[n] = version[n] /\ archived'[n] = archived[n]
                         \/ Owns(c) /\ n = vc[c].n
  BY <1>2, <1>10
<1> QED BY <1>2, <1>4, <1>5, <1>6, <1>7, <1>8, <1>9, <1>10, <1>11, <1>12, <1>13, <1>14, CallKeeps

LEMMA ProcessEndsKeeps == ASSUME VersionIInv, ProcessEnds PROVE VersionIInv'
<1> DEFINE hit == parallel.purge \/ \E c \in Caller : vc[c].op = "purge"
<1>1. VersionTypeOK
  BY DEF VersionIInv
<1>2. /\ versionFaults' \in 0 .. MaxVersionFaults /\ vc' = [c \in Caller |-> VIdle] /\ token' = {}
      /\ parallel' = [parallel EXCEPT !.purge = hit]
      /\ UNCHANGED <<nextVersion, version, archived, main, calls>>
  BY <1>1, VersionBounds DEF ProcessEnds, VersionTypeOK
<1>3. hit \in BOOLEAN
  BY <1>1 DEF History, VersionTypeOK
<1>4. parallel' \in History /\ parallel'.purge = hit
  <2> HIDE DEF hit
  <2> QED BY <1>1, <1>2, <1>3 DEF History, VersionTypeOK
<1>5. ~parallel'.purge => ~parallel.purge /\ \A c \in Caller : vc[c].op # "purge"
  BY <1>4
<1>6. VersionTypeOK'
  BY <1>1, <1>2, <1>4, VIdleFits DEF VersionTypeOK
<1>7. \A c \in Caller : vc'[c] = VIdle
  BY <1>2
<1>8. Owned' /\ Given' /\ \A c \in Caller : Carries(vc'[c])
  BY <1>2, <1>7, VIdleFits DEF Owned, Owns, Working, Given, VersionIInv
<1>9. ASSUME ~parallel'.purge PROVE InOrder'
  <2>1. Alone' /\ \A c \in Caller : Orderly(c)'
    BY <1>7, VIdleFits DEF Alone, Orderly
  <2>2. \A c \in Caller : vc[c].pc # "forget"
    BY <1>5, <1>9 DEF VersionIInv, Carries
  <2>3. \A n \in Number : CanBeRead(n)'
    BY <1>2, <1>5, <1>9, <2>2 DEF VersionIInv, InOrder, CanBeRead, Forgotten
  <2> QED BY <2>1, <2>3 DEF InOrder
<1> QED BY <1>6, <1>8, <1>9 DEF VersionIInv

\* A step that no call takes: somebody asks for a token, or streams past the versions.
LEMMA AsideKeeps ==
  ASSUME VersionIInv, (\E c \in Caller : PutStream(c)) \/ (\E n \in Number : Preview(n))
  PROVE  VersionIInv'
<1>1. VersionTypeOK
  BY DEF VersionIInv
<1>2. calls' \in 0 .. MaxCalls /\ UNCHANGED <<nextVersion, version, archived, vc, versionFaults>>
  BY <1>1, VersionBounds DEF PutStream, Preview, VersionTypeOK
<1>3. main' \in Maybe /\ token' \subseteq Number
  BY <1>1 DEF PutStream, Preview, VersionTypeOK, Maybe
<1>4. parallel' \in History /\ parallel'.purge = parallel.purge
  BY <1>1 DEF PutStream, Preview, VersionTypeOK, History
<1>5. VersionTypeOK'
  BY <1>1, <1>2, <1>3, <1>4 DEF VersionTypeOK
<1> QED BY <1>2, <1>4, <1>5
        DEF VersionIInv, Owned, Owns, Given, InOrder, Alone, Orderly, Unowned, CanBeRead, Forgotten

\* What is on offer before a purge goes anywhere.
LEMMA ReadableYet ==
  ASSUME VersionIInv, ~parallel.purge, \A c \in Caller : vc[c].pc # "forget", NEW n \in Number,
         version[n].status = "available", version[n].copy
  PROVE  archived[n] = version[n].sha /\ archived[n] # None
BY DEF VersionIInv, InOrder, CanBeRead, Forgotten

\* A purge begins: what is on offer stays so for now.
LEMMA PurgeBegins ==
  ASSUME VersionIInv, NEW c \in Caller, NEW o \in Vc, Carries(o), Begins(c, o), o.op = "purge",
         UNCHANGED <<nextVersion, version, archived, token, versionFaults>>, main' \in Maybe,
         o.pc = "keys" => \A n \in Number : version[n].status # "absent" /\ version[n].copy => n \in o.set
  PROVE  VersionIInv'
<1>1. o.pc \in {"list", "unlink", "forget", "keys"} /\ o.pc \notin Working
  BY DEF Carries, Working
<1>2. /\ vc[c].pc = "idle" /\ vc' = [vc EXCEPT ![c] = o] /\ calls' \in 0 .. MaxCalls
      /\ parallel' \in History /\ (~parallel'.purge => ~parallel.purge)
      /\ ~parallel'.purge => \A d \in Caller \ {c} : vc[d].pc = "idle"
  BY BeginsNotes
<1>3. /\ version \in [Number -> Record] /\ archived \in [Number -> Maybe] /\ vc \in [Caller -> Vc]
      /\ vc'[c] = o
  BY <1>2, VersionTyped
<1>4. Given'
  BY DEF VersionIInv, Given
<1>5. Orderly(c)'
  BY <1>1, <1>3 DEF Orderly
<1>6. ASSUME ~parallel'.purge, NEW n \in Number PROVE CanBeRead(n)'
  <2>1. \A d \in Caller : vc[d].pc # "forget"
    BY <1>2, <1>6
  <2> QED BY <1>2, <1>6, <2>1, ReadableYet DEF CanBeRead
<1> QED BY <1>1, <1>2, <1>3, <1>4, <1>5, <1>6, PurgeKeeps

LEMMA PurgesBeginKeep ==
  ASSUME VersionIInv, NEW c \in Caller, Delete(c) \/ DeleteVersion(c) \/ Retention(c) \/ Reconcile(c)
  PROVE  VersionIInv'
<1>1. /\ UNCHANGED <<nextVersion, version, archived, token, versionFaults>> /\ main' \in Maybe
      /\ version \in [Number -> Record]
  BY VersionTyped DEF Delete, DeleteVersion, Retention, Reconcile, Maybe
<1>2. ASSUME NEW o \in Vc, Begins(c, o), o.op = "purge", o.pc \in {"list", "unlink", "keys"},
             o.pc = "unlink" /\ o.n # 0 => o.set \subseteq {o.n}, o.pc = "list" => o.n = 0,
             o.pc = "keys" => o.set = {m \in Number : version[m].status # "absent" /\ version[m].copy}
      PROVE  VersionIInv'
  <2>1. Carries(o)
    BY <1>2 DEF Carries
  <2>2. o.pc = "keys" => \A m \in Number : version[m].status # "absent" /\ version[m].copy => m \in o.set
    BY <1>2
  <2> QED BY <1>1, <1>2, <2>1, <2>2, PurgeBegins
<1>3. VIdle \in Vc /\ VIdle.n = 0
  BY VIdleFits DEF VIdle
<1>4. CASE Delete(c)
  <2>1. PICK o : o = [VIdle EXCEPT !.pc = "list", !.op = "purge"]
    OBVIOUS
  <2>2. o \in Vc /\ o.op = "purge" /\ o.pc = "list" /\ o.n = 0
    BY <1>3, <2>1 DEF Vc, VPc
  <2> QED BY <1>2, <1>4, <2>1, <2>2 DEF Delete
<1>5. CASE DeleteVersion(c)
  <2>1. PICK n \in Available :
          Begins(c, [VIdle EXCEPT !.pc = "unlink", !.op = "purge", !.n = n,
                                  !.set = IF version[n].copy THEN {n} ELSE {}])
    BY <1>5 DEF DeleteVersion
  <2>2. n \in Number /\ n \in 0 .. MaxVersion
    BY VersionBounds DEF Available, Number
  <2>3. PICK set : set = IF version[n].copy THEN {n} ELSE {}
    OBVIOUS
  <2>4. set \in SUBSET Number /\ set \subseteq {n}
    BY <2>2, <2>3
  <2>5. PICK o : o = [VIdle EXCEPT !.pc = "unlink", !.op = "purge", !.n = n, !.set = set]
    OBVIOUS
  <2>6. o \in Vc /\ o.op = "purge" /\ o.pc = "unlink" /\ o.n = n /\ o.set = set
    BY <1>3, <2>2, <2>4, <2>5 DEF Vc, VPc
  <2>7. Begins(c, o)
    BY <2>1, <2>3, <2>5
  <2> QED BY <1>2, <2>4, <2>6, <2>7
<1>6. CASE Retention(c)
  <2>1. PICK set : set = {n \in Number : archived[n] # None}
    OBVIOUS
  <2>2. PICK o : o = [VIdle EXCEPT !.pc = "unlink", !.op = "purge", !.set = set]
    OBVIOUS
  <2>3. Begins(c, o) /\ set \in SUBSET Number
    BY <1>6, <2>1, <2>2 DEF Retention
  <2>4. o \in Vc /\ o.op = "purge" /\ o.pc = "unlink" /\ o.n = 0
    BY <1>3, <2>2, <2>3 DEF Vc, VPc
  <2> QED BY <1>2, <2>3, <2>4
<1>7. CASE Reconcile(c)
  <2>1. PICK set : set = {n \in Number : version[n].status # "absent" /\ version[n].copy}
    OBVIOUS
  <2>2. PICK o : o = [VIdle EXCEPT !.pc = "keys", !.op = "purge", !.set = set]
    OBVIOUS
  <2>3. Begins(c, o) /\ set \in SUBSET Number
    BY <1>7, <2>1, <2>2 DEF Reconcile
  <2>4. o \in Vc /\ o.op = "purge" /\ o.pc = "keys" /\ o.set = set
    BY <1>3, <2>2, <2>3 DEF Vc, VPc
  <2> QED BY <1>2, <2>1, <2>3, <2>4
<1> QED BY <1>4, <1>5, <1>6, <1>7

\* A purge goes on.
LEMMA PurgeGoes ==
  ASSUME VersionIInv, NEW c \in Caller, vc[c].op = "purge", NEW o \in Vc, Carries(o),
         o.pc \in {"idle", "unlink", "forget"}, vc' = [vc EXCEPT ![c] = o],
         version' \in [Number -> Record], archived' \in [Number -> Maybe],
         UNCHANGED <<nextVersion, main, token, calls, versionFaults, parallel>>,
         \A n \in Number : version'[n] \in {version[n], NoRecord},
         ~parallel.purge /\ (\A d \in Caller \ {c} : vc[d].pc = "idle") => \A n \in Number : CanBeRead(n)'
  PROVE  VersionIInv'
<1>1. /\ vc \in [Caller -> Vc] /\ main' \in Maybe /\ calls' \in 0 .. MaxCalls /\ parallel' \in History
      /\ vc'[c] = o
  BY VersionTyped
<1>2. Given'
  <2>1. NoRecord.status = "absent"
    BY DEF NoRecord
  <2>2. \A n \in Number : version'[n].status # "absent" => version'[n] = version[n]
    BY <2>1
  <2> QED BY <2>2 DEF VersionIInv, Given
<1>3. ~parallel.purge => \A d \in Caller \ {c} : vc[d].pc = "idle"
  BY DEF VersionIInv, InOrder, Alone
<1>4. Orderly(c)' /\ o.pc \notin Working
  BY <1>1 DEF Orderly, Working
<1> QED BY <1>1, <1>2, <1>3, <1>4, PurgeKeeps

LEMMA PurgesKeep ==
  ASSUME VersionIInv, NEW c \in Caller, DeleteList(c) \/ Unlink(c) \/ Forget(c) \/ Reconciled(c)
  PROVE  VersionIInv'
<1>1. /\ vc[c].pc \in {"list", "unlink", "forget", "keys"} /\ vc[c] \in Vc /\ Carries(vc[c])
      /\ vc \in [Caller -> Vc] /\ version \in [Number -> Record] /\ archived \in [Number -> Maybe]
      /\ UNCHANGED <<nextVersion, main, token, calls, versionFaults, parallel>>
  BY VersionTyped DEF DeleteList, Unlink, Forget, Reconciled, VAt
<1>2. vc[c].op = "purge"
  BY <1>1 DEF Carries
<1>3. ASSUME NEW o \in Vc, Carries(o), o.pc \in {"idle", "unlink", "forget"},
             vc' = [vc EXCEPT ![c] = o], version' \in [Number -> Record], archived' \in [Number -> Maybe],
             \A n \in Number : version'[n] \in {version[n], NoRecord},
             ASSUME ~parallel.purge, \A d \in Caller \ {c} : vc[d].pc = "idle", NEW n \in Number,
                    version'[n].status = "available", version'[n].copy,
                    o.pc = "forget" => o.n \notin {0, n}
             PROVE  archived'[n] = version'[n].sha /\ archived'[n] # None
      PROVE  VersionIInv'
  <2>1. vc'[c] = o
    BY <1>1, <1>3
  <2>2. ASSUME NEW n \in Number, ~parallel.purge, \A d \in Caller \ {c} : vc[d].pc = "idle"
        PROVE  CanBeRead(n)'
    BY <1>3, <2>1, <2>2 DEF CanBeRead, Forgotten
  <2> QED BY <1>1, <1>2, <1>3, <2>2, PurgeGoes
<1>4. CASE DeleteList(c)
  <2>1. PICK set : set = {n \in Number : version[n].status # "absent" /\ version[n].copy}
    OBVIOUS
  <2>2. PICK o : o = [vc[c] EXCEPT !.pc = "unlink", !.set = set]
    OBVIOUS
  <2>3. vc' = [vc EXCEPT ![c] = o] /\ UNCHANGED <<version, archived>> /\ vc[c].pc = "list"
    BY <1>1, <1>4, <2>1, <2>2 DEF DeleteList, VAt
  <2>4. set \in SUBSET Number /\ vc[c].n = 0
    BY <1>1, <2>1, <2>3 DEF Carries
  <2>5. o \in Vc /\ o.pc = "unlink" /\ o.op = "purge" /\ o.n = 0
    BY <1>1, <1>2, <2>2, <2>4 DEF Vc, VPc
  <2>6. Carries(o)
    BY <2>5 DEF Carries
  <2>7. ASSUME ~parallel.purge, \A d \in Caller \ {c} : vc[d].pc = "idle", NEW n \in Number,
               version[n].status = "available", version[n].copy
        PROVE  archived[n] = version[n].sha /\ archived[n] # None
    <3>1. \A d \in Caller : vc[d].pc # "forget"
      BY <2>3, <2>7
    <3> QED BY <2>7, <3>1, ReadableYet
  <2> QED BY <1>1, <1>3, <2>3, <2>5, <2>6, <2>7
<1>5. CASE Unlink(c)
  <2>1. PICK o : o = [vc[c] EXCEPT !.pc = "forget"]
    OBVIOUS
  <2>2. /\ vc[c].pc = "unlink" /\ vc' = [vc EXCEPT ![c] = o] /\ UNCHANGED version
        /\ archived' = [n \in Number |-> IF n \in vc[c].set THEN None ELSE archived[n]]
    BY <1>5, <2>1 DEF Unlink, VAt, VGoes
  <2>3. o \in Vc /\ o.pc = "forget" /\ o.op = "purge" /\ o.n = vc[c].n
    BY <1>1, <1>2, <2>1 DEF Vc, VPc
  <2>4. Carries(o) /\ archived' \in [Number -> Maybe]
    BY <1>1, <2>2, <2>3 DEF Carries, Maybe
  <2>5. ASSUME ~parallel.purge, \A d \in Caller \ {c} : vc[d].pc = "idle", NEW n \in Number,
               version[n].status = "available", version[n].copy, o.n \notin {0, n}
        PROVE  archived'[n] = version[n].sha /\ archived'[n] # None
    <3>1. \A d \in Caller : vc[d].pc # "forget"
      BY <2>2, <2>5
    <3>2. n \notin vc[c].set
      BY <1>1, <2>2, <2>3, <2>5 DEF Carries
    <3> QED BY <2>2, <2>5, <3>1, <3>2, ReadableYet
  <2> QED BY <1>1, <1>3, <2>2, <2>3, <2>4, <2>5
<1>6. CASE Forget(c)
  <2>1. /\ vc[c].pc = "forget" /\ vc' = [vc EXCEPT ![c] = VIdle] /\ UNCHANGED archived
        /\ version' = [n \in Number |-> IF vc[c].n \in {0, n} THEN NoRecord ELSE version[n]]
    BY <1>6 DEF Forget, VAt, VEnds
  <2>2. /\ version' \in [Number -> Record] /\ \A n \in Number : version'[n] \in {version[n], NoRecord}
        /\ \A n \in Number : vc[c].n \in {0, n} => version'[n].status = "absent"
    BY <1>1, <2>1, VIdleFits DEF NoRecord
  <2>3. ASSUME ~parallel.purge, \A d \in Caller \ {c} : vc[d].pc = "idle", NEW n \in Number,
               version'[n].status = "available", version'[n].copy
        PROVE  archived'[n] = version'[n].sha /\ archived'[n] # None
    <3>1. vc[c].n \notin {0, n} /\ version'[n] = version[n]
      BY <2>1, <2>2, <2>3
    <3>2. ~Forgotten(n)
      BY <2>3, <3>1 DEF Forgotten
    <3> QED BY <2>1, <2>3, <3>1, <3>2 DEF VersionIInv, InOrder, CanBeRead
  <2> QED BY <1>1, <1>3, <2>1, <2>2, <2>3, VIdleFits
<1>7. CASE Reconciled(c)
  <2>1. /\ vc[c].pc = "keys" /\ vc' = [vc EXCEPT ![c] = VIdle] /\ UNCHANGED version
        /\ archived' = [n \in Number |-> IF n \in vc[c].set THEN archived[n] ELSE None]
    BY <1>7 DEF Reconciled, VAt, VEnds
  <2>2. archived' \in [Number -> Maybe]
    BY <1>1, <2>1 DEF Maybe
  <2>3. ASSUME ~parallel.purge, \A d \in Caller \ {c} : vc[d].pc = "idle", NEW n \in Number,
               version[n].status = "available", version[n].copy
        PROVE  archived'[n] = version[n].sha /\ archived'[n] # None
    <3>1. \A d \in Caller : vc[d].pc # "forget"
      BY <2>1, <2>3
    <3>2. n \in vc[c].set
      BY <2>1, <2>3 DEF VersionIInv, InOrder, Orderly
    <3> QED BY <2>1, <2>3, <3>1, <3>2, ReadableYet
  <2> QED BY <1>1, <1>3, <2>1, <2>2, <2>3, VIdleFits
<1> QED BY <1>4, <1>5, <1>6, <1>7

LEMMA VersionInitInv == VersionInit => VersionIInv
<1> SUFFICES ASSUME VersionInit PROVE VersionIInv OBVIOUS
<1>1. 0 \in 0 .. MaxVersion /\ 0 \in 0 .. MaxCalls /\ 0 \in 0 .. MaxVersionFaults
  BY VersionBounds
<1>2. VersionTypeOK
  BY <1>1, VIdleFits DEF VersionInit, VersionTypeOK, Maybe, History
<1>3. /\ \A c \in Caller : vc[c] = VIdle
      /\ \A n \in Number : version[n].status = "absent"
  BY DEF VersionInit, NoRecord
<1>4. Owned /\ Given /\ \A c \in Caller : Carries(vc[c])
  BY <1>3, VIdleFits DEF Owned, Owns, Working, Given
<1>5. InOrder
  BY <1>3, VIdleFits DEF InOrder, Alone, Orderly, CanBeRead
<1> QED BY <1>2, <1>4, <1>5 DEF VersionIInv

LEMMA VersionStepInv == VersionIInv /\ [VersionNext]_versionVars => VersionIInv'
<1> SUFFICES ASSUME VersionIInv, [VersionNext]_versionVars PROVE VersionIInv'
  OBVIOUS
<1>1. ASSUME NEW c \in Caller, Put(c) \/ PutLook(c) \/ PutNumber(c) \/ PutPending(c) \/ PutMain(c)
                               \/ PutCopy(c) \/ PutMark(c) \/ PutPrune(c) \/ PutDrop(c)
      PROVE  VersionIInv'
  BY <1>1, PutAskKeeps, PutLookKeeps, NumberKeeps, PendingKeeps, PutMainKeeps, CopyKeeps, MarkKeeps,
     PruneKeeps, DropKeeps
<1>2. ASSUME NEW c \in Caller, Delete(c) \/ DeleteList(c) \/ DeleteVersion(c) \/ Retention(c)
                               \/ Unlink(c) \/ Forget(c) \/ Reconcile(c) \/ Reconciled(c)
      PROVE  VersionIInv'
  BY <1>2, PurgesBeginKeep, PurgesKeep
<1>3. ASSUME NEW c \in Caller, Sweep(c) \/ SweptObjects(c) \/ SweptRecords(c) PROVE VersionIInv'
  BY <1>3, SweepKeeps, DropKeeps
<1>4. ASSUME NEW c \in Caller, Rollback(c) \/ RollRead(c) \/ RollFetch(c) \/ RollNumber(c)
                               \/ RollPending(c) \/ RollCopy(c) \/ RollMark(c) \/ RollSettle(c) \/ Restore(c)
      PROVE  VersionIInv'
  BY <1>4, RollSettleKeeps, RollbackKeeps, RollReadsKeep, NumberKeeps, PendingKeeps, CopyKeeps, MarkKeeps
<1>5. ASSUME NEW c \in Caller, StepFails(c) \/ PutStream(c) PROVE VersionIInv'
  BY <1>5, StepFailsKeeps, AsideKeeps
<1>6. CASE (\E n \in Number : Preview(n)) \/ ProcessEnds
  BY <1>6, AsideKeeps, ProcessEndsKeeps
<1>7. CASE UNCHANGED versionVars
  <2>1. UNCHANGED <<nextVersion, version, archived, main, token, vc, calls, versionFaults, parallel>>
    BY <1>7 DEF versionVars
  <2> QED BY <2>1
          DEF VersionIInv, VersionTypeOK, Owned, Owns, Given, InOrder, Alone, Orderly, Unowned, CanBeRead,
              Forgotten
<1> QED BY <1>1, <1>2, <1>3, <1>4, <1>5, <1>6, <1>7 DEF VersionNext

\* The state of an artifact's versions keeps its types.  (VersionManager, its repository)
THEOREM VersionTypeCorrect == VersionSpec => []VersionTypeOK
<1>1. VersionIInv => VersionTypeOK
  BY DEF VersionIInv
<1> QED BY <1>1, VersionInitInv, VersionStepInv, PTL DEF VersionSpec

\* Whatever puts, rollbacks, prunes and sweeps overlap, fail or are cut off by a restart: a version
\* on offer can be read and is what was put under its number, as long as no purge has met another
\* call or failed.  (_put_versioned, rollback, prune_versions, version_sweep_once)
THEOREM OfferedVersionsAreReadable == VersionSpec => []AvailableIsReadable
<1>1. VersionIInv => AvailableIsReadable
  <2> SUFFICES ASSUME VersionIInv, ~parallel.purge, \A c \in Caller : vc[c].op # "purge",
                      NEW n \in Available, version[n].copy
               PROVE  archived[n] = version[n].sha /\ archived[n] # None
    BY DEF AvailableIsReadable
  <2>1. \A c \in Caller : vc[c].pc # "forget"
    BY DEF VersionIInv, Carries
  <2> QED BY <2>1, ReadableYet DEF Available
<1> QED BY <1>1, VersionInitInv, VersionStepInv, PTL DEF VersionSpec

-----------------------------------------------------------------------------
(* Calls that come one after the other keep the versions in order *)

\* The call at work has the newest number ...
Newer == Working \cup {"prune", "drop"}
Rolls(c) == vc[c].op = "roll"
Saved(n, data) == n \in Available /\ archived[n] = data
\* ... whose record is the one it has made; what a rollback replaces is a version, until it is over.
OneAtATime == \A c, d \in Caller : c # d /\ vc[c].pc # "idle" => vc[d].pc = "idle"
Numbered(c) ==
  /\ vc[c].pc \in Newer \/ (Rolls(c) /\ vc[c].pc \in {"look", "number"}) => vc[c].n = nextVersion
  /\ vc[c].pc \in {"pending", "rpending"} => version[nextVersion].status = "absent"
  /\ vc[c].pc \in {"main", "copy", "mark", "rcopy", "rmark"} => version[nextVersion].status = "pending"
SavesOld(c) ==
  /\ vc[c].pc = "rmark" => archived[nextVersion] = vc[c].old
  /\ Rolls(c) /\ vc[c].pc \in {"look", "number"} => Saved(nextVersion, vc[c].old)
  /\ Rolls(c) /\ vc[c].pc \in {"pending", "main", "copy", "mark", "prune", "drop"} =>
       Saved(nextVersion - 1, vc[c].old)
  /\ Rolls(c) /\ vc[c].pc = "drop" => nextVersion - 1 \notin vc[c].set
  /\ Rolls(c) /\ vc[c].pc = "settle" => Saved(nextVersion, vc[c].old) \/ Saved(nextVersion - 1, vc[c].old)
\* ... and, with no failure and no streamed put, the main object is the newest version, unless all
\* of them are being deleted.
HoldsMain(c) ==
  /\ vc[c].pc \in {"copy", "mark"} => main = vc[c].data
  /\ vc[c].pc \in {"fetch", "rnumber", "rpending", "rcopy", "rmark"} => main = vc[c].old
Emptying(c) == vc[c].pc \in {"list", "unlink", "forget"} /\ vc[c].n = 0
NewestMain == nextVersion \in Available => main = version[nextVersion].sha
Plain == ~parallel.bypass /\ versionFaults = 0
SerialInv ==
  ~parallel.calls =>
    /\ OneAtATime
    /\ \A c \in Caller : Numbered(c) /\ SavesOld(c) /\ (Plain => HoldsMain(c))
    /\ Plain => NewestMain \/ \E c \in Caller : Emptying(c)

\* What is known of a call at work.
LEMMA SerialCall ==
  ASSUME SerialInv, ~parallel.calls, NEW c \in Caller, vc[c].pc # "idle"
  PROVE  /\ \A d \in Caller \ {c} : vc[d].pc = "idle"
         /\ Numbered(c) /\ SavesOld(c) /\ (Plain => HoldsMain(c) /\ (NewestMain \/ Emptying(c)))
BY DEF SerialInv, OneAtATime, Emptying

\* Nobody at work: a call may begin.
LEMMA SerialIdle ==
  ASSUME SerialInv, ~parallel.calls, \A d \in Caller : vc[d].pc = "idle"
  PROVE  Plain => NewestMain
BY DEF SerialInv, Emptying

\* One call moves on while the others rest.
LEMMA SerialMoves ==
  ASSUME NEW c \in Caller,
         ~parallel'.calls =>
           /\ \A d \in Caller \ {c} : vc'[d] = vc[d] /\ vc[d].pc = "idle"
           /\ Numbered(c)' /\ SavesOld(c)' /\ (Plain' => HoldsMain(c)' /\ (NewestMain' \/ Emptying(c)'))
  PROVE  SerialInv'
<1> SUFFICES ASSUME ~parallel'.calls
             PROVE  /\ OneAtATime'
                    /\ \A d \in Caller : Numbered(d)' /\ SavesOld(d)' /\ (Plain' => HoldsMain(d)')
                    /\ Plain' => NewestMain' \/ \E d \in Caller : Emptying(d)'
  BY DEF SerialInv
<1>1. \A d \in Caller \ {c} : vc'[d].pc = "idle"
  OBVIOUS
<1>2. OneAtATime'
  BY <1>1 DEF OneAtATime
<1>3. ASSUME NEW d \in Caller \ {c} PROVE Numbered(d)' /\ SavesOld(d)' /\ HoldsMain(d)'
  BY <1>1, <1>3 DEF Numbered, SavesOld, HoldsMain, Newer, Working
<1> QED BY <1>2, <1>3

\* A step of a call at work that begins nothing.
LEMMA SerialGoes ==
  ASSUME SerialInv, VersionIInv, NEW c \in Caller, vc[c].pc # "idle",
         parallel'.calls = parallel.calls, NEW o, vc' = [vc EXCEPT ![c] = o],
         \/ parallel.calls
         \/ Numbered(c)' /\ SavesOld(c)' /\ (Plain' => HoldsMain(c)' /\ (NewestMain' \/ Emptying(c)'))
  PROVE  SerialInv'
<1>1. \A d \in Caller \ {c} : vc'[d] = vc[d]
  BY VersionTyped
<1> QED BY <1>1, SerialCall, SerialMoves

\* A call that ends leaves nothing to say of itself.
LEMMA SerialRests ==
  ASSUME NEW c \in Caller, vc'[c].pc = "idle"
  PROVE  Numbered(c)' /\ SavesOld(c)' /\ HoldsMain(c)'
BY DEF Numbered, SavesOld, HoldsMain, Newer, Working

LEMMA SerialEnds ==
  ASSUME SerialInv, VersionIInv, NEW c \in Caller, vc[c].pc # "idle", VEnds(c), ~parallel.calls => ~Emptying(c),
         UNCHANGED <<nextVersion, version, main, versionFaults, parallel>>
  PROVE  SerialInv'
<1>1. vc' = [vc EXCEPT ![c] = VIdle] /\ vc'[c].pc = "idle"
  BY VersionTyped, VIdleFits DEF VEnds
<1>2. ~parallel.calls /\ Plain => NewestMain'
  BY SerialCall DEF NewestMain, Available
<1> QED BY <1>1, <1>2, SerialRests, SerialGoes DEF Plain

\* A call begins.
LEMMA SerialBegins ==
  ASSUME SerialInv, VersionIInv, NEW c \in Caller, NEW o \in Vc, Begins(c, o),
         o.pc \in {"look", "list", "unlink", "swept", "keys", "read"}, o.pc = "look" => o.op # "roll",
         UNCHANGED <<nextVersion, version, archived, versionFaults>>,
         o.pc = "list" \/ (o.pc = "unlink" /\ o.n = 0) \/ main' = main, o.pc = "list" => o.n = 0
  PROVE  SerialInv'
<1>1. /\ vc[c].pc = "idle" /\ vc' = [vc EXCEPT ![c] = o] /\ vc'[c] = o
      /\ \A d \in Caller \ {c} : vc'[d] = vc[d]
  BY BeginsNotes, VersionTyped
<1>2. parallel'.calls = (parallel.calls \/ Busy) /\ parallel'.bypass = parallel.bypass
  BY VersionTyped DEF Begins, History
<1>3. ~parallel'.calls => ~parallel.calls /\ \A d \in Caller : vc[d].pc = "idle"
  BY <1>2 DEF Busy, VAt
<1>4. Numbered(c)' /\ SavesOld(c)' /\ HoldsMain(c)'
  BY <1>1 DEF Numbered, SavesOld, HoldsMain, Newer, Working, Rolls
<1>5. ~parallel'.calls /\ Plain' => NewestMain' \/ Emptying(c)'
  <2>1. ~parallel'.calls /\ Plain' => NewestMain
    BY <1>2, <1>3, SerialIdle DEF Plain
  <2>2. main' = main => (NewestMain <=> NewestMain')
    BY DEF NewestMain, Available
  <2> QED BY <1>1, <2>1, <2>2 DEF Emptying
<1> QED BY <1>1, <1>3, <1>4, <1>5, SerialMoves

LEMMA SerialBeginners ==
  ASSUME SerialInv, VersionIInv, NEW c \in Caller,
         Put(c) \/ Delete(c) \/ DeleteVersion(c) \/ Retention(c) \/ Sweep(c) \/ Reconcile(c)
  PROVE  SerialInv'
<1>1. VIdle \in Vc /\ Run \cup {""} = {"r1", "r2", ""}
  BY VIdleFits DEF Run
<1>2. CASE Put(c)
  <2>1. PICK d \in Content, r \in Run :
          Begins(c, [VIdle EXCEPT !.pc = "look", !.op = "put", !.data = d, !.run = r])
    BY <1>2 DEF Put
  <2>2. PICK o : o = [VIdle EXCEPT !.pc = "look", !.op = "put", !.data = d, !.run = r]
    OBVIOUS
  <2>3. o \in Vc /\ o.pc = "look" /\ o.op = "put"
    BY <1>1, <2>2 DEF Vc, VPc, Maybe
  <2> QED BY <1>2, <2>1, <2>2, <2>3, SerialBegins DEF Put
<1>3. CASE Delete(c)
  <2>1. PICK o : o = [VIdle EXCEPT !.pc = "list", !.op = "purge"]
    OBVIOUS
  <2>2. o \in Vc /\ o.pc = "list" /\ o.n = 0
    BY <1>1, <2>1 DEF Vc, VPc, VIdle
  <2> QED BY <1>3, <2>1, <2>2, SerialBegins DEF Delete
<1>4. CASE DeleteVersion(c)
  <2>1. PICK n \in Available, set \in SUBSET Number :
          Begins(c, [VIdle EXCEPT !.pc = "unlink", !.op = "purge", !.n = n, !.set = set])
    BY <1>4 DEF DeleteVersion, Available
  <2>2. n \in 0 .. MaxVersion
    BY VersionBounds DEF Available, Number
  <2>3. PICK o : o = [VIdle EXCEPT !.pc = "unlink", !.op = "purge", !.n = n, !.set = set]
    OBVIOUS
  <2>4. o \in Vc /\ o.pc = "unlink"
    BY <1>1, <2>2, <2>3 DEF Vc, VPc
  <2> QED BY <1>4, <2>1, <2>3, <2>4, SerialBegins DEF DeleteVersion
<1>5. CASE Retention(c)
  <2>1. PICK set \in SUBSET Number : Begins(c, [VIdle EXCEPT !.pc = "unlink", !.op = "purge", !.set = set])
    BY <1>5 DEF Retention
  <2>2. PICK o : o = [VIdle EXCEPT !.pc = "unlink", !.op = "purge", !.set = set]
    OBVIOUS
  <2>3. o \in Vc /\ o.pc = "unlink" /\ o.n = 0
    BY <1>1, <2>2 DEF Vc, VPc, VIdle
  <2> QED BY <1>5, <2>1, <2>2, <2>3, SerialBegins DEF Retention
<1>6. CASE Sweep(c)
  <2>1. PICK set \in SUBSET Number : Begins(c, [VIdle EXCEPT !.pc = "swept", !.op = "sweep", !.set = set])
    <3>1. PICK late \in SUBSET {n \in Number : version[n].status = "pending" /\ \A o \in Caller : vc[o].n # n} :
            LET listed == late \cup {n \in Number : version[n].status = "failed"}
            IN  Begins(c, [VIdle EXCEPT !.pc = "swept", !.op = "sweep", !.set = listed])
      BY <1>6 DEF Sweep
    <3> DEFINE listed == late \cup {n \in Number : version[n].status = "failed"}
    <3>2. listed \in SUBSET Number
      OBVIOUS
    <3> QED BY <3>1, <3>2
  <2>2. PICK o : o = [VIdle EXCEPT !.pc = "swept", !.op = "sweep", !.set = set]
    OBVIOUS
  <2>3. o \in Vc /\ o.pc = "swept"
    BY <1>1, <2>2 DEF Vc, VPc
  <2> QED BY <1>6, <2>1, <2>2, <2>3, SerialBegins DEF Sweep
<1>7. CASE Reconcile(c)
  <2>1. PICK set \in SUBSET Number : Begins(c, [VIdle EXCEPT !.pc = "keys", !.op = "purge", !.set = set])
    BY <1>7 DEF Reconcile
  <2>2. PICK o : o = [VIdle EXCEPT !.pc = "keys", !.op = "purge", !.set = set]
    OBVIOUS
  <2>3. o \in Vc /\ o.pc = "keys"
    BY <1>1, <2>2 DEF Vc, VPc
  <2> QED BY <1>7, <2>1, <2>2, <2>3, SerialBegins DEF Reconcile
<1> QED BY <1>2, <1>3, <1>4, <1>5, <1>6, <1>7

LEMMA SerialLook == ASSUME SerialInv, VersionIInv, NEW c \in Caller, PutLook(c) PROVE SerialInv'
<1>1. /\ vc[c].pc = "look" /\ ~Emptying(c)
      /\ UNCHANGED <<nextVersion, version, archived, main, versionFaults, parallel>>
  BY DEF PutLook, VAt, Emptying
<1>2. CASE VEnds(c)
  BY <1>1, <1>2, SerialEnds
<1>3. ASSUME NEW pc \in {"number", "settle"}, VGoes(c, pc) PROVE SerialInv'
  <2>1. pc \in VPc
    BY DEF VPc
  <2>2. PICK o : o = [vc[c] EXCEPT !.pc = pc]
    OBVIOUS
  <2>3. /\ vc' = [vc EXCEPT ![c] = o] /\ vc'[c] = o /\ o.pc = pc
        /\ o.op = vc[c].op /\ o.n = vc[c].n /\ o.old = vc[c].old
    BY <1>3, <2>1, <2>2, VGoesIs
  <2>4. ASSUME ~parallel.calls PROVE Numbered(c)' /\ SavesOld(c)'
    <3>1. Numbered(c) /\ SavesOld(c)
      BY <1>1, <2>4, SerialCall
    <3>2. Numbered(c)'
      BY <1>1, <2>3, <3>1 DEF Numbered, Newer, Working, Rolls
    <3>3. SavesOld(c)'
      BY <1>1, <2>3, <3>1 DEF SavesOld, Rolls, Saved, Available
    <3> QED BY <3>2, <3>3
  <2>5. ASSUME ~parallel.calls, Plain' PROVE HoldsMain(c)' /\ NewestMain'
    <3>1. NewestMain
      BY <1>1, <2>5, SerialCall DEF Plain
    <3> QED BY <1>1, <2>3, <3>1 DEF HoldsMain, NewestMain, Available
  <2> QED BY <1>1, <2>3, <2>4, <2>5, SerialGoes
<1> QED BY <1>2, <1>3 DEF PutLook, PutReturns

\* The next number is nobody's yet.
LEMMA SerialNumber ==
  ASSUME SerialInv, VersionIInv, NEW c \in Caller, PutNumber(c) \/ RollNumber(c)
  PROVE  SerialInv'
<1>1. PICK pc \in {"pending", "rpending"} :
        /\ NextNumber(c, pc) /\ vc[c].pc = (IF pc = "pending" THEN "number" ELSE "rnumber")
        /\ UNCHANGED <<version, archived, main, token, calls, versionFaults, parallel>>
  BY DEF PutNumber, RollNumber, VAt
<1>2. PICK n : n = nextVersion + 1
  OBVIOUS
<1>3. PICK o : o = [vc[c] EXCEPT !.n = n, !.pc = pc]
  OBVIOUS
<1>4. vc \in [Caller -> Vc] /\ vc[c] \in Vc /\ nextVersion \in 0 .. MaxVersion /\ Carries(vc[c])
  BY VersionTyped
<1>5. n \in Number /\ nextVersion' = n /\ n > nextVersion /\ nextVersion = nextVersion' - 1
  BY <1>1, <1>2, <1>4, VersionBounds DEF NextNumber, Number
<1>6. /\ vc' = [vc EXCEPT ![c] = o] /\ vc'[c] = o /\ o.pc = pc /\ o.n = n
      /\ o.op = vc[c].op /\ o.old = vc[c].old
  <2>1. vc' = [vc EXCEPT ![c] = o]
    BY <1>1, <1>2, <1>3, <1>4 DEF NextNumber
  <2> QED BY <1>3, <1>4, <2>1 DEF Vc
<1>7. version'[nextVersion'].status = "absent"
  BY <1>1, <1>4, <1>5, VersionBounds DEF VersionIInv, Given, Number
<1>8. ASSUME ~parallel.calls PROVE Numbered(c)' /\ SavesOld(c)'
  <2>1. Numbered(c)'
    BY <1>5, <1>6, <1>7 DEF Numbered, Newer, Working, Rolls
  <2>2. pc = "pending" /\ Rolls(c) => Saved(nextVersion, vc[c].old)
    BY <1>1, <1>8, SerialCall DEF SavesOld
  <2>3. SavesOld(c)'
    BY <1>1, <1>5, <1>6, <2>2 DEF SavesOld, Rolls, Saved, Available
  <2> QED BY <2>1, <2>3
<1>9. NewestMain'
  BY <1>7 DEF NewestMain, Available
<1>10. ASSUME ~parallel.calls, Plain' PROVE HoldsMain(c)'
  <2>1. HoldsMain(c)
    BY <1>1, <1>10, SerialCall DEF Plain
  <2> QED BY <1>1, <1>6, <2>1 DEF HoldsMain
<1> QED BY <1>1, <1>6, <1>8, <1>9, <1>10, SerialGoes

\* A call with a number moves on; nothing under other numbers changes, and nothing is on offer under
\* its own.
LEMMA SerialOwner ==
  ASSUME SerialInv, VersionIInv, NEW c \in Caller, Owns(c),
         NEW pc \in VPc \cap {"main", "copy", "mark", "prune", "rcopy", "rmark"}, VGoes(c, pc),
         UNCHANGED <<nextVersion, versionFaults, parallel>>,
         vc[c].pc \in {"rpending", "rcopy", "rmark"} => pc \in {"rcopy", "rmark"},
         \A n \in Number \ {vc[c].n} : version'[n] = version[n] /\ archived'[n] = archived[n],
         ~parallel.calls => version'[vc[c].n].status = (IF pc = "prune" THEN "available" ELSE "pending"),
         ~parallel.calls /\ pc = "rmark" => archived'[vc[c].n] = vc[c].old,
         ~parallel.calls /\ pc = "prune" /\ Plain => main' = version'[vc[c].n].sha,
         ~parallel.calls /\ pc \in {"copy", "mark"} /\ Plain => main' = vc[c].data,
         pc \in {"rcopy", "rmark"} => main' = main /\ vc[c].pc \in {"rpending", "rcopy"}
  PROVE  SerialInv'
<1>1. PICK o : o = [vc[c] EXCEPT !.pc = pc]
  OBVIOUS
<1>2. /\ vc' = [vc EXCEPT ![c] = o] /\ vc'[c] = o /\ o.pc = pc /\ o.n = vc[c].n
      /\ o.op = vc[c].op /\ o.old = vc[c].old /\ o.data = vc[c].data
  BY <1>1, VGoesIs
<1>3. vc[c].n \in Number /\ vc[c].pc # "idle" /\ Carries(vc[c]) /\ nextVersion \in 0 .. MaxVersion
  BY VersionTyped DEF Owns, Working
<1>4. ASSUME ~parallel.calls PROVE Numbered(c)' /\ SavesOld(c)'
  <2>1. Numbered(c) /\ SavesOld(c)
    BY <1>3, <1>4, SerialCall
  <2>2. vc[c].n = nextVersion
    BY <2>1 DEF Numbered, Newer, Owns
  <2>3. Numbered(c)'
    BY <1>2, <1>4, <2>2 DEF Numbered, Newer, Working, Rolls
  <2>4. ASSUME Rolls(c), pc \notin {"rcopy", "rmark"} PROVE Saved(nextVersion - 1, vc[c].old)'
    <3>1. Saved(nextVersion - 1, vc[c].old)
      BY <2>1, <2>4 DEF SavesOld, Owns, Working
    <3>2. nextVersion - 1 # vc[c].n
      BY <1>3, <2>2, VersionBounds
    <3> QED BY <3>1, <3>2, <1>2 DEF Saved, Available
  <2>5. SavesOld(c)'
    BY <1>2, <1>4, <2>2, <2>4 DEF SavesOld, Rolls, Working, Saved, Available
  <2> QED BY <2>3, <2>5
<1>5. ASSUME ~parallel.calls, Plain' PROVE HoldsMain(c)' /\ NewestMain'
  <2>1. Numbered(c) /\ HoldsMain(c) /\ Plain
    BY <1>3, <1>5, SerialCall DEF Plain
  <2>2. vc[c].n = nextVersion
    BY <2>1 DEF Numbered, Newer, Owns
  <2>3. HoldsMain(c)'
    BY <1>2, <1>5, <2>1 DEF HoldsMain, Working
  <2>4. NewestMain'
    BY <1>5, <2>1, <2>2 DEF NewestMain, Available
  <2> QED BY <2>3, <2>4
<1> QED BY <1>2, <1>3, <1>4, <1>5, SerialGoes

LEMMA SerialPuts ==
  ASSUME SerialInv, VersionIInv, NEW c \in Caller,
         PutPending(c) \/ PutMain(c) \/ PutCopy(c) \/ PutMark(c) \/ RollPending(c) \/ RollCopy(c)
  PROVE  SerialInv'
<1>1. {"main", "mark", "copy", "prune", "rcopy", "rmark"} \subseteq VPc
  BY DEF VPc
<1>2. Owns(c) /\ vc[c].pc # "idle" /\ vc[c].n \in Number
  BY VersionTyped
     DEF PutPending, PutMain, PutCopy, PutMark, RollPending, RollCopy, VAt, Owns, Working
<1>3. version \in [Number -> Record] /\ archived \in [Number -> Maybe]
  BY VersionTyped
<1>4. ~parallel.calls => Numbered(c) /\ (Plain => HoldsMain(c)) /\ vc[c].n = nextVersion
  BY <1>2, SerialCall DEF Numbered, Newer, Owns
<1>5. CASE PutPending(c)
  BY <1>1, <1>2, <1>3, <1>4, <1>5, SerialOwner DEF PutPending, VAt, Working
<1>6. CASE PutMain(c)
  BY <1>1, <1>2, <1>3, <1>4, <1>6, SerialOwner DEF PutMain, VAt, Working, Numbered
<1>7. CASE PutCopy(c)
  BY <1>1, <1>2, <1>3, <1>4, <1>7, SerialOwner DEF PutCopy, VAt, Working, Numbered, HoldsMain
<1>8. CASE PutMark(c)
  <2>1. \A n \in Number \ {vc[c].n} : version'[n] = version[n]
    BY <1>2, <1>3, <1>8 DEF PutMark, Marked
  <2>2. ~parallel.calls => version'[vc[c].n].status = "available" /\ version'[vc[c].n].sha = vc[c].data
    BY <1>2, <1>3, <1>4, <1>8 DEF PutMark, Marked, Numbered, VAt, Record
  <2>3. ~parallel.calls /\ Plain => main = vc[c].data
    BY <1>4, <1>8 DEF PutMark, VAt, HoldsMain
  <2> QED BY <1>1, <1>2, <1>3, <1>8, <2>1, <2>2, <2>3, SerialOwner DEF PutMark, VAt, Working
<1>9. CASE RollPending(c)
  BY <1>1, <1>2, <1>3, <1>4, <1>9, SerialOwner DEF RollPending, VAt, Working
<1>10. CASE RollCopy(c)
  BY <1>1, <1>2, <1>3, <1>4, <1>10, SerialOwner DEF RollCopy, VAt, Working, Numbered
<1> QED BY <1>5, <1>6, <1>7, <1>8, <1>9, <1>10

\* The object that was replaced is an available version, which the record of the main key follows.
LEMMA SerialRollMark == ASSUME SerialInv, VersionIInv, NEW c \in Caller, RollMark(c) PROVE SerialInv'
<1>1. /\ vc[c].pc = "rmark" /\ Marked(vc[c].n, "available", vc[c].old)
      /\ UNCHANGED <<nextVersion, archived, main, token, calls, versionFaults, parallel>>
      /\ vc' = [vc EXCEPT ![c].pc = "look", ![c].data = vc[c].new, ![c].run = ""]
  BY DEF RollMark, VAt
<1>2. vc \in [Caller -> Vc] /\ vc[c] \in Vc /\ version \in [Number -> Record] /\ vc[c].n \in Number
  BY <1>1, VersionTyped DEF Owns, Working
<1>3. PICK o : o = [vc[c] EXCEPT !.pc = "look", !.data = vc[c].new, !.run = ""]
  OBVIOUS
<1>4. vc' = [vc EXCEPT ![c] = o] /\ vc'[c] = o /\ o.pc = "look" /\ o.n = vc[c].n /\ o.old = vc[c].old
  BY <1>1, <1>2, <1>3 DEF Vc
<1>5. ASSUME ~parallel.calls
      PROVE  /\ Numbered(c)' /\ SavesOld(c)'
             /\ version'[nextVersion].sha = vc[c].old
  <2>1. /\ vc[c].n = nextVersion /\ version[nextVersion].status = "pending"
        /\ archived[nextVersion] = vc[c].old
    BY <1>1, <1>5, SerialCall DEF Numbered, SavesOld, Newer, Working
  <2>2. version'[nextVersion].status = "available" /\ version'[nextVersion].sha = vc[c].old
    BY <1>1, <1>2, <2>1 DEF Marked, Record
  <2>3. Saved(nextVersion, vc[c].old)'
    BY <1>1, <1>2, <1>4, <2>1, <2>2 DEF Saved, Available
  <2> QED BY <1>1, <1>4, <2>1, <2>2, <2>3 DEF Numbered, SavesOld, Rolls, Newer, Working
<1>6. ASSUME ~parallel.calls, Plain' PROVE HoldsMain(c)' /\ NewestMain'
  <2>1. main = vc[c].old
    BY <1>1, <1>6, SerialCall DEF HoldsMain, Plain
  <2> QED BY <1>1, <1>4, <1>5, <1>6, <2>1 DEF HoldsMain, NewestMain
<1> QED BY <1>1, <1>4, <1>5, <1>6, SerialGoes

\* What a rollback has replaced is one of the two newest versions, which a prune keeps.
LEMMA NextNewestStays ==
  ASSUME VersionIInv, Keep \in Nat, Keep >= 2, nextVersion - 1 \in Available
  PROVE  nextVersion - 1 \notin Victims
<1> DEFINE above == {o \in Available : o > nextVersion - 1}
<1>1. nextVersion \in Nat /\ \A o \in Available : o \in Nat /\ o <= nextVersion
  BY VersionBounds DEF VersionIInv, VersionTypeOK, Given, Available, Number
<1>2. above \subseteq {nextVersion}
  BY <1>1
<1>3. IsFiniteSet({nextVersion}) /\ Cardinality({nextVersion}) = 1
  BY FS_Singleton
<1>4. Cardinality(above) <= 1 /\ Cardinality(above) \in Nat
  BY <1>2, <1>3, FS_Subset, FS_CardinalityType
<1>5. Cardinality(above) < Keep
  BY <1>4
<1>6. nextVersion - 1 \in Newest(Available, Keep)
  BY <1>5 DEF Newest
<1> QED BY <1>6 DEF Victims

LEMMA SerialPrune ==
  ASSUME SerialInv, VersionIInv, NEW c \in Caller, PutPrune(c), Keep \in Nat, Keep >= 2
  PROVE  SerialInv'
<1>1. /\ vc[c].pc = "prune" /\ version' = [n \in Number |-> IF n \in Victims THEN NoRecord ELSE version[n]]
      /\ UNCHANGED <<nextVersion, archived, main, token, calls, versionFaults, parallel>>
      /\ vc' = [vc EXCEPT ![c].set = {n \in Victims : version[n].copy}, ![c].pc = "drop"]
  BY DEF PutPrune, VAt
<1>2. vc \in [Caller -> Vc] /\ vc[c] \in Vc /\ version \in [Number -> Record]
  BY VersionTyped
<1>3. PICK set : set = {n \in Victims : version[n].copy}
  OBVIOUS
<1>4. PICK o : o = [vc[c] EXCEPT !.set = set, !.pc = "drop"]
  OBVIOUS
<1>5. /\ vc' = [vc EXCEPT ![c] = o] /\ vc'[c] = o /\ o.pc = "drop" /\ o.n = vc[c].n
      /\ o.old = vc[c].old /\ o.op = vc[c].op /\ o.set = set
  BY <1>1, <1>2, <1>3, <1>4 DEF Vc
<1>6. ASSUME NEW n \in Available' PROVE n \in Available /\ version'[n] = version[n]
  BY <1>1 DEF Available, NoRecord
<1>7. ASSUME ~parallel.calls PROVE Numbered(c)' /\ SavesOld(c)'
  <2>1. Numbered(c) /\ SavesOld(c)
    BY <1>1, <1>7, SerialCall
  <2>2. Numbered(c)'
    BY <1>1, <1>5, <2>1 DEF Numbered, Newer, Working, Rolls
  <2>3. ASSUME Rolls(c)
        PROVE  Saved(nextVersion - 1, vc[c].old)' /\ nextVersion - 1 \notin set
    <3>1. Saved(nextVersion - 1, vc[c].old)
      BY <1>1, <2>1, <2>3 DEF SavesOld
    <3>2. nextVersion - 1 \notin Victims /\ nextVersion - 1 \in Number
      BY <3>1, NextNewestStays DEF Saved, Available
    <3> QED BY <1>1, <1>3, <1>5, <3>1, <3>2 DEF Saved, Available
  <2>4. SavesOld(c)'
    BY <1>1, <1>5, <2>3 DEF SavesOld, Rolls, Saved, Available
  <2> QED BY <2>2, <2>4
<1>8. ASSUME ~parallel.calls, Plain' PROVE HoldsMain(c)' /\ NewestMain'
  <2>1. NewestMain
    BY <1>1, <1>8, SerialCall DEF Plain, Emptying
  <2> QED BY <1>1, <1>5, <1>6, <2>1 DEF HoldsMain, NewestMain
<1> QED BY <1>1, <1>5, <1>7, <1>8, SerialGoes

\* A step that takes records or objects away and says nothing of its own call.
LEMMA SerialTakes ==
  ASSUME SerialInv, VersionIInv, NEW c \in Caller, vc[c].pc # "idle", NEW o \in Vc, vc' = [vc EXCEPT ![c] = o],
         o.pc \in {"idle", "unlink", "forget", "cleaned"}, o.pc \in {"idle", "cleaned"} \/ o.n = vc[c].n,
         UNCHANGED <<nextVersion, main, versionFaults, parallel>>,
         \A n \in Number : version'[n] \in {version[n], NoRecord},
         Emptying(c) /\ o.pc = "idle" => NewestMain',
         Emptying(c) => o.pc \in {"idle", "unlink", "forget"}
  PROVE  SerialInv'
<1>1. vc'[c] = o
  BY VersionTyped
<1>2. Numbered(c)' /\ SavesOld(c)' /\ HoldsMain(c)'
  BY <1>1 DEF Numbered, SavesOld, HoldsMain, Newer, Working, Rolls
<1>3. NewestMain => NewestMain'
  <2> SUFFICES ASSUME NewestMain, nextVersion \in Available' PROVE main = version'[nextVersion].sha
    BY DEF NewestMain
  <2>1. nextVersion \in Number /\ version'[nextVersion].status = "available"
    BY DEF Available
  <2>2. version'[nextVersion] # NoRecord
    <3>1. NoRecord.status = "absent"
      BY DEF NoRecord
    <3>2. "absent" # "available"
      OBVIOUS
    <3> QED BY <2>1, <3>1, <3>2
  <2>3. version'[nextVersion] = version[nextVersion]
    BY <2>1, <2>2
  <2> QED BY <2>1, <2>3 DEF NewestMain, Available
<1>4. Emptying(c) => Emptying(c)' \/ NewestMain'
  BY <1>1 DEF Emptying, NewestMain, Available
<1>5. ~parallel.calls /\ Plain' => NewestMain' \/ Emptying(c)'
  BY <1>3, <1>4, SerialCall DEF Plain
<1> QED BY <1>2, <1>5, SerialGoes

\* The put of a rollback is over: what it has replaced was not among the versions it dropped.
LEMMA SerialSettles ==
  ASSUME SerialInv, VersionIInv, NEW c \in Caller, PutDrop(c), Rolls(c), VGoes(c, "settle")
  PROVE  SerialInv'
<1>1. /\ vc[c].pc = "drop" /\ ~Emptying(c)
      /\ UNCHANGED <<nextVersion, version, main, versionFaults, parallel>>
      /\ archived' = [n \in Number |-> IF n \in vc[c].set THEN None ELSE archived[n]]
  BY DEF PutDrop, VAt, Emptying
<1>2. "settle" \in VPc
  BY DEF VPc
<1>3. PICK o : o = [vc[c] EXCEPT !.pc = "settle"]
  OBVIOUS
<1>4. vc' = [vc EXCEPT ![c] = o] /\ vc'[c] = o /\ o.pc = "settle" /\ o.old = vc[c].old
  BY <1>2, <1>3, VGoesIs
<1>5. ASSUME ~parallel.calls PROVE Numbered(c)' /\ SavesOld(c)'
  <2>1. Saved(nextVersion - 1, vc[c].old) /\ nextVersion - 1 \notin vc[c].set
    BY <1>1, <1>5, SerialCall DEF SavesOld
  <2>2. Saved(nextVersion - 1, vc[c].old)'
    BY <1>1, <1>4, <2>1 DEF Saved, Available
  <2> QED BY <1>1, <1>4, <2>2 DEF Numbered, SavesOld, Newer, Working
<1>6. ASSUME ~parallel.calls, Plain' PROVE HoldsMain(c)' /\ NewestMain'
  <2>1. NewestMain
    BY <1>1, <1>6, SerialCall DEF Plain
  <2> QED BY <1>1, <1>4, <2>1 DEF HoldsMain, NewestMain, Available
<1> QED BY <1>1, <1>4, <1>5, <1>6, SerialGoes

LEMMA SerialClears ==
  ASSUME SerialInv, VersionIInv, NEW c \in Caller,
         PutDrop(c) \/ DeleteList(c) \/ Unlink(c) \/ Forget(c) \/ SweptObjects(c) \/ SweptRecords(c)
           \/ Reconciled(c)
  PROVE  SerialInv'
<1>1. VIdle \in Vc /\ VIdle.pc = "idle" /\ {"unlink", "forget", "cleaned"} \subseteq VPc
  BY VIdleFits DEF VPc
<1>2. vc \in [Caller -> Vc] /\ vc[c] \in Vc /\ version \in [Number -> Record]
  BY VersionTyped
<1>3. CASE PutDrop(c) \/ Reconciled(c)
  <2>1. CASE VEnds(c)
    BY <1>1, <1>3, <2>1, SerialTakes DEF PutDrop, Reconciled, VEnds, VAt, Emptying
  <2>2. CASE PutDrop(c) /\ Rolls(c) /\ VGoes(c, "settle")
    BY <2>2, SerialSettles
  <2> QED BY <1>3, <2>1, <2>2 DEF PutDrop, Reconciled, PutReturns, Rolls
<1>4. CASE DeleteList(c)
  <2>1. PICK set \in SUBSET Number : vc' = [vc EXCEPT ![c].pc = "unlink", ![c].set = set]
    BY <1>4 DEF DeleteList
  <2>2. PICK o : o = [vc[c] EXCEPT !.pc = "unlink", !.set = set]
    OBVIOUS
  <2>3. o \in Vc /\ vc' = [vc EXCEPT ![c] = o] /\ o.pc = "unlink" /\ o.n = vc[c].n
    BY <1>1, <1>2, <2>1, <2>2 DEF Vc
  <2> QED BY <1>4, <2>3, SerialTakes DEF DeleteList, VAt
<1>5. CASE Unlink(c)
  <2>1. PICK o : o = [vc[c] EXCEPT !.pc = "forget"]
    OBVIOUS
  <2>2. o \in Vc /\ vc' = [vc EXCEPT ![c] = o] /\ o.pc = "forget" /\ o.n = vc[c].n
    BY <1>1, <1>5, <2>1, VGoesIs DEF Unlink
  <2> QED BY <1>5, <2>2, SerialTakes DEF Unlink, VAt
<1>6. CASE SweptObjects(c)
  <2>1. PICK o : o = [vc[c] EXCEPT !.pc = "cleaned"]
    OBVIOUS
  <2>2. o \in Vc /\ vc' = [vc EXCEPT ![c] = o] /\ o.pc = "cleaned"
    BY <1>1, <1>6, <2>1, VGoesIs DEF SweptObjects
  <2> QED BY <1>6, <2>2, SerialTakes DEF SweptObjects, VAt, Emptying
<1>7. CASE Forget(c)
  <2>1. /\ vc' = [vc EXCEPT ![c] = VIdle] /\ vc[c].pc = "forget"
        /\ version' = [n \in Number |-> IF vc[c].n \in {0, n} THEN NoRecord ELSE version[n]]
        /\ UNCHANGED <<nextVersion, archived, main, token, calls, versionFaults, parallel>>
    BY <1>7 DEF Forget, VEnds, VAt
  <2>2. \A n \in Number : version'[n] \in {version[n], NoRecord}
    BY <2>1
  <2>3. ASSUME Emptying(c) PROVE NewestMain'
    <3>1. \A n \in Number : version'[n] = NoRecord
      BY <2>1, <2>3 DEF Emptying
    <3>2. NoRecord.status = "absent"
      BY DEF NoRecord
    <3>3. \A n \in Number : version'[n].status = "absent"
      BY <3>1, <3>2
    <3> QED BY <3>3 DEF NewestMain, Available
  <2> QED BY <1>1, <2>1, <2>2, <2>3, SerialTakes
<1>8. CASE SweptRecords(c)
  <2>1. /\ vc' = [vc EXCEPT ![c] = VIdle] /\ vc[c].pc = "cleaned"
        /\ version' = [n \in Number |-> IF n \in vc[c].set THEN NoRecord ELSE version[n]]
        /\ UNCHANGED <<nextVersion, archived, main, token, calls, versionFaults, parallel>>
    BY <1>8 DEF SweptRecords, VEnds, VAt
  <2> QED BY <1>1, <2>1, SerialTakes DEF Emptying
<1> QED BY <1>3, <1>4, <1>5, <1>6, <1>7, <1>8

\* A step that touches neither versions nor calls.
LEMMA SerialSame ==
  ASSUME SerialInv, UNCHANGED <<nextVersion, version, archived, vc>>, parallel'.calls = parallel.calls,
         Plain' => Plain /\ main' = main
  PROVE  SerialInv'
<1> SUFFICES ASSUME ~parallel.calls
             PROVE  /\ OneAtATime'
                    /\ \A c \in Caller : Numbered(c)' /\ SavesOld(c)' /\ (Plain' => HoldsMain(c)')
                    /\ Plain' => NewestMain' \/ \E c \in Caller : Emptying(c)'
  BY DEF SerialInv
<1>1. OneAtATime'
  BY DEF SerialInv, OneAtATime
<1>2. ASSUME NEW c \in Caller PROVE Numbered(c)' /\ SavesOld(c)' /\ (Plain' => HoldsMain(c)')
  <2>1. Numbered(c) /\ SavesOld(c) /\ (Plain => HoldsMain(c))
    BY DEF SerialInv
  <2> QED BY <2>1 DEF Numbered, SavesOld, HoldsMain, Rolls, Saved, Available
<1>3. Plain' => NewestMain' \/ \E c \in Caller : Emptying(c)'
  BY DEF SerialInv, NewestMain, Emptying, Available
<1> QED BY <1>1, <1>2, <1>3

LEMMA SerialAside ==
  ASSUME SerialInv, VersionIInv,
         (\E c \in Caller : PutStream(c)) \/ \E n \in Number : Preview(n)
  PROVE  SerialInv'
<1>1. CASE \E c \in Caller : PutStream(c)
  <2>1. parallel' = [parallel EXCEPT !.bypass = TRUE] /\ parallel \in History
    BY <1>1 DEF PutStream, VersionIInv, VersionTypeOK
  <2>2. parallel'.bypass /\ parallel'.calls = parallel.calls
    BY <2>1 DEF History
  <2> QED BY <1>1, <2>2, SerialSame DEF PutStream, Plain
<1>2. CASE \E n \in Number : Preview(n)
  BY <1>2, SerialSame DEF Preview, Plain
<1> QED BY <1>1, <1>2

LEMMA SerialRollback == ASSUME SerialInv, VersionIInv, NEW c \in Caller, Rollback(c) PROVE SerialInv'
<1>1. PICK n \in token :
        /\ token' = token \ {n}
        /\ \/ Begins(c, [VIdle EXCEPT !.pc = "read", !.op = "roll", !.roll = n])
           \/ UNCHANGED <<vc, parallel>>
        /\ UNCHANGED <<nextVersion, version, archived, main, versionFaults>>
  BY DEF Rollback
<1>2. n \in 0 .. MaxVersion
  BY VersionTyped, VersionBounds DEF Number
<1>3. PICK o : o = [VIdle EXCEPT !.pc = "read", !.op = "roll", !.roll = n]
  OBVIOUS
<1>4. o \in Vc /\ o.pc = "read"
  BY <1>2, <1>3, VIdleFits DEF Vc, VPc
<1>5. CASE Begins(c, o)
  BY <1>1, <1>4, <1>5, SerialBegins
<1>6. CASE UNCHANGED <<vc, parallel>>
  BY <1>1, <1>6, SerialSame DEF Plain
<1> QED BY <1>1, <1>3, <1>5, <1>6

\* Both objects are read before anything is written.
LEMMA SerialRollReads ==
  ASSUME SerialInv, VersionIInv, NEW c \in Caller, RollRead(c) \/ RollFetch(c) \/ Restore(c)
  PROVE  SerialInv'
<1>1. /\ vc[c].pc \in {"read", "fetch", "restore"} /\ ~Emptying(c)
      /\ UNCHANGED <<nextVersion, version, archived, main, token, calls, versionFaults, parallel>>
  BY DEF RollRead, RollFetch, Restore, VAt, Emptying
<1>2. vc \in [Caller -> Vc] /\ vc[c] \in Vc
  BY VersionTyped
<1>3. CASE VEnds(c)
  BY <1>1, <1>3, SerialEnds
<1>4. NewestMain => NewestMain'
  BY <1>1 DEF NewestMain, Available
<1>5. ~parallel.calls /\ Plain' => NewestMain'
  BY <1>1, <1>4, SerialCall DEF Plain
<1>6. CASE RollRead(c) /\ ~VEnds(c)
  <2>1. vc' = [vc EXCEPT ![c].pc = "fetch", ![c].old = main]
    BY <1>6 DEF RollRead
  <2>2. PICK o : o = [vc[c] EXCEPT !.pc = "fetch", !.old = main]
    OBVIOUS
  <2>3. vc' = [vc EXCEPT ![c] = o] /\ vc'[c] = o /\ o.pc = "fetch" /\ o.old = main
    BY <1>2, <2>1, <2>2 DEF Vc
  <2>4. Numbered(c)' /\ SavesOld(c)' /\ HoldsMain(c)'
    BY <1>1, <2>3 DEF Numbered, SavesOld, HoldsMain, Newer, Working
  <2> QED BY <1>1, <1>5, <2>3, <2>4, SerialGoes
<1>7. CASE RollFetch(c) /\ ~VEnds(c)
  <2>1. vc' = [vc EXCEPT ![c].pc = "rnumber", ![c].new = archived[vc[c].roll]] /\ vc[c].pc = "fetch"
    BY <1>7 DEF RollFetch, VAt
  <2>2. PICK o : o = [vc[c] EXCEPT !.pc = "rnumber", !.new = archived[vc[c].roll]]
    OBVIOUS
  <2>3. vc' = [vc EXCEPT ![c] = o] /\ vc'[c] = o /\ o.pc = "rnumber" /\ o.old = vc[c].old
    BY <1>2, <2>1, <2>2 DEF Vc
  <2>4. Numbered(c)' /\ SavesOld(c)'
    BY <2>3 DEF Numbered, SavesOld, Newer, Working
  <2>5. ~parallel.calls /\ Plain' => HoldsMain(c)'
    BY <1>1, <2>1, <2>3, SerialCall DEF HoldsMain, Plain
  <2> QED BY <1>1, <1>5, <2>3, <2>4, <2>5, SerialGoes
<1>8. CASE Restore(c)
  <2>1. vc' = [vc EXCEPT ![c].pc = "look", ![c].data = vc[c].old, ![c].run = "", ![c].op = "put"]
    BY <1>8 DEF Restore
  <2>2. PICK o : o = [vc[c] EXCEPT !.pc = "look", !.data = vc[c].old, !.run = "", !.op = "put"]
    OBVIOUS
  <2>3. vc' = [vc EXCEPT ![c] = o] /\ vc'[c] = o /\ o.pc = "look" /\ o.op = "put"
    BY <1>2, <2>1, <2>2 DEF Vc
  <2>4. Numbered(c)' /\ SavesOld(c)' /\ HoldsMain(c)'
    BY <2>3 DEF Numbered, SavesOld, HoldsMain, Newer, Working, Rolls
  <2> QED BY <1>1, <1>5, <2>3, <2>4, SerialGoes
<1> QED BY <1>3, <1>6, <1>7, <1>8

LEMMA SerialFails ==
  ASSUME SerialInv, VersionIInv, ProcessEnds \/ \E c \in Caller : StepFails(c)
  PROVE  SerialInv'
<1>1. parallel \in History /\ versionFaults \in Nat /\ vc \in [Caller -> Vc]
  BY VersionBounds DEF VersionIInv, VersionTypeOK
<1>2. versionFaults' = versionFaults + 1
  BY DEF ProcessEnds, StepFails
<1>3. ~Plain'
  BY <1>1, <1>2 DEF Plain
<1>4. CASE ProcessEnds
  <2>1. parallel'.calls = parallel.calls
    BY <1>1, <1>4 DEF ProcessEnds, History
  <2>2. \A c \in Caller : vc'[c].pc = "idle"
    BY <1>4, VIdleFits DEF ProcessEnds
  <2>3. \A c \in Caller : Numbered(c)' /\ SavesOld(c)'
    BY <2>2, SerialRests
  <2> QED BY <1>3, <2>2, <2>3 DEF SerialInv, OneAtATime
<1>5. ASSUME NEW c \in Caller, StepFails(c) PROVE SerialInv'
  <2>1. vc[c].pc # "idle" /\ parallel'.calls = parallel.calls
    BY <1>1, <1>5 DEF StepFails, History, VAt
  <2>2. PICK o : vc' = [vc EXCEPT ![c] = o] /\ o.pc \in {"idle", "restore"}
    <3>1. CASE VEnds(c)
      BY <3>1, VIdleFits DEF VEnds
    <3>2. CASE VGoes(c, "restore")
      <4>1. "restore" \in VPc
        BY DEF VPc
      <4>2. PICK o : o = [vc[c] EXCEPT !.pc = "restore"]
        OBVIOUS
      <4>3. vc' = [vc EXCEPT ![c] = o] /\ o.pc = "restore"
        BY <3>2, <4>1, <4>2, VGoesIs
      <4> QED BY <4>3
    <3> QED BY <1>5, <3>1, <3>2 DEF StepFails
  <2>3. vc'[c] = o
    BY <1>1, <2>2
  <2>4. Numbered(c)' /\ SavesOld(c)'
    BY <2>2, <2>3 DEF Numbered, SavesOld, Newer, Working
  <2> QED BY <1>3, <2>1, <2>2, <2>4, SerialGoes
<1> QED BY <1>4, <1>5

LEMMA SerialInit == VersionInit => SerialInv
<1> SUFFICES ASSUME VersionInit PROVE SerialInv OBVIOUS
<1>1. \A c \in Caller : vc[c].pc = "idle"
  BY VIdleFits DEF VersionInit
<1>2. NewestMain
  BY DEF VersionInit, NewestMain, Available, NoRecord
<1> QED BY <1>1, <1>2 DEF SerialInv, OneAtATime, Numbered, SavesOld, HoldsMain, Newer, Working

LEMMA SerialStep ==
  ASSUME Keep \in Nat, Keep >= 2, VersionIInv, SerialInv, [VersionNext]_versionVars
  PROVE  SerialInv'
<1>1. ASSUME NEW c \in Caller,
             Put(c) \/ Delete(c) \/ DeleteVersion(c) \/ Retention(c) \/ Sweep(c) \/ Reconcile(c)
      PROVE  SerialInv'
  BY <1>1, SerialBeginners
<1>2. ASSUME NEW c \in Caller,
             PutLook(c) \/ PutNumber(c) \/ PutPending(c) \/ PutMain(c) \/ PutCopy(c) \/ PutMark(c) \/ PutPrune(c)
      PROVE  SerialInv'
  BY <1>2, SerialLook, SerialNumber, SerialPuts, SerialPrune
<1>3. ASSUME NEW c \in Caller,
             PutDrop(c) \/ DeleteList(c) \/ Unlink(c) \/ Forget(c) \/ SweptObjects(c) \/ SweptRecords(c)
               \/ Reconciled(c)
      PROVE  SerialInv'
  BY <1>3, SerialClears
<1>4. ASSUME NEW c \in Caller,
             Rollback(c) \/ RollRead(c) \/ RollFetch(c) \/ RollNumber(c) \/ RollPending(c) \/ RollCopy(c)
               \/ RollMark(c) \/ RollSettle(c) \/ Restore(c)
      PROVE  SerialInv'
  <2>1. CASE RollSettle(c)
    BY <2>1, SerialEnds DEF RollSettle, VAt, Emptying
  <2> QED BY <1>4, <2>1, SerialRollback, SerialRollReads, SerialNumber, SerialPuts, SerialRollMark
<1>5. CASE (\E c \in Caller : PutStream(c)) \/ \E n \in Number : Preview(n)
  BY <1>5, SerialAside
<1>6. CASE ProcessEnds \/ \E c \in Caller : StepFails(c)
  BY <1>6, SerialFails
<1>7. CASE UNCHANGED versionVars
  BY <1>7, SerialSame DEF versionVars, Plain
<1> QED BY <1>1, <1>2, <1>3, <1>4, <1>5, <1>6, <1>7 DEF VersionNext

\* The last step of a rollback settles it, or ends its process.
LEMMA RollbackEnds ==
  ASSUME VersionIInv, SerialInv, ~parallel.calls, [VersionNext]_versionVars,
         NEW c \in Caller, vc[c].op = "roll", vc[c].pc = "settle", vc'[c].pc = "idle"
  PROVE  RollSettle(c) \/ ProcessEnds
<1>1. \A d \in Caller \ {c} : vc[d].pc = "idle"
  BY SerialCall
<1>2. \A d \in Caller : vc[d].pc \in {"idle", "settle"} /\ (vc[d].pc = "settle" <=> d = c)
  BY <1>1
<1>3. vc' # vc
  OBVIOUS
<1>4. ASSUME NEW d \in Caller,
             Put(d) \/ Delete(d) \/ DeleteVersion(d) \/ Retention(d) \/ Sweep(d) \/ Reconcile(d) \/ Rollback(d)
      PROVE  FALSE
  <2>1. \E o : Begins(d, o)
    BY <1>3, <1>4 DEF Put, Delete, DeleteVersion, Retention, Sweep, Reconcile, Rollback
  <2>2. d # c /\ vc'[c] = vc[c]
    BY <2>1, VersionTyped DEF Begins, VAt
  <2> QED BY <2>2
<1>5. ASSUME NEW d \in Caller, PutStream(d) PROVE FALSE
  BY <1>3, <1>5 DEF PutStream
<1>6. ASSUME NEW d \in Caller,
             PutLook(d) \/ PutNumber(d) \/ PutPending(d) \/ PutMain(d) \/ PutCopy(d) \/ PutMark(d) \/ PutPrune(d)
               \/ PutDrop(d)
               \/ DeleteList(d) \/ Unlink(d) \/ Forget(d) \/ SweptObjects(d) \/ SweptRecords(d) \/ Reconciled(d)
      PROVE  FALSE
  BY <1>2, <1>6
     DEF PutLook, PutNumber, PutPending, PutMain, PutCopy, PutMark, PutPrune, PutDrop, DeleteList, Unlink, Forget,
         SweptObjects, SweptRecords, Reconciled, VAt
<1>7. ASSUME NEW d \in Caller,
             RollRead(d) \/ RollFetch(d) \/ RollNumber(d) \/ RollPending(d) \/ RollCopy(d) \/ RollMark(d)
               \/ Restore(d)
      PROVE  FALSE
  BY <1>2, <1>7 DEF RollRead, RollFetch, RollNumber, RollPending, RollCopy, RollMark, Restore, VAt
<1>8. ASSUME NEW d \in Caller, RollSettle(d) PROVE RollSettle(c)
  BY <1>2, <1>8 DEF RollSettle, VAt
<1>9. ASSUME NEW d \in Caller, StepFails(d) PROVE FALSE
  <2>1. d = c
    BY <1>2, <1>9 DEF StepFails, VAt
  <2>2. VGoes(c, "restore")
    BY <1>9, <2>1 DEF StepFails
  <2>3. vc'[c].pc = "restore"
    BY <2>2, VersionTyped DEF VGoes, Vc
  <2> QED BY <2>3
<1>10. (\E n \in Number : Preview(n)) \/ UNCHANGED versionVars => FALSE
  BY <1>3 DEF Preview, versionVars
<1> QED BY <1>4, <1>5, <1>6, <1>7, <1>8, <1>9, <1>10 DEF VersionNext

\* One call after the other: while none fails and no streamed put passes the versions by, the newest
\* version, if it has not been deleted, is what readers get; and a rollback leaves what it replaced
\* as one of the versions, with a failure and a restart too, if at least two are kept.
\* (VersionManager.put, delete and prune_versions; rollback)
THEOREM SerialCallsKeepVersions == ASSUME Keep \in Nat, Keep >= 2 PROVE VersionSpec => SerialVersions
<1>1. VersionInit => VersionIInv /\ SerialInv
  BY VersionInitInv, SerialInit
<1>2. VersionIInv /\ SerialInv /\ [VersionNext]_versionVars => (VersionIInv /\ SerialInv)'
  BY VersionStepInv, SerialStep
<1>3. SerialInv => NewestIsMain
  <2> SUFFICES ASSUME SerialInv, ~Busy, ~parallel.calls, Plain, nextVersion \in Available
               PROVE  main = version[nextVersion].sha
    BY DEF NewestIsMain, Plain
  <2> QED BY SerialIdle DEF Busy, VAt, NewestMain
<1>4. VersionIInv /\ SerialInv /\ [VersionNext]_versionVars =>
        [\A c \in Caller :
           vc[c].op = "roll" /\ vc[c].pc = "settle" /\ vc'[c].pc = "idle" /\ ~parallel.calls
             => \E n \in Available' : archived'[n] = vc[c].old]_versionVars
  <2> SUFFICES ASSUME VersionIInv, SerialInv, [VersionNext]_versionVars, NEW c \in Caller,
                      vc[c].op = "roll", vc[c].pc = "settle", vc'[c].pc = "idle", ~parallel.calls
               PROVE  \E n \in Available' : archived'[n] = vc[c].old
    OBVIOUS
  <2>1. \E n \in Available : archived[n] = vc[c].old
    BY SerialCall DEF SavesOld, Rolls, Saved
  <2>2. UNCHANGED <<version, archived>>
    BY RollbackEnds DEF RollSettle, ProcessEnds
  <2> QED BY <2>1, <2>2 DEF Available
<1> QED BY <1>1, <1>2, <1>3, <1>4, PTL DEF VersionSpec, SerialVersions, RollbackLosesNothing

-----------------------------------------------------------------------------
(* A frozen object is restored once *)

RestoreSteps == {"window", "pending", "issued", "promote", "lock", "request", "issue"}

\* A job is at a step of a restore exactly if it is one.
KindsFit == \A p \in Process : job[p].pc \in RestoreSteps => Restoring(p)
\* Who is about to ask, or has asked and not noted it down, holds the lock, and is alone.
Holding == {p \in Process : JobAt(p, "request") \/ JobAt(p, "issue")}
HoldersHaveLock == Holding # {} => lock > 0
OneHolder == \A p, q \in Holding : p = q
\* Who asks has nothing to repeat, and no request is noted down.
AskersMay == tierFaults <= 1 => \A p \in Process : JobAt(p, "request") => ~Ongoing
NothingNoted == Holding # {} => issued = 0
\* Who has passed the question for a pending restore while there is one will be stopped by the lock or,
\* before it has looked there, by the note of the request; so will be who has missed the note.
MissedNote == \A p \in Process : JobAt(p, "lock") /\ issued > 0 => lock > 0
PassersStop ==
  tierFaults <= 1 => \A p \in Process :
    /\ JobAt(p, "issued") /\ Ongoing => lock > 0 \/ issued > 0
    /\ JobAt(p, "lock") /\ Ongoing => lock > 0
\* Until something fails, a restore that is under way is in the note, which outlives it, or about to be.
NotedDown == tierFaults = 0 /\ Ongoing => issued > thaw \/ \E p \in Process : JobAt(p, "issue")

TierIInv ==
  /\ TierTypeOK /\ KindsFit /\ HoldersHaveLock /\ OneHolder /\ AskersMay /\ NothingNoted
  /\ MissedNote /\ PassersStop /\ NotedDown

Passing == {"issued", "lock", "request", "issue"}
Sweeping == {"idle", "warm", "list", "archive", "mark", "fix"}

LEMMA NoJobFits == NoJob \in Job
BY DEF NoJob, Job

LEMMA JobWithFits ==
  ASSUME NEW k \in {"cold", "ice", "api", "physical", "restore"}, NEW c \in {"warm", "archive", "fix", "window"},
         NEW S \in SUBSET Row
  PROVE  JobWith(k, c, S) \in Job /\ JobWith(k, c, S).pc = c /\ JobWith(k, c, S).kind = k
<1>1. PICK w : w = [NoJob EXCEPT !.kind = k, !.pc = c, !.todo = S]
  OBVIOUS
<1>2. w \in Job /\ w.pc = c /\ w.kind = k
  BY <1>1, NoJobFits DEF Job
<1> QED
  BY <1>1, <1>2 DEF JobWith

LEMMA TierInitIInv == TierInit => TierIInv
<1> SUFFICES ASSUME TierInit PROVE TierIInv
  OBVIOUS
<1>1. \A p \in Process : job[p] = NoJob /\ job[p].pc = "idle"
  BY DEF TierInit, NoJob
<1>2. TierTypeOK
  <2>1. job \in [Process -> Job]
    BY NoJobFits DEF TierInit
  <2>2. tier \in [Row -> Tier] /\ age \in [Row -> 0 .. 3] /\ class \in {"standard", "cold", "deep"}
    BY DEF TierInit, Tier
  <2>3. lock \in 0 .. LockTtl /\ ok \in 0 .. OkTtl /\ issued \in 0 .. IssuedTtl /\ thaw \in Readable .. Thawing
    BY DEF TierInit, LockTtl, OkTtl, IssuedTtl, Readable, Thawing, Frozen
  <2>4. jobs \in 0 .. MaxJobs /\ ticks \in 0 .. MaxTicks /\ tierFaults \in 0 .. MaxTierFaults
    BY TierBounds DEF TierInit
  <2> QED
    BY <2>1, <2>2, <2>3, <2>4 DEF TierInit, TierTypeOK
<1>3. ~Ongoing
  BY DEF TierInit, Ongoing, Frozen
<1> QED
  BY <1>1, <1>2, <1>3 DEF TierIInv, KindsFit, RestoreSteps, Holding, HoldersHaveLock, OneHolder, AskersMay,
     NothingNoted, MissedNote, PassersStop, NotedDown, JobAt

\* A process goes on to a step that is not between the question and the note of a restore.
LEMMA TierFrame ==
  ASSUME TierIInv, TierTypeOK', NEW p \in Process, NEW j \in Job, job' = [job EXCEPT ![p] = j],
         j.pc \notin Passing, j.pc \in RestoreSteps => j.kind = "restore",
         lock' = lock, issued' = issued, thaw' = thaw \/ thaw' < 0,
         tierFaults' \in {tierFaults, tierFaults + 1}, JobAt(p, "issue") => tierFaults' = tierFaults + 1
  PROVE  TierIInv'
<1>1. /\ job \in [Process -> Job] /\ thaw \in Readable .. Thawing /\ thaw' \in Readable .. Thawing
      /\ lock \in Nat /\ issued \in Nat /\ tierFaults \in Nat
  BY TierBounds DEF TierIInv, TierTypeOK, LockTtl, IssuedTtl, OkTtl
<1>2. \A q \in Process : (job'[q].pc \in Passing => q # p) /\ (q # p => job'[q] = job[q])
  BY <1>1
<1>3. \A q \in Process, pc \in Passing : JobAt(q, pc)' => JobAt(q, pc)
  BY <1>2 DEF JobAt
<1>4. Holding' \subseteq Holding
  BY <1>3 DEF Holding, Passing
<1>5. Ongoing' => Ongoing /\ thaw' = thaw
  BY <1>1 DEF Ongoing, Readable, Thawing
<1>6. tierFaults' <= 1 => tierFaults <= 1
  BY <1>1
<1>7. KindsFit'
  <2> SUFFICES ASSUME NEW q \in Process, job'[q].pc \in RestoreSteps PROVE job'[q].kind = "restore"
    BY DEF KindsFit, Restoring
  <2>1. CASE q = p
    BY <2>1, <1>1
  <2>2. CASE q # p
    BY <2>2, <1>2 DEF TierIInv, KindsFit, Restoring
  <2> QED
    BY <2>1, <2>2
<1>8. HoldersHaveLock' /\ NothingNoted'
  BY <1>4 DEF TierIInv, HoldersHaveLock, NothingNoted
<1>9. OneHolder'
  BY <1>4 DEF TierIInv, OneHolder
<1>10. AskersMay' /\ MissedNote' /\ PassersStop'
  <2> SUFFICES ASSUME NEW q \in Process
               PROVE  /\ tierFaults' <= 1 /\ JobAt(q, "request")' => ~Ongoing'
                      /\ JobAt(q, "lock")' /\ issued' > 0 => lock' > 0
                      /\ tierFaults' <= 1 /\ JobAt(q, "issued")' /\ Ongoing' => lock' > 0 \/ issued' > 0
                      /\ tierFaults' <= 1 /\ JobAt(q, "lock")' /\ Ongoing' => lock' > 0
    BY DEF AskersMay, MissedNote, PassersStop
  <2> QED
    BY <1>3, <1>5, <1>6 DEF TierIInv, AskersMay, MissedNote, PassersStop, Passing
<1>11. NotedDown'
  <2> SUFFICES ASSUME tierFaults' = 0, Ongoing' PROVE issued' > thaw' \/ \E q \in Process : JobAt(q, "issue")'
    BY DEF NotedDown
  <2>1. tierFaults = 0 /\ ~JobAt(p, "issue")
    BY <1>1
  <2>2. issued > thaw \/ \E q \in Process : JobAt(q, "issue")
    BY <2>1, <1>5 DEF TierIInv, NotedDown
  <2> QED
    BY <2>1, <2>2, <1>2, <1>5 DEF JobAt
<1> QED
  BY <1>7, <1>8, <1>9, <1>10, <1>11 DEF TierIInv

\* No job moves, and no restore begins.
LEMMA TierQuiet ==
  ASSUME TierIInv, TierTypeOK', UNCHANGED <<job, lock, issued, tierFaults>>, thaw' = thaw \/ thaw' < 0
  PROVE  TierIInv'
<1>1. thaw \in Readable .. Thawing /\ thaw' \in Readable .. Thawing
  BY DEF TierIInv, TierTypeOK
<1>2. Ongoing' => Ongoing /\ thaw' = thaw
  BY <1>1 DEF Ongoing, Readable, Thawing
<1>3. KindsFit' /\ HoldersHaveLock' /\ OneHolder' /\ NothingNoted' /\ MissedNote'
  BY DEF TierIInv, KindsFit, Restoring, HoldersHaveLock, OneHolder, NothingNoted, MissedNote, Holding, JobAt
<1>4. AskersMay' /\ PassersStop' /\ NotedDown'
  BY <1>2 DEF TierIInv, AskersMay, PassersStop, NotedDown, JobAt
<1> QED
  BY <1>3, <1>4 DEF TierIInv

\* The steps of sweeps, and of restores that need nothing but their place.
LEMMA TierSweepInv ==
  ASSUME TierIInv, NEW p \in Process,
         SweepHot(p) \/ Warm(p) \/ SweepWarm(p) \/ SweepCold(p) \/ ArchiveOne(p) \/ ArchiveObject(p)
         \/ MarkRows(p) \/ ListCold(p) \/ FixClass(p)
  PROVE  TierIInv'
<1> USE DEF Sweeping
<1>1. job \in [Process -> Job] /\ job[p] \in Job /\ tier \in [Row -> Tier] /\ NoJob \in Job
  BY NoJobFits DEF TierIInv, TierTypeOK
<1>2. /\ UNCHANGED <<lock, issued, tierFaults, ok, early, pinned, age, ticks>>
      /\ jobs' = jobs \/ (jobs < MaxJobs /\ jobs' = jobs + 1)
  BY DEF SweepHot, Warm, SweepWarm, SweepCold, ArchiveOne, ArchiveObject, MarkRows, ListCold, FixClass, JobBegins
<1>12. jobs' \in 0 .. MaxJobs
  BY <1>2, TierBounds DEF TierIInv, TierTypeOK
<1>3. tier' \in [Row -> Tier]
  BY <1>1 DEF SweepHot, Warm, SweepWarm, SweepCold, ArchiveOne, ArchiveObject, MarkRows, ListCold, FixClass, MarkTier, Tier
<1>4. /\ class' \in {"standard", "cold", "deep"} /\ thaw' \in Readable .. Thawing
      /\ thaw' = thaw \/ thaw' < 0
  BY DEF TierIInv, TierTypeOK, SweepHot, Warm, SweepWarm, SweepCold, ArchiveOne, ArchiveObject, MarkRows,
     ListCold, FixClass, Copies, Readable, Thawing, Frozen
<1>5. job[p].pc \in Sweeping
  BY DEF SweepHot, Warm, SweepWarm, SweepCold, ArchiveOne, ArchiveObject, MarkRows, ListCold, FixClass, JobBegins, JobAt
<1>6. \E j \in Job : job' = [job EXCEPT ![p] = j] /\ j.pc \in Sweeping
  <2>1. ASSUME NEW k, NEW pc, NEW S, JobBegins(p, JobWith(k, pc, S)), k \in {"cold", "ice", "api", "physical"},
               pc \in {"warm", "archive", "fix"}, S \subseteq Row
        PROVE  \E j \in Job : job' = [job EXCEPT ![p] = j] /\ j.pc \in Sweeping
    <3>1. JobWith(k, pc, S) \in Job /\ JobWith(k, pc, S).pc = pc
      BY <2>1, JobWithFits
    <3> QED
      BY <3>1, <2>1 DEF JobBegins
  <2>2. CASE SweepHot(p)
    BY <2>1, <2>2 DEF SweepHot, Unpinned
  <2>3. CASE SweepCold(p)
    BY <2>1, <2>3 DEF SweepCold, Unpinned
  <2>4. CASE ArchiveOne(p)
    BY <2>1, <2>4 DEF ArchiveOne
  <2>5. CASE ListCold(p)
    BY <2>1, <2>5 DEF ListCold
  <2>6. ASSUME NEW pc \in Sweeping, NEW S \in SUBSET Row
        PROVE  [job[p] EXCEPT !.pc = pc, !.todo = S] \in Job
    BY <1>1 DEF Job
  <2>7. job[p].todo \in SUBSET Row /\ \A r : job[p].todo \ {r} \in SUBSET Row
    BY <1>1 DEF Job
  <2>8. CASE JobEnds(p)
    BY <1>1, <2>8 DEF JobEnds, NoJob
  <2>9. ASSUME NEW pc \in Sweeping, JobGoes(p, pc)
        PROVE  \E j \in Job : job' = [job EXCEPT ![p] = j] /\ j.pc \in Sweeping
    <3> DEFINE j == [job[p] EXCEPT !.pc = pc, !.todo = job[p].todo]
    <3>1. job' = [job EXCEPT ![p] = j] /\ j.pc = pc
      BY <1>1, <2>9 DEF JobGoes, Job
    <3> QED
      BY <3>1, <2>6, <2>7
  <2>10. ASSUME NEW pc \in Sweeping, NEW S \in SUBSET Row,
                job' = [job EXCEPT ![p].pc = pc, ![p].todo = S]
         PROVE  \E j \in Job : job' = [job EXCEPT ![p] = j] /\ j.pc \in Sweeping
    <3> DEFINE j == [job[p] EXCEPT !.pc = pc, !.todo = S]
    <3>1. job' = [job EXCEPT ![p] = j] /\ j.pc = pc
      BY <1>1, <2>10 DEF Job
    <3> QED
      BY <3>1, <2>6
  <2>11. ASSUME NEW S \in SUBSET Row, job' = [job EXCEPT ![p].todo = S]
         PROVE  \E j \in Job : job' = [job EXCEPT ![p] = j] /\ j.pc \in Sweeping
    <3>1. job' = [job EXCEPT ![p].pc = job[p].pc, ![p].todo = S]
      BY <1>1, <2>11 DEF Job
    <3> QED
      BY <3>1, <2>10, <1>5
  <2>12. CASE Warm(p)
    BY <2>12, <2>11, <2>7, <2>9 DEF Warm
  <2>13. CASE SweepWarm(p)
    BY <2>13, <2>10 DEF SweepWarm, Unpinned
  <2>14. CASE ArchiveObject(p)
    BY <2>14, <2>11, <2>7, <2>9, <2>8 DEF ArchiveObject
  <2>15. CASE MarkRows(p)
    <3>1. PICK r \in job[p].todo :
            job' = [job EXCEPT ![p].pc = "archive", ![p].todo = IF job[p].kind = "cold" THEN {} ELSE @ \ {r}]
      BY <2>15 DEF MarkRows
    <3>2. PICK S \in SUBSET Row : S = IF job[p].kind = "cold" THEN {} ELSE job[p].todo \ {r}
      BY <2>7
    <3>3. job' = [job EXCEPT ![p].pc = "archive", ![p].todo = S]
      BY <1>1, <3>1, <3>2 DEF Job
    <3> QED
      BY <3>3, <2>10
  <2>16. CASE FixClass(p)
    BY <2>16, <2>11, <2>7, <2>8 DEF FixClass
  <2> QED
    BY <2>2, <2>3, <2>4, <2>5, <2>12, <2>13, <2>14, <2>15, <2>16
<1>7. PICK j \in Job : job' = [job EXCEPT ![p] = j] /\ j.pc \in Sweeping
  BY <1>6
<1>8. job' \in [Process -> Job]
  BY <1>1, <1>7
<1>9. TierTypeOK'
  BY <1>2, <1>12, <1>3, <1>4, <1>8 DEF TierIInv, TierTypeOK
<1>10. j.pc \notin Passing /\ j.pc \notin RestoreSteps /\ ~JobAt(p, "issue")
  BY <1>5, <1>7 DEF Passing, RestoreSteps, JobAt
<1>11. lock' = lock /\ issued' = issued /\ tierFaults' \in {tierFaults, tierFaults + 1}
  BY <1>2
<1> QED
  BY <1>4, <1>7, <1>9, <1>10, <1>11, TierFrame

\* Users, and the object that is restored or frozen again.
LEMMA TierUserInv ==
  ASSUME TierIInv, Thawed \/ Refrozen \/ \E r \in Row : Pin(r) \/ Touch(r)
  PROVE  TierIInv'
<1>1. UNCHANGED <<job, lock, issued, tierFaults, ok, early, class, jobs, ticks>>
  BY DEF Thawed, Refrozen, Pin, Touch
<1>2. pinned' \subseteq Row /\ tier' \in [Row -> Tier] /\ age' \in [Row -> 0 .. 3]
  BY DEF TierIInv, TierTypeOK, Thawed, Refrozen, Pin, Touch, MarkTier, Tier
<1>3. thaw' \in Readable .. Thawing /\ (thaw' = thaw \/ thaw' < 0)
  BY DEF TierIInv, TierTypeOK, Thawed, Refrozen, Pin, Touch, Readable, Thawing, Frozen
<1>4. TierTypeOK'
  BY <1>1, <1>2, <1>3 DEF TierIInv, TierTypeOK
<1> QED
  BY <1>1, <1>3, <1>4, TierQuiet

\* A restore begins, ends or fails, or is looked for in the first two places.
LEMMA TierRestoreInv ==
  ASSUME TierIInv, NEW p \in Process, AskRestore(p) \/ LookWindow(p) \/ Promote(p) \/ JobFails(p)
  PROVE  TierIInv'
<1>1. job \in [Process -> Job] /\ job[p] \in Job /\ NoJob \in Job
  BY NoJobFits DEF TierIInv, TierTypeOK
<1>2. UNCHANGED <<lock, issued, thaw, early, tier, pinned, age, class, ticks>>
  BY DEF AskRestore, LookWindow, Promote, JobFails
<1>3. /\ jobs' \in 0 .. MaxJobs /\ tierFaults' \in 0 .. MaxTierFaults /\ ok' \in 0 .. OkTtl
      /\ tierFaults' \in {tierFaults, tierFaults + 1} /\ (JobAt(p, "issue") => tierFaults' = tierFaults + 1)
  BY TierBounds DEF TierIInv, TierTypeOK, AskRestore, LookWindow, Promote, JobFails, JobBegins, JobAt, Sets, OkTtl
<1>4. PICK j \in Job : job' = [job EXCEPT ![p] = j] /\ (j.pc = "idle" \/ (j.kind = "restore" /\ j.pc \in {"window", "pending"}))
  <2>1. CASE JobEnds(p)
    BY <1>1, <2>1 DEF JobEnds, NoJob
  <2>2. CASE AskRestore(p)
    <3> DEFINE j == JobWith("restore", "window", {})
    <3>1. j \in Job /\ j.pc = "window" /\ j.kind = "restore"
      BY JobWithFits
    <3>2. job' = [job EXCEPT ![p] = j]
      BY <2>2 DEF AskRestore, JobBegins
    <3> HIDE DEF j
    <3> QED
      BY <3>1, <3>2
  <2>3. CASE LookWindow(p) /\ JobGoes(p, "pending")
    <3> DEFINE j == [job[p] EXCEPT !.pc = "pending"]
    <3>1. job[p].kind = "restore"
      BY <2>3 DEF TierIInv, KindsFit, RestoreSteps, Restoring, LookWindow, JobAt
    <3>2. j \in Job /\ j.pc = "pending" /\ j.kind = "restore"
      BY <1>1, <3>1 DEF Job
    <3>3. job' = [job EXCEPT ![p] = j]
      BY <1>1, <2>3 DEF JobGoes, Job
    <3> QED
      BY <3>2, <3>3
  <2> QED
    BY <2>1, <2>2, <2>3 DEF LookWindow, Promote, JobFails
<1>5. job' \in [Process -> Job]
  BY <1>1, <1>4
<1>6. TierTypeOK'
  BY <1>2, <1>3, <1>5 DEF TierIInv, TierTypeOK
<1>7. j.pc \notin Passing /\ (j.pc \in RestoreSteps => j.kind = "restore")
  BY <1>4 DEF Passing, RestoreSteps
<1>8. lock' = lock /\ issued' = issued /\ thaw' = thaw
  BY <1>2
<1> QED
  BY <1>3, <1>4, <1>6, <1>7, <1>8, TierFrame

\* What the four steps between the question and the note have in common: the process goes on or ends,
\* and the others stay where they are.
LEMMA TierGoes ==
  ASSUME TierIInv, NEW p \in Process, job[p].pc \in RestoreSteps, NEW pc \in Passing \cup {"promote"},
         JobGoes(p, pc) \/ JobEnds(p)
  PROVE  /\ job' \in [Process -> Job] /\ KindsFit'
         /\ \A q \in Process \ {p} : job'[q] = job[q]
         /\ JobGoes(p, pc) => job'[p].pc = pc
         /\ JobEnds(p) => job'[p].pc = "idle"
<1>1. job \in [Process -> Job] /\ job[p] \in Job /\ NoJob \in Job /\ NoJob.pc = "idle"
  BY NoJobFits DEF TierIInv, TierTypeOK, NoJob
<1>2. job[p].kind = "restore"
  BY DEF TierIInv, KindsFit, Restoring
<1>3. PICK j \in Job : /\ job' = [job EXCEPT ![p] = j] /\ j.pc \in {pc, "idle"}
                       /\ j.pc # "idle" => j.kind = "restore"
                       /\ JobGoes(p, pc) => j.pc = pc
                       /\ JobEnds(p) => j.pc = "idle"
  <2>1. CASE JobEnds(p)
    <3>1. job' = [job EXCEPT ![p] = NoJob]
      BY <2>1 DEF JobEnds
    <3>2. ~JobGoes(p, pc)
      <4>1. job'[p] = NoJob
        BY <1>1, <3>1
      <4>2. JobGoes(p, pc) => job'[p].pc = pc
        BY <1>1 DEF JobGoes, Job
      <4> QED
        BY <4>1, <4>2, <1>1 DEF Passing
    <3> QED
      BY <1>1, <3>1, <3>2
  <2>2. CASE JobGoes(p, pc)
    <3> DEFINE j == [job[p] EXCEPT !.pc = pc]
    <3>1. j \in Job /\ j.pc = pc /\ j.kind = "restore"
      BY <1>1, <1>2 DEF Job, Passing
    <3>2. job' = [job EXCEPT ![p] = j]
      BY <1>1, <2>2 DEF JobGoes, Job
    <3>3. ~JobEnds(p)
      <4>1. job'[p] = j
        BY <1>1, <3>2
      <4>2. JobEnds(p) => job'[p] = NoJob
        BY <1>1 DEF JobEnds
      <4> QED
        BY <4>1, <4>2, <3>1, <1>1 DEF Passing
    <3> HIDE DEF j
    <3> QED
      BY <3>1, <3>2, <3>3
  <2> QED
    BY <2>1, <2>2
<1>4. /\ job' \in [Process -> Job]
      /\ \A q \in Process \ {p} : job'[q] = job[q]
      /\ job'[p] = j
  BY <1>1, <1>3
<1>5. KindsFit'
  <2> SUFFICES ASSUME NEW q \in Process, job'[q].pc \in RestoreSteps PROVE job'[q].kind = "restore"
    BY DEF KindsFit, Restoring
  <2>1. CASE q = p
    BY <2>1, <1>3, <1>4 DEF RestoreSteps
  <2>2. CASE q # p
    BY <2>2, <1>4 DEF TierIInv, KindsFit, Restoring
  <2> QED
    BY <2>1, <2>2
<1> QED
  BY <1>3, <1>4, <1>5

LEMMA LookPendingInv == ASSUME TierIInv, NEW p \in Process, LookPending(p) PROVE TierIInv'
<1>1. UNCHANGED <<early, tier, pinned, age, class, thaw, lock, issued, ok, jobs, ticks>>
  BY DEF LookPending
<1>2. job[p].pc = "pending" /\ (JobGoes(p, "issued") \/ JobEnds(p))
  BY DEF LookPending, JobAt
<1>3. /\ job' \in [Process -> Job] /\ KindsFit'
      /\ \A q \in Process \ {p} : job'[q] = job[q]
      /\ JobGoes(p, "issued") => job'[p].pc = "issued"
      /\ JobEnds(p) => job'[p].pc = "idle"
  BY <1>2, TierGoes DEF Passing, RestoreSteps
<1>4. tierFaults' \in 0 .. MaxTierFaults /\ tierFaults \in Nat /\ tierFaults' \in {tierFaults, tierFaults + 1}
  BY TierBounds DEF TierIInv, TierTypeOK, LookPending
<1>5. TierTypeOK'
  BY <1>1, <1>3, <1>4 DEF TierIInv, TierTypeOK
<1>6. job'[p].pc \in {"issued", "idle"}
  BY <1>2, <1>3
<1>7. \A q \in Process, pc \in {"request", "issue", "lock"} : JobAt(q, pc)' <=> JobAt(q, pc)
  BY <1>2, <1>3, <1>6 DEF JobAt
<1>8. Holding' = Holding /\ (Ongoing' <=> Ongoing)
  BY <1>1, <1>7 DEF Holding, Ongoing
<1>9. HoldersHaveLock' /\ NothingNoted' /\ OneHolder' /\ MissedNote'
  BY <1>1, <1>7, <1>8 DEF TierIInv, HoldersHaveLock, NothingNoted, OneHolder, MissedNote
<1>10. AskersMay' /\ NotedDown'
  BY <1>1, <1>4, <1>7, <1>8 DEF TierIInv, AskersMay, NotedDown
<1>11. PassersStop'
  <2> SUFFICES ASSUME tierFaults' <= 1, NEW q \in Process
               PROVE  /\ JobAt(q, "issued")' /\ Ongoing => lock > 0 \/ issued > 0
                      /\ JobAt(q, "lock")' /\ Ongoing => lock > 0
    BY <1>1, <1>8 DEF PassersStop
  <2>1. tierFaults <= 1
    BY <1>4
  <2>2. JobAt(q, "lock")' /\ Ongoing => lock > 0
    BY <2>1, <1>7 DEF TierIInv, PassersStop
  <2>3. ASSUME JobAt(q, "issued")', Ongoing PROVE lock > 0 \/ issued > 0
    <3>1. CASE q # p
      BY <2>1, <2>3, <3>1, <1>3 DEF TierIInv, PassersStop, JobAt
    <3>2. CASE q = p
      <4>1. tierFaults' = tierFaults + 1
        <5>1. ~JobEnds(p)
          BY <2>3, <3>2, <1>3 DEF JobAt
        <5> QED
          BY <2>3, <5>1 DEF LookPending
      <4>2. tierFaults = 0
        BY <4>1, <1>4
      <4>3. issued > thaw \/ \E s \in Process : JobAt(s, "issue")
        BY <4>2, <2>3 DEF TierIInv, NotedDown
      <4>4. CASE issued > thaw
        <5>1. thaw >= 0 /\ thaw \in Readable .. Thawing /\ issued \in 0 .. IssuedTtl
          BY <2>3 DEF Ongoing, TierIInv, TierTypeOK
        <5> QED
          BY <5>1, <4>4 DEF Readable, Thawing, IssuedTtl, OkTtl, LockTtl
      <4>5. CASE \E s \in Process : JobAt(s, "issue")
        BY <4>5 DEF TierIInv, HoldersHaveLock, Holding
      <4> QED
        BY <4>3, <4>4, <4>5
    <3> QED
      BY <3>1, <3>2
  <2> QED
    BY <2>2, <2>3
<1> QED
  BY <1>3, <1>5, <1>9, <1>10, <1>11 DEF TierIInv

LEMMA LookIssuedInv == ASSUME TierIInv, NEW p \in Process, LookIssued(p) PROVE TierIInv'
<1>1. UNCHANGED <<early, tier, pinned, age, class, thaw, lock, issued, ok, jobs, ticks, tierFaults>>
  BY DEF LookIssued
<1>2. job[p].pc = "issued" /\ JobGoes(p, IF issued > 0 THEN "promote" ELSE "lock")
  BY DEF LookIssued, JobAt
<1>3. /\ job' \in [Process -> Job] /\ KindsFit'
      /\ \A q \in Process \ {p} : job'[q] = job[q]
      /\ job'[p].pc = IF issued > 0 THEN "promote" ELSE "lock"
  BY <1>2, TierGoes DEF Passing, RestoreSteps
<1>4. TierTypeOK'
  BY <1>1, <1>3 DEF TierIInv, TierTypeOK
<1>5. \A q \in Process, pc \in {"request", "issue"} : JobAt(q, pc)' <=> JobAt(q, pc)
  BY <1>2, <1>3 DEF JobAt
<1>6. Holding' = Holding /\ (Ongoing' <=> Ongoing)
  BY <1>1, <1>5 DEF Holding, Ongoing
<1>7. HoldersHaveLock' /\ NothingNoted' /\ OneHolder'
  BY <1>1, <1>6 DEF TierIInv, HoldersHaveLock, NothingNoted, OneHolder
<1>8. AskersMay' /\ NotedDown'
  BY <1>1, <1>5, <1>6 DEF TierIInv, AskersMay, NotedDown
<1>9. \A q \in Process : JobAt(q, "lock")' => JobAt(q, "lock") \/ (q = p /\ ~(issued > 0))
  BY <1>3 DEF JobAt
<1>10. \A q \in Process : JobAt(q, "issued")' => JobAt(q, "issued")
  BY <1>3 DEF JobAt
<1>11. JobAt(p, "issued")
  BY <1>2 DEF JobAt
<1>12. MissedNote' /\ PassersStop'
  BY <1>1, <1>6, <1>9, <1>10, <1>11 DEF TierIInv, MissedNote, PassersStop
<1> QED
  BY <1>3, <1>4, <1>7, <1>8, <1>12 DEF TierIInv

\* Only who finds the lock free goes on to ask, so nobody else is past it, nothing is noted down and no
\* restore is under way.
LEMMA LockInv == ASSUME TierIInv, NEW p \in Process, Lock(p) PROVE TierIInv'
<1>1. UNCHANGED <<early, tier, pinned, age, class, thaw, issued, ok, jobs, ticks, tierFaults>>
  BY DEF Lock
<1>2. job[p].pc = "lock" /\ lock' = Sets(lock, LockTtl) /\ IF lock > 0 THEN JobEnds(p) ELSE JobGoes(p, "request")
  BY DEF Lock, JobAt
<1>3. /\ job' \in [Process -> Job] /\ KindsFit'
      /\ \A q \in Process \ {p} : job'[q] = job[q]
      /\ job'[p].pc = IF lock > 0 THEN "idle" ELSE "request"
  BY <1>2, TierGoes DEF Passing, RestoreSteps
<1>4. lock' \in 0 .. LockTtl /\ lock' > 0 /\ lock \in Nat /\ issued \in Nat
  BY <1>2 DEF TierIInv, TierTypeOK, Sets, LockTtl, IssuedTtl, OkTtl
<1>5. TierTypeOK'
  BY <1>1, <1>3, <1>4 DEF TierIInv, TierTypeOK
<1>6. (Ongoing' <=> Ongoing) /\ JobAt(p, "lock")
  BY <1>1, <1>2 DEF Ongoing, JobAt
<1>7. \A q \in Process : JobAt(q, "request")' => JobAt(q, "request") \/ (q = p /\ ~(lock > 0))
  BY <1>3 DEF JobAt
<1>8. \A q \in Process : (JobAt(q, "issue")' <=> JobAt(q, "issue")) /\ (JobAt(q, "lock")' => JobAt(q, "lock"))
  BY <1>2, <1>3 DEF JobAt
<1>9. \A q \in Holding' : q \in Holding \/ (q = p /\ ~(lock > 0))
  BY <1>7, <1>8 DEF Holding
<1>10. HoldersHaveLock' /\ OneHolder'
  BY <1>4, <1>9 DEF TierIInv, HoldersHaveLock, OneHolder
<1>11. NothingNoted'
  <2> SUFFICES ASSUME Holding' # {} PROVE issued = 0
    BY <1>1 DEF NothingNoted
  <2>1. CASE Holding # {}
    BY <2>1 DEF TierIInv, NothingNoted
  <2>2. CASE ~(lock > 0)
    BY <2>2, <1>4, <1>6 DEF TierIInv, MissedNote
  <2> QED
    BY <2>1, <2>2, <1>9
<1>12. AskersMay'
  BY <1>1, <1>6, <1>7 DEF TierIInv, AskersMay, PassersStop
<1>13. MissedNote' /\ PassersStop'
  BY <1>4 DEF MissedNote, PassersStop
<1>14. NotedDown'
  BY <1>1, <1>6, <1>8 DEF TierIInv, NotedDown
<1> QED
  BY <1>3, <1>5, <1>10, <1>11, <1>12, <1>13, <1>14 DEF TierIInv

LEMMA RequestInv == ASSUME TierIInv, NEW p \in Process, Request(p) PROVE TierIInv'
<1>1. UNCHANGED <<early, tier, pinned, age, class, lock, issued, ok, jobs, ticks, tierFaults>>
  BY DEF Request
<1>2. job[p].pc = "request" /\ JobAt(p, "request") /\ (JobGoes(p, "issue") \/ (JobEnds(p) /\ thaw' = thaw))
  BY DEF Request, JobAt
<1>3. /\ job' \in [Process -> Job] /\ KindsFit'
      /\ \A q \in Process \ {p} : job'[q] = job[q]
      /\ JobGoes(p, "issue") => job'[p].pc = "issue"
      /\ JobEnds(p) => job'[p].pc = "idle"
  BY <1>2, TierGoes DEF Passing, RestoreSteps
<1>4. thaw' \in Readable .. Thawing
  BY DEF Request, TierIInv, TierTypeOK, Readable, Thawing
<1>5. TierTypeOK'
  BY <1>1, <1>3, <1>4 DEF TierIInv, TierTypeOK
<1>6. \A q \in Process : /\ JobAt(q, "request")' => JobAt(q, "request") /\ q # p
                         /\ JobAt(q, "issue")' => JobAt(q, "issue") \/ q = p
                         /\ JobAt(q, "lock")' => JobAt(q, "lock")
                         /\ JobAt(q, "issued")' => JobAt(q, "issued")
  BY <1>2, <1>3 DEF JobAt
<1>7. p \in Holding /\ Holding' \subseteq Holding
  BY <1>2, <1>6 DEF Holding
<1>8. lock > 0 /\ issued = 0 /\ \A q \in Process : JobAt(q, "request") => q = p
  BY <1>2, <1>7 DEF TierIInv, HoldersHaveLock, NothingNoted, OneHolder, Holding
<1>9. HoldersHaveLock' /\ OneHolder' /\ NothingNoted'
  BY <1>1, <1>7 DEF TierIInv, HoldersHaveLock, OneHolder, NothingNoted
<1>10. AskersMay' /\ MissedNote' /\ PassersStop'
  BY <1>1, <1>6, <1>8 DEF AskersMay, MissedNote, PassersStop
<1>11. NotedDown'
  <2>1. CASE JobGoes(p, "issue")
    BY <2>1, <1>3 DEF NotedDown, JobAt
  <2>2. CASE JobEnds(p) /\ thaw' = thaw
    <3>1. \A q \in Process : JobAt(q, "issue") => JobAt(q, "issue")'
      BY <1>2, <1>3 DEF JobAt
    <3> QED
      BY <3>1, <2>2, <1>1 DEF TierIInv, NotedDown, Ongoing
  <2> QED
    BY <2>1, <2>2, <1>2
<1> QED
  BY <1>3, <1>5, <1>9, <1>10, <1>11 DEF TierIInv

LEMMA IssueInv == ASSUME TierIInv, NEW p \in Process, Issue(p) PROVE TierIInv'
<1>1. UNCHANGED <<early, tier, pinned, age, class, thaw, lock, ok, jobs, ticks, tierFaults>>
  BY DEF Issue
<1>2. job[p].pc = "issue" /\ JobAt(p, "issue") /\ JobEnds(p) /\ issued' = Sets(issued, IssuedTtl)
  BY DEF Issue, JobAt
<1>3. /\ job' \in [Process -> Job] /\ KindsFit'
      /\ \A q \in Process \ {p} : job'[q] = job[q]
      /\ job'[p].pc = "idle"
  BY <1>2, TierGoes DEF Passing, RestoreSteps
<1>4. p \in Holding /\ \A q \in Holding : q = p
  BY <1>2 DEF Holding, TierIInv, OneHolder
<1>5. lock > 0 /\ issued = 0
  BY <1>4 DEF TierIInv, HoldersHaveLock, NothingNoted
<1>6. issued' = 3 /\ issued' \in 0 .. IssuedTtl
  BY <1>2, <1>5 DEF Sets, IssuedTtl, OkTtl, LockTtl
<1>7. TierTypeOK'
  BY <1>1, <1>3, <1>6 DEF TierIInv, TierTypeOK
<1>8. \A q \in Process, pc \in Passing : JobAt(q, pc)' => JobAt(q, pc) /\ q # p
  BY <1>3 DEF JobAt, Passing
<1>9. Holding' = {}
  BY <1>4, <1>8 DEF Holding, Passing
<1>10. HoldersHaveLock' /\ OneHolder' /\ NothingNoted' /\ AskersMay'
  BY <1>9 DEF HoldersHaveLock, OneHolder, NothingNoted, AskersMay, Holding
<1>11. MissedNote' /\ PassersStop'
  BY <1>1, <1>5 DEF MissedNote, PassersStop
<1>12. NotedDown'
  BY <1>1, <1>6 DEF NotedDown, TierIInv, TierTypeOK, Readable, Thawing
<1> QED
  BY <1>3, <1>7, <1>10, <1>11, <1>12 DEF TierIInv

\* No restore lasts over a tick, so the lock may fall; the note outlives the restore.
LEMMA TierTickInv == ASSUME TierIInv, Tick PROVE TierIInv'
<1>1. UNCHANGED <<early, tier, pinned, class, job, jobs, tierFaults>> /\ \A p \in Process : ~Restoring(p)
  BY DEF Tick
<1>2. \A q \in Process, pc \in RestoreSteps : ~JobAt(q, pc) /\ ~JobAt(q, pc)'
  BY <1>1 DEF TierIInv, KindsFit, JobAt
<1>3. /\ lock' \in 0 .. LockTtl /\ issued' \in 0 .. IssuedTtl /\ ok' \in 0 .. OkTtl
      /\ thaw' \in Readable .. Thawing
  BY DEF TierIInv, TierTypeOK, Tick, Less, LockTtl, IssuedTtl, OkTtl, Readable, Thawing, Ongoing
<1>4. ticks' \in 0 .. MaxTicks
  BY TierBounds DEF TierIInv, TierTypeOK, Tick
<1>5. age' \in [Row -> 0 .. 3]
  BY DEF TierIInv, TierTypeOK, Tick
<1>6. TierTypeOK'
  BY <1>1, <1>3, <1>4, <1>5 DEF TierIInv, TierTypeOK
<1>7. Holding' = {}
  BY <1>2 DEF Holding, RestoreSteps
<1>8. KindsFit' /\ HoldersHaveLock' /\ OneHolder' /\ NothingNoted' /\ AskersMay' /\ MissedNote' /\ PassersStop'
  BY <1>1, <1>2, <1>7 DEF TierIInv, KindsFit, Restoring, HoldersHaveLock, OneHolder, NothingNoted, AskersMay,
     MissedNote, PassersStop, RestoreSteps
<1>9. NotedDown'
  <2> SUFFICES ASSUME tierFaults' = 0, Ongoing' PROVE issued' > thaw'
    BY DEF NotedDown
  <2>1. Ongoing /\ thaw' = thaw - 1 /\ issued' = Less(issued) /\ issued \in Nat /\ thaw \in Int
    BY DEF Tick, Ongoing, TierIInv, TierTypeOK, Readable, Thawing, IssuedTtl, OkTtl, LockTtl
  <2>2. issued > thaw
    BY <2>1, <1>1, <1>2 DEF TierIInv, NotedDown, RestoreSteps
  <2> QED
    BY <2>1, <2>2 DEF Less, Ongoing
<1> QED
  BY <1>6, <1>8, <1>9 DEF TierIInv

LEMMA TierNextIInv == ASSUME TierIInv, [TierNext]_tierVars PROVE TierIInv'
<1>1. CASE Tick
  BY <1>1, TierTickInv
<1>2. CASE Thawed \/ Refrozen \/ \E r \in Row : Pin(r) \/ Touch(r)
  BY <1>2, TierUserInv
<1>3. ASSUME NEW p \in Process,
             \/ SweepHot(p) \/ Warm(p) \/ SweepWarm(p) \/ SweepCold(p) \/ ArchiveOne(p) \/ ArchiveObject(p)
             \/ MarkRows(p) \/ ListCold(p) \/ FixClass(p)
             \/ AskRestore(p) \/ LookWindow(p) \/ LookPending(p) \/ LookIssued(p) \/ Promote(p)
             \/ Lock(p) \/ Request(p) \/ Issue(p) \/ JobFails(p)
      PROVE  TierIInv'
  BY <1>3, TierSweepInv, TierRestoreInv, LookPendingInv, LookIssuedInv, LockInv, RequestInv, IssueInv
<1>4. CASE UNCHANGED tierVars
  BY <1>4 DEF tierVars, TierIInv, TierTypeOK, KindsFit, Restoring, HoldersHaveLock, OneHolder, NothingNoted,
     AskersMay, MissedNote, PassersStop, NotedDown, Holding, JobAt, Ongoing, Job
<1> QED
  BY <1>1, <1>2, <1>3, <1>4 DEF TierNext

\* Rows, object, keys and jobs keep their types, whatever the number of rows, processes and failures.
\* (Artifact.tier, the storage class and the restore S3 reports, the three govrestore keys)
THEOREM TierTypeCorrect == TierSpec => []TierTypeOK
<1>1. TierIInv => TierTypeOK
  BY DEF TierIInv
<1> QED
  BY <1>1, TierInitIInv, TierNextIInv, PTL DEF TierSpec

\* As long as one thing at most has failed, whoever is about to ask for a restore is alone and none is
\* under way, however many processes read, sweep and touch the rows meanwhile.
\* (ensure_cold_restore: the pending question, the issued, ok and lock keys and their times)
THEOREM RestoresAreAskedOnce == TierSpec => []RestoreOnce
<1>1. TierIInv => RestoreOnce
  BY DEF TierIInv, RestoreOnce, AskersMay, OneHolder, Holding
<1> QED
  BY <1>1, TierInitIInv, TierNextIInv, PTL DEF TierSpec

-----------------------------------------------------------------------------
(* The switches every process answers *)

\* A write of the override that is tried again has tries left.
GovTyped == GovTypeOK /\ \A i \in Instance : WriterAt(i, "incr") => writer[i].tries < Retries

\* What a process did while no other did anything, and Redis was only read.
OnlyReads(i) ==
  /\ UNCHANGED <<redisVars, writer, raced>>
  /\ \A j \in Instance \ {i} : /\ cache'[j] = cache[j] /\ sync'[j] = sync[j]
                               /\ inbox'[j] = inbox[j] /\ missed'[j] = missed[j]
\* What a writer did: its write is the only one that moved, and no process read anything.
OnlyWrites(i) ==
  /\ UNCHANGED sync
  /\ \A j \in Instance \ {i} : writer'[j] = writer[j] /\ cache'[j] = cache[j]
  /\ \A j \in Instance : missed[j] \subseteq missed'[j] /\ inbox[j] \subseteq inbox'[j]

LEMMA GovFits ==
  /\ NoWriter \in Writer /\ Listening \in Sync /\ Booting \in Sync /\ EmptyCache \in Cache
  /\ NoOverride \in Override /\ NoList \in List
<1>1. NoWriter \in Writer
  BY DEF NoWriter, Writer, Version, Retries
<1>2. NoOverride \in Override /\ NoList \in List
  BY DEF NoOverride, NoList, Override, List, Version
<1>3. EmptyCache \in Cache
  BY <1>2 DEF EmptyCache, Cache
<1>4. Booting \in Sync
  BY <1>2 DEF Booting, Sync
<1>5. Listening \in Sync
  BY <1>4 DEF Listening, Booting, Sync
<1> QED BY <1>1, <1>2, <1>3, <1>4, <1>5

\* A write that begins, and its fields.
LEMMA NewWriteFits ==
  ASSUME NEW pc \in {"incr", "change"}, NEW v \in Switch \cup {Unset}, NEW S \in SUBSET Owner
  PROVE  /\ [NoWriter EXCEPT !.pc = pc, !.val = v] \in Writer
         /\ [NoWriter EXCEPT !.pc = pc, !.val = v, !.next = S] \in Writer
         /\ [NoWriter EXCEPT !.pc = pc, !.add = S] \in Writer
         /\ [NoWriter EXCEPT !.pc = pc, !.remove = S] \in Writer
<1> DEFINE a == [NoWriter EXCEPT !.pc = pc]
           b == [a EXCEPT !.val = v]
<1>1. a \in Writer
  BY GovFits DEF Writer
<1>2. b \in Writer
  BY <1>1 DEF Writer
<1>3. [b EXCEPT !.next = S] \in Writer
  BY <1>2 DEF Writer
<1>4. [a EXCEPT !.add = S] \in Writer
  BY <1>1 DEF Writer
<1>5. [a EXCEPT !.remove = S] \in Writer
  BY <1>1 DEF Writer
<1> QED BY <1>2, <1>3, <1>4, <1>5

LEMMA CacheTurns ==
  ASSUME GovTyped, NEW i \in Instance, NEW c \in Cache, cache' = [cache EXCEPT ![i] = c]
  PROVE  /\ cache' \in [Instance -> Cache] /\ cache'[i] = c
         /\ \A j \in Instance \ {i} : cache'[j] = cache[j]
BY DEF GovTyped, GovTypeOK

LEMMA SyncTurns ==
  ASSUME GovTyped, NEW i \in Instance, NEW s \in Sync, sync' = [sync EXCEPT ![i] = s]
  PROVE  /\ sync' \in [Instance -> Sync] /\ sync'[i] = s
         /\ \A j \in Instance \ {i} : sync'[j] = sync[j]
BY DEF GovTyped, GovTypeOK

LEMMA WriterTurns ==
  ASSUME GovTyped, NEW i \in Instance, NEW w \in Writer, writer' = [writer EXCEPT ![i] = w],
         w.pc = "incr" => w.tries < Retries
  PROVE  /\ writer' \in [Instance -> Writer] /\ writer'[i] = w
         /\ \A j \in Instance \ {i} : writer'[j] = writer[j]
         /\ \A j \in Instance : WriterAt(j, "incr")' => writer'[j].tries < Retries
BY DEF GovTyped, GovTypeOK, WriterAt

LEMMA GovStartTyped == GovInit => GovTyped
<1> SUFFICES ASSUME GovInit PROVE GovTyped
  OBVIOUS
<1>1. GovTypeOK
  <2>1. /\ cache \in [Instance -> Cache] /\ sync \in [Instance -> Sync] /\ writer \in [Instance -> Writer]
        /\ inbox \in [Instance -> SUBSET Kind] /\ missed \in [Instance -> SUBSET Kind]
    BY GovFits DEF GovInit
  <2>2. ovrKey \in Override /\ snapshot \in Cache
    BY GovFits DEF GovInit
  <2>3. ovrSeq \in Nat /\ graySeq \in Nat /\ writes \in 0 .. MaxWrites /\ govFaults \in 0 .. MaxGovFaults
    BY GovBounds DEF GovInit
  <2>4. grayKey \subseteq Owner /\ degraded \subseteq Instance /\ raced \in BOOLEAN
    BY DEF GovInit
  <2> QED BY <2>1, <2>2, <2>3, <2>4 DEF GovTypeOK, Version
<1>2. \A i \in Instance : ~WriterAt(i, "incr")
  BY DEF GovInit, WriterAt, NoWriter
<1> QED BY <1>1, <1>2 DEF GovTyped

\* Beginning a write.
LEMMA BeginDoes ==
  ASSUME GovTyped, NEW i \in Instance, NEW w \in Writer, Begin(i, w), w.tries = 0, w.pc \in {"incr", "change"},
         UNCHANGED <<redisVars, snapshot, cache, degraded, inbox, sync, govFaults, missed>>
  PROVE  /\ GovTyped' /\ writer[i].pc = "idle" /\ writer'[i] = w /\ OnlyWrites(i)
         /\ (raced => raced') /\ (w.pc = "incr" => raced' \/ \A j \in Instance : ~OvrWriting(j))
         /\ UNCHANGED <<redisVars, cache, inbox, missed>>
<1>0. w.pc = "incr" => w.tries < Retries
  BY DEF Retries
<1>1. writer' = [writer EXCEPT ![i] = w]
  BY DEF Begin
<1>2. /\ writer' \in [Instance -> Writer] /\ writer'[i] = w
      /\ \A j \in Instance \ {i} : writer'[j] = writer[j]
      /\ \A j \in Instance : WriterAt(j, "incr")' => writer'[j].tries < Retries
  BY <1>1, <1>0, WriterTurns
<1>3. writes' \in 0 .. MaxWrites /\ raced' \in BOOLEAN
  BY GovBounds DEF Begin, GovTyped, GovTypeOK
<1>4. GovTypeOK'
  BY <1>2, <1>3 DEF GovTyped, GovTypeOK, redisVars
<1>5. writer[i].pc = "idle"
  BY DEF Begin, WriterAt
<1>6. (raced => raced') /\ (w.pc = "incr" => raced' \/ \A j \in Instance : ~OvrWriting(j))
  BY DEF Begin
<1> QED BY <1>2, <1>4, <1>5, <1>6 DEF GovTyped, OnlyWrites

\* The three ways a write begins.
LEMMA BeginsDo ==
  ASSUME GovTyped, NEW i \in Instance, SetOverride(i) \/ SetGate(i) \/ RestoreSnapshot(i)
  PROVE  /\ GovTyped' /\ writer[i].pc = "idle" /\ writer'[i].pc \in {"incr", "change"} /\ OnlyWrites(i)
         /\ (writer'[i].pc = "incr" => writer'[i].val # Unset)
         /\ (raced => raced') /\ (writer'[i].pc = "incr" => raced' \/ \A j \in Instance : ~OvrWriting(j))
         /\ UNCHANGED <<redisVars, cache, inbox, missed>>
<1>1. PICK w \in Writer : /\ Begin(i, w) /\ w.tries = 0 /\ w.pc \in {"incr", "change"}
                          /\ w.pc = "incr" => w.val # Unset
  <2>1. CASE SetOverride(i)
    <3>1. PICK v \in Switch : Begin(i, [NoWriter EXCEPT !.pc = "incr", !.val = v])
      BY <2>1 DEF SetOverride
    <3>2. [NoWriter EXCEPT !.pc = "incr", !.val = v] \in Writer /\ v # Unset
      BY NewWriteFits, GovBounds
    <3> QED BY <3>1, <3>2 DEF NoWriter
  <2>2. CASE SetGate(i)
    <3>1. PICK o \in Owner : \/ Begin(i, [NoWriter EXCEPT !.pc = "change", !.add = {o}])
                             \/ Begin(i, [NoWriter EXCEPT !.pc = "change", !.remove = {o}])
      BY <2>2 DEF SetGate
    <3>2. /\ [NoWriter EXCEPT !.pc = "change", !.add = {o}] \in Writer
          /\ [NoWriter EXCEPT !.pc = "change", !.remove = {o}] \in Writer
      BY NewWriteFits
    <3> QED BY <3>1, <3>2 DEF NoWriter
  <2>3. CASE RestoreSnapshot(i)
    <3> DEFINE owners == snapshot.gray.members
    <3>1. owners \subseteq Owner /\ snapshot.ovr.val \in Switch \cup {Unset}
      BY DEF GovTyped, GovTypeOK, Cache, Override, List
    <3>2. /\ [NoWriter EXCEPT !.pc = "incr", !.val = snapshot.ovr.val, !.next = owners] \in Writer
          /\ [NoWriter EXCEPT !.pc = "change", !.add = owners] \in Writer
      BY <3>1, NewWriteFits
    <3>3. \/ /\ snapshot.ovr.val # Unset
             /\ Begin(i, [NoWriter EXCEPT !.pc = "incr", !.val = snapshot.ovr.val, !.next = owners])
          \/ Begin(i, [NoWriter EXCEPT !.pc = "change", !.add = owners])
      BY <2>3 DEF RestoreSnapshot
    <3> QED BY <3>2, <3>3 DEF NoWriter
  <2> QED BY <2>1, <2>2, <2>3
<1>2. UNCHANGED <<redisVars, snapshot, cache, degraded, inbox, sync, govFaults, missed>>
  BY DEF SetOverride, SetGate, RestoreSnapshot
<1> QED BY <1>1, <1>2, BeginDoes

LEMMA SnapshotDoes ==
  ASSUME GovTyped, NEW i \in Instance, Snapshot(i)
  PROVE  GovTyped' /\ UNCHANGED <<redisVars, cache, inbox, sync, writer, missed, raced>>
<1>1. snapshot' \in Cache
  BY DEF Snapshot, GovTyped, GovTypeOK, Cache, List, Override, Version
<1> QED BY <1>1 DEF Snapshot, GovTyped, GovTypeOK, WriterAt, redisVars

\* The steps of a write of the override.
LEMMA IncrDoes ==
  ASSUME GovTyped, NEW i \in Instance, Incr(i)
  PROVE  /\ GovTyped' /\ writer[i].pc = "incr" /\ OnlyWrites(i) /\ ovrSeq' = ovrSeq + 1
         /\ writer'[i].pc = "set" /\ writer'[i].val = writer[i].val /\ writer'[i].ver = ovrSeq'
         /\ UNCHANGED <<ovrKey, grayKey, graySeq, cache, inbox, missed, raced>>
<1> DEFINE w == [writer[i] EXCEPT !.pc = "set", !.ver = ovrSeq + 1, !.tries = writer[i].tries + 1]
<1>1. writer[i] \in Writer /\ ovrSeq \in Nat /\ writer[i].tries < 3 /\ writer[i].pc = "incr"
  BY DEF GovTyped, GovTypeOK, Version, Incr, WriterAt, Retries
<1>2. w \in Writer /\ w.pc = "set" /\ w.val = writer[i].val /\ w.ver = ovrSeq + 1
  <2> DEFINE a == [writer[i] EXCEPT !.pc = "set"]
             b == [a EXCEPT !.ver = ovrSeq + 1]
  <2>1. a \in Writer /\ a.pc = "set" /\ a.val = writer[i].val
    BY <1>1 DEF Writer
  <2> HIDE DEF a
  <2>2. b \in Writer /\ b.pc = "set" /\ b.val = writer[i].val /\ b.ver = ovrSeq + 1
    <3>1. ovrSeq + 1 \in Nat
      BY <1>1
    <3> QED BY <2>1, <3>1 DEF Writer, Version
  <2>3. writer[i].tries + 1 \in 0 .. Retries
    BY <1>1 DEF Writer, Retries
  <2> HIDE DEF b
  <2>4. w = [b EXCEPT !.tries = writer[i].tries + 1]
    BY DEF a, b
  <2> HIDE DEF w
  <2> QED BY <2>2, <2>3, <2>4 DEF Writer
<1>3. writer' = [writer EXCEPT ![i] = w]
  BY DEF Incr
<1> HIDE DEF w
<1>4. /\ writer' \in [Instance -> Writer] /\ writer'[i] = w
      /\ \A j \in Instance \ {i} : writer'[j] = writer[j]
      /\ \A j \in Instance : WriterAt(j, "incr")' => writer'[j].tries < Retries
  BY <1>2, <1>3, WriterTurns
<1>5. GovTypeOK'
  BY <1>1, <1>4 DEF Incr, GovTyped, GovTypeOK, Version
<1> QED BY <1>1, <1>2, <1>4, <1>5 DEF Incr, GovTyped, OnlyWrites

LEMMA SetDoes ==
  ASSUME GovTyped, NEW i \in Instance, Set(i)
  PROVE  /\ GovTyped' /\ writer[i].pc = "set" /\ OnlyWrites(i)
         /\ ovrKey' = [ver |-> writer[i].ver, val |-> writer[i].val]
         /\ writer'[i].pc = "check" /\ writer'[i].val = writer[i].val /\ writer'[i].ver = writer[i].ver
         /\ UNCHANGED <<ovrSeq, grayKey, graySeq, cache, inbox, missed, raced>>
<1> DEFINE w == [writer[i] EXCEPT !.pc = "check"]
<1>1. writer[i] \in Writer /\ writer[i].pc = "set"
  BY DEF GovTyped, GovTypeOK, Set, WriterAt
<1>2. w \in Writer /\ w.pc = "check" /\ w.val = writer[i].val /\ w.ver = writer[i].ver
  BY <1>1 DEF Writer
<1>3. writer' = [writer EXCEPT ![i] = w]
  BY DEF Set, WriterGoes
<1> HIDE DEF w
<1>4. /\ writer' \in [Instance -> Writer] /\ writer'[i] = w
      /\ \A j \in Instance \ {i} : writer'[j] = writer[j]
      /\ \A j \in Instance : WriterAt(j, "incr")' => writer'[j].tries < Retries
  BY <1>2, <1>3, WriterTurns
<1>5. ovrKey' \in Override
  BY <1>1 DEF Set, Override, Writer
<1>6. GovTypeOK'
  BY <1>4, <1>5 DEF Set, GovTyped, GovTypeOK
<1> QED BY <1>1, <1>2, <1>4, <1>6 DEF Set, GovTyped, OnlyWrites

\* The steps of a write of the list.
LEMMA ChangeDoes ==
  ASSUME GovTyped, NEW i \in Instance, Change(i)
  PROVE  /\ GovTyped' /\ writer[i].pc = "change" /\ OnlyWrites(i) /\ writer'[i].pc = "gincr"
         /\ UNCHANGED <<ovrKey, ovrSeq, graySeq, cache, inbox, missed, raced>>
<1> DEFINE w == [writer[i] EXCEPT !.pc = "gincr"]
<1>1. writer[i] \in Writer /\ writer[i].pc = "change"
  BY DEF GovTyped, GovTypeOK, Change, WriterAt
<1>2. w \in Writer /\ w.pc = "gincr"
  BY <1>1 DEF Writer, Version
<1>3. writer' = [writer EXCEPT ![i] = w]
  BY DEF Change, WriterGoes
<1> HIDE DEF w
<1>4. /\ writer' \in [Instance -> Writer] /\ writer'[i] = w
      /\ \A j \in Instance \ {i} : writer'[j] = writer[j]
      /\ \A j \in Instance : WriterAt(j, "incr")' => writer'[j].tries < Retries
  BY <1>2, <1>3, WriterTurns
<1>5. grayKey' \subseteq Owner
  BY <1>1 DEF Change, Writer, GovTyped, GovTypeOK
<1>6. GovTypeOK'
  BY <1>4, <1>5 DEF Change, GovTyped, GovTypeOK, redisVars, Version
<1> QED BY <1>1, <1>2, <1>4, <1>6 DEF Change, GovTyped, OnlyWrites, redisVars

LEMMA GrayIncrDoes ==
  ASSUME GovTyped, NEW i \in Instance, GrayIncr(i)
  PROVE  /\ GovTyped' /\ writer[i].pc = "gincr" /\ OnlyWrites(i) /\ graySeq' = graySeq + 1
         /\ writer'[i].pc = "members" /\ writer'[i].ver = graySeq'
         /\ UNCHANGED <<ovrKey, ovrSeq, grayKey, cache, inbox, missed, raced>>
<1> DEFINE a == [writer[i] EXCEPT !.pc = "members"]
           w == [a EXCEPT !.ver = graySeq + 1]
<1>1. writer[i] \in Writer /\ writer[i].pc = "gincr" /\ graySeq \in Nat
  BY DEF GovTyped, GovTypeOK, GrayIncr, WriterAt, Version
<1>2. a \in Writer /\ a.pc = "members"
  BY <1>1 DEF Writer
<1>3. writer' = [writer EXCEPT ![i] = w]
  BY DEF GrayIncr
<1> HIDE DEF a
<1>4. w \in Writer /\ w.pc = "members" /\ w.ver = graySeq + 1
  <2>1. graySeq + 1 \in Nat
    BY <1>1
  <2> QED BY <1>2, <2>1 DEF Writer, Version
<1> HIDE DEF w
<1>5. /\ writer' \in [Instance -> Writer] /\ writer'[i] = w
      /\ \A j \in Instance \ {i} : writer'[j] = writer[j]
      /\ \A j \in Instance : WriterAt(j, "incr")' => writer'[j].tries < Retries
  BY <1>3, <1>4, WriterTurns
<1>6. GovTypeOK'
  BY <1>1, <1>5 DEF GrayIncr, GovTyped, GovTypeOK, Version
<1> QED BY <1>1, <1>4, <1>5, <1>6 DEF GrayIncr, GovTyped, OnlyWrites

LEMMA MembersDoes ==
  ASSUME GovTyped, NEW i \in Instance, Members(i)
  PROVE  /\ GovTyped' /\ writer[i].pc = "members" /\ OnlyWrites(i)
         /\ writer'[i].pc = "gpublish" /\ writer'[i].ver = writer[i].ver
         /\ UNCHANGED <<redisVars, cache, inbox, missed, raced>>
<1> DEFINE a == [writer[i] EXCEPT !.pc = "gpublish"]
           w == [a EXCEPT !.members = grayKey]
<1>1. writer[i] \in Writer /\ writer[i].pc = "members" /\ grayKey \subseteq Owner
  BY DEF GovTyped, GovTypeOK, Members, WriterAt
<1>2. a \in Writer /\ a.pc = "gpublish" /\ a.ver = writer[i].ver
  BY <1>1 DEF Writer
<1>3. writer' = [writer EXCEPT ![i] = w]
  BY DEF Members
<1> HIDE DEF a
<1>4. w \in Writer /\ w.pc = "gpublish" /\ w.ver = writer[i].ver
  BY <1>1, <1>2 DEF Writer
<1> HIDE DEF w
<1>5. /\ writer' \in [Instance -> Writer] /\ writer'[i] = w
      /\ \A j \in Instance \ {i} : writer'[j] = writer[j]
      /\ \A j \in Instance : WriterAt(j, "incr")' => writer'[j].tries < Retries
  BY <1>3, <1>4, WriterTurns
<1>6. GovTypeOK'
  BY <1>5 DEF Members, GovTyped, GovTypeOK, redisVars
<1> QED BY <1>1, <1>4, <1>5, <1>6 DEF Members, GovTyped, OnlyWrites

\* A write ends.
LEMMA EndsDoes ==
  ASSUME GovTyped, NEW i \in Instance, WriterEnds(i)
  PROVE  /\ writer' \in [Instance -> Writer] /\ writer'[i].pc = "idle"
         /\ \A j \in Instance \ {i} : writer'[j] = writer[j]
         /\ \A j \in Instance : WriterAt(j, "incr")' => writer'[j].tries < Retries
<1>1. NoWriter \in Writer /\ NoWriter.pc = "idle"
  BY GovFits DEF NoWriter
<1>2. writer' = [writer EXCEPT ![i] = NoWriter]
  BY DEF WriterEnds
<1>3. NoWriter.pc = "incr" => NoWriter.tries < Retries
  BY <1>1
<1> QED BY <1>1, <1>2, <1>3, WriterTurns

\* Who misses a message keeps what was missed before.
LEMMA AllMissDoes ==
  ASSUME GovTyped, NEW K \in SUBSET Kind, AllMiss(K)
  PROVE  /\ missed' \in [Instance -> SUBSET Kind]
         /\ \A j \in Instance : missed[j] \subseteq missed'[j] /\ K \subseteq missed'[j]
BY DEF AllMiss, GovTyped, GovTypeOK
LEMMA PublishesDoes ==
  ASSUME GovTyped, NEW kind \in Kind, Publishes(kind)
  PROVE  /\ missed' \in [Instance -> SUBSET Kind] /\ inbox' \in [Instance -> SUBSET Kind]
         /\ \A j \in Instance : /\ missed[j] \subseteq missed'[j] /\ inbox[j] \subseteq inbox'[j]
                               /\ (kind \in inbox'[j] \/ kind \in missed'[j])
BY DEF Publishes, GovTyped, GovTypeOK

LEMMA CheckDoes ==
  ASSUME GovTyped, NEW i \in Instance, Check(i)
  PROVE  /\ GovTyped' /\ writer[i].pc = "check" /\ OnlyWrites(i)
         /\ UNCHANGED <<redisVars, cache, inbox, raced>>
         /\ \/ /\ ovrKey.ver = writer[i].ver /\ writer'[i].pc = "publish"
               /\ writer'[i].val = writer[i].val /\ writer'[i].ver = writer[i].ver
            \/ ovrKey.ver # writer[i].ver
<1>1. writer[i] \in Writer /\ writer[i].pc = "check" /\ UNCHANGED <<redisVars, cache, inbox, sync, raced>>
  BY DEF GovTyped, GovTypeOK, Check, WriterAt
<1>2. /\ missed' \in [Instance -> SUBSET Kind]
      /\ \A j \in Instance : missed[j] \subseteq missed'[j]
  <2>1. CASE UNCHANGED missed
    BY <2>1 DEF GovTyped, GovTypeOK
  <2>2. CASE AllMiss({"ovr"})
    BY <2>2, AllMissDoes DEF Kind
  <2> QED BY <2>1, <2>2 DEF Check
<1>3. /\ writer' \in [Instance -> Writer]
      /\ \A j \in Instance \ {i} : writer'[j] = writer[j]
      /\ \A j \in Instance : WriterAt(j, "incr")' => writer'[j].tries < Retries
      /\ \/ /\ ovrKey.ver = writer[i].ver /\ writer'[i].pc = "publish"
            /\ writer'[i].val = writer[i].val /\ writer'[i].ver = writer[i].ver
         \/ ovrKey.ver # writer[i].ver
  <2>1. CASE ovrKey.ver = writer[i].ver
    <3> DEFINE w == [writer[i] EXCEPT !.pc = "publish"]
    <3>1. w \in Writer /\ w.pc = "publish" /\ w.val = writer[i].val /\ w.ver = writer[i].ver
      BY <1>1 DEF Writer
    <3>2. writer' = [writer EXCEPT ![i] = w]
      BY <2>1 DEF Check, WriterGoes
    <3> HIDE DEF w
    <3> QED BY <2>1, <3>1, <3>2, WriterTurns
  <2>2. CASE ovrKey.ver # writer[i].ver /\ writer[i].tries < Retries /\ WriterGoes(i, "incr")
    <3> DEFINE w == [writer[i] EXCEPT !.pc = "incr"]
    <3>1. w \in Writer /\ w.pc = "incr" /\ w.tries = writer[i].tries
      BY <1>1 DEF Writer
    <3>2. writer' = [writer EXCEPT ![i] = w]
      BY <2>2 DEF WriterGoes
    <3> HIDE DEF w
    <3> QED BY <2>2, <3>1, <3>2, WriterTurns
  <2>3. CASE ovrKey.ver # writer[i].ver /\ WriterEnds(i)
    BY <2>3, EndsDoes
  <2> QED BY <2>1, <2>2, <2>3 DEF Check
<1>4. GovTypeOK'
  BY <1>2, <1>3 DEF Check, GovTyped, GovTypeOK, redisVars
<1> QED BY <1>1, <1>2, <1>3, <1>4 DEF GovTyped, OnlyWrites

\* What a version compares stays an override, and a list.
LEMMA AppliedFit ==
  /\ \A o, n \in Override : AppliedOvr(o, n) \in Override
  /\ \A o, n \in List : AppliedGray(o, n) \in List
BY GovFits DEF AppliedOvr, AppliedGray
\* One half of a cache is replaced.
LEMMA CacheFits ==
  /\ \A c \in Cache : c.ovr \in Override /\ c.gray \in List
  /\ \A c \in Cache, o \in Override :
       [c EXCEPT !.ovr = o] \in Cache /\ [c EXCEPT !.ovr = o].ovr = o /\ [c EXCEPT !.ovr = o].gray = c.gray
  /\ \A c \in Cache, g \in List :
       [c EXCEPT !.gray = g] \in Cache /\ [c EXCEPT !.gray = g].gray = g /\ [c EXCEPT !.gray = g].ovr = c.ovr
BY DEF Cache

\* What follows the two kinds of message.
LEMMA PublishedDoes ==
  ASSUME GovTyped, NEW i \in Instance, writer[i].pc = "publish", Published(i)
  PROVE  /\ writer' \in [Instance -> Writer] /\ writer'[i].pc \in {"idle", "change"}
         /\ \A j \in Instance \ {i} : writer'[j] = writer[j] /\ cache'[j] = cache[j]
         /\ \A j \in Instance : WriterAt(j, "incr")' => writer'[j].tries < Retries
         /\ cache' \in [Instance -> Cache] /\ cache'[i].gray = cache[i].gray
         /\ cache'[i].ovr = AppliedOvr(cache[i].ovr, [ver |-> writer[i].ver, val |-> writer[i].val])
         /\ degraded' \subseteq Instance
<1> DEFINE n == [ver |-> writer[i].ver, val |-> writer[i].val]
           o == AppliedOvr(cache[i].ovr, n)
           c == [cache[i] EXCEPT !.ovr = o]
           w == IF writer[i].next = {} THEN NoWriter ELSE [NoWriter EXCEPT !.pc = "change", !.add = writer[i].next]
<1>1. writer[i] \in Writer /\ cache[i] \in Cache
  BY DEF GovTyped, GovTypeOK
<1>2. n \in Override
  BY <1>1 DEF Writer, Override
<1> HIDE DEF n
<1>3. o \in Override
  BY <1>1, <1>2, AppliedFit, CacheFits
<1>4. cache' = [cache EXCEPT ![i] = c] /\ writer' = [writer EXCEPT ![i] = w]
  BY DEF Published, n
<1> HIDE DEF o
<1>5. c \in Cache /\ c.ovr = o /\ c.gray = cache[i].gray
  BY <1>1, <1>3, CacheFits
<1>6. w \in Writer /\ w.pc \in {"idle", "change"}
  <2>1. writer[i].next \in SUBSET Owner
    BY <1>1 DEF Writer
  <2>2. [NoWriter EXCEPT !.pc = "change", !.add = writer[i].next] \in Writer
    BY <2>1, NewWriteFits
  <2> QED BY <2>2, GovFits DEF NoWriter
<1> HIDE DEF c, w
<1>7. /\ cache' \in [Instance -> Cache] /\ cache'[i] = c
      /\ \A j \in Instance \ {i} : cache'[j] = cache[j]
  BY <1>4, <1>5, CacheTurns
<1>8. /\ writer' \in [Instance -> Writer] /\ writer'[i] = w
      /\ \A j \in Instance \ {i} : writer'[j] = writer[j]
      /\ \A j \in Instance : WriterAt(j, "incr")' => writer'[j].tries < Retries
  <2>1. w.pc = "incr" => w.tries < Retries
    BY <1>6
  <2> QED BY <1>4, <1>6, <2>1, WriterTurns
<1>9. degraded' \subseteq Instance
  BY DEF Published, GovTyped, GovTypeOK
<1> QED BY <1>5, <1>6, <1>7, <1>8, <1>9 DEF n, o

LEMMA GrayPublishedDoes ==
  ASSUME GovTyped, NEW i \in Instance, GrayPublished(i)
  PROVE  /\ writer' \in [Instance -> Writer] /\ writer'[i].pc = "idle"
         /\ \A j \in Instance \ {i} : writer'[j] = writer[j] /\ cache'[j] = cache[j]
         /\ \A j \in Instance : WriterAt(j, "incr")' => writer'[j].tries < Retries
         /\ cache' \in [Instance -> Cache] /\ cache'[i].ovr = cache[i].ovr
         /\ cache'[i].gray = cache[i].gray \/ cache'[i].gray.ver = writer[i].ver
         /\ degraded' \subseteq Instance
<1> DEFINE n == [ver |-> writer[i].ver, members |-> writer[i].members]
           g == AppliedGray(cache[i].gray, n)
           c == [cache[i] EXCEPT !.gray = g]
<1>1. writer[i] \in Writer /\ cache[i] \in Cache
  BY DEF GovTyped, GovTypeOK
<1>2. n \in List /\ n.ver = writer[i].ver
  BY <1>1 DEF Writer, List
<1>3. cache' = [cache EXCEPT ![i] = c]
  BY DEF GrayPublished
<1> HIDE DEF n
<1>4. g \in List /\ (g = cache[i].gray \/ g.ver = writer[i].ver)
  BY <1>1, <1>2, CacheFits, AppliedFit DEF AppliedGray
<1> HIDE DEF g
<1>5. c \in Cache /\ c.gray = g /\ c.ovr = cache[i].ovr
  BY <1>1, <1>4, CacheFits
<1> HIDE DEF c
<1>6. /\ cache' \in [Instance -> Cache] /\ cache'[i] = c
      /\ \A j \in Instance \ {i} : cache'[j] = cache[j]
  BY <1>3, <1>5, CacheTurns
<1>7. WriterEnds(i) /\ degraded' \subseteq Instance
  BY DEF GrayPublished, GovTyped, GovTypeOK
<1> QED BY <1>4, <1>5, <1>6, <1>7, EndsDoes

LEMMA PublishDoes ==
  ASSUME GovTyped, NEW i \in Instance,
         Publish(i) \/ (PublishFails(i) /\ writer[i].pc = "publish")
  PROVE  /\ GovTyped' /\ writer[i].pc = "publish" /\ OnlyWrites(i) /\ UNCHANGED <<redisVars, raced>>
         /\ writer'[i].pc \in {"idle", "change"} /\ cache'[i].gray = cache[i].gray
         /\ cache'[i].ovr = AppliedOvr(cache[i].ovr, [ver |-> writer[i].ver, val |-> writer[i].val])
         /\ \A j \in Instance : "ovr" \in inbox'[j] \/ "ovr" \in missed'[j]
<1>1. writer[i].pc = "publish" /\ Published(i) /\ UNCHANGED <<redisVars, snapshot, sync, writes, raced>>
  BY DEF Publish, PublishFails, WriterAt
<1>2. /\ missed' \in [Instance -> SUBSET Kind] /\ inbox' \in [Instance -> SUBSET Kind]
      /\ \A j \in Instance : /\ missed[j] \subseteq missed'[j] /\ inbox[j] \subseteq inbox'[j]
                            /\ ("ovr" \in inbox'[j] \/ "ovr" \in missed'[j])
      /\ govFaults' \in 0 .. MaxGovFaults
  <2>1. CASE Publish(i)
    <3>1. Publishes("ovr") /\ UNCHANGED govFaults
      BY <2>1 DEF Publish
    <3> QED BY <3>1, PublishesDoes DEF Kind, GovTyped, GovTypeOK
  <2>2. CASE PublishFails(i)
    <3>1. AllMiss({"ovr"}) /\ UNCHANGED inbox /\ Fault
      BY <2>2, <1>1 DEF PublishFails, WriterAt
    <3>2. {"ovr"} \in SUBSET Kind
      BY DEF Kind
    <3>3. govFaults' \in 0 .. MaxGovFaults
      BY <3>1, GovBounds DEF Fault, GovTyped, GovTypeOK
    <3> QED BY <3>1, <3>2, <3>3, AllMissDoes DEF GovTyped, GovTypeOK
  <2> QED BY <2>1, <2>2
<1>3. /\ writer' \in [Instance -> Writer] /\ writer'[i].pc \in {"idle", "change"}
      /\ \A j \in Instance \ {i} : writer'[j] = writer[j] /\ cache'[j] = cache[j]
      /\ \A j \in Instance : WriterAt(j, "incr")' => writer'[j].tries < Retries
      /\ cache' \in [Instance -> Cache] /\ cache'[i].gray = cache[i].gray
      /\ cache'[i].ovr = AppliedOvr(cache[i].ovr, [ver |-> writer[i].ver, val |-> writer[i].val])
      /\ degraded' \subseteq Instance
  BY <1>1, PublishedDoes
<1>4. GovTypeOK'
  BY <1>1, <1>2, <1>3 DEF GovTyped, GovTypeOK, redisVars
<1> QED BY <1>1, <1>2, <1>3, <1>4 DEF GovTyped, OnlyWrites

LEMMA GrayPublishDoes ==
  ASSUME GovTyped, NEW i \in Instance,
         GrayPublish(i) \/ (PublishFails(i) /\ writer[i].pc # "publish")
  PROVE  /\ GovTyped' /\ writer[i].pc = "gpublish" /\ OnlyWrites(i) /\ UNCHANGED <<redisVars, raced>>
         /\ writer'[i].pc = "idle" /\ cache'[i].ovr = cache[i].ovr
         /\ cache'[i].gray = cache[i].gray \/ cache'[i].gray.ver = writer[i].ver
         /\ \A j \in Instance : "gray" \in inbox'[j] \/ "gray" \in missed'[j]
<1>1. writer[i].pc = "gpublish" /\ GrayPublished(i) /\ UNCHANGED <<redisVars, snapshot, sync, writes, raced>>
  BY DEF GrayPublish, PublishFails, WriterAt
<1>2. /\ missed' \in [Instance -> SUBSET Kind] /\ inbox' \in [Instance -> SUBSET Kind]
      /\ \A j \in Instance : /\ missed[j] \subseteq missed'[j] /\ inbox[j] \subseteq inbox'[j]
                            /\ ("gray" \in inbox'[j] \/ "gray" \in missed'[j])
      /\ govFaults' \in 0 .. MaxGovFaults
  <2>1. CASE GrayPublish(i)
    <3>1. Publishes("gray") /\ UNCHANGED govFaults
      BY <2>1 DEF GrayPublish
    <3> QED BY <3>1, PublishesDoes DEF Kind, GovTyped, GovTypeOK
  <2>2. CASE PublishFails(i)
    <3>1. AllMiss({"gray"}) /\ UNCHANGED inbox /\ Fault
      BY <2>2, <1>1 DEF PublishFails, WriterAt
    <3>2. {"gray"} \in SUBSET Kind
      BY DEF Kind
    <3>3. govFaults' \in 0 .. MaxGovFaults
      BY <3>1, GovBounds DEF Fault, GovTyped, GovTypeOK
    <3> QED BY <3>1, <3>2, <3>3, AllMissDoes DEF GovTyped, GovTypeOK
  <2> QED BY <2>1, <2>2
<1>3. /\ writer' \in [Instance -> Writer] /\ writer'[i].pc = "idle"
      /\ \A j \in Instance \ {i} : writer'[j] = writer[j] /\ cache'[j] = cache[j]
      /\ \A j \in Instance : WriterAt(j, "incr")' => writer'[j].tries < Retries
      /\ cache' \in [Instance -> Cache] /\ cache'[i].ovr = cache[i].ovr
      /\ cache'[i].gray = cache[i].gray \/ cache'[i].gray.ver = writer[i].ver
      /\ degraded' \subseteq Instance
  BY <1>1, GrayPublishedDoes
<1>4. GovTypeOK'
  BY <1>1, <1>2, <1>3 DEF GovTyped, GovTypeOK, redisVars
<1> QED BY <1>1, <1>2, <1>3, <1>4 DEF GovTyped, OnlyWrites

LEMMA WriteFailsDoes ==
  ASSUME GovTyped, NEW i \in Instance, WriteFails(i)
  PROVE  /\ GovTyped' /\ OnlyWrites(i) /\ writer'[i].pc = "idle" /\ UNCHANGED <<redisVars, cache, inbox, raced>>
         /\ \A j \in Instance : WrittenBy(i) \subseteq missed'[j]
<1>1. /\ writer' \in [Instance -> Writer] /\ writer'[i].pc = "idle"
      /\ \A j \in Instance \ {i} : writer'[j] = writer[j]
      /\ \A j \in Instance : WriterAt(j, "incr")' => writer'[j].tries < Retries
  BY EndsDoes DEF WriteFails
<1>2. WrittenBy(i) \in SUBSET Kind
  BY DEF WrittenBy, Kind
<1>3. /\ missed' \in [Instance -> SUBSET Kind]
      /\ \A j \in Instance : missed[j] \subseteq missed'[j] /\ WrittenBy(i) \subseteq missed'[j]
  BY <1>2, AllMissDoes DEF WriteFails
<1>4. govFaults' \in 0 .. MaxGovFaults /\ degraded' \subseteq Instance
  BY GovBounds DEF WriteFails, Fault, GovTyped, GovTypeOK
<1>5. GovTypeOK'
  BY <1>1, <1>3, <1>4 DEF WriteFails, GovTyped, GovTypeOK, redisVars
<1> QED BY <1>1, <1>3, <1>5 DEF WriteFails, GovTyped, OnlyWrites

\* One field of what a process is reading is replaced.
SyncPc == {"down", "all", "allgray", "allver", "allmembers", "allapply", "listen", "ovr", "ovrapply",
           "gray", "graymembers", "grayapply"}
LEMMA SyncPcFits ==
  ASSUME NEW s \in Sync, NEW pc \in SyncPc
  PROVE  LET t == [s EXCEPT !.pc = pc] IN
           t \in Sync /\ t.pc = pc /\ t.ovr = s.ovr /\ t.gray = s.gray /\ t.found = s.found
BY DEF Sync, SyncPc
LEMMA SyncOvrFits ==
  ASSUME NEW s \in Sync, NEW o \in Override
  PROVE  LET t == [s EXCEPT !.ovr = o] IN
           t \in Sync /\ t.pc = s.pc /\ t.ovr = o /\ t.gray = s.gray /\ t.found = s.found
BY DEF Sync
LEMMA SyncFoundFits ==
  ASSUME NEW s \in Sync, NEW f \in BOOLEAN
  PROVE  LET t == [s EXCEPT !.found = f] IN
           t \in Sync /\ t.pc = s.pc /\ t.ovr = s.ovr /\ t.gray = s.gray /\ t.found = f
BY DEF Sync
LEMMA SyncGrayFits ==
  ASSUME NEW s \in Sync, NEW g \in List
  PROVE  LET t == [s EXCEPT !.gray = g] IN
           t \in Sync /\ t.pc = s.pc /\ t.ovr = s.ovr /\ t.gray = g /\ t.found = s.found
BY DEF Sync
LEMMA ListFits ==
  /\ \A s \in Sync : s.gray \in List /\ s.ovr \in Override /\ s.found \in BOOLEAN /\ s.boot \in BOOLEAN
  /\ \A g \in List, v \in Nat :
       [g EXCEPT !.ver = v] \in List /\ [g EXCEPT !.ver = v].ver = v /\ [g EXCEPT !.ver = v].members = g.members
  /\ \A g \in List, m \in SUBSET Owner :
       [g EXCEPT !.members = m] \in List /\ [g EXCEPT !.members = m].ver = g.ver /\ [g EXCEPT !.members = m].members = m
BY DEF Sync, List, Version

\* What a subscription becomes when it has read everything, or failed to.
AfterAll(s) == [Listening EXCEPT !.pc = IF s.boot THEN "down" ELSE @]
LEMMA AfterAllFits == \A s \in Sync : AfterAll(s) \in Sync /\ AfterAll(s).pc \in {"listen", "down"}
<1> SUFFICES ASSUME NEW s \in Sync PROVE AfterAll(s) \in Sync /\ AfterAll(s).pc \in {"listen", "down"}
  OBVIOUS
<1>1. Listening \in Sync /\ Listening.pc = "listen"
  BY GovFits DEF Listening, Booting
<1> DEFINE p == IF s.boot THEN "down" ELSE "listen"
<1>2. AfterAll(s) = [Listening EXCEPT !.pc = p]
  BY <1>1 DEF AfterAll
<1>3. p \in SyncPc /\ p \in {"listen", "down"}
  BY DEF SyncPc
<1> HIDE DEF p
<1> QED BY <1>1, <1>2, <1>3, SyncPcFits
LEMMA ListeningPc == Listening \in Sync /\ Listening.pc = "listen"
BY GovFits DEF Listening, Booting

LEMMA SubscribeDoes ==
  ASSUME GovTyped, NEW i \in Instance, Subscribe(i)
  PROVE  /\ GovTyped' /\ OnlyReads(i) /\ sync[i].pc = "down"
         /\ sync'[i].pc = "all"
         /\ UNCHANGED <<cache, inbox, missed>>
<1> DEFINE a == [sync[i] EXCEPT !.pc = "all"]
<1>1. /\ sync[i] \in Sync /\ sync[i].pc = "down"
      /\ ovrKey \in Override /\ grayKey \subseteq Owner /\ graySeq \in Nat
  BY DEF GovTyped, GovTypeOK, Subscribe, SyncAt, Version
<1>2. sync' = [sync EXCEPT ![i] = a]
  BY DEF Subscribe
<1>3. /\ a \in Sync
      /\ a.pc = "all" /\ a.ovr = sync[i].ovr /\ a.found = (sync[i].found)
      /\ a.gray = sync[i].gray
  BY <1>1, <1>1, SyncPcFits DEF SyncPc
<1> HIDE DEF a
<1>4. /\ sync' \in [Instance -> Sync] /\ sync'[i] = a
      /\ \A j \in Instance \ {i} : sync'[j] = sync[j]
  BY <1>2, <1>3, SyncTurns
<1>5. GovTypeOK'
  BY <1>4 DEF Subscribe, GovTyped, GovTypeOK, redisVars
<1> QED BY <1>1, <1>3, <1>4, <1>5 DEF Subscribe, GovTyped, GovTypeOK, OnlyReads, redisVars, WriterAt

LEMMA LoadOvrDoes ==
  ASSUME GovTyped, NEW i \in Instance, LoadOvr(i)
  PROVE  /\ GovTyped' /\ OnlyReads(i) /\ sync[i].pc = "all"
         /\ sync'[i].pc = "allgray" /\ sync'[i].ovr = ovrKey
         /\ UNCHANGED <<cache, inbox>>
         /\ missed'[i] = missed[i] \ {"ovr"}
<1> DEFINE a == [sync[i] EXCEPT !.pc = "allgray"]
           b == [a EXCEPT !.ovr = ovrKey]
<1>1. /\ sync[i] \in Sync /\ sync[i].pc = "all"
      /\ ovrKey \in Override /\ grayKey \subseteq Owner /\ graySeq \in Nat
  BY DEF GovTyped, GovTypeOK, LoadOvr, SyncAt, Version
<1>2. sync' = [sync EXCEPT ![i] = b]
  BY DEF LoadOvr
<1>3. /\ a \in Sync
      /\ a.pc = "allgray" /\ a.ovr = sync[i].ovr /\ a.found = (sync[i].found)
      /\ a.gray = sync[i].gray
  BY <1>1, <1>1, SyncPcFits DEF SyncPc
<1> HIDE DEF a
<1>4. /\ b \in Sync
      /\ b.pc = "allgray" /\ b.ovr = ovrKey /\ b.found = (sync[i].found)
      /\ b.gray = sync[i].gray
  BY <1>1, <1>3, SyncOvrFits
<1> HIDE DEF b
<1>5. /\ sync' \in [Instance -> Sync] /\ sync'[i] = b
      /\ \A j \in Instance \ {i} : sync'[j] = sync[j]
  BY <1>2, <1>4, SyncTurns
<1>6. GovTypeOK'
  BY <1>5 DEF LoadOvr, Reads, GovTyped, GovTypeOK, redisVars
<1> QED BY <1>1, <1>4, <1>5, <1>6 DEF LoadOvr, Reads, GovTyped, GovTypeOK, OnlyReads, redisVars, WriterAt

LEMMA LoadNamesDoes ==
  ASSUME GovTyped, NEW i \in Instance, LoadNames(i)
  PROVE  /\ GovTyped' /\ OnlyReads(i) /\ sync[i].pc = "allgray"
         /\ sync'[i].pc = (IF grayKey # {} THEN "allver" ELSE "allapply")
         /\ sync'[i].ovr = sync[i].ovr /\ sync'[i].found = FALSE
         /\ UNCHANGED <<cache, inbox, missed>>
<1>1. /\ sync[i] \in Sync /\ sync[i].pc = "allgray"
  BY DEF GovTyped, GovTypeOK, LoadNames, SyncAt
<1>2. PICK pc \in SyncPc : pc = IF grayKey # {} THEN "allver" ELSE "allapply"
  BY DEF SyncPc
<1> DEFINE a == [sync[i] EXCEPT !.pc = pc]
           b == [a EXCEPT !.found = FALSE]
<1>3. sync' = [sync EXCEPT ![i] = b]
  BY <1>2 DEF LoadNames
<1>4. a \in Sync /\ a.pc = pc /\ a.ovr = sync[i].ovr
  BY <1>1, <1>2, SyncPcFits
<1> HIDE DEF a
<1>5. b \in Sync /\ b.pc = pc /\ b.ovr = sync[i].ovr /\ b.found = FALSE
  BY <1>4, SyncFoundFits
<1> HIDE DEF b
<1>6. /\ sync' \in [Instance -> Sync] /\ sync'[i] = b
      /\ \A j \in Instance \ {i} : sync'[j] = sync[j]
  BY <1>3, <1>5, SyncTurns
<1>7. GovTypeOK'
  BY <1>6 DEF LoadNames, GovTyped, GovTypeOK, redisVars
<1> QED BY <1>1, <1>2, <1>5, <1>6, <1>7 DEF LoadNames, GovTyped, OnlyReads, redisVars, WriterAt

LEMMA LoadGrayDoes ==
  ASSUME GovTyped, NEW i \in Instance, LoadGray(i)
  PROVE  /\ GovTyped' /\ OnlyReads(i) /\ sync[i].pc = "allver"
         /\ sync'[i].pc = "allmembers" /\ sync'[i].ovr = sync[i].ovr /\ sync'[i].found = sync[i].found
         /\ sync'[i].gray.ver = graySeq
         /\ UNCHANGED <<cache, inbox>>
         /\ missed'[i] = missed[i] \ {"gray"}
<1> DEFINE a == [sync[i] EXCEPT !.pc = "allmembers"]
           c == [a EXCEPT !.gray = [sync[i].gray EXCEPT !.ver = graySeq]]
<1>1. /\ sync[i] \in Sync /\ sync[i].pc = "allver"
      /\ ovrKey \in Override /\ grayKey \subseteq Owner /\ graySeq \in Nat
  BY DEF GovTyped, GovTypeOK, LoadGray, SyncAt, Version
<1>2. sync' = [sync EXCEPT ![i] = c]
  BY DEF LoadGray
<1>3. /\ a \in Sync
      /\ a.pc = "allmembers" /\ a.ovr = sync[i].ovr /\ a.found = (sync[i].found)
      /\ a.gray = sync[i].gray
  BY <1>1, SyncPcFits DEF SyncPc
<1> HIDE DEF a
<1>5. /\ c \in Sync
      /\ c.pc = "allmembers" /\ c.ovr = sync[i].ovr /\ c.found = (sync[i].found)
      /\ c.gray = [sync[i].gray EXCEPT !.ver = graySeq]
  BY <1>1, <1>3, SyncGrayFits, ListFits
<1> HIDE DEF c
<1>6. /\ sync' \in [Instance -> Sync] /\ sync'[i] = c
      /\ \A j \in Instance \ {i} : sync'[j] = sync[j]
  BY <1>2, <1>5, SyncTurns
<1>7. /\ missed' \in [Instance -> SUBSET Kind]
      /\ missed'[i] = missed[i] \ {"gray"}
      /\ \A j \in Instance \ {i} : missed'[j] = missed[j]
  BY DEF LoadGray, Reads, GovTyped, GovTypeOK
<1>8. GovTypeOK'
  BY <1>6, <1>7 DEF LoadGray, GovTyped, GovTypeOK, redisVars
<1>9. GovTyped' /\ OnlyReads(i)
  BY <1>6, <1>7, <1>8 DEF LoadGray, GovTyped, OnlyReads, redisVars, WriterAt
<1>10. sync'[i].gray.ver = graySeq
  <2>1. sync[i].gray \in List
    BY <1>1, ListFits
  <2>2. [sync[i].gray EXCEPT !.ver = graySeq].ver = graySeq
    BY <1>1, <2>1, ListFits
  <2> QED BY <1>5, <1>6, <2>2
<1> QED BY <1>1, <1>5, <1>6, <1>7, <1>9, <1>10 DEF LoadGray

LEMMA LoadMembersDoes ==
  ASSUME GovTyped, NEW i \in Instance, LoadMembers(i)
  PROVE  /\ GovTyped' /\ OnlyReads(i) /\ sync[i].pc = "allmembers"
         /\ sync'[i].pc = "allapply" /\ sync'[i].ovr = sync[i].ovr /\ sync'[i].found = TRUE
         /\ sync'[i].gray.ver = sync[i].gray.ver /\ sync'[i].gray.members = grayKey
         /\ UNCHANGED <<cache, inbox, missed>>
<1> DEFINE a == [sync[i] EXCEPT !.pc = "allapply"]
           b == [a EXCEPT !.gray = [sync[i].gray EXCEPT !.members = grayKey]]
           e == [b EXCEPT !.found = TRUE]
<1>1. /\ sync[i] \in Sync /\ sync[i].pc = "allmembers"
      /\ ovrKey \in Override /\ grayKey \subseteq Owner /\ graySeq \in Nat
  BY DEF GovTyped, GovTypeOK, LoadMembers, SyncAt, Version
<1>2. sync' = [sync EXCEPT ![i] = e]
  BY DEF LoadMembers
<1>3. /\ a \in Sync
      /\ a.pc = "allapply" /\ a.ovr = sync[i].ovr /\ a.found = (sync[i].found)
      /\ a.gray = sync[i].gray
  BY <1>1, <1>1, SyncPcFits DEF SyncPc
<1> HIDE DEF a
<1>4. /\ b \in Sync
      /\ b.pc = "allapply" /\ b.ovr = sync[i].ovr /\ b.found = (sync[i].found)
      /\ b.gray = [sync[i].gray EXCEPT !.members = grayKey]
  BY <1>1, <1>3, SyncGrayFits, ListFits
<1> HIDE DEF b
<1>7. /\ e \in Sync
      /\ e.pc = "allapply" /\ e.ovr = sync[i].ovr /\ e.found = TRUE
      /\ e.gray = [sync[i].gray EXCEPT !.members = grayKey]
  BY <1>4, SyncFoundFits
<1> HIDE DEF e
<1>5. /\ sync' \in [Instance -> Sync] /\ sync'[i] = e
      /\ \A j \in Instance \ {i} : sync'[j] = sync[j]
  BY <1>2, <1>7, SyncTurns
<1>6. GovTypeOK'
  BY <1>5 DEF LoadMembers, GovTyped, GovTypeOK, redisVars
<1> QED BY <1>1, <1>7, <1>5, <1>6, ListFits DEF LoadMembers, GovTyped, GovTypeOK, OnlyReads, redisVars, WriterAt

LEMMA ReloadOvrDoes ==
  ASSUME GovTyped, NEW i \in Instance, ReloadOvr(i)
  PROVE  /\ GovTyped' /\ OnlyReads(i) /\ sync[i].pc = "ovr"
         /\ sync'[i].pc = "ovrapply" /\ sync'[i].ovr = ovrKey
         /\ UNCHANGED <<cache, inbox>>
         /\ missed'[i] = missed[i] \ {"ovr"}
<1> DEFINE a == [sync[i] EXCEPT !.pc = "ovrapply"]
           b == [a EXCEPT !.ovr = ovrKey]
<1>1. /\ sync[i] \in Sync /\ sync[i].pc = "ovr"
      /\ ovrKey \in Override /\ grayKey \subseteq Owner /\ graySeq \in Nat
  BY DEF GovTyped, GovTypeOK, ReloadOvr, SyncAt, Version
<1>2. sync' = [sync EXCEPT ![i] = b]
  BY DEF ReloadOvr
<1>3. /\ a \in Sync
      /\ a.pc = "ovrapply" /\ a.ovr = sync[i].ovr /\ a.found = (sync[i].found)
      /\ a.gray = sync[i].gray
  BY <1>1, <1>1, SyncPcFits DEF SyncPc
<1> HIDE DEF a
<1>4. /\ b \in Sync
      /\ b.pc = "ovrapply" /\ b.ovr = ovrKey /\ b.found = (sync[i].found)
      /\ b.gray = sync[i].gray
  BY <1>1, <1>3, SyncOvrFits
<1> HIDE DEF b
<1>5. /\ sync' \in [Instance -> Sync] /\ sync'[i] = b
      /\ \A j \in Instance \ {i} : sync'[j] = sync[j]
  BY <1>2, <1>4, SyncTurns
<1>6. GovTypeOK'
  BY <1>5 DEF ReloadOvr, Reads, GovTyped, GovTypeOK, redisVars
<1> QED BY <1>1, <1>4, <1>5, <1>6 DEF ReloadOvr, Reads, GovTyped, GovTypeOK, OnlyReads, redisVars, WriterAt

LEMMA ReloadGrayDoes ==
  ASSUME GovTyped, NEW i \in Instance, ReloadGray(i)
  PROVE  /\ GovTyped' /\ OnlyReads(i) /\ sync[i].pc = "gray"
         /\ sync'[i].pc = "graymembers" /\ sync'[i].gray.ver = graySeq
         /\ UNCHANGED <<cache, inbox>>
         /\ missed'[i] = missed[i] \ {"gray"}
<1> DEFINE a == [sync[i] EXCEPT !.pc = "graymembers"]
           b == [a EXCEPT !.gray = [sync[i].gray EXCEPT !.ver = graySeq]]
<1>1. /\ sync[i] \in Sync /\ sync[i].pc = "gray"
      /\ ovrKey \in Override /\ grayKey \subseteq Owner /\ graySeq \in Nat
  BY DEF GovTyped, GovTypeOK, ReloadGray, SyncAt, Version
<1>2. sync' = [sync EXCEPT ![i] = b]
  BY DEF ReloadGray
<1>3. /\ a \in Sync
      /\ a.pc = "graymembers" /\ a.ovr = sync[i].ovr /\ a.found = (sync[i].found)
      /\ a.gray = sync[i].gray
  BY <1>1, <1>1, SyncPcFits DEF SyncPc
<1> HIDE DEF a
<1>4. /\ b \in Sync
      /\ b.pc = "graymembers" /\ b.ovr = sync[i].ovr /\ b.found = (sync[i].found)
      /\ b.gray = [sync[i].gray EXCEPT !.ver = graySeq]
  BY <1>1, <1>3, SyncGrayFits, ListFits
<1> HIDE DEF b
<1>5. /\ sync' \in [Instance -> Sync] /\ sync'[i] = b
      /\ \A j \in Instance \ {i} : sync'[j] = sync[j]
  BY <1>2, <1>4, SyncTurns
<1>6. GovTypeOK'
  BY <1>5 DEF ReloadGray, Reads, GovTyped, GovTypeOK, redisVars
<1> QED BY <1>1, <1>4, <1>5, <1>6, ListFits DEF ReloadGray, Reads, GovTyped, GovTypeOK, OnlyReads, redisVars, WriterAt

LEMMA ReloadMembersDoes ==
  ASSUME GovTyped, NEW i \in Instance, ReloadMembers(i)
  PROVE  /\ GovTyped' /\ OnlyReads(i) /\ sync[i].pc = "graymembers"
         /\ sync'[i].pc = "grayapply" /\ sync'[i].gray.ver = sync[i].gray.ver /\ sync'[i].gray.members = grayKey
         /\ UNCHANGED <<cache, inbox, missed>>
<1> DEFINE a == [sync[i] EXCEPT !.pc = "grayapply"]
           b == [a EXCEPT !.gray = [sync[i].gray EXCEPT !.members = grayKey]]
<1>1. /\ sync[i] \in Sync /\ sync[i].pc = "graymembers"
      /\ ovrKey \in Override /\ grayKey \subseteq Owner /\ graySeq \in Nat
  BY DEF GovTyped, GovTypeOK, ReloadMembers, SyncAt, Version
<1>2. sync' = [sync EXCEPT ![i] = b]
  BY DEF ReloadMembers
<1>3. /\ a \in Sync
      /\ a.pc = "grayapply" /\ a.ovr = sync[i].ovr /\ a.found = (sync[i].found)
      /\ a.gray = sync[i].gray
  BY <1>1, <1>1, SyncPcFits DEF SyncPc
<1> HIDE DEF a
<1>4. /\ b \in Sync
      /\ b.pc = "grayapply" /\ b.ovr = sync[i].ovr /\ b.found = (sync[i].found)
      /\ b.gray = [sync[i].gray EXCEPT !.members = grayKey]
  BY <1>1, <1>3, SyncGrayFits, ListFits
<1> HIDE DEF b
<1>5. /\ sync' \in [Instance -> Sync] /\ sync'[i] = b
      /\ \A j \in Instance \ {i} : sync'[j] = sync[j]
  BY <1>2, <1>4, SyncTurns
<1>6. GovTypeOK'
  BY <1>5 DEF ReloadMembers, GovTyped, GovTypeOK, redisVars
<1> QED BY <1>1, <1>4, <1>5, <1>6, ListFits DEF ReloadMembers, GovTyped, GovTypeOK, OnlyReads, redisVars, WriterAt

LEMMA ReceiveDoes ==
  ASSUME GovTyped, NEW i \in Instance, Receive(i)
  PROVE  /\ GovTyped' /\ OnlyReads(i) /\ sync[i].pc = "listen" /\ UNCHANGED <<cache, missed>>
         /\ \E kind \in Kind : inbox'[i] = inbox[i] \ {kind} /\ sync'[i].pc = kind
<1>1. PICK kind \in inbox[i] : /\ inbox' = [inbox EXCEPT ![i] = @ \ {kind}]
                               /\ sync' = [sync EXCEPT ![i].pc = kind]
  BY DEF Receive
<1> DEFINE a == [sync[i] EXCEPT !.pc = kind]
<1>2. sync[i] \in Sync /\ kind \in Kind
  BY DEF GovTyped, GovTypeOK
<1>3. a \in Sync /\ a.pc = kind
  <2>1. kind \in SyncPc
    BY <1>2 DEF SyncPc, Kind
  <2> QED BY <1>2, <2>1, SyncPcFits
<1>4. sync' = [sync EXCEPT ![i] = a]
  BY <1>1
<1> HIDE DEF a
<1>5. /\ sync' \in [Instance -> Sync] /\ sync'[i] = a
      /\ \A j \in Instance \ {i} : sync'[j] = sync[j]
  BY <1>3, <1>4, SyncTurns
<1>6. /\ inbox' \in [Instance -> SUBSET Kind] /\ inbox'[i] = inbox[i] \ {kind}
      /\ \A j \in Instance \ {i} : inbox'[j] = inbox[j]
  BY <1>1 DEF GovTyped, GovTypeOK
<1>7. GovTypeOK'
  BY <1>5, <1>6 DEF Receive, GovTyped, GovTypeOK, redisVars
<1> QED BY <1>2, <1>3, <1>5, <1>6, <1>7 DEF Receive, GovTyped, GovTypeOK, OnlyReads, redisVars, WriterAt, SyncAt

LEMMA ApplyAllDoes ==
  ASSUME GovTyped, NEW i \in Instance, ApplyAll(i)
  PROVE  /\ GovTyped' /\ OnlyReads(i) /\ sync[i].pc = "allapply" /\ UNCHANGED <<inbox, missed>>
         /\ sync'[i].pc \in {"listen", "down"}
         /\ cache'[i].ovr = (IF sync[i].ovr.val = Unset THEN cache[i].ovr ELSE AppliedOvr(cache[i].ovr, sync[i].ovr))
         /\ cache'[i].gray = (IF sync[i].found THEN AppliedGray(cache[i].gray, sync[i].gray) ELSE cache[i].gray)
<1> DEFINE o == IF sync[i].ovr.val = Unset THEN cache[i].ovr ELSE AppliedOvr(cache[i].ovr, sync[i].ovr)
           g == IF sync[i].found THEN AppliedGray(cache[i].gray, sync[i].gray) ELSE cache[i].gray
           b == [cache[i] EXCEPT !.ovr = o]
           c == [b EXCEPT !.gray = g]
<1>1. sync[i] \in Sync /\ cache[i] \in Cache /\ sync[i].pc = "allapply"
  BY DEF GovTyped, GovTypeOK, ApplyAll, SyncAt
<1>2. o \in Override /\ g \in List
  BY <1>1, AppliedFit, CacheFits, ListFits
<1>3. sync' = [sync EXCEPT ![i] = AfterAll(sync[i])]
  BY DEF ApplyAll, AfterAll
<1>4. cache' = [cache EXCEPT ![i] = c]
  BY DEF ApplyAll
<1> HIDE DEF o, g
<1>5. b \in Cache /\ b.ovr = o
  BY <1>1, <1>2, CacheFits
<1> HIDE DEF b
<1>6. c \in Cache /\ c.ovr = o /\ c.gray = g
  BY <1>2, <1>5, CacheFits
<1> HIDE DEF c
<1>7. /\ cache' \in [Instance -> Cache] /\ cache'[i] = c
      /\ \A j \in Instance \ {i} : cache'[j] = cache[j]
  BY <1>4, <1>6, CacheTurns
<1>8. /\ sync' \in [Instance -> Sync] /\ sync'[i] = AfterAll(sync[i])
      /\ \A j \in Instance \ {i} : sync'[j] = sync[j]
  BY <1>1, <1>3, AfterAllFits, SyncTurns
<1>9. GovTypeOK'
  BY <1>7, <1>8 DEF ApplyAll, GovTyped, GovTypeOK, redisVars
<1>10. GovTyped' /\ OnlyReads(i) /\ UNCHANGED <<inbox, missed>>
  BY <1>7, <1>8, <1>9 DEF ApplyAll, GovTyped, OnlyReads, redisVars, WriterAt
<1> QED BY <1>1, <1>6, <1>7, <1>8, <1>10, AfterAllFits DEF o, g

LEMMA ApplyOvrDoes ==
  ASSUME GovTyped, NEW i \in Instance, ApplyOvr(i)
  PROVE  /\ GovTyped' /\ OnlyReads(i) /\ sync[i].pc = "ovrapply" /\ sync'[i].pc = "listen"
         /\ UNCHANGED <<inbox, missed>>
         /\ cache'[i].ovr = AppliedOvr(cache[i].ovr, sync[i].ovr) /\ cache'[i].gray = cache[i].gray
<1> DEFINE o == AppliedOvr(cache[i].ovr, sync[i].ovr)
           c == [cache[i] EXCEPT !.ovr = o]
<1>1. sync[i] \in Sync /\ cache[i] \in Cache /\ sync[i].pc = "ovrapply"
  BY DEF GovTyped, GovTypeOK, ApplyOvr, SyncAt
<1>2. o \in Override
  BY <1>1, AppliedFit, CacheFits, ListFits
<1>3. sync' = [sync EXCEPT ![i] = Listening] /\ cache' = [cache EXCEPT ![i] = c]
  BY DEF ApplyOvr
<1> HIDE DEF o
<1>4. c \in Cache /\ c.ovr = o /\ c.gray = cache[i].gray
  BY <1>1, <1>2, CacheFits
<1> HIDE DEF c
<1>5. /\ cache' \in [Instance -> Cache] /\ cache'[i] = c
      /\ \A j \in Instance \ {i} : cache'[j] = cache[j]
  BY <1>3, <1>4, CacheTurns
<1>6. /\ sync' \in [Instance -> Sync] /\ sync'[i] = Listening
      /\ \A j \in Instance \ {i} : sync'[j] = sync[j]
  BY <1>3, ListeningPc, SyncTurns
<1>7. GovTypeOK'
  BY <1>5, <1>6 DEF ApplyOvr, GovTyped, GovTypeOK, redisVars
<1>8. GovTyped' /\ OnlyReads(i) /\ UNCHANGED <<inbox, missed>>
  BY <1>5, <1>6, <1>7 DEF ApplyOvr, GovTyped, OnlyReads, redisVars, WriterAt
<1> QED BY <1>1, <1>4, <1>5, <1>6, <1>8, ListeningPc DEF o

LEMMA ApplyGrayDoes ==
  ASSUME GovTyped, NEW i \in Instance, ApplyGray(i)
  PROVE  /\ GovTyped' /\ OnlyReads(i) /\ sync[i].pc = "grayapply" /\ sync'[i].pc = "listen"
         /\ UNCHANGED <<inbox, missed>>
         /\ cache'[i].gray = AppliedGray(cache[i].gray, sync[i].gray) /\ cache'[i].ovr = cache[i].ovr
<1> DEFINE g == AppliedGray(cache[i].gray, sync[i].gray)
           c == [cache[i] EXCEPT !.gray = g]
<1>1. sync[i] \in Sync /\ cache[i] \in Cache /\ sync[i].pc = "grayapply"
  BY DEF GovTyped, GovTypeOK, ApplyGray, SyncAt
<1>2. g \in List
  BY <1>1, AppliedFit, CacheFits, ListFits
<1>3. sync' = [sync EXCEPT ![i] = Listening] /\ cache' = [cache EXCEPT ![i] = c]
  BY DEF ApplyGray
<1> HIDE DEF g
<1>4. c \in Cache /\ c.gray = g /\ c.ovr = cache[i].ovr
  BY <1>1, <1>2, CacheFits
<1> HIDE DEF c
<1>5. /\ cache' \in [Instance -> Cache] /\ cache'[i] = c
      /\ \A j \in Instance \ {i} : cache'[j] = cache[j]
  BY <1>3, <1>4, CacheTurns
<1>6. /\ sync' \in [Instance -> Sync] /\ sync'[i] = Listening
      /\ \A j \in Instance \ {i} : sync'[j] = sync[j]
  BY <1>3, ListeningPc, SyncTurns
<1>7. GovTypeOK'
  BY <1>5, <1>6 DEF ApplyGray, GovTyped, GovTypeOK, redisVars
<1>8. GovTyped' /\ OnlyReads(i) /\ UNCHANGED <<inbox, missed>>
  BY <1>5, <1>6, <1>7 DEF ApplyGray, GovTyped, OnlyReads, redisVars, WriterAt
<1> QED BY <1>1, <1>4, <1>5, <1>6, <1>8, ListeningPc DEF g

\* A load, a reload or the connection fails: what was to be read is noted as missed.
LEMMA ReadFailsDoes ==
  ASSUME GovTyped, NEW i \in Instance, LoadFails(i) \/ ReloadFails(i) \/ Disconnect(i)
  PROVE  /\ GovTyped' /\ OnlyReads(i) /\ UNCHANGED cache /\ sync'[i].pc \in {"listen", "down"}
         /\ missed[i] \subseteq missed'[i] /\ inbox[i] \subseteq inbox'[i] \cup missed'[i]
         /\ sync[i].pc \in {"all", "allgray", "allver", "allmembers"} => missed'[i] = Kind
         /\ sync[i].pc = "ovr" => "ovr" \in missed'[i]
         /\ sync[i].pc \in {"gray", "graymembers"} => "gray" \in missed'[i]
         /\ sync[i].pc \notin {"allapply", "ovrapply", "grayapply", "down"}
<1>1. sync[i] \in Sync /\ inbox[i] \subseteq Kind /\ missed[i] \subseteq Kind
  BY DEF GovTyped, GovTypeOK
<1>2. PICK s \in Sync : sync' = [sync EXCEPT ![i] = s] /\ s.pc \in {"listen", "down"}
  <2>1. CASE LoadFails(i)
    <3>1. sync' = [sync EXCEPT ![i] = AfterAll(sync[i])]
      BY <2>1 DEF LoadFails, AfterAll
    <3> QED BY <1>1, <3>1, AfterAllFits
  <2>2. CASE ReloadFails(i)
    BY <2>2, ListeningPc DEF ReloadFails
  <2>3. CASE Disconnect(i)
    <3>1. [sync[i] EXCEPT !.pc = "down"] \in Sync /\ [sync[i] EXCEPT !.pc = "down"].pc = "down"
      BY <1>1, SyncPcFits DEF SyncPc
    <3>2. sync' = [sync EXCEPT ![i] = [sync[i] EXCEPT !.pc = "down"]]
      BY <2>3 DEF Disconnect
    <3> QED BY <3>1, <3>2
  <2> QED BY <2>1, <2>2, <2>3
<1>3. /\ sync' \in [Instance -> Sync] /\ sync'[i] = s
      /\ \A j \in Instance \ {i} : sync'[j] = sync[j]
  BY <1>2, SyncTurns
<1>4. PICK K \in SUBSET Kind :
        /\ missed' = [missed EXCEPT ![i] = K] /\ missed[i] \subseteq K
        /\ \/ UNCHANGED inbox
           \/ inbox' = [inbox EXCEPT ![i] = {}] /\ inbox[i] \subseteq K
        /\ sync[i].pc \in {"all", "allgray", "allver", "allmembers"} => K = Kind
        /\ sync[i].pc = "ovr" => "ovr" \in K
        /\ sync[i].pc \in {"gray", "graymembers"} => "gray" \in K
        /\ sync[i].pc \notin {"allapply", "ovrapply", "grayapply", "down"}
  <2>1. CASE LoadFails(i)
    BY <1>1, <2>1 DEF LoadFails
  <2>2. CASE ReloadFails(i)
    <3> DEFINE L == missed[i] \cup {IF SyncAt(i, "ovr") THEN "ovr" ELSE "gray"}
    <3>1. L \in SUBSET Kind /\ missed[i] \subseteq L
      BY <1>1 DEF Kind
    <3>2. missed' = [missed EXCEPT ![i] = L] /\ UNCHANGED inbox /\ sync[i].pc \in {"ovr", "gray", "graymembers"}
      BY <2>2 DEF ReloadFails
    <3>3. (sync[i].pc = "ovr" => "ovr" \in L) /\ (sync[i].pc \in {"gray", "graymembers"} => "gray" \in L)
      BY DEF SyncAt
    <3> HIDE DEF L
    <3> QED BY <3>1, <3>2, <3>3
  <2>3. CASE Disconnect(i)
    <3> DEFINE L == missed[i] \cup inbox[i]
    <3>1. L \in SUBSET Kind /\ missed[i] \subseteq L /\ inbox[i] \subseteq L
      BY <1>1
    <3>2. missed' = [missed EXCEPT ![i] = L] /\ inbox' = [inbox EXCEPT ![i] = {}] /\ sync[i].pc = "listen"
      BY <2>3 DEF Disconnect, SyncAt
    <3> HIDE DEF L
    <3> QED BY <3>1, <3>2
  <2> QED BY <2>1, <2>2, <2>3
<1>5. /\ missed' \in [Instance -> SUBSET Kind] /\ missed'[i] = K
      /\ \A j \in Instance \ {i} : missed'[j] = missed[j]
  BY <1>4 DEF GovTyped, GovTypeOK
<1>6. /\ inbox' \in [Instance -> SUBSET Kind]
      /\ inbox[i] \subseteq inbox'[i] \cup missed'[i]
      /\ \A j \in Instance \ {i} : inbox'[j] = inbox[j]
  BY <1>4, <1>5 DEF GovTyped, GovTypeOK
<1>7. Fault /\ UNCHANGED <<redisVars, snapshot, cache, writer, writes, raced>> /\ degraded' \subseteq Instance
  BY DEF LoadFails, ReloadFails, Disconnect, GovTyped, GovTypeOK
<1>8. govFaults' \in 0 .. MaxGovFaults
  BY <1>7, GovBounds DEF Fault, GovTyped, GovTypeOK
<1>9. GovTypeOK'
  BY <1>3, <1>5, <1>6, <1>7, <1>8 DEF GovTyped, GovTypeOK, redisVars
<1>10. GovTyped' /\ OnlyReads(i) /\ UNCHANGED cache
  BY <1>3, <1>5, <1>6, <1>7, <1>9 DEF GovTyped, OnlyReads, WriterAt, redisVars
<1> QED BY <1>2, <1>3, <1>4, <1>5, <1>6, <1>10

LEMMA RestartDoes ==
  ASSUME GovTyped, NEW i \in Instance, Restart(i)
  PROVE  /\ GovTyped' /\ UNCHANGED <<redisVars, raced>> /\ writer'[i].pc = "idle"
         /\ \A j \in Instance \ {i} :
              /\ writer'[j] = writer[j] /\ cache'[j] = cache[j] /\ sync'[j] = sync[j] /\ inbox'[j] = inbox[j]
              /\ missed[j] \subseteq missed'[j]
         /\ \A j \in Instance : WrittenBy(i) \subseteq missed'[j]
         /\ cache'[i] = EmptyCache /\ sync'[i].pc = "all" /\ inbox'[i] = {}
<1>1. /\ writer' \in [Instance -> Writer] /\ writer'[i].pc = "idle"
      /\ \A j \in Instance \ {i} : writer'[j] = writer[j]
      /\ \A j \in Instance : WriterAt(j, "incr")' => writer'[j].tries < Retries
  BY EndsDoes DEF Restart
<1>2. WrittenBy(i) \in SUBSET Kind
  BY DEF WrittenBy, Kind
<1>3. /\ missed' \in [Instance -> SUBSET Kind]
      /\ \A j \in Instance \ {i} : missed[j] \subseteq missed'[j]
      /\ \A j \in Instance : WrittenBy(i) \subseteq missed'[j]
  BY <1>2 DEF Restart, GovTyped, GovTypeOK
<1>4. /\ cache' \in [Instance -> Cache] /\ cache'[i] = EmptyCache
      /\ \A j \in Instance \ {i} : cache'[j] = cache[j]
  BY GovFits, CacheTurns DEF Restart
<1>5. /\ sync' \in [Instance -> Sync] /\ sync'[i] = Booting
      /\ \A j \in Instance \ {i} : sync'[j] = sync[j]
  BY GovFits, SyncTurns DEF Restart
<1>6. /\ inbox' \in [Instance -> SUBSET Kind] /\ inbox'[i] = {}
      /\ \A j \in Instance \ {i} : inbox'[j] = inbox[j]
  BY DEF Restart, GovTyped, GovTypeOK
<1>7. govFaults' \in 0 .. MaxGovFaults /\ degraded' \subseteq Instance
  BY GovBounds DEF Restart, Fault, GovTyped, GovTypeOK
<1>8. GovTypeOK'
  BY <1>1, <1>3, <1>4, <1>5, <1>6, <1>7 DEF Restart, GovTyped, GovTypeOK, redisVars
<1>9. sync'[i].pc = "all"
  BY <1>5 DEF Booting
<1> QED BY <1>1, <1>3, <1>4, <1>5, <1>6, <1>8, <1>9 DEF Restart, GovTyped

\* The list.  A writer that has changed it still has its message to send.
ListWriting == \E j \in Instance : writer[j].pc \in {"gincr", "members", "gpublish"}
ReadsVersion(i) ==
  sync[i].pc \in {"graymembers", "grayapply", "allmembers"} \/ (sync[i].pc = "allapply" /\ sync[i].found)
\* No version is ahead of the counter.
ListVersions ==
  \A i \in Instance :
    /\ cache[i].gray.ver <= graySeq
    /\ ReadsVersion(i) => sync[i].gray.ver <= graySeq
    /\ writer[i].pc \in {"members", "gpublish"} => writer[i].ver <= graySeq
\* What a process has, or has read and will not refuse, is what Redis holds; a full load leaves out
\* an empty list, and then the cache must be empty already.
ListRead(i) ==
  LET c == cache[i].gray
      s == sync[i]
      listed == s.pc \in {"graymembers", "grayapply", "allmembers"} \/ (s.pc = "allapply" /\ s.found)
  IN
  /\ listed => c.ver <= s.gray.ver
  /\ listed /\ s.pc \in {"grayapply", "allapply"} => s.gray.members = grayKey
  /\ s.pc = "allapply" /\ ~s.found => c.members = grayKey
  /\ s.pc \in {"all", "allgray"} /\ grayKey = {} => c.members = {}
  /\ s.pc \in {"listen", "down", "ovr", "ovrapply"} => c.members = grayKey
ListFollows(i) == "gray" \notin missed[i] \cup inbox[i] /\ ~ListWriting => ListRead(i)
ListInv == ListVersions /\ \A i \in Instance : ListFollows(i)

LEMMA ListVersionsTyped ==
  ASSUME GovTyped
  PROVE  /\ graySeq \in Nat
         /\ \A i \in Instance : cache[i].gray.ver \in Nat /\ sync[i].gray.ver \in Nat /\ writer[i].ver \in Nat
<1>1. ASSUME NEW i \in Instance
      PROVE  cache[i].gray.ver \in Nat /\ sync[i].gray.ver \in Nat /\ writer[i].ver \in Nat
  <2>1. cache[i] \in Cache /\ sync[i] \in Sync /\ writer[i] \in Writer
    BY DEF GovTyped, GovTypeOK
  <2> QED BY <2>1 DEF Cache, Sync, Writer, List, Version
<1>2. graySeq \in Nat
  BY DEF GovTyped, GovTypeOK, Version
<1> QED BY <1>1, <1>2

\* A process that did nothing follows the list as it did.
LEMMA ListStays ==
  ASSUME GovTyped, NEW k \in Instance, ListFollows(k),
         cache'[k].gray = cache[k].gray, sync'[k] = sync[k],
         missed[k] \subseteq missed'[k], inbox[k] \subseteq inbox'[k], UNCHANGED grayKey,
         ListWriting => ListWriting' \/ "gray" \in missed'[k] \cup inbox'[k]
  PROVE  ListFollows(k)'
BY DEF ListFollows, ListRead

\* A write that has not to do with the list, or goes on.
LEMMA WritingStays ==
  ASSUME NEW i \in Instance, \A j \in Instance \ {i} : writer'[j] = writer[j],
         writer[i].pc \in {"gincr", "members", "gpublish"} => writer'[i].pc \in {"gincr", "members", "gpublish"}
  PROVE  ListWriting => ListWriting'
BY DEF ListWriting

LEMMA ListWritesInv ==
  ASSUME GovTyped, ListInv, NEW i \in Instance, OnlyWrites(i), UNCHANGED <<grayKey, graySeq>>,
         cache'[i].gray = cache[i].gray,
         writer'[i].pc \in {"members", "gpublish"} =>
           writer[i].pc \in {"members", "gpublish"} /\ writer'[i].ver = writer[i].ver,
         writer[i].pc \in {"gincr", "members", "gpublish"} => writer'[i].pc \in {"gincr", "members", "gpublish"}
  PROVE  ListInv'
<1>1. ListWriting => ListWriting'
  BY WritingStays DEF OnlyWrites
<1>2. ASSUME NEW k \in Instance PROVE ListFollows(k)'
  <2>1. /\ cache'[k].gray = cache[k].gray /\ sync'[k] = sync[k] /\ ListFollows(k)
        /\ missed[k] \subseteq missed'[k] /\ inbox[k] \subseteq inbox'[k]
    BY DEF OnlyWrites, ListInv
  <2> QED BY <1>1, <2>1, ListStays
<1>3. ListVersions'
  <2> SUFFICES ASSUME NEW k \in Instance
               PROVE  (/\ cache[k].gray.ver <= graySeq
                       /\ ReadsVersion(k) => sync[k].gray.ver <= graySeq
                       /\ writer[k].pc \in {"members", "gpublish"} => writer[k].ver <= graySeq)'
    BY DEF ListVersions
  <2>1. CASE k = i
    BY <2>1 DEF ListInv, ListVersions, OnlyWrites, ReadsVersion
  <2>2. CASE k # i
    BY <2>2 DEF ListInv, ListVersions, OnlyWrites, ReadsVersion
  <2> QED BY <2>1, <2>2
<1> QED BY <1>2, <1>3 DEF ListInv

\* A process reads something: the others follow as they did.
LEMMA ListReadsInv ==
  ASSUME GovTyped, ListInv, NEW i \in Instance, OnlyReads(i),
         cache'[i].gray.ver <= graySeq, ReadsVersion(i)' => sync'[i].gray.ver <= graySeq,
         "gray" \notin missed'[i] \cup inbox'[i] /\ ~ListWriting => ListRead(i)'
  PROVE  ListInv'
<1>1. UNCHANGED <<grayKey, graySeq, writer>>
  BY DEF OnlyReads, redisVars
<1>2. ListWriting' <=> ListWriting
  BY <1>1 DEF ListWriting
<1>3. ASSUME NEW k \in Instance PROVE ListFollows(k)'
  <2>1. CASE k = i
    BY <1>2, <2>1 DEF ListFollows
  <2>2. CASE k # i
    <3>1. /\ cache'[k] = cache[k] /\ sync'[k] = sync[k] /\ ListFollows(k)
          /\ missed'[k] = missed[k] /\ inbox'[k] = inbox[k]
      BY <2>2 DEF OnlyReads, ListInv
    <3> QED BY <1>1, <1>2, <3>1, ListStays
  <2> QED BY <2>1, <2>2
<1>4. ListVersions'
  <2> SUFFICES ASSUME NEW k \in Instance
               PROVE  (/\ cache[k].gray.ver <= graySeq
                       /\ ReadsVersion(k) => sync[k].gray.ver <= graySeq
                       /\ writer[k].pc \in {"members", "gpublish"} => writer[k].ver <= graySeq)'
    BY DEF ListVersions
  <2>1. CASE k = i
    BY <1>1, <2>1 DEF ListInv, ListVersions
  <2>2. CASE k # i
    BY <1>1, <2>2 DEF ListInv, ListVersions, OnlyReads, ReadsVersion
  <2> QED BY <2>1, <2>2
<1> QED BY <1>3, <1>4 DEF ListInv

LEMMA ListChangesInv ==
  ASSUME GovTyped, ListInv, NEW i \in Instance, Change(i) \/ GrayIncr(i)
  PROVE  ListInv'
<1>1. /\ OnlyWrites(i) /\ writer[i].pc \in {"change", "gincr"} /\ writer'[i].pc \in {"gincr", "members"}
      /\ writer'[i].pc = "members" => writer'[i].ver = graySeq'
      /\ graySeq' >= graySeq /\ UNCHANGED <<cache, inbox, missed>> /\ graySeq' \in Nat
  BY ChangeDoes, GrayIncrDoes, ListVersionsTyped
<1>2. ListWriting'
  BY <1>1 DEF ListWriting
<1>3. \A k \in Instance : ListFollows(k)'
  BY <1>2 DEF ListFollows
<1>4. ListVersions'
  <2> SUFFICES ASSUME NEW k \in Instance
               PROVE  (/\ cache[k].gray.ver <= graySeq
                       /\ ReadsVersion(k) => sync[k].gray.ver <= graySeq
                       /\ writer[k].pc \in {"members", "gpublish"} => writer[k].ver <= graySeq)'
    BY DEF ListVersions
  <2>1. /\ cache[k].gray.ver <= graySeq
        /\ ReadsVersion(k) => sync[k].gray.ver <= graySeq
        /\ writer[k].pc \in {"members", "gpublish"} => writer[k].ver <= graySeq
    BY DEF ListInv, ListVersions
  <2>2. graySeq \in Nat /\ cache[k].gray.ver \in Nat /\ sync[k].gray.ver \in Nat /\ writer[k].ver \in Nat
    BY ListVersionsTyped
  <2>3. sync'[k] = sync[k] /\ cache'[k] = cache[k] /\ (k # i => writer'[k] = writer[k])
    BY <1>1 DEF OnlyWrites
  <2> QED BY <1>1, <2>1, <2>2, <2>3 DEF ReadsVersion
<1> QED BY <1>3, <1>4 DEF ListInv

LEMMA ListPublishInv ==
  ASSUME GovTyped, ListInv, NEW i \in Instance, GrayPublish(i) \/ (PublishFails(i) /\ writer[i].pc # "publish")
  PROVE  ListInv'
<1>1. /\ OnlyWrites(i) /\ writer[i].pc = "gpublish" /\ writer'[i].pc = "idle" /\ UNCHANGED redisVars
      /\ cache'[i].gray = cache[i].gray \/ cache'[i].gray.ver = writer[i].ver
      /\ \A j \in Instance : "gray" \in inbox'[j] \/ "gray" \in missed'[j]
  BY GrayPublishDoes
<1>2. \A k \in Instance : ListFollows(k)'
  BY <1>1 DEF ListFollows
<1>3. ListVersions'
  BY <1>1 DEF ListInv, ListVersions, OnlyWrites, ReadsVersion, redisVars
<1> QED BY <1>2, <1>3 DEF ListInv

\* A write or a process ends with its message unsent: everybody misses it.
LEMMA ListEndsInv ==
  ASSUME GovTyped, ListInv, NEW i \in Instance, WriteFails(i)
  PROVE  ListInv'
<1>1. /\ OnlyWrites(i) /\ writer'[i].pc = "idle" /\ UNCHANGED <<redisVars, cache, inbox>>
      /\ \A j \in Instance : WrittenBy(i) \subseteq missed'[j]
  BY WriteFailsDoes
<1>2. ASSUME NEW k \in Instance PROVE ListFollows(k)'
  <2>1. ListWriting => ListWriting' \/ "gray" \in missed'[k]
    <3>1. CASE writer[i].pc \in {"gincr", "members", "gpublish"}
      <4>1. "gray" \in WrittenBy(i)
        BY <3>1 DEF WrittenBy
      <4> QED BY <1>1, <4>1
    <3>2. CASE writer[i].pc \notin {"gincr", "members", "gpublish"}
      BY <1>1, <3>2, WritingStays DEF OnlyWrites
    <3> QED BY <3>1, <3>2
  <2>2. /\ cache'[k].gray = cache[k].gray /\ sync'[k] = sync[k] /\ ListFollows(k) /\ UNCHANGED grayKey
        /\ missed[k] \subseteq missed'[k] /\ inbox[k] \subseteq inbox'[k]
    BY <1>1 DEF OnlyWrites, ListInv, redisVars
  <2> QED BY <2>1, <2>2, ListStays
<1>3. ListVersions'
  BY <1>1 DEF ListInv, ListVersions, OnlyWrites, ReadsVersion, redisVars
<1> QED BY <1>2, <1>3 DEF ListInv

LEMMA ListRestartInv ==
  ASSUME GovTyped, ListInv, NEW i \in Instance, Restart(i)
  PROVE  ListInv'
<1>1. /\ UNCHANGED redisVars /\ writer'[i].pc = "idle"
      /\ \A j \in Instance \ {i} :
              /\ writer'[j] = writer[j] /\ cache'[j] = cache[j] /\ sync'[j] = sync[j] /\ inbox'[j] = inbox[j]
              /\ missed[j] \subseteq missed'[j]
      /\ \A j \in Instance : WrittenBy(i) \subseteq missed'[j]
      /\ cache'[i] = EmptyCache /\ sync'[i].pc = "all" /\ inbox'[i] = {}
  BY RestartDoes
<1>2. ASSUME NEW k \in Instance PROVE ListFollows(k)'
  <2>1. ListWriting => ListWriting' \/ "gray" \in missed'[k]
    <3>1. CASE writer[i].pc \in {"gincr", "members", "gpublish"}
      <4>1. "gray" \in WrittenBy(i)
        BY <3>1 DEF WrittenBy
      <4> QED BY <1>1, <4>1
    <3>2. CASE writer[i].pc \notin {"gincr", "members", "gpublish"}
      BY <1>1, <3>2, WritingStays
    <3> QED BY <3>1, <3>2
  <2>2. CASE k = i
    BY <1>1, <2>2 DEF ListFollows, ListRead, EmptyCache, NoList
  <2>3. CASE k # i
    <3>1. /\ cache'[k].gray = cache[k].gray /\ sync'[k] = sync[k] /\ ListFollows(k) /\ UNCHANGED grayKey
          /\ missed[k] \subseteq missed'[k] /\ inbox[k] \subseteq inbox'[k]
      BY <1>1, <2>3 DEF ListInv, redisVars
    <3> QED BY <2>1, <3>1, ListStays
  <2> QED BY <2>2, <2>3
<1>3. ListVersions'
  <2>1. EmptyCache.gray.ver <= graySeq
    BY ListVersionsTyped DEF EmptyCache, NoList
  <2> QED BY <1>1, <2>1 DEF ListInv, ListVersions, ReadsVersion, redisVars
<1> QED BY <1>2, <1>3 DEF ListInv

\* Every step keeps what the list promises.
LEMMA ListNext ==
  ASSUME GovTyped, ListInv, [GovNext]_govVars
  PROVE  ListInv'
<1>1. CASE UNCHANGED govVars
  BY <1>1 DEF govVars, ListInv, ListVersions, ReadsVersion, ListFollows, ListRead, ListWriting
<1>2. ASSUME NEW i \in Instance, SetOverride(i) \/ SetGate(i) \/ RestoreSnapshot(i) PROVE ListInv'
  BY <1>2, BeginsDo, ListWritesInv DEF redisVars
<1>3. ASSUME NEW i \in Instance, Snapshot(i) PROVE ListInv'
  BY <1>3, SnapshotDoes DEF redisVars, ListInv, ListVersions, ReadsVersion, ListFollows, ListRead, ListWriting
<1>4. ASSUME NEW i \in Instance, Incr(i) \/ Set(i) PROVE ListInv'
  <2>1. /\ OnlyWrites(i) /\ UNCHANGED <<grayKey, graySeq, cache>> /\ writer[i].pc \in {"incr", "set"}
        /\ writer'[i].pc \in {"set", "check"}
    BY <1>4, IncrDoes, SetDoes
  <2> QED BY <2>1, ListWritesInv
<1>5. ASSUME NEW i \in Instance, Check(i) PROVE ListInv'
  <2>1. OnlyWrites(i) /\ UNCHANGED <<grayKey, graySeq, cache>> /\ writer[i].pc = "check"
    BY <1>5, CheckDoes DEF redisVars
  <2>2. writer'[i].pc \in {"publish", "incr", "idle"}
    <3>1. writer \in [Instance -> Writer] /\ writer[i] \in Writer
      BY DEF GovTyped, GovTypeOK
    <3> QED BY <1>5, <3>1 DEF Check, WriterGoes, WriterEnds, NoWriter, Writer
  <2> QED BY <2>1, <2>2, ListWritesInv
<1>6. ASSUME NEW i \in Instance, Publish(i) PROVE ListInv'
  <2>1. /\ OnlyWrites(i) /\ UNCHANGED <<grayKey, graySeq>> /\ writer[i].pc = "publish"
        /\ writer'[i].pc \in {"idle", "change"} /\ cache'[i].gray = cache[i].gray
    BY <1>6, PublishDoes DEF redisVars
  <2> QED BY <2>1, ListWritesInv
<1>7. ASSUME NEW i \in Instance, Change(i) \/ GrayIncr(i) PROVE ListInv'
  BY <1>7, ListChangesInv
<1>8. ASSUME NEW i \in Instance, Members(i) PROVE ListInv'
  <2>1. /\ OnlyWrites(i) /\ UNCHANGED <<grayKey, graySeq, cache>> /\ writer[i].pc = "members"
        /\ writer'[i].pc = "gpublish" /\ writer'[i].ver = writer[i].ver
    BY <1>8, MembersDoes DEF redisVars
  <2> QED BY <2>1, ListWritesInv
<1>9. ASSUME NEW i \in Instance, GrayPublish(i) PROVE ListInv'
  BY <1>9, ListPublishInv
<1>10. ASSUME NEW i \in Instance, PublishFails(i) PROVE ListInv'
  <2>1. CASE writer[i].pc = "publish"
    <3>1. /\ OnlyWrites(i) /\ UNCHANGED <<grayKey, graySeq>>
          /\ writer'[i].pc \in {"idle", "change"} /\ cache'[i].gray = cache[i].gray
      BY <1>10, <2>1, PublishDoes DEF redisVars
    <3> QED BY <2>1, <3>1, ListWritesInv
  <2>2. CASE writer[i].pc # "publish"
    BY <1>10, <2>2, ListPublishInv
  <2> QED BY <2>1, <2>2
<1>11. ASSUME NEW i \in Instance, WriteFails(i) \/ Restart(i) PROVE ListInv'
  BY <1>11, ListEndsInv, ListRestartInv
<1>12. ASSUME NEW i \in Instance, Subscribe(i) \/ LoadOvr(i) \/ Receive(i) PROVE ListInv'
  <2>1. /\ OnlyReads(i) /\ UNCHANGED cache /\ sync'[i].pc \in {"all", "allgray", "ovr", "gray"}
        /\ "gray" \in missed[i] => "gray" \in missed'[i]
        /\ sync'[i].pc \in {"all", "allgray"} => sync[i].pc \in {"down", "all"} /\ inbox'[i] = inbox[i]
        /\ sync'[i].pc = "ovr" => sync[i].pc = "listen" /\ ("gray" \in inbox[i] => "gray" \in inbox'[i])
    BY <1>12, SubscribeDoes, LoadOvrDoes, ReceiveDoes DEF Kind
  <2>2. cache[i].gray.ver <= graySeq /\ ListFollows(i) /\ UNCHANGED grayKey
    BY <2>1 DEF ListInv, ListVersions, OnlyReads, redisVars
  <2>3. "gray" \notin missed'[i] \cup inbox'[i] /\ ~ListWriting => ListRead(i)'
    BY <2>1, <2>2 DEF ListFollows, ListRead
  <2> QED BY <2>1, <2>2, <2>3, ListReadsInv DEF ReadsVersion
<1>13. ASSUME NEW i \in Instance, LoadNames(i) PROVE ListInv'
  <2>1. /\ OnlyReads(i) /\ UNCHANGED <<cache, inbox, missed>> /\ sync[i].pc = "allgray"
        /\ sync'[i].pc = (IF grayKey # {} THEN "allver" ELSE "allapply") /\ sync'[i].found = FALSE
    BY <1>13, LoadNamesDoes
  <2>2. cache[i].gray.ver <= graySeq /\ ListFollows(i) /\ UNCHANGED grayKey
    BY <2>1 DEF ListInv, ListVersions, OnlyReads, redisVars
  <2>3. "gray" \notin missed'[i] \cup inbox'[i] /\ ~ListWriting => ListRead(i)'
    BY <2>1, <2>2 DEF ListFollows, ListRead
  <2>4. ~ReadsVersion(i)'
    BY <2>1 DEF ReadsVersion
  <2> QED BY <2>1, <2>2, <2>3, <2>4, ListReadsInv
<1>14. ASSUME NEW i \in Instance, LoadMembers(i) \/ ReloadMembers(i) PROVE ListInv'
  <2>1. /\ OnlyReads(i) /\ UNCHANGED <<cache, inbox, missed>>
        /\ sync'[i].gray.ver = sync[i].gray.ver /\ sync'[i].gray.members = grayKey
        /\ \/ sync[i].pc = "allmembers" /\ sync'[i].pc = "allapply" /\ sync'[i].found = TRUE
           \/ sync[i].pc = "graymembers" /\ sync'[i].pc = "grayapply"
    BY <1>14, LoadMembersDoes, ReloadMembersDoes
  <2>2. /\ cache[i].gray.ver <= graySeq /\ ListFollows(i) /\ UNCHANGED grayKey
        /\ ReadsVersion(i) => sync[i].gray.ver <= graySeq
    BY <2>1 DEF ListInv, ListVersions, OnlyReads, redisVars
  <2>3. "gray" \notin missed'[i] \cup inbox'[i] /\ ~ListWriting => ListRead(i)'
    BY <2>1, <2>2 DEF ListFollows, ListRead
  <2>4. sync'[i].gray.ver <= graySeq
    BY <2>1, <2>2 DEF ReadsVersion
  <2> QED BY <2>1, <2>2, <2>3, <2>4, ListReadsInv
<1>15. ASSUME NEW i \in Instance, LoadGray(i) \/ ReloadGray(i) PROVE ListInv'
  <2>1. /\ OnlyReads(i) /\ UNCHANGED <<cache, inbox>> /\ sync'[i].pc \in {"allmembers", "graymembers"}
        /\ sync'[i].gray.ver = graySeq
    BY <1>15, LoadGrayDoes, ReloadGrayDoes
  <2>2. cache[i].gray.ver <= graySeq /\ graySeq \in Nat
    BY ListVersionsTyped DEF ListInv, ListVersions
  <2>3. ListRead(i)'
    BY <2>1, <2>2 DEF ListRead
  <2> QED BY <2>1, <2>2, <2>3, ListReadsInv
<1>16. ASSUME NEW i \in Instance, ReloadOvr(i) \/ ApplyOvr(i) PROVE ListInv'
  <2>1. /\ OnlyReads(i) /\ UNCHANGED inbox /\ cache'[i].gray = cache[i].gray
        /\ sync[i].pc \in {"ovr", "ovrapply"} /\ sync'[i].pc \in {"ovrapply", "listen"}
        /\ "gray" \in missed[i] => "gray" \in missed'[i]
    BY <1>16, ReloadOvrDoes, ApplyOvrDoes
  <2>2. cache[i].gray.ver <= graySeq /\ ListFollows(i) /\ UNCHANGED grayKey
    BY <2>1 DEF ListInv, ListVersions, OnlyReads, redisVars
  <2>3. "gray" \notin missed'[i] \cup inbox'[i] /\ ~ListWriting => ListRead(i)'
    BY <2>1, <2>2 DEF ListFollows, ListRead
  <2> QED BY <2>1, <2>2, <2>3, ListReadsInv DEF ReadsVersion
<1>17. ASSUME NEW i \in Instance, ApplyAll(i) \/ ApplyGray(i) PROVE ListInv'
  <2>1. /\ OnlyReads(i) /\ UNCHANGED <<inbox, missed>> /\ sync'[i].pc \in {"listen", "down"}
        /\ sync[i].pc \in {"allapply", "grayapply"}
        /\ sync[i].pc = "allapply" /\ ~sync[i].found => cache'[i].gray = cache[i].gray
        /\ sync[i].pc = "grayapply" \/ sync[i].found => cache'[i].gray = AppliedGray(cache[i].gray, sync[i].gray)
    BY <1>17, ApplyAllDoes, ApplyGrayDoes
  <2>2. /\ cache[i].gray.ver <= graySeq /\ ListFollows(i) /\ UNCHANGED grayKey
        /\ ReadsVersion(i) => sync[i].gray.ver <= graySeq
        /\ cache[i].gray.ver \in Nat /\ sync[i].gray.ver \in Nat
    BY <2>1, ListVersionsTyped DEF ListInv, ListVersions, OnlyReads, redisVars
  <2>3. \/ cache'[i].gray = cache[i].gray
        \/ cache'[i].gray = sync[i].gray /\ sync[i].gray.ver <= graySeq
    BY <2>1, <2>2 DEF AppliedGray, ReadsVersion
  <2>4. "gray" \notin missed'[i] \cup inbox'[i] /\ ~ListWriting => ListRead(i)'
    <3> SUFFICES ASSUME "gray" \notin missed[i] \cup inbox[i], ~ListWriting PROVE ListRead(i)'
      BY <2>1
    <3>1. ListRead(i)
      BY <2>2 DEF ListFollows
    <3>2. cache'[i].gray.members = grayKey
      <4>1. CASE sync[i].pc = "allapply" /\ ~sync[i].found
        BY <2>1, <3>1, <4>1 DEF ListRead
      <4>2. CASE ~(sync[i].pc = "allapply" /\ ~sync[i].found)
        <5>1. cache[i].gray.ver <= sync[i].gray.ver /\ sync[i].gray.members = grayKey
          BY <2>1, <3>1, <4>2 DEF ListRead
        <5>2. cache'[i].gray = AppliedGray(cache[i].gray, sync[i].gray)
          BY <2>1, <4>2
        <5>3. Takes(cache[i].gray, sync[i].gray)
          BY <2>2, <5>1 DEF Takes
        <5> QED BY <5>1, <5>2, <5>3 DEF AppliedGray
      <4> QED BY <4>1, <4>2
    <3> QED BY <2>1, <2>2, <3>2 DEF ListRead
  <2>5. cache'[i].gray.ver <= graySeq /\ ~ReadsVersion(i)'
    BY <2>1, <2>2, <2>3 DEF ReadsVersion
  <2> QED BY <2>1, <2>4, <2>5, ListReadsInv
<1>18. ASSUME NEW i \in Instance, LoadFails(i) \/ ReloadFails(i) \/ Disconnect(i) PROVE ListInv'
  <2>1. /\ OnlyReads(i) /\ UNCHANGED cache /\ sync'[i].pc \in {"listen", "down"}
        /\ missed[i] \subseteq missed'[i] /\ inbox[i] \subseteq inbox'[i] \cup missed'[i]
        /\ sync[i].pc \in {"all", "allgray", "allver", "allmembers"} => missed'[i] = Kind
        /\ sync[i].pc \in {"gray", "graymembers"} => "gray" \in missed'[i]
        /\ sync[i].pc \notin {"allapply", "ovrapply", "grayapply", "down"}
    BY <1>18, ReadFailsDoes
  <2>2. cache[i].gray.ver <= graySeq /\ ListFollows(i) /\ UNCHANGED grayKey
    BY <2>1 DEF ListInv, ListVersions, OnlyReads, redisVars
  <2>3. sync[i].pc \in SyncPc
    <3>1. sync[i] \in Sync
      BY DEF GovTyped, GovTypeOK
    <3> QED BY <3>1 DEF Sync, SyncPc
  <2>4. "gray" \notin missed'[i] \cup inbox'[i] /\ ~ListWriting => ListRead(i)'
    BY <2>1, <2>2, <2>3 DEF ListFollows, ListRead, Kind, SyncPc
  <2> QED BY <2>1, <2>2, <2>4, ListReadsInv DEF ReadsVersion
<1>19. QED
  BY <1>1, <1>2, <1>3, <1>4, <1>5, <1>6, <1>7, <1>8, <1>9, <1>10, <1>11, <1>12, <1>13, <1>14, <1>15, <1>16, <1>17,
    <1>18 DEF GovNext

\* The override, while its writes do not overlap.  A writer that has set it has its message to send.
OvrWritten == \E j \in Instance : writer[j].pc \in {"check", "publish"}
ReadOvr(i) == sync[i].pc \in {"allgray", "allver", "allmembers", "allapply", "ovrapply"}
\* The key is what was never written, or written with a version.
OvrKnown == ovrKey.ver \in Nat /\ ovrSeq \in Nat /\ ovrKey.ver <= ovrSeq
            /\ (ovrKey = NoOverride \/ (ovrKey.ver > 0 /\ ovrKey.val # Unset))
\* A value that was the key's, or is.
Held(o) == o = ovrKey \/ o.ver < ovrKey.ver
OvrWriters ==
  /\ \A i, j \in Instance : OvrWriting(i) /\ OvrWriting(j) => i = j
  /\ \A i \in Instance :
       /\ OvrWriting(i) => writer[i].val # Unset
       /\ WriterAt(i, "set") => writer[i].ver = ovrSeq /\ ovrKey.ver < ovrSeq
       /\ writer[i].pc \in {"check", "publish"} => ovrKey = [ver |-> writer[i].ver, val |-> writer[i].val]
OvrHeld(i) == Held(cache[i].ovr) /\ (ReadOvr(i) => Held(sync[i].ovr))
OvrRead(i) ==
  /\ ReadOvr(i) => sync[i].ovr = ovrKey
  /\ sync[i].pc \in {"down", "listen", "gray", "graymembers", "grayapply"} => cache[i].ovr = ovrKey
OvrFollows(i) == "ovr" \notin missed[i] \cup inbox[i] /\ ~OvrWritten => OvrRead(i)
OvrSure == OvrKnown /\ OvrWriters /\ \A i \in Instance : OvrHeld(i) /\ OvrFollows(i)
OvrInv == ~raced => OvrSure

\* The versions in every cache refuse what is older than the key, and take the key.
LEMMA HeldApplies ==
  ASSUME OvrKnown, NEW o, NEW n, Held(o), Held(n), o.ver \in Nat, n.ver \in Nat
  PROVE  Held(AppliedOvr(o, n)) /\ (n = ovrKey => AppliedOvr(o, n) = ovrKey)
<1>1. NoOverride.ver = 0 /\ NoOverride.val = Unset
  BY DEF NoOverride
<1>2. CASE n = ovrKey
  <2>1. CASE n.val = Unset
    BY <1>2, <2>1 DEF OvrKnown, AppliedOvr, Held
  <2>2. CASE n.val # Unset
    <3>1. n.ver >= o.ver
      BY <1>2 DEF Held, OvrKnown
    <3> QED BY <1>2, <2>2, <3>1 DEF AppliedOvr, Takes, Held
  <2> QED BY <2>1, <2>2
<1>3. CASE n.ver < ovrKey.ver /\ n # ovrKey
  <2>1. Held(NoOverride)
    BY <1>1, <1>3 DEF Held, OvrKnown
  <2> QED BY <1>3, <2>1 DEF AppliedOvr
<1> QED BY <1>2, <1>3 DEF Held

LEMMA OvrTyped ==
  ASSUME GovTyped
  PROVE  /\ ovrKey.ver \in Nat /\ ovrSeq \in Nat
         /\ \A i \in Instance : cache[i].ovr.ver \in Nat /\ sync[i].ovr.ver \in Nat /\ writer[i].ver \in Nat
<1>1. ASSUME NEW i \in Instance
      PROVE  cache[i].ovr.ver \in Nat /\ sync[i].ovr.ver \in Nat /\ writer[i].ver \in Nat
  <2>1. cache[i] \in Cache /\ sync[i] \in Sync /\ writer[i] \in Writer
    BY DEF GovTyped, GovTypeOK
  <2> QED BY <2>1 DEF Cache, Sync, Writer, Override, Version
<1>2. ovrSeq \in Nat /\ ovrKey \in Override
  BY DEF GovTyped, GovTypeOK, Version
<1> QED BY <1>1, <1>2 DEF Override, Version

\* A process that did nothing answers as it did.
LEMMA OvrStays ==
  ASSUME NEW k \in Instance, OvrHeld(k), OvrFollows(k),
         cache'[k].ovr = cache[k].ovr, sync'[k] = sync[k],
         missed[k] \subseteq missed'[k], inbox[k] \subseteq inbox'[k], UNCHANGED ovrKey,
         OvrWritten => OvrWritten' \/ "ovr" \in missed'[k] \cup inbox'[k]
  PROVE  OvrHeld(k)' /\ OvrFollows(k)'
BY DEF OvrHeld, OvrFollows, OvrRead, ReadOvr, Held

\* One write moves on: the key and the counter stay, and there is no new writer of the override.
LEMMA WritersStay ==
  ASSUME OvrWriters, NEW i \in Instance, \A j \in Instance \ {i} : writer'[j] = writer[j],
         UNCHANGED <<ovrKey, ovrSeq>>,
         OvrWriting(i)' => /\ OvrWriting(i) /\ writer'[i].pc # "set" /\ writer'[i].val = writer[i].val
                           /\ writer'[i].pc \in {"check", "publish"} =>
                                writer[i].pc \in {"check", "publish"} /\ writer'[i].ver = writer[i].ver
  PROVE  OvrWriters'
<1>1. \A k \in Instance : OvrWriting(k)' => OvrWriting(k)
  BY DEF OvrWriting
<1>2. ASSUME NEW k \in Instance
      PROVE  (/\ OvrWriting(k) => writer[k].val # Unset
              /\ WriterAt(k, "set") => writer[k].ver = ovrSeq /\ ovrKey.ver < ovrSeq
              /\ writer[k].pc \in {"check", "publish"} => ovrKey = [ver |-> writer[k].ver, val |-> writer[k].val])'
  <2>1. CASE k = i
    BY <2>1 DEF OvrWriters, OvrWriting, WriterAt
  <2>2. CASE k # i
    BY <2>2 DEF OvrWriters, OvrWriting, WriterAt
  <2> QED BY <2>1, <2>2
<1> QED BY <1>1, <1>2 DEF OvrWriters

LEMMA WrittenStays ==
  ASSUME NEW i \in Instance, \A j \in Instance \ {i} : writer'[j] = writer[j],
         writer[i].pc \in {"check", "publish"} => writer'[i].pc \in {"check", "publish"}
  PROVE  OvrWritten => OvrWritten'
BY DEF OvrWritten

\* A write that leaves the override as it is.
LEMMA OvrWritesInv ==
  ASSUME GovTyped, OvrSure, NEW i \in Instance, OnlyWrites(i), UNCHANGED <<ovrKey, ovrSeq>>, OvrWriters',
         cache'[i].ovr = cache[i].ovr,
         \A k \in Instance : OvrWritten => OvrWritten' \/ "ovr" \in missed'[k] \cup inbox'[k]
  PROVE  OvrSure'
<1>1. ASSUME NEW k \in Instance PROVE OvrHeld(k)' /\ OvrFollows(k)'
  <2>1. /\ cache'[k].ovr = cache[k].ovr /\ sync'[k] = sync[k] /\ OvrHeld(k) /\ OvrFollows(k)
        /\ missed[k] \subseteq missed'[k] /\ inbox[k] \subseteq inbox'[k]
    BY DEF OnlyWrites, OvrSure
  <2> QED BY <2>1, OvrStays
<1>2. OvrKnown'
  BY DEF OvrSure, OvrKnown
<1> QED BY <1>1, <1>2 DEF OvrSure

\* A process reads something: the others answer as they did.
LEMMA OvrReadsInv ==
  ASSUME GovTyped, OvrSure, NEW i \in Instance, OnlyReads(i), OvrHeld(i)',
         "ovr" \notin missed'[i] \cup inbox'[i] /\ ~OvrWritten => OvrRead(i)'
  PROVE  OvrSure'
<1>1. UNCHANGED <<ovrKey, ovrSeq, writer>>
  BY DEF OnlyReads, redisVars
<1>2. (OvrWritten' <=> OvrWritten) /\ OvrWriters' /\ OvrKnown'
  BY <1>1 DEF OvrSure, OvrWritten, OvrWriters, OvrWriting, WriterAt, OvrKnown
<1>3. ASSUME NEW k \in Instance PROVE OvrHeld(k)' /\ OvrFollows(k)'
  <2>1. CASE k = i
    BY <1>2, <2>1 DEF OvrFollows
  <2>2. CASE k # i
    <3>1. /\ cache'[k] = cache[k] /\ sync'[k] = sync[k] /\ OvrHeld(k) /\ OvrFollows(k)
          /\ missed'[k] = missed[k] /\ inbox'[k] = inbox[k]
      BY <2>2 DEF OnlyReads, OvrSure
    <3> QED BY <1>1, <1>2, <3>1, OvrStays
  <2> QED BY <2>1, <2>2
<1> QED BY <1>2, <1>3 DEF OvrSure

\* The counter goes up, and then the key takes its version: nobody else writes it.
LEMMA OvrIncrInv ==
  ASSUME GovTyped, OvrSure, NEW i \in Instance, Incr(i)
  PROVE  OvrSure'
<1>1. /\ writer[i].pc = "incr" /\ OnlyWrites(i) /\ ovrSeq' = ovrSeq + 1
      /\ writer'[i].pc = "set" /\ writer'[i].val = writer[i].val /\ writer'[i].ver = ovrSeq'
      /\ UNCHANGED <<ovrKey, cache, inbox, missed>>
  BY IncrDoes
<1>2. OvrKnown' /\ ovrKey.ver < ovrSeq'
  BY <1>1 DEF OvrSure, OvrKnown
<1>3. \A k \in Instance \ {i} : ~OvrWriting(k) /\ writer'[k] = writer[k]
  BY <1>1 DEF OvrSure, OvrWriters, OvrWriting, OnlyWrites
<1>4. OvrWriters'
  BY <1>1, <1>2, <1>3 DEF OvrSure, OvrWriters, OvrWriting, WriterAt
<1>5. OvrWritten => OvrWritten'
  BY <1>1, WrittenStays DEF OnlyWrites
<1>6. ASSUME NEW k \in Instance PROVE OvrHeld(k)' /\ OvrFollows(k)'
  <2>1. cache'[k].ovr = cache[k].ovr /\ sync'[k] = sync[k] /\ OvrHeld(k) /\ OvrFollows(k)
    BY <1>1 DEF OnlyWrites, OvrSure
  <2> QED BY <1>1, <1>5, <2>1, OvrStays
<1> QED BY <1>2, <1>4, <1>6 DEF OvrSure

LEMMA OvrSetInv ==
  ASSUME GovTyped, OvrSure, NEW i \in Instance, Set(i)
  PROVE  OvrSure'
<1>1. /\ writer[i].pc = "set" /\ OnlyWrites(i)
      /\ ovrKey' = [ver |-> writer[i].ver, val |-> writer[i].val]
      /\ writer'[i].pc = "check" /\ writer'[i].val = writer[i].val /\ writer'[i].ver = writer[i].ver
      /\ UNCHANGED <<ovrSeq, cache, inbox, missed>>
  BY SetDoes
<1>2. writer[i].ver = ovrSeq /\ ovrKey.ver < ovrSeq /\ writer[i].val # Unset /\ ovrSeq \in Nat /\ ovrKey.ver \in Nat
  BY <1>1 DEF OvrSure, OvrKnown, OvrWriters, OvrWriting, WriterAt
<1>3. ovrKey'.ver = ovrSeq /\ ovrKey'.val # Unset
  BY <1>1, <1>2
<1>4. OvrKnown'
  BY <1>1, <1>2, <1>3 DEF OvrKnown
<1>5. \A k \in Instance \ {i} : ~OvrWriting(k) /\ writer'[k] = writer[k]
  BY <1>1 DEF OvrSure, OvrWriters, OvrWriting, OnlyWrites
<1>6. OvrWriters'
  BY <1>1, <1>2, <1>5 DEF OvrWriters, OvrWriting, WriterAt
<1>7. OvrWritten'
  BY <1>1 DEF OvrWritten
<1>8. ASSUME NEW k \in Instance PROVE OvrHeld(k)'
  <2>1. cache'[k].ovr = cache[k].ovr /\ sync'[k] = sync[k] /\ OvrHeld(k)
    BY <1>1 DEF OnlyWrites, OvrSure
  <2>2. ASSUME NEW o, o.ver \in Nat, Held(o) PROVE o.ver < ovrKey'.ver
    BY <1>2, <1>3, <2>2 DEF Held
  <2>3. cache[k].ovr.ver \in Nat /\ sync[k].ovr.ver \in Nat
    BY OvrTyped
  <2>4. cache'[k].ovr.ver < ovrKey'.ver
    BY <2>1, <2>2, <2>3 DEF OvrHeld
  <2>5. ReadOvr(k)' => sync'[k].ovr.ver < ovrKey'.ver
    BY <2>1, <2>2, <2>3 DEF OvrHeld, ReadOvr
  <2> QED BY <2>4, <2>5 DEF OvrHeld, Held
<1> QED BY <1>4, <1>6, <1>7, <1>8 DEF OvrSure, OvrFollows

LEMMA OvrPublishInv ==
  ASSUME GovTyped, OvrSure, NEW i \in Instance, Publish(i) \/ (PublishFails(i) /\ writer[i].pc = "publish")
  PROVE  OvrSure'
<1>1. /\ writer[i].pc = "publish" /\ OnlyWrites(i) /\ UNCHANGED redisVars /\ writer'[i].pc \in {"idle", "change"}
      /\ cache'[i].ovr = AppliedOvr(cache[i].ovr, [ver |-> writer[i].ver, val |-> writer[i].val])
      /\ \A j \in Instance : "ovr" \in inbox'[j] \/ "ovr" \in missed'[j]
  BY PublishDoes
<1>2. ovrKey = [ver |-> writer[i].ver, val |-> writer[i].val] /\ UNCHANGED <<ovrKey, ovrSeq>>
  BY <1>1 DEF OvrSure, OvrWriters, redisVars
<1>3. cache'[i].ovr = ovrKey
  <2>1. Held(cache[i].ovr) /\ Held(ovrKey) /\ OvrKnown
    BY DEF OvrSure, OvrHeld, Held
  <2>2. cache[i].ovr.ver \in Nat /\ ovrKey.ver \in Nat
    BY OvrTyped
  <2> QED BY <1>1, <1>2, <2>1, <2>2, HeldApplies
<1>4. OvrKnown' /\ OvrWriters'
  <2>1. ~OvrWriting(i)' /\ \A j \in Instance \ {i} : writer'[j] = writer[j]
    BY <1>1 DEF OvrWriting, OnlyWrites
  <2>2. OvrWriters'
    BY <1>2, <2>1, WritersStay DEF OvrSure
  <2> QED BY <1>2, <2>2 DEF OvrSure, OvrKnown
<1>5. ASSUME NEW k \in Instance PROVE OvrHeld(k)'
  <2>1. sync'[k] = sync[k] /\ OvrHeld(k) /\ (k # i => cache'[k] = cache[k])
    BY <1>1 DEF OnlyWrites, OvrSure
  <2> QED BY <1>2, <1>3, <2>1 DEF OvrHeld, Held, ReadOvr
<1>6. \A k \in Instance : OvrFollows(k)'
  BY <1>1 DEF OvrFollows
<1> QED BY <1>4, <1>5, <1>6 DEF OvrSure

\* A write or a process ends with its message unsent: everybody misses it.
LEMMA OvrFailsInv ==
  ASSUME GovTyped, OvrSure, NEW i \in Instance, WriteFails(i)
  PROVE  OvrSure'
<1>1. /\ OnlyWrites(i) /\ writer'[i].pc = "idle" /\ UNCHANGED <<redisVars, cache, inbox>>
      /\ \A j \in Instance : WrittenBy(i) \subseteq missed'[j]
  BY WriteFailsDoes
<1>2. UNCHANGED <<ovrKey, ovrSeq>> /\ ~OvrWriting(i)' /\ \A j \in Instance \ {i} : writer'[j] = writer[j]
  BY <1>1 DEF redisVars, OvrWriting, OnlyWrites
<1>3. OvrWriters'
  BY <1>2, WritersStay DEF OvrSure
<1>4. ASSUME NEW k \in Instance PROVE OvrWritten => OvrWritten' \/ "ovr" \in missed'[k]
  <2>1. CASE writer[i].pc \in {"check", "publish"}
    <3>1. "ovr" \in WrittenBy(i)
      BY <2>1 DEF WrittenBy
    <3> QED BY <1>1, <3>1
  <2>2. CASE writer[i].pc \notin {"check", "publish"}
    BY <1>2, <2>2, WrittenStays
  <2> QED BY <2>1, <2>2
<1> QED BY <1>1, <1>2, <1>3, <1>4, OvrWritesInv

LEMMA OvrRestartInv ==
  ASSUME GovTyped, OvrSure, NEW i \in Instance, Restart(i)
  PROVE  OvrSure'
<1>1. /\ UNCHANGED redisVars /\ writer'[i].pc = "idle"
      /\ \A j \in Instance \ {i} :
              /\ writer'[j] = writer[j] /\ cache'[j] = cache[j] /\ sync'[j] = sync[j] /\ inbox'[j] = inbox[j]
              /\ missed[j] \subseteq missed'[j]
      /\ \A j \in Instance : WrittenBy(i) \subseteq missed'[j]
      /\ cache'[i] = EmptyCache /\ sync'[i].pc = "all" /\ inbox'[i] = {}
  BY RestartDoes
<1>2. UNCHANGED <<ovrKey, ovrSeq>> /\ ~OvrWriting(i)'
  BY <1>1 DEF redisVars, OvrWriting
<1>3. OvrWriters' /\ OvrKnown'
  <2>1. OvrWriters'
    BY <1>1, <1>2, WritersStay DEF OvrSure
  <2> QED BY <1>2, <2>1 DEF OvrSure, OvrKnown
<1>4. ASSUME NEW k \in Instance PROVE OvrWritten => OvrWritten' \/ "ovr" \in missed'[k]
  <2>1. CASE writer[i].pc \in {"check", "publish"}
    <3>1. "ovr" \in WrittenBy(i)
      BY <2>1 DEF WrittenBy
    <3> QED BY <1>1, <3>1
  <2>2. CASE writer[i].pc \notin {"check", "publish"}
    BY <1>1, <2>2, WrittenStays
  <2> QED BY <2>1, <2>2
<1>5. ASSUME NEW k \in Instance PROVE OvrHeld(k)' /\ OvrFollows(k)'
  <2>1. CASE k = i
    <3>1. Held(NoOverride)'
      <4>1. NoOverride.ver = 0
        BY DEF NoOverride
      <4> QED BY <1>2, <4>1 DEF OvrSure, OvrKnown, Held
    <3>2. cache'[i].ovr = NoOverride
      BY <1>1 DEF EmptyCache
    <3> QED BY <1>1, <2>1, <3>1, <3>2 DEF OvrHeld, OvrFollows, OvrRead, ReadOvr
  <2>2. CASE k # i
    <3>1. /\ cache'[k].ovr = cache[k].ovr /\ sync'[k] = sync[k] /\ OvrHeld(k) /\ OvrFollows(k)
          /\ missed[k] \subseteq missed'[k] /\ inbox[k] \subseteq inbox'[k]
      BY <1>1, <2>2 DEF OvrSure
    <3> QED BY <1>2, <1>4, <3>1, OvrStays
  <2> QED BY <2>1, <2>2
<1> QED BY <1>3, <1>5 DEF OvrSure

LEMMA OvrNext ==
  ASSUME GovTyped, OvrSure, [GovNext]_govVars, ~raced'
  PROVE  OvrSure'
<1>1. CASE UNCHANGED govVars
  BY <1>1 DEF govVars, OvrSure, OvrKnown, OvrWriters, OvrWriting, WriterAt, OvrHeld, Held, ReadOvr, OvrFollows, OvrRead,
    OvrWritten
<1>2. ASSUME NEW i \in Instance, SetOverride(i) \/ SetGate(i) \/ RestoreSnapshot(i) PROVE OvrSure'
  <2>1. /\ writer[i].pc = "idle" /\ writer'[i].pc \in {"incr", "change"} /\ OnlyWrites(i)
        /\ (writer'[i].pc = "incr" => writer'[i].val # Unset)
        /\ (writer'[i].pc = "incr" => \A j \in Instance : ~OvrWriting(j))
        /\ UNCHANGED <<ovrKey, ovrSeq, cache>>
    BY <1>2, BeginsDo DEF redisVars
  <2>2. OvrWriters'
    BY <2>1 DEF OvrSure, OvrWriters, OvrWriting, WriterAt, OnlyWrites
  <2>3. OvrWritten => OvrWritten'
    BY <2>1, WrittenStays DEF OnlyWrites
  <2> QED BY <2>1, <2>2, <2>3, OvrWritesInv
<1>3. ASSUME NEW i \in Instance, Snapshot(i) PROVE OvrSure'
  BY <1>3, SnapshotDoes DEF redisVars, OvrSure, OvrKnown, OvrWriters, OvrWriting, WriterAt, OvrHeld, Held, ReadOvr,
    OvrFollows, OvrRead, OvrWritten
<1>4. ASSUME NEW i \in Instance, Incr(i) \/ Set(i) PROVE OvrSure'
  BY <1>4, OvrIncrInv, OvrSetInv
<1>5. ASSUME NEW i \in Instance, Check(i) PROVE OvrSure'
  <2>1. /\ writer[i].pc = "check" /\ OnlyWrites(i) /\ UNCHANGED <<ovrKey, ovrSeq, cache>>
        /\ \/ /\ writer'[i].pc = "publish"
              /\ writer'[i].val = writer[i].val /\ writer'[i].ver = writer[i].ver
           \/ ovrKey.ver # writer[i].ver
    BY <1>5, CheckDoes DEF redisVars
  <2>2. ovrKey.ver = writer[i].ver
    <3>1. ovrKey = [ver |-> writer[i].ver, val |-> writer[i].val]
      BY <2>1 DEF OvrSure, OvrWriters
    <3> QED BY <3>1
  <2>3. /\ writer'[i].pc = "publish" /\ writer'[i].val = writer[i].val /\ writer'[i].ver = writer[i].ver
        /\ \A j \in Instance \ {i} : writer'[j] = writer[j]
    BY <2>1, <2>2 DEF OnlyWrites
  <2>4. OvrWriters'
    BY <2>1, <2>3, WritersStay DEF OvrSure, OvrWriting
  <2>5. OvrWritten => OvrWritten'
    BY <2>3, WrittenStays
  <2> QED BY <2>1, <2>4, <2>5, OvrWritesInv
<1>6. ASSUME NEW i \in Instance, Publish(i) PROVE OvrSure'
  BY <1>6, OvrPublishInv
<1>7. ASSUME NEW i \in Instance,
             Change(i) \/ GrayIncr(i) \/ Members(i) \/ GrayPublish(i) \/ (PublishFails(i) /\ writer[i].pc # "publish")
      PROVE  OvrSure'
  <2>1. /\ OnlyWrites(i) /\ UNCHANGED <<ovrKey, ovrSeq>> /\ cache'[i].ovr = cache[i].ovr
        /\ writer[i].pc \in {"change", "gincr", "members", "gpublish"}
        /\ writer'[i].pc \in {"gincr", "members", "gpublish", "idle"}
    BY <1>7, ChangeDoes, GrayIncrDoes, MembersDoes, GrayPublishDoes DEF redisVars
  <2>2. OvrWriters'
    BY <2>1, WritersStay DEF OvrSure, OvrWriting, OnlyWrites
  <2>3. OvrWritten => OvrWritten'
    BY <2>1, WrittenStays DEF OnlyWrites
  <2> QED BY <2>1, <2>2, <2>3, OvrWritesInv
<1>8. ASSUME NEW i \in Instance, PublishFails(i) PROVE OvrSure'
  BY <1>7, <1>8, OvrPublishInv
<1>9. ASSUME NEW i \in Instance, WriteFails(i) \/ Restart(i) PROVE OvrSure'
  BY <1>9, OvrFailsInv, OvrRestartInv
<1>10. ASSUME NEW i \in Instance, Subscribe(i) \/ LoadOvr(i) \/ ReloadOvr(i) \/ Receive(i) PROVE OvrSure'
  <2>1. /\ OnlyReads(i) /\ UNCHANGED cache
        /\ \/ sync[i].pc = "down" /\ sync'[i].pc = "all" /\ UNCHANGED <<inbox, missed>>
           \/ sync[i].pc = "all" /\ sync'[i].pc = "allgray" /\ sync'[i].ovr = ovrKey
           \/ sync[i].pc = "ovr" /\ sync'[i].pc = "ovrapply" /\ sync'[i].ovr = ovrKey
           \/ /\ sync[i].pc = "listen" /\ UNCHANGED missed
              /\ \E kind \in Kind : inbox'[i] = inbox[i] \ {kind} /\ sync'[i].pc = kind
    BY <1>10, SubscribeDoes, LoadOvrDoes, ReloadOvrDoes, ReceiveDoes
  <2>2. OvrHeld(i) /\ OvrFollows(i) /\ UNCHANGED ovrKey
    BY <2>1 DEF OvrSure, OnlyReads, redisVars
  <2>3. OvrHeld(i)'
    BY <2>1, <2>2 DEF OvrHeld, Held, ReadOvr, Kind
  <2>4. "ovr" \notin missed'[i] \cup inbox'[i] /\ ~OvrWritten => OvrRead(i)'
    BY <2>1, <2>2 DEF OvrFollows, OvrRead, ReadOvr, Kind
  <2> QED BY <2>1, <2>3, <2>4, OvrReadsInv
<1>11. ASSUME NEW i \in Instance, LoadNames(i) \/ LoadGray(i) \/ LoadMembers(i) PROVE OvrSure'
  <2>1. /\ OnlyReads(i) /\ UNCHANGED <<cache, inbox>>
        /\ sync[i].pc \in {"allgray", "allver", "allmembers"} /\ sync'[i].pc \in {"allver", "allmembers", "allapply"}
        /\ sync'[i].ovr = sync[i].ovr /\ ("ovr" \in missed[i] => "ovr" \in missed'[i])
    BY <1>11, LoadNamesDoes, LoadGrayDoes, LoadMembersDoes
  <2>2. OvrHeld(i) /\ OvrFollows(i) /\ UNCHANGED ovrKey
    BY <2>1 DEF OvrSure, OnlyReads, redisVars
  <2>3. OvrHeld(i)'
    BY <2>1, <2>2 DEF OvrHeld, Held, ReadOvr
  <2>4. "ovr" \notin missed'[i] \cup inbox'[i] /\ ~OvrWritten => OvrRead(i)'
    BY <2>1, <2>2 DEF OvrFollows, OvrRead, ReadOvr
  <2> QED BY <2>1, <2>3, <2>4, OvrReadsInv
<1>12. ASSUME NEW i \in Instance, ReloadGray(i) \/ ReloadMembers(i) \/ ApplyGray(i) PROVE OvrSure'
  <2>1. /\ OnlyReads(i) /\ UNCHANGED inbox /\ cache'[i].ovr = cache[i].ovr
        /\ sync[i].pc \in {"gray", "graymembers", "grayapply"} /\ sync'[i].pc \in {"graymembers", "grayapply", "listen"}
        /\ ("ovr" \in missed[i] => "ovr" \in missed'[i])
    BY <1>12, ReloadGrayDoes, ReloadMembersDoes, ApplyGrayDoes
  <2>2. OvrHeld(i) /\ OvrFollows(i) /\ UNCHANGED ovrKey
    BY <2>1 DEF OvrSure, OnlyReads, redisVars
  <2>3. OvrHeld(i)'
    BY <2>1, <2>2 DEF OvrHeld, Held, ReadOvr
  <2>4. "ovr" \notin missed'[i] \cup inbox'[i] /\ ~OvrWritten => OvrRead(i)'
    BY <2>1, <2>2 DEF OvrFollows, OvrRead, ReadOvr
  <2> QED BY <2>1, <2>3, <2>4, OvrReadsInv
<1>13. ASSUME NEW i \in Instance, ApplyAll(i) \/ ApplyOvr(i) PROVE OvrSure'
  <2>1. /\ OnlyReads(i) /\ UNCHANGED <<inbox, missed>> /\ sync[i].pc \in {"allapply", "ovrapply"}
        /\ sync'[i].pc \in {"listen", "down"}
        /\ \/ sync[i].pc = "allapply" /\ sync[i].ovr.val = Unset /\ cache'[i].ovr = cache[i].ovr
           \/ cache'[i].ovr = AppliedOvr(cache[i].ovr, sync[i].ovr)
    BY <1>13, ApplyAllDoes, ApplyOvrDoes
  <2>2. OvrHeld(i) /\ OvrFollows(i) /\ UNCHANGED ovrKey /\ OvrKnown
    BY <2>1 DEF OvrSure, OnlyReads, redisVars
  <2>3. Held(cache[i].ovr) /\ Held(sync[i].ovr) /\ cache[i].ovr.ver \in Nat /\ sync[i].ovr.ver \in Nat
    BY <2>1, <2>2, OvrTyped DEF OvrHeld, ReadOvr
  <2>4. Held(cache'[i].ovr) /\ (sync[i].ovr = ovrKey => cache'[i].ovr = ovrKey)
    <3>1. CASE sync[i].ovr.val = Unset /\ cache'[i].ovr = cache[i].ovr
      <4>1. sync[i].ovr = ovrKey => cache[i].ovr = ovrKey
        BY <2>2, <2>3, <3>1 DEF OvrKnown, Held, NoOverride
      <4> QED BY <2>3, <3>1, <4>1
    <3>2. CASE cache'[i].ovr = AppliedOvr(cache[i].ovr, sync[i].ovr)
      BY <2>2, <2>3, <3>2, HeldApplies
    <3> QED BY <2>1, <3>1, <3>2
  <2>5. OvrHeld(i)'
    BY <2>1, <2>2, <2>4 DEF OvrHeld, Held, ReadOvr
  <2>6. "ovr" \notin missed'[i] \cup inbox'[i] /\ ~OvrWritten => OvrRead(i)'
    BY <2>1, <2>2, <2>4 DEF OvrFollows, OvrRead, ReadOvr
  <2> QED BY <2>1, <2>5, <2>6, OvrReadsInv
<1>14. ASSUME NEW i \in Instance, LoadFails(i) \/ ReloadFails(i) \/ Disconnect(i) PROVE OvrSure'
  <2>1. /\ OnlyReads(i) /\ UNCHANGED cache /\ sync'[i].pc \in {"listen", "down"}
        /\ missed[i] \subseteq missed'[i] /\ inbox[i] \subseteq inbox'[i] \cup missed'[i]
        /\ sync[i].pc \in {"all", "allgray", "allver", "allmembers"} => missed'[i] = Kind
        /\ sync[i].pc = "ovr" => "ovr" \in missed'[i]
        /\ sync[i].pc \notin {"allapply", "ovrapply", "grayapply", "down"}
    BY <1>14, ReadFailsDoes
  <2>2. OvrHeld(i) /\ OvrFollows(i) /\ UNCHANGED ovrKey
    BY <2>1 DEF OvrSure, OnlyReads, redisVars
  <2>3. sync[i].pc \in SyncPc
    <3>1. sync[i] \in Sync
      BY DEF GovTyped, GovTypeOK
    <3> QED BY <3>1 DEF Sync, SyncPc
  <2>4. OvrHeld(i)'
    BY <2>1, <2>2 DEF OvrHeld, Held, ReadOvr
  <2>5. "ovr" \notin missed'[i] \cup inbox'[i] /\ ~OvrWritten => OvrRead(i)'
    BY <2>1, <2>2, <2>3 DEF OvrFollows, OvrRead, ReadOvr, Kind, SyncPc
  <2> QED BY <2>1, <2>4, <2>5, OvrReadsInv
<1>15. QED
  BY <1>1, <1>2, <1>3, <1>4, <1>5, <1>6, <1>7, <1>8, <1>9, <1>10, <1>11, <1>12, <1>13, <1>14 DEF GovNext

\* Two writes of the override that once overlapped have done so for good.
LEMMA RacedStays ==
  ASSUME [GovNext]_govVars, raced
  PROVE  raced'
BY DEF govVars, GovNext, SetOverride, SetGate, Snapshot, RestoreSnapshot, Begin, Incr, Set, Check, Publish, Change,
  GrayIncr, Members, GrayPublish, Subscribe, LoadOvr, LoadNames, LoadGray, LoadMembers, ApplyAll, Receive, ReloadOvr, ApplyOvr,
  ReloadGray, ReloadMembers, ApplyGray, WriteFails, PublishFails, LoadFails, ReloadFails, Disconnect, Restart

LEMMA GovNextTyped ==
  ASSUME GovTyped, [GovNext]_govVars
  PROVE  GovTyped'
<1>1. CASE UNCHANGED govVars
  BY <1>1 DEF govVars, GovTyped, GovTypeOK, WriterAt
<1>2. ASSUME NEW i \in Instance, SetOverride(i) \/ SetGate(i) \/ RestoreSnapshot(i) \/ Snapshot(i) PROVE GovTyped'
  BY <1>2, BeginsDo, SnapshotDoes
<1>3. ASSUME NEW i \in Instance, Incr(i) \/ Set(i) \/ Check(i) \/ Publish(i) PROVE GovTyped'
  BY <1>3, IncrDoes, SetDoes, CheckDoes, PublishDoes
<1>4. ASSUME NEW i \in Instance, Change(i) \/ GrayIncr(i) \/ Members(i) \/ GrayPublish(i) PROVE GovTyped'
  BY <1>4, ChangeDoes, GrayIncrDoes, MembersDoes, GrayPublishDoes
<1>5. ASSUME NEW i \in Instance, Subscribe(i) \/ LoadOvr(i) \/ LoadNames(i) \/ LoadGray(i) \/ LoadMembers(i) \/ ApplyAll(i)
      PROVE  GovTyped'
  BY <1>5, SubscribeDoes, LoadOvrDoes, LoadNamesDoes, LoadGrayDoes, LoadMembersDoes, ApplyAllDoes
<1>6. ASSUME NEW i \in Instance, Receive(i) \/ ReloadOvr(i) \/ ApplyOvr(i) PROVE GovTyped'
  BY <1>6, ReceiveDoes, ReloadOvrDoes, ApplyOvrDoes
<1>7. ASSUME NEW i \in Instance, ReloadGray(i) \/ ReloadMembers(i) \/ ApplyGray(i) PROVE GovTyped'
  BY <1>7, ReloadGrayDoes, ReloadMembersDoes, ApplyGrayDoes
<1>8. ASSUME NEW i \in Instance, WriteFails(i) \/ Restart(i) PROVE GovTyped'
  BY <1>8, WriteFailsDoes, RestartDoes
<1>9. ASSUME NEW i \in Instance, PublishFails(i) PROVE GovTyped'
  BY <1>9, PublishDoes, GrayPublishDoes
<1>10. ASSUME NEW i \in Instance, LoadFails(i) \/ ReloadFails(i) \/ Disconnect(i) PROVE GovTyped'
  BY <1>10, ReadFailsDoes
<1>11. QED
  BY <1>1, <1>2, <1>3, <1>4, <1>5, <1>6, <1>7, <1>8, <1>9, <1>10 DEF GovNext

GovIInv == GovTyped /\ ListInv /\ OvrInv

LEMMA GovStart == GovInit => GovIInv
<1> SUFFICES ASSUME GovInit PROVE GovIInv
  OBVIOUS
<1>1. GovTyped
  BY GovStartTyped
<1>2. \A i \in Instance : /\ writer[i].pc = "idle" /\ sync[i].pc = "listen"
                         /\ cache[i].gray.ver = 0 /\ cache[i].gray.members = {} /\ cache[i].ovr = NoOverride
  BY DEF GovInit, NoWriter, Listening, Booting, EmptyCache, NoList
<1>3. ListInv
  BY <1>2 DEF GovInit, ListInv, ListVersions, ReadsVersion, ListFollows, ListRead
<1>4. OvrSure
  <2>1. OvrKnown /\ \A i \in Instance : OvrHeld(i) /\ OvrRead(i)
    BY <1>2 DEF GovInit, OvrKnown, NoOverride, OvrHeld, Held, ReadOvr, OvrRead
  <2>2. OvrWriters
    BY <1>2 DEF OvrWriters, OvrWriting, WriterAt
  <2> QED BY <2>1, <2>2 DEF OvrSure, OvrFollows
<1> QED BY <1>1, <1>3, <1>4 DEF GovIInv, OvrInv

LEMMA GovStep == GovIInv /\ [GovNext]_govVars => GovIInv'
<1> SUFFICES ASSUME GovIInv, [GovNext]_govVars PROVE GovIInv'
  OBVIOUS
<1>1. GovTyped' /\ ListInv'
  BY GovNextTyped, ListNext DEF GovIInv
<1>2. ASSUME ~raced' PROVE OvrSure'
  <2>1. ~raced
    BY <1>2, RacedStays
  <2> QED BY <1>2, <2>1, OvrNext DEF GovIInv, OvrInv
<1> QED BY <1>1, <1>2 DEF GovIInv, OvrInv

\* Redis's keys, the caches, the subscriptions and the writes in hand keep their types.
\* (write_override, gray_apply, load_all and _handle_invalidated)
THEOREM GovTypeCorrect == GovSpec => []GovTypeOK
<1>1. GovIInv => GovTypeOK
  BY DEF GovIInv, GovTyped
<1> QED BY <1>1, GovStart, GovStep, PTL DEF GovSpec

\* When nothing is under way every process answers what Redis holds: the list unless a message
\* or a reload of it was lost, the override unless one was or two of its writes overlapped.
\* (_publish, _handle_invalidated, load_all and the versions of _apply_ovr_cache and _apply_gray_cache)
THEOREM CachesAnswerRedis == GovSpec => []CachesSettle
<1>1. GovIInv => CachesSettle
  <2> SUFFICES ASSUME GovIInv, NEW i \in Instance, InStep(i)
               PROVE  /\ "ovr" \notin missed[i] /\ ~raced => cache[i].ovr.val = ovrKey.val
                      /\ "gray" \notin missed[i] => cache[i].gray.members = grayKey
    BY DEF CachesSettle
  <2>1. sync[i].pc = "listen" /\ inbox[i] = {} /\ ~ListWriting /\ ~OvrWritten
    BY DEF InStep, SyncAt, WriterAt, ListWriting, OvrWritten
  <2>2. ListFollows(i) /\ (~raced => OvrFollows(i))
    BY DEF GovIInv, ListInv, OvrInv, OvrSure
  <2> QED BY <2>1, <2>2 DEF ListFollows, ListRead, OvrFollows, OvrRead
<1> QED BY <1>1, GovStart, GovStep, PTL DEF GovSpec
=============================================================================
