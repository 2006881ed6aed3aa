--------------------------- MODULE ArtifactTx_proofs ---------------------------
(***************************************************************************)
(* What a reader can see of a batch is really there, for any set of files, *)
(* callers, failures and sizes, as long as only one caller commits; every  *)
(* variable stays in its type, whoever overlaps; and calls that come one   *)
(* after the other complete what they began, undo what they undo, and keep *)
(* the quota exact.                                                        *)
(***************************************************************************)
EXTENDS ArtifactTx, FiniteSetTheorems, WellFoundedInduction, TLAPS

\* No two callers may commit the batch at the same time.
OneCommitter ==
  \A c, d \in Caller : "commit" \in Can[c] /\ "commit" \in Can[d] => c = d

-----------------------------------------------------------------------------
(* The inductive invariant.                                                  *)

Typed ==
  /\ reserved \in {0, Estimate}
  /\ row \in [File -> Row]
  /\ obj \in [File -> [Place -> {0} \cup Size]]
  /\ call \in [Caller -> Call]
  /\ stages \in 0 .. MaxStages

Staging   == {"put", "record"}
Moving    == {"move", "rekey"}
Listed    == {"move", "rekey", "publish"}
Committing == {"list", "move", "rekey", "publish"}
Critical  == Staging \cup Committing

\* Only those commit that may.
Entitled == \A c \in Caller : call[c].pc \in Committing => "commit" \in Can[c]

\* The id of a row that is about to be recorded is in use nowhere else, so a row
\* that is found by its id is the row that was read.
Issued ==
  /\ \A f \in File : row[f].id \leq stages
  /\ \A c \in Caller : call[c].pc \in Listed =>
       \A a \in call[c].seen : a.id \leq stages /\ a.id # 0
  /\ \A c \in Caller : call[c].pc \in Staging =>
       \A h \in call[c].hand :
         h.id \leq stages /\ h.id # 0 /\ h.place = "staging" /\ h.size \in Size

Fresh ==
  \A c \in Caller : call[c].pc \in Staging =>
    \A h \in call[c].hand :
      /\ \A f \in File : row[f].id # h.id
      /\ \A d \in Caller : call[d].pc \in Listed => \A a \in call[d].seen : a.id # h.id
      /\ \A d \in Caller : call[d].pc \in Staging => \A g \in call[d].hand : g.id = h.id => d = c /\ g = h

AbsentRows == \A f \in File : row[f].status = "absent" <=> row[f].id = 0

\* What a commit has listed, and how far it has come.
Listing ==
  \A c \in Caller : call[c].pc \in Listed =>
    /\ call[c].todo \subseteq call[c].seen
    /\ \A a, b \in call[c].seen : a.file = b.file => a = b
    /\ call[c].pc = "rekey" =>
         call[c].hand \subseteq call[c].seen /\ \A a, b \in call[c].hand : a = b

\* No file that a commit is still moving can be seen.
Hidden ==
  \A c \in Caller : call[c].pc \in Moving =>
    \A a \in call[c].seen : row[a.file].status # "available"

\* The row has left _tx, and its object is there.
Safe(f) == row[f].place # "staging" /\ obj[f][row[f].place] # 0

\* The listed rows that a commit has moved already.
Moved(c) ==
  IF call[c].pc = "move" THEN call[c].seen \ call[c].todo
  ELSE IF call[c].pc = "rekey" THEN call[c].seen \ (call[c].todo \cup call[c].hand)
  ELSE IF call[c].pc = "publish" THEN call[c].seen
  ELSE {}

MovedSafe == \A c \in Caller : \A a \in Moved(c) : Exists(a) => Safe(a.file)

\* The object whose row is written next is at its new place.
HandSafe ==
  \A c \in Caller : call[c].pc = "rekey" =>
    \A a \in call[c].hand : obj[a.file][Target(a)] # 0

VisibleSafe == \A f \in File : row[f].status = "available" => Safe(f)

Inv ==
  /\ Typed /\ Entitled /\ Issued /\ Fresh /\ AbsentRows /\ Listing
  /\ Hidden /\ MovedSafe /\ HandSafe /\ VisibleSafe

-----------------------------------------------------------------------------

LEMMA VisibleFollows == Inv => VisibleHasObject
  BY DEF Inv, VisibleSafe, Safe, VisibleHasObject, Visible

LEMMA InitInv == Init => Inv
  <1> SUFFICES ASSUME Init PROVE Inv
    OBVIOUS
  <1> USE DEF Init, Idle, NoRow
  <1>1. Typed
    BY BatchAssumption DEF Typed, Row, Call, Pc, Place, BatchAssumption
  <1>2. Entitled /\ Fresh /\ Listing /\ Hidden /\ HandSafe
    BY DEF Entitled, Fresh, Listing, Hidden, HandSafe, Committing, Staging, Listed, Moving
  <1>3. Issued /\ AbsentRows /\ VisibleSafe
    BY DEF Issued, AbsentRows, VisibleSafe, Staging, Listed
  <1>4. MovedSafe
    BY DEF MovedSafe, Moved
  <1> QED
    BY <1>1, <1>2, <1>3, <1>4 DEF Inv

\* A step that only turns one caller to something that is not critical.
LEMMA Frame ==
  ASSUME Inv, NEW c \in Caller, NEW x \in Call, x.pc \notin Critical,
         call' = [call EXCEPT ![c] = x],
         row' = row, obj' = obj, stages' = stages, reserved' \in {0, Estimate}
  PROVE  Inv'
  <1> USE DEF Inv
  <1>0. /\ call \in [Caller -> Call]
        /\ call'[c] = x /\ \A d \in Caller : d # c => call'[d] = call[d]
        /\ x.pc \notin Committing /\ x.pc \notin Staging /\ x.pc \notin Listed
        /\ x.pc \notin Moving /\ x.pc # "move" /\ x.pc # "rekey" /\ x.pc # "publish"
    BY DEF Typed, Critical, Committing, Staging, Listed, Moving
  <1>1. Typed'
    BY <1>0 DEF Typed
  <1>2. Entitled'
    BY <1>0 DEF Entitled
  <1>3. Issued'
    BY <1>0 DEF Issued
  <1>4. Fresh'
    BY <1>0 DEF Fresh
  <1>5. AbsentRows' /\ VisibleSafe'
    BY DEF AbsentRows, VisibleSafe, Safe
  <1>6. Listing'
    BY <1>0 DEF Listing
  <1>7. Hidden'
    BY <1>0 DEF Hidden
  <1>8. MovedSafe'
    BY <1>0 DEF MovedSafe, Moved, Safe, Exists
  <1>9. HandSafe'
    BY <1>0 DEF HandSafe, Target
  <1> QED
    BY <1>1, <1>2, <1>3, <1>4, <1>5, <1>6, <1>7, <1>8, <1>9
-----------------------------------------------------------------------------
(* The steps that matter, one lemma each.                                    *)

LEMMA StageBeginInv == ASSUME Inv, NEW c \in Caller, StageBegin(c) PROVE Inv'
  <1> USE DEF Inv
  <1>0. PICK f \in File, s \in Size :
          call' = [call EXCEPT ![c].pc = "put",
                     ![c].hand = {[file |-> f, id |-> stages', place |-> "staging", size |-> s]}]
    BY DEF StageBegin
  <1> DEFINE h == [file |-> f, id |-> stages', place |-> "staging", size |-> s]
  <1>1. /\ stages' = stages + 1 /\ stages' \in 0 .. MaxStages
        /\ row' = row /\ obj' = obj /\ reserved' = reserved /\ stages \in Nat /\ s \in Nat
    BY BatchAssumption DEF StageBegin, Typed, BatchAssumption
  <1>2. h \in Seen
    BY <1>1 DEF Seen, Place
  <1> HIDE DEF h
  <1>3. /\ call \in [Caller -> Call] /\ call[c] \in Call
        /\ call'[c] = [call[c] EXCEPT !.pc = "put", !.hand = {h}]
        /\ \A d \in Caller : d # c => call'[d] = call[d]
    BY <1>0 DEF Typed, h
  <1>4. call'[c] \in Call /\ call'[c].pc = "put" /\ call'[c].hand = {h}
    <2>1. {h} \in SUBSET Seen /\ "put" \in Pc
      BY <1>2 DEF Pc
    <2> QED
      BY <2>1, <1>3 DEF Call
  <1>5. h.id = stages + 1 /\ h.place = "staging" /\ h.size \in Size
    BY <1>1 DEF h
  <1>6. Typed'
    BY <1>0, <1>1, <1>3, <1>4 DEF Typed
  <1>7. Entitled' /\ Listing' /\ Hidden' /\ AbsentRows'
    <2>1. Entitled' /\ AbsentRows'
      BY <1>1, <1>3, <1>4 DEF Entitled, AbsentRows, Committing
    <2>2. Listing'
      BY <1>1, <1>3, <1>4 DEF Listing, Listed
    <2>3. Hidden'
      BY <1>1, <1>3, <1>4 DEF Hidden, Moving
    <2> QED
      BY <2>1, <2>2, <2>3
  <1>8. Issued'
    <2>1. row \in [File -> Row] /\ \A f1 \in File : row[f1].id \in Nat
      BY DEF Typed, Row
    <2>2. \A d \in Caller : \A a \in call[d].seen \cup call[d].hand : a.id \in Nat
      BY <1>3 DEF Call, Seen
    <2>3. h.id # 0 /\ h.id \leq stages'
      BY <1>1, <1>5
    <2>4. \A n \in Nat : n \leq stages => n \leq stages'
      BY <1>1
    <2>5. \A f1 \in File : row'[f1].id \leq stages'
      BY <1>1, <2>1, <2>4 DEF Issued
    <2>6. \A d \in Caller : call'[d].pc \in Listed =>
            \A a \in call'[d].seen : a.id \leq stages' /\ a.id # 0
      BY <1>3, <1>4, <2>2, <2>4 DEF Issued, Listed
    <2>7. \A d \in Caller : call'[d].pc \in Staging =>
            \A g \in call'[d].hand :
              g.id \leq stages' /\ g.id # 0 /\ g.place = "staging" /\ g.size \in Size
      BY <1>3, <1>4, <1>5, <2>2, <2>3, <2>4 DEF Issued
    <2> QED
      BY <2>5, <2>6, <2>7 DEF Issued
  <1>9. Fresh'
    <2>1. \A f1 \in File : row[f1].id # h.id
      BY <1>1, <1>5 DEF Issued, Typed, Row
    <2>2. \A d \in Caller : d # c /\ call[d].pc \in Listed => \A a \in call[d].seen : a.id # h.id
      BY <1>1, <1>3, <1>5 DEF Issued, Call, Seen
    <2>3. \A d \in Caller : call[d].pc \in Staging => \A g \in call[d].hand : g.id # h.id
      BY <1>1, <1>3, <1>5 DEF Issued, Call, Seen
    <2>4. ASSUME NEW d \in Caller, call'[d].pc \in Staging, NEW g \in call'[d].hand
          PROVE  /\ \A f1 \in File : row'[f1].id # g.id
                 /\ \A e \in Caller : call'[e].pc \in Listed => \A a \in call'[e].seen : a.id # g.id
                 /\ \A e \in Caller : call'[e].pc \in Staging =>
                      \A k \in call'[e].hand : k.id = g.id => e = d /\ k = g
      <3>1. CASE d = c
        <4>1. g = h
          BY <1>4, <2>4, <3>1
        <4> QED
          BY <1>1, <1>3, <1>4, <4>1, <3>1, <2>1, <2>2, <2>3 DEF Listed
      <3>2. CASE d # c
        <4>1. call[d].pc \in Staging /\ g \in call[d].hand
          BY <1>3, <2>4, <3>2
        <4>2. \A f1 \in File : row'[f1].id # g.id
          BY <1>1, <4>1 DEF Fresh
        <4>3. \A e \in Caller : call'[e].pc \in Listed => \A a \in call'[e].seen : a.id # g.id
          <5> TAKE e \in Caller
          <5>1. CASE e = c
            BY <1>4, <5>1 DEF Listed
          <5>2. CASE e # c
            BY <1>3, <4>1, <5>2 DEF Fresh
          <5> QED
            BY <5>1, <5>2
        <4>4. \A e \in Caller : call'[e].pc \in Staging =>
                \A k \in call'[e].hand : k.id = g.id => e = d /\ k = g
          <5> TAKE e \in Caller
          <5>1. CASE e = c
            BY <1>4, <2>3, <4>1, <5>1
          <5>2. CASE e # c
            BY <1>3, <4>1, <5>2 DEF Fresh
          <5> QED
            BY <5>1, <5>2
        <4> QED
          BY <4>2, <4>3, <4>4
      <3> QED
        BY <3>1, <3>2
    <2> QED
      BY <2>4 DEF Fresh
  <1>10. MovedSafe' /\ HandSafe' /\ VisibleSafe'
    BY <1>1, <1>3, <1>4 DEF MovedSafe, HandSafe, VisibleSafe, Moved, Safe, Exists, Target
  <1> QED
    BY <1>6, <1>7, <1>8, <1>9, <1>10

LEMMA StagePutInv == ASSUME Inv, NEW c \in Caller, StagePut(c) PROVE Inv'
  <1> USE DEF Inv
  <1>0. PICK h \in call[c].hand : obj' = [obj EXCEPT ![h.file]["staging"] = h.size]
    BY DEF StagePut
  <1>1. /\ call[c].pc = "put" /\ call' = [call EXCEPT ![c].pc = "record"]
        /\ row' = row /\ reserved' = reserved /\ stages' = stages
    BY DEF StagePut, At, Goto
  <1>2. /\ call \in [Caller -> Call] /\ call[c] \in Call /\ h \in Seen /\ h.file \in File
        /\ h.size \in Size /\ obj \in [File -> [Place -> {0} \cup Size]]
    BY <1>0, <1>1 DEF Typed, Call, Seen, Issued, Staging
  <1>3. /\ call'[c] = [call[c] EXCEPT !.pc = "record"] /\ call'[c] \in Call
        /\ call'[c].pc = "record" /\ call'[c].hand = call[c].hand
        /\ \A d \in Caller : d # c => call'[d] = call[d]
    BY <1>1, <1>2 DEF Call, Pc
  <1>4. h.size # 0 /\ "staging" \in Place
    BY <1>2, BatchAssumption DEF BatchAssumption, Place
  <1>5. /\ obj' \in [File -> [Place -> {0} \cup Size]]
        /\ \A f \in File, p \in Place : obj[f][p] # 0 => obj'[f][p] # 0
    BY <1>0, <1>2, <1>4
  <1>6. Typed'
    BY <1>1, <1>3, <1>5, <1>2 DEF Typed
  <1>7. Entitled' /\ Listing' /\ Hidden' /\ AbsentRows'
    BY <1>1, <1>3 DEF Entitled, Listing, Hidden, AbsentRows, Committing, Listed, Moving
  <1>8. Issued' /\ Fresh'
    BY <1>1, <1>3 DEF Issued, Fresh, Listed, Staging
  <1>9. VisibleSafe'
    BY <1>1, <1>5 DEF VisibleSafe, Safe, Typed, Row
  <1>10. MovedSafe' /\ HandSafe'
    <2>1. \A d \in Caller : Moved(d)' = Moved(d)
      BY <1>1, <1>3 DEF Moved
    <2>0. \A d \in Caller : \A a \in Moved(d) : a.file \in File
      <3>1. \A d \in Caller : Moved(d) \subseteq call[d].seen
        BY DEF Moved
      <3> QED
        BY <1>2, <3>1 DEF Call, Seen
    <2>2. MovedSafe'
      BY <1>1, <1>5, <2>0, <2>1 DEF MovedSafe, Exists, Safe, Typed, Row
    <2>3. HandSafe'
      BY <1>1, <1>2, <1>3, <1>5 DEF HandSafe, Target, Call, Seen, Place
    <2> QED
      BY <2>2, <2>3
  <1> QED
    BY <1>6, <1>7, <1>8, <1>9, <1>10

LEMMA StageRecordInv == ASSUME Inv, NEW c \in Caller, StageRecord(c) PROVE Inv'
  <1> USE DEF Inv
  <1> DEFINE New(h) == [id |-> h.id, status |-> "pending", place |-> "staging", size |-> h.size]
  <1>0. PICK h \in call[c].hand :
          row' = IF row[h.file].status = "absent" THEN [row EXCEPT ![h.file] = New(h)] ELSE row
    BY DEF StageRecord
  <1>1. /\ call[c].pc = "record" /\ call' = [call EXCEPT ![c] = Idle]
        /\ obj' = obj /\ reserved' = reserved /\ stages' = stages
    BY DEF StageRecord, At, Return
  <1>2. Idle \in Call /\ Idle.pc = "idle"
    BY DEF Idle, Call, Pc
  <1>3. CASE row[h.file].status # "absent"
    BY <1>0, <1>1, <1>2, <1>3, Frame DEF Critical, Staging, Committing, Typed
  <1>4. CASE row[h.file].status = "absent"
    <2>0. /\ call \in [Caller -> Call] /\ call[c] \in Call /\ h \in Seen /\ h.file \in File
          /\ row \in [File -> Row] /\ row' = [row EXCEPT ![h.file] = New(h)]
          /\ row[h.file].id = 0 /\ h.id # 0 /\ h.id \leq stages /\ New(h) \in Row
      BY <1>0, <1>1, <1>4 DEF Typed, Call, Seen, Issued, Staging, AbsentRows, Row, Place
    <2>1. /\ row' \in [File -> Row] /\ row'[h.file] = New(h)
          /\ \A f \in File : f # h.file => row'[f] = row[f]
          /\ row'[h.file].id = h.id /\ row'[h.file].status = "pending"
      BY <2>0
    <2> HIDE DEF New
    <2>2. /\ call'[c] = Idle /\ \A d \in Caller : d # c => call'[d] = call[d]
      BY <1>1, <2>0
    <2>3. Typed'
      BY <1>1, <1>2, <2>0, <2>1 DEF Typed
    <2>4. Entitled' /\ Listing'
      BY <1>2, <2>2 DEF Entitled, Listing, Committing, Listed
    <2>5. AbsentRows'
        BY <2>0, <2>1 DEF AbsentRows
    <2>6. Issued'
      BY <1>1, <1>2, <2>0, <2>1, <2>2 DEF Issued, Listed, Staging
    <2>7. Fresh'
      BY <1>1, <1>2, <2>0, <2>1, <2>2 DEF Fresh, Listed, Staging
    <2>8. Hidden'
      BY <1>2, <2>0, <2>1, <2>2 DEF Hidden, Moving, Call, Seen
    <2>9. VisibleSafe'
      BY <1>1, <2>1 DEF VisibleSafe, Safe
    <2>10. MovedSafe'
      <3> SUFFICES ASSUME NEW d \in Caller, NEW a \in Moved(d)', Exists(a)'
                   PROVE  Safe(a.file)'
        BY DEF MovedSafe
      <3>1. d # c /\ call'[d] = call[d] /\ a \in Moved(d) /\ call[d].pc \in Listed /\ a \in call[d].seen
        BY <1>2, <2>2 DEF Moved, Listed
      <3>2. a.file \in File /\ a.id # h.id
        BY <1>1, <3>1, <2>0 DEF Fresh, Staging, Call, Seen
      <3>3. a.file # h.file /\ Exists(a)
        BY <2>1, <3>2 DEF Exists
      <3> QED
        BY <1>1, <2>1, <3>1, <3>2, <3>3 DEF MovedSafe, Safe
    <2>11. HandSafe'
      BY <1>1, <1>2, <2>2 DEF HandSafe, Target
    <2> QED
      BY <2>3, <2>4, <2>5, <2>6, <2>7, <2>8, <2>9, <2>10, <2>11
  <1> QED
    BY <1>3, <1>4

LEMMA CommitBeginInv == ASSUME Inv, NEW c \in Caller, CommitBegin(c) PROVE Inv'
  <1> USE DEF Inv
  <1>1. /\ call' = [call EXCEPT ![c].pc = "list", ![c].reserved = reserved]
        /\ row' = row /\ obj' = obj /\ reserved' = reserved /\ stages' = stages
        /\ "commit" \in Can[c]
    BY DEF CommitBegin
  <1>2. /\ call \in [Caller -> Call] /\ reserved \in Nat
        /\ call'[c] = [call[c] EXCEPT !.pc = "list", !.reserved = reserved]
        /\ \A d \in Caller : d # c => call'[d] = call[d]
    BY <1>1, BatchAssumption DEF Typed, BatchAssumption
  <1>3. call'[c] \in Call /\ call'[c].pc = "list"
    <2>1. "list" \in Pc
      BY DEF Pc
    <2> QED
      BY <2>1, <1>2 DEF Call
  <1>4. Typed'
    BY <1>1, <1>2, <1>3 DEF Typed
  <1>5. Entitled' /\ Listing' /\ Hidden' /\ AbsentRows'
    BY <1>1, <1>2, <1>3 DEF Entitled, Listing, Hidden, AbsentRows, Committing, Listed, Moving
  <1>6. Issued'
    BY <1>1, <1>2, <1>3 DEF Issued, Listed, Staging
  <1>7. Fresh'
    BY <1>1, <1>2, <1>3 DEF Fresh, Listed, Staging
  <1>8. MovedSafe' /\ HandSafe' /\ VisibleSafe'
    BY <1>1, <1>2, <1>3 DEF MovedSafe, HandSafe, VisibleSafe, Moved, Safe, Exists, Target
  <1> QED
    BY <1>4, <1>5, <1>6, <1>7, <1>8

LEMMA CommitListInv == ASSUME Inv, NEW c \in Caller, CommitList(c) PROVE Inv'
  <1> USE DEF Inv
  <1> DEFINE S == StagedRows
  <1>1. /\ call[c].pc = "list"
        /\ call' = [call EXCEPT ![c].pc = "move", ![c].seen = S, ![c].todo = S]
        /\ row' = row /\ obj' = obj /\ reserved' = reserved /\ stages' = stages
    BY DEF CommitList, At
  <1>2. /\ S \subseteq Seen
        /\ \A a \in S : /\ a.file \in File /\ a.id = row[a.file].id
                         /\ row[a.file].status = "pending"
        /\ \A a, b \in S : a.file = b.file => a = b
    BY DEF StagedRows, AsSeen, Typed, Row, Seen
  <1>3. \A a \in S : a.id # 0 /\ a.id \leq stages
    BY <1>2 DEF Issued, AbsentRows
  <1> HIDE DEF S
  <1>4. /\ call \in [Caller -> Call]
        /\ call'[c] = [call[c] EXCEPT !.pc = "move", !.seen = S, !.todo = S]
        /\ \A d \in Caller : d # c => call'[d] = call[d]
    BY <1>1 DEF Typed
  <1>5. /\ call'[c] \in Call /\ call'[c].pc = "move"
        /\ call'[c].seen = S /\ call'[c].todo = S
    <2>1. "move" \in Pc /\ S \in SUBSET Seen
      BY <1>2 DEF Pc
    <2> QED
      BY <2>1, <1>4 DEF Call
  <1>6. Typed'
    BY <1>1, <1>4, <1>5 DEF Typed
  <1>7. Entitled' /\ AbsentRows'
    BY <1>1, <1>4, <1>5 DEF Entitled, AbsentRows, Committing
  <1>8. Listing'
    BY <1>2, <1>4, <1>5 DEF Listing, Listed
  <1>9. Hidden'
    BY <1>1, <1>2, <1>4, <1>5 DEF Hidden, Moving
  <1>10. Issued'
    BY <1>1, <1>3, <1>4, <1>5 DEF Issued, Listed, Staging
  <1>11. Fresh'
    <2>1. \A d \in Caller : call[d].pc \in Staging =>
            \A g \in call[d].hand : \A a \in S : a.id # g.id
      BY <1>2 DEF Fresh
    <2> QED
      BY <1>1, <1>4, <1>5, <2>1 DEF Fresh, Listed, Staging
  <1>12. MovedSafe' /\ HandSafe' /\ VisibleSafe'
    BY <1>1, <1>4, <1>5 DEF MovedSafe, HandSafe, VisibleSafe, Moved, Safe, Exists, Target
  <1> QED
    BY <1>6, <1>7, <1>8, <1>9, <1>10, <1>11, <1>12

\* Nothing endangers the freshness of an id as long as no new rows are recorded.
LEMMA FreshKept ==
  ASSUME Inv, NEW c \in Caller,
         \A f \in File : row'[f].id \in {0, row[f].id},
         \A d \in Caller : d # c => call'[d] = call[d],
         call'[c].pc \notin Staging,
         call'[c].pc \in Listed => call[c].pc \in Listed /\ call'[c].seen = call[c].seen
  PROVE  Fresh'
  <1> SUFFICES ASSUME NEW d \in Caller, call'[d].pc \in Staging, NEW g \in call'[d].hand
               PROVE  /\ \A f \in File : row'[f].id # g.id
                      /\ \A e \in Caller : call'[e].pc \in Listed =>
                           \A a \in call'[e].seen : a.id # g.id
                      /\ \A e \in Caller : call'[e].pc \in Staging =>
                           \A k \in call'[e].hand : k.id = g.id => e = d /\ k = g
    BY DEF Fresh
  <1>1. call[d].pc \in Staging /\ g \in call[d].hand /\ g.id # 0
    BY DEF Inv, Issued
  <1>2. \A f \in File : row'[f].id # g.id
    BY <1>1 DEF Inv, Fresh
  <1>3. ASSUME NEW e \in Caller, call'[e].pc \in Listed, NEW a \in call'[e].seen
        PROVE  a.id # g.id
    <2>1. call[e].pc \in Listed /\ a \in call[e].seen
      BY <1>3
    <2> QED
      BY <1>1, <2>1 DEF Inv, Fresh
  <1>4. ASSUME NEW e \in Caller, call'[e].pc \in Staging, NEW k \in call'[e].hand, k.id = g.id
        PROVE  e = d /\ k = g
    <2>1. call[e].pc \in Staging /\ k \in call[e].hand
      BY <1>4
    <2> QED
      BY <1>1, <1>4, <2>1 DEF Inv, Fresh
  <1> QED
    BY <1>2, <1>3, <1>4

\* What was listed stays listed while todo shrinks and the others stand still.
LEMMA ListingKept ==
  ASSUME Inv, NEW c \in Caller,
         \A d \in Caller : d # c => call'[d] = call[d],
         call[c].pc \in Listed, call'[c].seen = call[c].seen,
         call'[c].todo \subseteq call[c].todo,
         call'[c].pc = "rekey" =>
           call'[c].hand \subseteq call[c].seen /\ \A a, b \in call'[c].hand : a = b
  PROVE  Listing'
  <1> SUFFICES ASSUME NEW d \in Caller, call'[d].pc \in Listed
               PROVE  /\ call'[d].todo \subseteq call'[d].seen
                      /\ \A a, b \in call'[d].seen : a.file = b.file => a = b
                      /\ call'[d].pc = "rekey" =>
                           /\ call'[d].hand \subseteq call'[d].seen
                           /\ \A a, b \in call'[d].hand : a = b
    BY DEF Listing
  <1>1. CASE d = c
    BY <1>1 DEF Inv, Listing
  <1>2. CASE d # c
    BY <1>2 DEF Inv, Listing
  <1> QED
    BY <1>1, <1>2

\* Another caller is not committing.
LEMMA Alone ==
  ASSUME Inv, OneCommitter, NEW c \in Caller, call[c].pc \in Committing,
         NEW d \in Caller, d # c
  PROVE  call[d].pc \notin Committing
  BY DEF Inv, OneCommitter, Entitled

LEMMA CommitMoveInv ==
  ASSUME Inv, OneCommitter, NEW c \in Caller, CommitMove(c) PROVE Inv'
  <1> USE DEF Inv
  <1>0. /\ call[c].pc = "move" /\ call \in [Caller -> Call] /\ call[c] \in Call
        /\ row' = row /\ reserved' = reserved /\ stages' = stages
        /\ row \in [File -> Row] /\ obj \in [File -> [Place -> {0} \cup Size]]
    BY DEF CommitMove, At, Typed
  <1>a. \A d \in Caller : d # c => call[d].pc \notin Committing
    BY <1>0, Alone DEF Committing
  <1>1. CASE /\ call[c].todo = {} /\ obj' = obj
             /\ call' = [call EXCEPT ![c].pc = "publish", ![c].todo = call[c].seen]
    <2>1. /\ call'[c] = [call[c] EXCEPT !.pc = "publish", !.todo = call[c].seen]
          /\ \A d \in Caller : d # c => call'[d] = call[d]
      BY <1>0, <1>1
    <2>2. /\ call'[c] \in Call /\ call'[c].pc = "publish"
          /\ call'[c].seen = call[c].seen /\ call'[c].todo = call[c].seen
      <3>1. "publish" \in Pc
        BY DEF Pc
      <3> QED
        BY <2>1, <3>1, <1>0 DEF Call
    <2>3. Typed' /\ AbsentRows' /\ VisibleSafe'
      BY <1>0, <1>1, <2>1, <2>2 DEF Typed, AbsentRows, VisibleSafe, Safe
    <2>4. Entitled' /\ Listing' /\ Hidden'
      BY <1>0, <1>1, <2>1, <2>2 DEF Entitled, Listing, Hidden, Committing, Listed, Moving
    <2>5. Issued'
      BY <1>0, <2>1, <2>2 DEF Issued, Listed, Staging
    <2>6. Fresh'
      BY <1>0, <2>1, <2>2, FreshKept DEF Listed, Staging
    <2>7. MovedSafe'
      BY <1>0, <1>1, <2>1, <2>2 DEF MovedSafe, Moved, Exists, Safe
    <2>8. HandSafe'
      BY <1>0, <1>1, <2>1, <2>2 DEF HandSafe, Target
    <2> QED
      BY <2>3, <2>4, <2>5, <2>6, <2>7, <2>8
  <1>2. ASSUME NEW a \in call[c].todo, Movable(a), obj[a.file][a.place] # 0,
               obj' = [obj EXCEPT ![a.file][Target(a)] = obj[a.file][a.place],
                                  ![a.file][a.place] = 0],
               call' = [call EXCEPT ![c].pc = "rekey", ![c].hand = {a}, ![c].todo = @ \ {a}]
        PROVE  Inv'
    <2>1. /\ call'[c] = [call[c] EXCEPT !.pc = "rekey", !.hand = {a}, !.todo = @ \ {a}]
          /\ \A d \in Caller : d # c => call'[d] = call[d]
      BY <1>0, <1>2
    <2>2. a \in Seen /\ a \in call[c].seen /\ call[c].todo \subseteq call[c].seen
      BY <1>0 DEF Listing, Listed, Call
    <2>3. /\ call'[c] \in Call /\ call'[c].pc = "rekey" /\ call'[c].hand = {a}
          /\ call'[c].seen = call[c].seen /\ call'[c].todo = call[c].todo \ {a}
      <3>1. "rekey" \in Pc /\ {a} \in SUBSET Seen /\ call[c].todo \ {a} \in SUBSET Seen
        BY <1>0, <2>2 DEF Pc, Call
      <3> QED
        BY <2>1, <3>1, <1>0 DEF Call
    <2>4. /\ a.file \in File /\ a.place \in Place /\ Target(a) \in Place
          /\ Target(a) # a.place /\ Target(a) # "staging"
      BY <1>2, <2>2 DEF Seen, Place, Target, Movable
    <2>5. /\ obj' \in [File -> [Place -> {0} \cup Size]]
          /\ \A f \in File : f # a.file => obj'[f] = obj[f]
          /\ obj'[a.file][Target(a)] # 0
      BY <1>0, <1>2, <2>4
    <2>6. Typed' /\ AbsentRows'
      <3>1. call' \in [Caller -> Call]
        BY <1>0, <1>2, <2>3
      <3> QED
        BY <1>0, <2>5, <3>1 DEF Typed, AbsentRows
    <2>7. Entitled'
      BY <1>0, <2>1, <2>3 DEF Entitled, Committing
    <2>8. Listing'
      BY <1>0, <2>1, <2>2, <2>3, ListingKept DEF Listed
    <2>9. Hidden'
      BY <1>0, <2>1, <2>3 DEF Hidden, Moving
    <2>10. Issued'
      BY <1>0, <2>1, <2>3 DEF Issued, Listed, Staging
    <2>11. Fresh'
      BY <1>0, <2>1, <2>3, FreshKept DEF Listed, Staging
    <2>12. VisibleSafe'
      <3>1. row[a.file].status # "available"
        BY <1>0, <2>2 DEF Hidden, Moving
      <3> QED
        BY <1>0, <2>5, <3>1 DEF VisibleSafe, Safe
    <2>13. MovedSafe'
      <3> SUFFICES ASSUME NEW d \in Caller, NEW b \in Moved(d)', Exists(b)'
                   PROVE  Safe(b.file)'
        BY DEF MovedSafe
      <3>1. d = c
        BY <1>a, <2>1 DEF Moved, Committing
      <3>2. b \in call[c].seen /\ b \notin call[c].todo /\ b # a
        BY <2>3, <3>1 DEF Moved
      <3>3. b.file \in File /\ b.file # a.file
        BY <1>0, <2>2, <3>2 DEF Listing, Listed, Call, Seen
      <3>4. b \in Moved(c) /\ Exists(b)
        BY <1>0, <3>2 DEF Moved, Exists
      <3> QED
        BY <1>0, <2>5, <3>3, <3>4 DEF MovedSafe, Safe
    <2>14. HandSafe'
      BY <1>a, <2>1, <2>3, <2>5 DEF HandSafe, Committing, Target
    <2> QED
      BY <2>6, <2>7, <2>8, <2>9, <2>10, <2>11, <2>12, <2>13, <2>14
  <1>3. CASE call' = [call EXCEPT ![c] = Idle] /\ obj' = obj
    <2>1. Idle \in Call /\ Idle.pc = "idle"
      BY DEF Idle, Call, Pc
    <2> QED
      BY <1>0, <1>3, <2>1, Frame DEF Critical, Staging, Committing, Typed
  <1> QED
    BY <1>1, <1>2, <1>3 DEF CommitMove, Return

LEMMA CommitRekeyInv ==
  ASSUME Inv, OneCommitter, NEW c \in Caller, CommitRekey(c) PROVE Inv'
  <1> USE DEF Inv
  <1>0. /\ call[c].pc = "rekey" /\ call \in [Caller -> Call] /\ call[c] \in Call
        /\ call' = [call EXCEPT ![c].pc = "move"]
        /\ obj' = obj /\ reserved' = reserved /\ stages' = stages
        /\ row \in [File -> Row]
    BY DEF CommitRekey, At, Goto, Typed
  <1>a. \A d \in Caller : d # c => call[d].pc \notin Committing
    BY <1>0, Alone DEF Committing
  <1>1. PICK a \in call[c].hand :
          row' = IF Exists(a)
                 THEN [row EXCEPT ![a.file].place = Target(a), ![a.file].status = "pending"]
                 ELSE row
    BY DEF CommitRekey
  <1>2. a \in Seen /\ a \in call[c].seen /\ a.file \in File /\ Target(a) \in Place
        /\ Target(a) # "staging" /\ obj[a.file][Target(a)] # 0 /\ a.id # 0
        /\ row[a.file].status # "available"
    BY <1>0 DEF Call, Seen, Target, Place, Listing, Listed, HandSafe, Issued, Hidden, Moving
  <1>3. /\ call'[c] = [call[c] EXCEPT !.pc = "move"]
        /\ \A d \in Caller : d # c => call'[d] = call[d]
    BY <1>0
  <1>4. /\ call'[c] \in Call /\ call'[c].pc = "move"
        /\ call'[c].seen = call[c].seen /\ call'[c].todo = call[c].todo
    <2>1. "move" \in Pc
      BY DEF Pc
    <2> QED
      BY <1>0, <1>3, <2>1 DEF Call
  <1>5. /\ row' \in [File -> Row]
        /\ \A f \in File : f # a.file => row'[f] = row[f]
        /\ \A f \in File : row'[f].id = row[f].id
        /\ Exists(a) => row'[a.file].place = Target(a) /\ row'[a.file].status = "pending"
        /\ ~Exists(a) => row' = row
    BY <1>0, <1>1, <1>2 DEF Row
  <1>6. Typed'
    BY <1>0, <1>4, <1>5 DEF Typed
  <1>7. AbsentRows'
    BY <1>0, <1>2, <1>5 DEF AbsentRows, Exists
  <1>8. Entitled' /\ Listing'
    BY <1>0, <1>3, <1>4 DEF Entitled, Listing, Committing, Listed
  <1>9. Hidden'
    <2> SUFFICES ASSUME NEW d \in Caller, call'[d].pc \in Moving, NEW b \in call'[d].seen
                 PROVE  row'[b.file].status # "available"
      BY DEF Hidden
    <2>1. d = c /\ b \in call[c].seen
      BY <1>a, <1>3, <1>4 DEF Moving, Committing
    <2>2. b.file \in File /\ row[b.file].status # "available"
      BY <1>0, <2>1 DEF Hidden, Moving, Call, Seen
    <2> QED
      BY <1>2, <1>5, <2>2
  <1>10. Issued'
    BY <1>0, <1>3, <1>4, <1>5 DEF Issued, Listed, Staging
  <1>11. Fresh'
    BY <1>0, <1>3, <1>4, <1>5, FreshKept DEF Listed, Staging
  <1>12. VisibleSafe'
    BY <1>0, <1>2, <1>5 DEF VisibleSafe, Safe
  <1>13. MovedSafe'
    <2> SUFFICES ASSUME NEW d \in Caller, NEW b \in Moved(d)', Exists(b)'
                 PROVE  Safe(b.file)'
      BY DEF MovedSafe
    <2>1. d = c
      BY <1>a, <1>3 DEF Moved, Committing
    <2>2. b \in call[c].seen /\ b \notin call[c].todo /\ b.file \in File
      BY <1>0, <1>4, <2>1 DEF Moved, Call, Seen
    <2>3. Exists(b)
      BY <1>5, <2>2 DEF Exists
    <2>4. CASE b.file = a.file
      <3>1. b = a
        BY <1>0, <1>2, <2>2, <2>4 DEF Listing, Listed
      <3> QED
        BY <1>0, <1>2, <1>5, <2>3, <3>1 DEF Safe
    <2>5. CASE b.file # a.file
      <3>1. b \notin call[c].hand
        BY <1>0, <1>1, <2>5 DEF Listing, Listed
      <3>2. b \in Moved(c)
        BY <1>0, <2>2, <3>1 DEF Moved
      <3> QED
        BY <1>0, <1>5, <2>2, <2>3, <2>5, <3>2 DEF MovedSafe, Safe
    <2> QED
      BY <2>4, <2>5
  <1>14. HandSafe'
    BY <1>a, <1>3, <1>4 DEF HandSafe, Committing
  <1> QED
    BY <1>6, <1>7, <1>8, <1>9, <1>10, <1>11, <1>12, <1>13, <1>14

LEMMA CommitPublishInv ==
  ASSUME Inv, OneCommitter, NEW c \in Caller, CommitPublish(c) PROVE Inv'
  <1> USE DEF Inv
  <1>0. /\ call[c].pc = "publish" /\ call \in [Caller -> Call] /\ call[c] \in Call
        /\ obj' = obj /\ reserved' = reserved /\ stages' = stages
        /\ row \in [File -> Row]
    BY DEF CommitPublish, At, Typed
  <1>1. CASE call' = [call EXCEPT ![c].pc = "close"] /\ row' = row
    <2>1. /\ [call[c] EXCEPT !.pc = "close"] \in Call
          /\ [call[c] EXCEPT !.pc = "close"].pc = "close"
      BY <1>0 DEF Call, Pc
    <2>2. call' = [call EXCEPT ![c] = [call[c] EXCEPT !.pc = "close"]]
      BY <1>0, <1>1
    <2> QED
      BY <1>0, <1>1, <2>1, <2>2, Frame DEF Critical, Staging, Committing, Typed
  <1>2. ASSUME NEW a \in call[c].todo,
               row' = IF Exists(a) THEN [row EXCEPT ![a.file].status = "available"] ELSE row,
               call' = [call EXCEPT ![c].todo = @ \ {a}]
        PROVE  Inv'
    <2>1. /\ a \in call[c].seen /\ a.file \in File /\ a.id # 0
          /\ Exists(a) => Safe(a.file)
      BY <1>0, <1>2 DEF Listing, Listed, Call, Seen, Issued, MovedSafe, Moved
    <2>2. /\ call'[c] = [call[c] EXCEPT !.todo = @ \ {a}]
          /\ \A d \in Caller : d # c => call'[d] = call[d]
      BY <1>0, <1>2
    <2>3. /\ call'[c] \in Call /\ call'[c].pc = "publish"
          /\ call'[c].seen = call[c].seen /\ call'[c].todo = call[c].todo \ {a}
      <3>1. call[c].todo \ {a} \in SUBSET Seen
        BY <1>0 DEF Call
      <3> QED
        BY <1>0, <2>2, <3>1 DEF Call
    <2>4. /\ row' \in [File -> Row]
          /\ \A f \in File : f # a.file => row'[f] = row[f]
          /\ \A f \in File : row'[f].id = row[f].id /\ row'[f].place = row[f].place
          /\ Exists(a) => row'[a.file].status = "available"
          /\ ~Exists(a) => row' = row
      BY <1>0, <1>2, <2>1 DEF Row
    <2>5. Typed'
      <3>1. call' \in [Caller -> Call]
        BY <1>0, <1>2, <2>3
      <3> QED
        BY <1>0, <2>4, <3>1 DEF Typed
    <2>6. AbsentRows'
      BY <1>0, <2>1, <2>4 DEF AbsentRows, Exists
    <2>7. Entitled' /\ Listing'
      <3>1. Listing'
        BY <1>0, <2>2, <2>3, ListingKept DEF Listed
      <3> QED
        BY <1>0, <2>2, <2>3, <3>1 DEF Entitled, Committing
    <2>8. Hidden'
      <3> SUFFICES ASSUME NEW d \in Caller, call'[d].pc \in Moving, NEW b \in call'[d].seen
                   PROVE  row'[b.file].status # "available"
        BY DEF Hidden
      <3>1. d # c /\ call[d].pc \in Committing /\ call[c].pc \in Committing
        BY <1>0, <2>2, <2>3 DEF Moving, Committing
      <3> QED
        BY <3>1, Alone
    <2>9. Issued'
      BY <1>0, <2>2, <2>3, <2>4 DEF Issued, Listed, Staging
    <2>10. Fresh'
      BY <1>0, <2>2, <2>3, <2>4, FreshKept DEF Listed, Staging
    <2>11. VisibleSafe'
      BY <1>0, <2>1, <2>4 DEF VisibleSafe, Safe
    <2>12. MovedSafe'
      <3>1. \A d \in Caller : Moved(d)' = Moved(d)
        BY <1>0, <2>2, <2>3 DEF Moved
      <3>2. \A d \in Caller : \A b \in Moved(d) : b.file \in File
        <4>1. \A d \in Caller : Moved(d) \subseteq call[d].seen
          BY DEF Moved
        <4> QED
          BY <1>0, <4>1 DEF Call, Seen
      <3> QED
        BY <1>0, <2>4, <3>1, <3>2 DEF MovedSafe, Exists, Safe
    <2>13. HandSafe'
      BY <1>0, <2>2, <2>3 DEF HandSafe, Target
    <2> QED
      BY <2>5, <2>6, <2>7, <2>8, <2>9, <2>10, <2>11, <2>12, <2>13
  <1> QED
    BY <1>1, <1>2 DEF CommitPublish, Goto

LEMMA RollbackEraseInv == ASSUME Inv, NEW c \in Caller, RollbackErase(c) PROVE Inv'
  <1> USE DEF Inv
  <1>0. /\ call[c].pc = "erase" /\ call \in [Caller -> Call] /\ call[c] \in Call
        /\ row' = row /\ reserved' = reserved /\ stages' = stages
        /\ row \in [File -> Row] /\ obj \in [File -> [Place -> {0} \cup Size]]
    BY DEF RollbackErase, At, Typed
  <1>1. PICK x \in Call : /\ call' = [call EXCEPT ![c] = x] /\ x.pc \in {"drop", "rclose"}
    <2>1. CASE Goto(c, "rclose")
      <3>1. [call[c] EXCEPT !.pc = "rclose"] \in Call
        BY <1>0 DEF Call, Pc
      <3>2. call' = [call EXCEPT ![c] = [call[c] EXCEPT !.pc = "rclose"]]
        BY <1>0, <2>1 DEF Goto
      <3> QED
        BY <1>0, <3>1, <3>2 DEF Call
    <2>2. ASSUME NEW a \in call[c].todo,
                 call' = [call EXCEPT ![c].pc = "drop", ![c].hand = {a}, ![c].todo = @ \ {a}]
          PROVE  \E x \in Call : call' = [call EXCEPT ![c] = x] /\ x.pc \in {"drop", "rclose"}
      <3> DEFINE x == [call[c] EXCEPT !.pc = "drop", !.hand = {a}, !.todo = @ \ {a}]
      <3>1. "drop" \in Pc /\ {a} \in SUBSET Seen /\ call[c].todo \ {a} \in SUBSET Seen
        BY <1>0 DEF Pc, Call
      <3>2. x \in Call /\ x.pc = "drop"
        BY <1>0, <3>1 DEF Call
      <3>3. call' = [call EXCEPT ![c] = x]
        BY <1>0, <2>2
      <3> QED
        BY <3>2, <3>3
    <2> QED
      BY <2>1, <2>2 DEF RollbackErase
  <1>2. CASE obj' = obj
    BY <1>0, <1>1, <1>2, Frame DEF Critical, Staging, Committing, Typed
  <1>3. ASSUME NEW a \in call[c].todo, Erases(a), obj' = [obj EXCEPT ![a.file][a.place] = 0]
        PROVE  Inv'
    <2>1. /\ obj' \in [File -> [Place -> {0} \cup Size]]
          /\ \A f \in File, p \in Place : p # "staging" => obj'[f][p] = obj[f][p]
      BY <1>0, <1>3 DEF Erases, Call, Seen
    <2>2. /\ call'[c] = x /\ \A d \in Caller : d # c => call'[d] = call[d]
          /\ x.pc \notin Committing /\ x.pc \notin Staging /\ x.pc \notin Listed
          /\ x.pc \notin Moving /\ x.pc # "move" /\ x.pc # "rekey" /\ x.pc # "publish"
      BY <1>0, <1>1 DEF Committing, Staging, Listed, Moving
    <2>3. Typed'
      BY <1>0, <1>1, <2>1 DEF Typed
    <2>4. Entitled' /\ AbsentRows' /\ Issued'
      BY <1>0, <2>2 DEF Entitled, AbsentRows, Issued
    <2>5. Fresh'
      BY <1>0, <2>2, FreshKept
    <2>6. Listing' /\ Hidden'
      BY <1>0, <2>2 DEF Listing, Hidden
    <2>7. \A f \in File : Safe(f) => Safe(f)'
      BY <1>0, <2>1 DEF Safe, Row
    <2>8. VisibleSafe'
      BY <1>0, <2>7 DEF VisibleSafe
    <2>9. MovedSafe'
      <3> SUFFICES ASSUME NEW d \in Caller, NEW b \in Moved(d)', Exists(b)'
                   PROVE  Safe(b.file)'
        BY DEF MovedSafe
      <3>1. b \in Moved(d) /\ Exists(b) /\ b \in call[d].seen
        BY <1>0, <2>2 DEF Moved, Exists
      <3> QED
        BY <1>0, <2>7, <3>1 DEF MovedSafe, Call, Seen
    <2>10. HandSafe'
      <3> SUFFICES ASSUME NEW d \in Caller, call'[d].pc = "rekey", NEW b \in call'[d].hand
                   PROVE  obj'[b.file][Target(b)] # 0
        BY DEF HandSafe, Target
      <3>1. call[d].pc = "rekey" /\ b \in call[d].hand
        BY <2>2
      <3>2. b.file \in File /\ Target(b) \in Place /\ Target(b) # "staging"
        BY <1>0, <3>1 DEF Call, Seen, Target, Place
      <3> QED
        BY <2>1, <3>1, <3>2 DEF HandSafe
    <2> QED
      BY <2>3, <2>4, <2>5, <2>6, <2>8, <2>9, <2>10
  <1> QED
    BY <1>2, <1>3 DEF RollbackErase

LEMMA RollbackDropInv == ASSUME Inv, NEW c \in Caller, RollbackDrop(c) PROVE Inv'
  <1> USE DEF Inv
  <1>0. /\ call[c].pc = "drop" /\ call \in [Caller -> Call] /\ call[c] \in Call
        /\ call' = [call EXCEPT ![c].pc = "erase"]
        /\ obj' = obj /\ reserved' = reserved /\ stages' = stages
        /\ row \in [File -> Row]
    BY DEF RollbackDrop, At, Goto, Typed
  <1>1. PICK a \in call[c].hand :
          row' = IF Exists(a) THEN [row EXCEPT ![a.file] = NoRow] ELSE row
    BY DEF RollbackDrop
  <1>2. /\ NoRow \in Row /\ NoRow.id = 0 /\ NoRow.status = "absent"
    BY BatchAssumption DEF BatchAssumption, NoRow, Row, Place
  <1>3. /\ row' \in [File -> Row]
        /\ \A f \in File : row'[f] = row[f] \/ row'[f] = NoRow
    BY <1>0, <1>1, <1>2 DEF Call, Seen
  <1>4. /\ call'[c] = [call[c] EXCEPT !.pc = "erase"] /\ call'[c].pc = "erase"
        /\ call'[c] \in Call /\ \A d \in Caller : d # c => call'[d] = call[d]
    BY <1>0 DEF Call, Pc
  <1>5. Typed'
    BY <1>0, <1>3, <1>4 DEF Typed
  <1>6. Entitled' /\ Listing'
    BY <1>0, <1>4 DEF Entitled, Listing, Committing, Listed
  <1>7. AbsentRows'
    BY <1>2, <1>3 DEF AbsentRows
  <1>8. Issued'
    BY <1>0, <1>2, <1>3, <1>4 DEF Issued, Listed, Staging, Typed
  <1>9. Fresh'
    BY <1>0, <1>2, <1>3, <1>4, FreshKept DEF Listed, Staging
  <1>10. Hidden'
    BY <1>0, <1>2, <1>3, <1>4 DEF Hidden, Moving, Call, Seen
  <1>11. VisibleSafe'
    BY <1>0, <1>2, <1>3 DEF VisibleSafe, Safe
  <1>12. MovedSafe'
    <2> SUFFICES ASSUME NEW d \in Caller, NEW b \in Moved(d)', Exists(b)'
                 PROVE  Safe(b.file)'
      BY DEF MovedSafe
    <2>1. b \in Moved(d) /\ b \in call[d].seen /\ call[d].pc \in Listed
      BY <1>0, <1>4 DEF Moved, Listed
    <2>2. b.file \in File /\ b.id # 0
      BY <1>0, <2>1 DEF Issued, Call, Seen
    <2>3. row'[b.file] = row[b.file] /\ Exists(b)
      BY <1>2, <1>3, <2>2 DEF Exists
    <2> QED
      BY <1>0, <2>1, <2>3 DEF MovedSafe, Safe
  <1>13. HandSafe'
    BY <1>0, <1>4 DEF HandSafe, Target
  <1> QED
    BY <1>5, <1>6, <1>7, <1>8, <1>9, <1>10, <1>11, <1>12, <1>13

-----------------------------------------------------------------------------
(* The others turn one caller to a step that concerns neither rows nor objects. *)

LEMMA OtherInv ==
  ASSUME Inv, NEW c \in Caller,
         \/ Open(c) \/ CommitClose(c) \/ CommitSettle(c)
         \/ RollbackBegin(c) \/ RollbackList(c) \/ RollbackClose(c) \/ RollbackRefund(c)
         \/ Fail(c)
  PROVE  Inv'
  <1> DEFINE Turn(x) == call' = [call EXCEPT ![c] = x] /\ x.pc \notin Critical
  <1>0. /\ call \in [Caller -> Call] /\ call[c] \in Call
        /\ reserved \in {0, Estimate} /\ reserved \in Nat /\ row \in [File -> Row]
    BY BatchAssumption DEF Inv, Typed, BatchAssumption
  <1>1. row' = row /\ obj' = obj /\ stages' = stages /\ reserved' \in {0, Estimate}
    BY <1>0 DEF Open, OpenReserve, OpenUnreserve, OpenInsert, OpenMark, CommitClose, CommitSettle,
         RollbackBegin, RollbackList, RollbackClose, RollbackRefund, Fail
  <1>2. \A pc \in Pc \ Critical : Goto(c, pc) => \E x \in Call : Turn(x)
    <2> SUFFICES ASSUME NEW pc \in Pc \ Critical, Goto(c, pc) PROVE \E x \in Call : Turn(x)
      OBVIOUS
    <2> DEFINE x == [call[c] EXCEPT !.pc = pc]
    <2>1. x \in Call /\ x.pc = pc
      BY <1>0 DEF Call
    <2>2. call' = [call EXCEPT ![c] = x]
      BY <1>0 DEF Goto
    <2> QED
      BY <2>1, <2>2
  <1>3. Return(c) => \E x \in Call : Turn(x)
    <2>1. Idle \in Call /\ Idle.pc \notin Critical
      BY DEF Idle, Call, Pc, Critical, Staging, Committing
    <2> QED
      BY <2>1 DEF Return
  <1>4. RollbackBegin(c) => \E x \in Call : Turn(x)
    <2> SUFFICES ASSUME RollbackBegin(c) PROVE \E x \in Call : Turn(x)
      OBVIOUS
    <2> DEFINE x == [call[c] EXCEPT !.pc = "rlist", !.reserved = reserved]
    <2>1. "rlist" \in Pc \ Critical
      BY DEF Pc, Critical, Staging, Committing
    <2>2. x \in Call /\ x.pc = "rlist"
      BY <1>0, <2>1 DEF Call
    <2>3. call' = [call EXCEPT ![c] = x]
      BY <1>0 DEF RollbackBegin
    <2> QED
      BY <2>1, <2>2, <2>3
  <1>5. RollbackList(c) => \E x \in Call : Turn(x)
    <2> SUFFICES ASSUME RollbackList(c) PROVE \E x \in Call : Turn(x)
      OBVIOUS
    <2> DEFINE x == [call[c] EXCEPT !.pc = "erase", !.todo = AllRows]
    <2>1. "erase" \in Pc \ Critical
      BY DEF Pc, Critical, Staging, Committing
    <2>2. AllRows \in SUBSET Seen
      BY <1>0 DEF AllRows, AsSeen, Row, Seen
    <2>3. x \in Call /\ x.pc = "erase"
      BY <1>0, <2>1, <2>2 DEF Call
    <2>4. call' = [call EXCEPT ![c] = x]
      BY <1>0 DEF RollbackList
    <2> QED
      BY <2>1, <2>3, <2>4
  <1>6. \E pc \in Pc \ Critical :
          Return(c) \/ Goto(c, pc) \/ RollbackBegin(c) \/ RollbackList(c)
    BY DEF Open, OpenReserve, OpenUnreserve, OpenInsert, OpenMark, CommitClose, CommitSettle,
         RollbackClose, RollbackRefund, Fail, Pc, Critical, Staging, Committing
  <1>7. PICK x \in Call : Turn(x)
    BY <1>2, <1>3, <1>4, <1>5, <1>6
  <1> QED
    BY <1>1, <1>7, Frame

LEMMA NextInv == ASSUME OneCommitter, Inv, [Next]_vars PROVE Inv'
  <1>1. ASSUME NEW c \in Caller, Open(c) \/ Stage(c) \/ Commit(c) \/ Rollback(c) \/ Fail(c)
        PROVE  Inv'
    BY <1>1, StageBeginInv, StagePutInv, StageRecordInv, CommitBeginInv, CommitListInv,
       CommitMoveInv, CommitRekeyInv, CommitPublishInv, RollbackEraseInv, RollbackDropInv, OtherInv
       DEF Stage, Commit, Rollback
  <1>2. CASE UNCHANGED vars
    BY <1>2 DEF vars, Inv, Typed, Entitled, Issued, Fresh, AbsentRows, Listing, Hidden,
       MovedSafe, HandSafe, VisibleSafe, Moved, Safe, Exists, Target
  <1> QED
    BY <1>1, <1>2 DEF Next

-----------------------------------------------------------------------------

\* Whatever fails, and whoever stages, sweeps or rolls back while the batch is
\* committed: a file that readers can see has its object at the key in its row.
THEOREM VisibleFilesAreThere ==
  ASSUME OneCommitter
  PROVE  Spec => []VisibleHasObject
  <1>1. Init => Inv
    BY InitInv
  <1>2. Inv /\ [Next]_vars => Inv'
    BY OneCommitter, NextInv
  <1>3. Inv => VisibleHasObject
    BY VisibleFollows
  <1> QED
    BY <1>1, <1>2, <1>3, PTL DEF Spec
-----------------------------------------------------------------------------
(* Sums.  MapThenSumSet folds over a set in an order nobody chose; that it is *)
(* a sum - it exists, is a natural number and does not depend on the order -  *)
(* is shown by looking at a smallest set for which it would fail.             *)

\* The element a fold takes first.
Pick(s) == CHOOSE x \in s : TRUE

\* g sums w over every subset of U, an element at a time.
SumsUp(g, w, U) == g = [s \in SUBSET U |-> IF s = {} THEN 0 ELSE w[Pick(s)] + g[s \ {Pick(s)}]]

\* The sum of w over S.
Total(w, S) == MapThenSumSet(LAMBDA x : w[x], S)

LEMMA TotalIs == ASSUME NEW w, NEW S PROVE Total(w, S) = (CHOOSE g : SumsUp(g, w, S))[S]
BY DEF Total, MapThenSumSet, MapThenFoldSet, SumsUp, Pick

LEMMA Picked == ASSUME NEW s, s # {} PROVE Pick(s) \in s
BY DEF Pick

\* A property of numbers that fails fails at a least number.
LEMMA Least ==
  ASSUME NEW X \in SUBSET Nat, X # {}
  PROVE  \E n \in X : \A m \in X : n <= m
<1>1. IsWellFoundedOn(OpToRel(<, Nat), Nat)
  BY NatLessThanWellFounded
<1>2. PICK n \in X : \A m \in X : ~(<<m, n>> \in OpToRel(<, Nat))
  BY <1>1, WFMin
<1>3. \A m \in X : ~(m < n)
  BY <1>2 DEF OpToRel
<1> QED
  BY <1>3

\* A set without one of its elements is smaller.
LEMMA Without ==
  ASSUME NEW s, IsFiniteSet(s), NEW x \in s
  PROVE  IsFiniteSet(s \ {x}) /\ Cardinality(s \ {x}) \in Nat /\ Cardinality(s) \in Nat
         /\ Cardinality(s \ {x}) < Cardinality(s)
BY FS_RemoveElement, FS_CardinalityType, IsFiniteSet(s \ {x}), FS_Subset

\* Two sums agree on what both sum.
LEMMA SumsAgree ==
  ASSUME NEW w, NEW U, NEW V, NEW g, NEW h, SumsUp(g, w, U), SumsUp(h, w, V),
         NEW s, IsFiniteSet(s), s \subseteq U, s \subseteq V
  PROVE  g[s] = h[s]
<1> DEFINE Bad == {t \in SUBSET s : g[t] # h[t]}
           Sizes == {Cardinality(t) : t \in Bad}
<1>1. SUFFICES ASSUME Bad # {} PROVE FALSE
  OBVIOUS
<1>2. \A t \in SUBSET s : IsFiniteSet(t) /\ Cardinality(t) \in Nat
  BY FS_Subset, FS_CardinalityType
<1>3. Sizes \in SUBSET Nat /\ Sizes # {}
  BY <1>1, <1>2
<1>4. PICK n \in Sizes : \A m \in Sizes : n <= m
  BY <1>3, Least
<1>5. PICK t \in Bad : n = Cardinality(t)
  BY <1>4
<1>6. CASE t = {}
  BY <1>5, <1>6 DEF SumsUp
<1>7. CASE t # {}
  <2>1. Pick(t) \in t
    BY <1>7, Picked
  <2>2. Cardinality(t \ {Pick(t)}) \in Nat /\ Cardinality(t) \in Nat /\ Cardinality(t \ {Pick(t)}) < Cardinality(t)
    BY <1>2, <1>5, <2>1, Without
  <2>3. t \ {Pick(t)} \notin Bad
    BY <1>4, <1>5, <2>2
  <2>4. g[t \ {Pick(t)}] = h[t \ {Pick(t)}]
    BY <2>3
  <2>5. g[t] = w[Pick(t)] + g[t \ {Pick(t)}] /\ h[t] = w[Pick(t)] + h[t \ {Pick(t)}]
    BY <1>5, <1>7 DEF SumsUp
  <2> QED
    BY <1>5, <2>4, <2>5
<1> QED
  BY <1>6, <1>7

\* There is a sum over every finite set.
LEMMA SumExists ==
  ASSUME NEW w, NEW S, IsFiniteSet(S)
  PROVE  \E g : SumsUp(g, w, S)
<1> DEFINE Bad == {t \in SUBSET S : ~\E g : SumsUp(g, w, t)}
           Sizes == {Cardinality(t) : t \in Bad}
<1>1. SUFFICES ASSUME Bad # {} PROVE FALSE
  OBVIOUS
<1>2. \A t \in SUBSET S : IsFiniteSet(t) /\ Cardinality(t) \in Nat
  BY FS_Subset, FS_CardinalityType
<1>3. Sizes \in SUBSET Nat /\ Sizes # {}
  BY <1>1, <1>2
<1>4. PICK n \in Sizes : \A m \in Sizes : n <= m
  BY <1>3, Least
<1>5. PICK U \in Bad : n = Cardinality(U)
  BY <1>4
<1> HIDE DEF Bad
<1> DEFINE G(t) == CHOOSE g : SumsUp(g, w, t)
           F == [s \in SUBSET U |-> IF s = {} THEN 0 ELSE w[Pick(s)] + G(s \ {Pick(s)})[s \ {Pick(s)}]]
<1>6. ASSUME NEW s \in SUBSET U, s # {}
      PROVE  SumsUp(G(s \ {Pick(s)}), w, s \ {Pick(s)})
  <2>1. Pick(s) \in s /\ s \in SUBSET S
    BY <1>5, <1>6, Picked DEF Bad
  <2>2. IsFiniteSet(U) /\ Cardinality(U) \in Nat
    BY <1>2, <1>5 DEF Bad
  <2>3. /\ Cardinality(s \ {Pick(s)}) < Cardinality(s) /\ Cardinality(s \ {Pick(s)}) \in Nat
        /\ Cardinality(s) \in Nat
    BY <1>2, <2>1, Without
  <2>4. Cardinality(s) <= Cardinality(U)
    BY <1>6, <2>2, FS_Subset
  <2>5. s \ {Pick(s)} \notin Bad
    BY <1>4, <1>5, <2>2, <2>3, <2>4
  <2> QED
    BY <2>1, <2>5 DEF Bad
<1>7. ASSUME NEW s \in SUBSET U, s # {}
      PROVE  F[s \ {Pick(s)}] = G(s \ {Pick(s)})[s \ {Pick(s)}]
  <2> DEFINE t == s \ {Pick(s)}
  <2>1. SumsUp(G(t), w, t) /\ t \in SUBSET U /\ t \in SUBSET t
    BY <1>6, <1>7
  <2>2. CASE t = {}
    <3>1. G(t)[t] = 0
      BY <2>1, <2>2 DEF SumsUp
    <3>2. F[t] = 0
      BY <2>1, <2>2
    <3> QED
      BY <3>1, <3>2
  <2>3. CASE t # {}
    <3>1. G(t)[t] = w[Pick(t)] + G(t)[t \ {Pick(t)}]
      <4> HIDE DEF G
      <4> QED
        BY <2>1, <2>3 DEF SumsUp
    <3>2. F[t] = w[Pick(t)] + G(t \ {Pick(t)})[t \ {Pick(t)}]
      BY <2>1, <2>3
    <3>3. SumsUp(G(t \ {Pick(t)}), w, t \ {Pick(t)})
      BY <2>1, <2>3, <1>6
    <3>4. IsFiniteSet(t \ {Pick(t)})
      BY <1>2, <1>5, <2>1, t \ {Pick(t)} \in SUBSET S DEF Bad
    <3>5. G(t)[t \ {Pick(t)}] = G(t \ {Pick(t)})[t \ {Pick(t)}]
      <4> HIDE DEF G, t
      <4> QED
        BY <2>1, <3>3, <3>4, SumsAgree
    <3> QED
      BY <3>1, <3>2, <3>5
  <2> QED
    BY <2>2, <2>3
<1>8. SumsUp(F, w, U)
  <2>1. ASSUME NEW s \in SUBSET U, s # {} PROVE F[s] = w[Pick(s)] + F[s \ {Pick(s)}]
    <3>1. F[s] = w[Pick(s)] + G(s \ {Pick(s)})[s \ {Pick(s)}]
      BY <2>1
    <3> HIDE DEF F, G
    <3> QED
      BY <1>7, <2>1, <3>1
  <2>2. F[{}] = 0
    OBVIOUS
  <2>3. F = [s \in SUBSET U |-> F[s]]
    OBVIOUS
  <2> HIDE DEF F
  <2>4. \A s \in SUBSET U : F[s] = IF s = {} THEN 0 ELSE w[Pick(s)] + F[s \ {Pick(s)}]
    BY <2>1, <2>2
  <2> QED
    BY <2>3, <2>4 DEF SumsUp
<1> QED
  BY <1>5, <1>8 DEF Bad

LEMMA TotalStep ==
  ASSUME NEW w, NEW S, IsFiniteSet(S)
  PROVE  /\ Total(w, {}) = 0
         /\ S # {} => Total(w, S) = w[Pick(S)] + Total(w, S \ {Pick(S)})
<1>1. SumsUp(CHOOSE g : SumsUp(g, w, S), w, S)
  BY SumExists
<1>2. SumsUp(CHOOSE g : SumsUp(g, w, {}), w, {})
  BY SumExists, FS_EmptySet
<1>3. Total(w, {}) = 0
  BY <1>2, TotalIs DEF SumsUp
<1>4. ASSUME S # {} PROVE Total(w, S) = w[Pick(S)] + Total(w, S \ {Pick(S)})
  <2>1. PICK T : T = S \ {Pick(S)}
    OBVIOUS
  <2>2. IsFiniteSet(T) /\ T \subseteq S
    BY <2>1, FS_Subset
  <2>3. SumsUp(CHOOSE g : SumsUp(g, w, T), w, T)
    BY <2>2, SumExists
  <2>4. (CHOOSE g : SumsUp(g, w, S))[T] = (CHOOSE g : SumsUp(g, w, T))[T]
    BY <1>1, <2>2, <2>3, SumsAgree
  <2>5. (CHOOSE g : SumsUp(g, w, S))[S] = w[Pick(S)] + (CHOOSE g : SumsUp(g, w, S))[T]
    BY <1>1, <1>4, <2>1 DEF SumsUp
  <2> QED
    BY <2>1, <2>4, <2>5, TotalIs
<1> QED
  BY <1>3, <1>4

\* The sum over a finite set of naturals is a natural.
LEMMA TotalNat ==
  ASSUME NEW w, NEW S, IsFiniteSet(S), \A x \in S : w[x] \in Nat
  PROVE  Total(w, S) \in Nat
<1> DEFINE Bad == {t \in SUBSET S : Total(w, t) \notin Nat}
           Sizes == {Cardinality(t) : t \in Bad}
<1>1. SUFFICES ASSUME Bad # {} PROVE FALSE
  OBVIOUS
<1>2. \A t \in SUBSET S : IsFiniteSet(t) /\ Cardinality(t) \in Nat
  BY FS_Subset, FS_CardinalityType
<1>3. Sizes \in SUBSET Nat /\ Sizes # {}
  BY <1>1, <1>2
<1>4. PICK n \in Sizes : \A m \in Sizes : n <= m
  BY <1>3, Least
<1>5. PICK t \in Bad : n = Cardinality(t)
  BY <1>4
<1>6. t # {}
  <2>1. Total(w, {}) = 0
    BY TotalStep
  <2> QED
    BY <1>5, <2>1
<1>7. Pick(t) \in t
  BY <1>6, Picked
<1>8. Cardinality(t \ {Pick(t)}) \in Nat /\ Cardinality(t) \in Nat /\ Cardinality(t \ {Pick(t)}) < Cardinality(t)
  BY <1>2, <1>5, <1>7, Without
<1>9. t \ {Pick(t)} \notin Bad
  BY <1>4, <1>5, <1>8
<1>10. Total(w, t \ {Pick(t)}) \in Nat
  BY <1>9
<1>11. Total(w, t) = w[Pick(t)] + Total(w, t \ {Pick(t)})
  BY <1>2, <1>5, <1>6, TotalStep
<1> QED
  BY <1>5, <1>7, <1>10, <1>11

\* The sum over a set is the sum over the set without any of its elements, and that element's.
LEMMA TotalWithout ==
  ASSUME NEW w, NEW S, IsFiniteSet(S), \A x \in S : w[x] \in Nat, NEW y \in S
  PROVE  Total(w, S) = w[y] + Total(w, S \ {y})
<1> DEFINE Bad == {t \in SUBSET S : \E x \in t : Total(w, t) # w[x] + Total(w, t \ {x})}
           Sizes == {Cardinality(t) : t \in Bad}
<1>1. SUFFICES ASSUME Bad # {} PROVE FALSE
  OBVIOUS
<1>2. \A t \in SUBSET S : IsFiniteSet(t) /\ Cardinality(t) \in Nat
  BY FS_Subset, FS_CardinalityType
<1>3. Sizes \in SUBSET Nat /\ Sizes # {}
  BY <1>1, <1>2
<1>4. PICK n \in Sizes : \A m \in Sizes : n <= m
  BY <1>3, Least
<1>5. PICK t \in Bad : n = Cardinality(t)
  BY <1>4
<1>6. PICK x \in t : Total(w, t) # w[x] + Total(w, t \ {x})
  BY <1>5
<1>7. PICK p : p = Pick(t)
  OBVIOUS
<1>8. p \in t /\ t # {} /\ t \in SUBSET S
  BY <1>5, <1>6, <1>7, Picked
<1>9. Total(w, t) = w[p] + Total(w, t \ {p})
  BY <1>2, <1>7, <1>8, TotalStep
<1>10. x # p
  BY <1>6, <1>9
<1>11. ASSUME NEW z \in t PROVE t \ {z} \notin Bad
  <2>1. Cardinality(t \ {z}) \in Nat /\ Cardinality(t) \in Nat /\ Cardinality(t \ {z}) < Cardinality(t)
    BY <1>2, <1>8, Without
  <2> HIDE DEF Bad
  <2> QED
    BY <1>4, <1>5, <2>1
<1>12. Total(w, t \ {p}) = w[x] + Total(w, (t \ {p}) \ {x})
  BY <1>6, <1>8, <1>10, <1>11
<1>13. Total(w, t \ {x}) = w[p] + Total(w, (t \ {x}) \ {p})
  BY <1>6, <1>8, <1>10, <1>11
<1>14. (t \ {p}) \ {x} = (t \ {x}) \ {p}
  OBVIOUS
<1>15. Total(w, (t \ {p}) \ {x}) \in Nat /\ w[x] \in Nat /\ w[p] \in Nat
  <2>1. (t \ {p}) \ {x} \in SUBSET S
    BY <1>8
  <2>2. Total(w, (t \ {p}) \ {x}) \in Nat
    BY <1>2, <2>1, TotalNat
  <2> QED
    BY <1>6, <1>8, <2>2
<1>16. PICK r \in Nat : r = Total(w, (t \ {p}) \ {x})
  BY <1>15
<1> QED
  BY <1>6, <1>9, <1>12, <1>13, <1>14, <1>15, <1>16

\* A sum depends on what is summed only.
LEMMA TotalSame ==
  ASSUME NEW v, NEW w, NEW S, \A x \in S : v[x] = w[x]
  PROVE  Total(v, S) = Total(w, S)
<1>1. ASSUME NEW s \in SUBSET S, s # {} PROVE v[Pick(s)] = w[Pick(s)]
  BY <1>1, Picked
<1>2. ASSUME NEW g
      PROVE  [s \in SUBSET S |-> IF s = {} THEN 0 ELSE v[Pick(s)] + g[s \ {Pick(s)}]]
           = [s \in SUBSET S |-> IF s = {} THEN 0 ELSE w[Pick(s)] + g[s \ {Pick(s)}]]
  BY <1>1
<1>3. \A g : SumsUp(g, v, S) <=> SumsUp(g, w, S)
  BY <1>2 DEF SumsUp
<1>4. (CHOOSE g : SumsUp(g, v, S)) = (CHOOSE g : SumsUp(g, w, S))
  BY <1>3
<1> QED
  BY <1>4, TotalIs

\* The two sums of the batch: the sizes of listed rows, and of the rows of some paths.
LEMMA ListedTotal ==
  ASSUME NEW S
  PROVE  MapThenSumSet(LAMBDA a : a.size, S) = Total([a \in S |-> a.size], S)
<1> DEFINE w == [a \in S |-> a.size]
           Sums(g) == g = [s \in SUBSET S |-> IF s = {} THEN 0 ELSE Pick(s).size + g[s \ {Pick(s)}]]
<1>1. ASSUME NEW s \in SUBSET S, s # {} PROVE w[Pick(s)] = Pick(s).size
  BY <1>1, Picked
<1>2. ASSUME NEW g
      PROVE  [s \in SUBSET S |-> IF s = {} THEN 0 ELSE Pick(s).size + g[s \ {Pick(s)}]]
           = [s \in SUBSET S |-> IF s = {} THEN 0 ELSE w[Pick(s)] + g[s \ {Pick(s)}]]
  <2> HIDE DEF w
  <2> QED
    BY <1>1
<1>3. \A g : Sums(g) <=> SumsUp(g, w, S)
  <2> HIDE DEF w
  <2> QED
    BY <1>2 DEF SumsUp
<1>4. (CHOOSE g : Sums(g)) = (CHOOSE g : SumsUp(g, w, S))
  <2> HIDE DEF Sums, w
  <2> QED
    BY <1>3
<1>5. MapThenSumSet(LAMBDA a : a.size, S) = (CHOOSE g : Sums(g))[S]
  BY DEF MapThenSumSet, MapThenFoldSet, Pick
<1> QED
  BY <1>4, <1>5, TotalIs

LEMMA BytesTotal ==
  ASSUME NEW S
  PROVE  Bytes(S) = Total([f \in S |-> row[f].size], S)
<1> DEFINE w == [f \in S |-> row[f].size]
           Sums(g) == g = [s \in SUBSET S |-> IF s = {} THEN 0 ELSE row[Pick(s)].size + g[s \ {Pick(s)}]]
<1>1. ASSUME NEW s \in SUBSET S, s # {} PROVE w[Pick(s)] = row[Pick(s)].size
  BY <1>1, Picked
<1>2. ASSUME NEW g
      PROVE  [s \in SUBSET S |-> IF s = {} THEN 0 ELSE row[Pick(s)].size + g[s \ {Pick(s)}]]
           = [s \in SUBSET S |-> IF s = {} THEN 0 ELSE w[Pick(s)] + g[s \ {Pick(s)}]]
  <2> HIDE DEF w
  <2> QED
    BY <1>1
<1>3. \A g : Sums(g) <=> SumsUp(g, w, S)
  <2> HIDE DEF w
  <2> QED
    BY <1>2 DEF SumsUp
<1>4. (CHOOSE g : Sums(g)) = (CHOOSE g : SumsUp(g, w, S))
  <2> HIDE DEF Sums, w
  <2> QED
    BY <1>3
<1>5. Bytes(S) = (CHOOSE g : Sums(g))[S]
  BY DEF Bytes, MapThenSumSet, MapThenFoldSet, Pick
<1> QED
  BY <1>4, <1>5, TotalIs

\* A sum over a list of records is the sum over the paths that the records are about.
LEMMA TotalByFile ==
  ASSUME NEW w, NEW v, NEW S, IsFiniteSet(S),
         \A a \in S : w[a] \in Nat /\ w[a] = v[a.file],
         \A a, b \in S : a.file = b.file => a = b
  PROVE  Total(w, S) = Total(v, {a.file : a \in S})
<1> DEFINE Files(t) == {a.file : a \in t}
           Bad == {t \in SUBSET S : Total(w, t) # Total(v, Files(t))}
           Sizes == {Cardinality(t) : t \in Bad}
<1>1. SUFFICES ASSUME Bad # {} PROVE FALSE
  OBVIOUS
<1>2. \A t \in SUBSET S : IsFiniteSet(t) /\ Cardinality(t) \in Nat
  BY FS_Subset, FS_CardinalityType
<1>3. Sizes \in SUBSET Nat /\ Sizes # {}
  BY <1>1, <1>2
<1>4. PICK n \in Sizes : \A m \in Sizes : n <= m
  BY <1>3, Least
<1>5. PICK t \in Bad : n = Cardinality(t)
  BY <1>4
<1>6. t \in SUBSET S /\ Total(w, t) # Total(v, Files(t))
  BY <1>5
<1>7. t # {}
  <2>1. Total(w, {}) = 0 /\ Total(v, {}) = 0
    BY FS_EmptySet, TotalStep
  <2>2. Files({}) = {}
    OBVIOUS
  <2> QED
    BY <1>6, <2>1, <2>2
<1>8. PICK a \in t : TRUE
  BY <1>7
<1>9. PICK u : u = t \ {a}
  OBVIOUS
<1>10. u \notin Bad /\ u \in SUBSET S
  <2>1. Cardinality(u) \in Nat /\ Cardinality(t) \in Nat /\ Cardinality(u) < Cardinality(t)
    BY <1>2, <1>6, <1>9, Without
  <2> HIDE DEF Bad
  <2>2. u \notin Bad
    BY <1>4, <1>5, <2>1
  <2> QED
    BY <1>6, <1>9, <2>2
<1>11. Total(w, u) = Total(v, Files(u))
  BY <1>10
<1>12. Total(w, t) = w[a] + Total(w, u)
  BY <1>2, <1>6, <1>9, TotalWithout
<1>13. Files(u) = Files(t) \ {a.file}
  BY <1>6, <1>9
<1>14. Total(v, Files(t)) = v[a.file] + Total(v, Files(t) \ {a.file})
  <2>1. a.file \in Files(t) /\ \A f \in Files(t) : v[f] \in Nat
    BY <1>6
  <2>2. IsFiniteSet(Files(t))
    <3>1. [b \in t |-> b.file] \in Surjection(t, Files(t))
      BY DEF Surjection
    <3> HIDE DEF Files
    <3> QED
      BY <1>2, <1>6, <3>1, FS_Surjection
  <2> HIDE DEF Files
  <2> QED
    BY <2>1, <2>2, TotalWithout
<1> QED
  BY <1>6, <1>8, <1>11, <1>12, <1>13, <1>14
-----------------------------------------------------------------------------
(* Types, for callers that overlap as they like.                             *)

Recorded == {f \in File : row[f].status # "absent"}

\* There are finitely many rows, so finitely many are listed.
FiniteLists == IsFiniteSet(Recorded) /\ \A c \in Caller : IsFiniteSet(call[c].seen)

\* A file is put with one of the sizes that files are staged with.
PutSizes == \A c \in Caller : call[c].pc = "put" => \A h \in call[c].hand : h.size \in Size

TypeInv == TypeOK /\ FiniteLists /\ PutSizes

LEMMA IdleTyped == Idle \in Call
BY DEF Idle, Call, Pc

LEMMA CallFields ==
  ASSUME NEW k \in Call
  PROVE  /\ k.pc \in Pc /\ k.seen \in SUBSET Seen /\ k.todo \in SUBSET Seen
         /\ k.hand \in SUBSET Seen /\ k.reserved \in Nat
BY DEF Call

LEMMA NewCall ==
  ASSUME NEW k \in Call, NEW pc \in Pc, NEW s \in SUBSET Seen, NEW t \in SUBSET Seen,
         NEW h \in SUBSET Seen, NEW r \in Nat
  PROVE  /\ [k EXCEPT !.pc = pc] \in Call
         /\ [k EXCEPT !.todo = t] \in Call
         /\ [k EXCEPT !.pc = pc, !.todo = t] \in Call
         /\ [k EXCEPT !.pc = pc, !.hand = h] \in Call
         /\ [k EXCEPT !.pc = pc, !.hand = h, !.todo = t] \in Call
         /\ [k EXCEPT !.pc = pc, !.reserved = r] \in Call
         /\ [k EXCEPT !.pc = pc, !.seen = s, !.todo = t] \in Call
BY DEF Call

\* A bump by any whole number leaves the owner with a natural number of bytes.
LEMMA BumpTyped ==
  ASSUME used \in Nat, NEW d \in Int, Bump(d)
  PROVE  used' \in Nat
BY DEF Bump

LEMMA SettlementTyped ==
  ASSUME NEW c \in Caller, call[c] \in Call, IsFiniteSet(call[c].seen)
  PROVE  Settlement(c) \in Int
<1>1. call[c].reserved \in Nat /\ \A a \in call[c].seen : a.size \in Nat
  BY CallFields DEF Seen
<1> DEFINE w == [a \in call[c].seen |-> a.size]
<1>2. \A a \in call[c].seen : w[a] \in Nat
  BY <1>1
<1>3. Total(w, call[c].seen) \in Nat
  <2> HIDE DEF w
  <2> QED
    BY <1>2, TotalNat
<1>4. MapThenSumSet(LAMBDA a : a.size, call[c].seen) = Total(w, call[c].seen)
  BY ListedTotal
<1>5. \A n \in Nat : \A m \in Nat : n - m \in Int
  OBVIOUS
<1> HIDE DEF w
<1> QED
  BY <1>1, <1>3, <1>4, <1>5 DEF Settlement

LEMMA RowsListed ==
  ASSUME TypeInv
  PROVE  /\ StagedRows \in SUBSET Seen /\ IsFiniteSet(StagedRows)
         /\ AllRows \in SUBSET Seen
<1>1. \A f \in File : AsSeen(f) \in Seen
  BY DEF TypeInv, TypeOK, Row, AsSeen, Seen
<1>2. StagedRows \in SUBSET Seen /\ AllRows \in SUBSET Seen
  BY <1>1 DEF StagedRows, AllRows
<1>3. IsFiniteSet(StagedRows)
  <2> DEFINE S == {g \in File : row[g].status = "pending"}
  <2>1. IsFiniteSet(S)
    BY FS_Subset DEF TypeInv, FiniteLists, Recorded
  <2>2. [f \in S |-> AsSeen(f)] \in Surjection(S, StagedRows)
    BY DEF StagedRows, Surjection
  <2> HIDE DEF S
  <2> QED
    BY <2>1, <2>2, FS_Surjection
<1> QED
  BY <1>2, <1>3

\* A step of caller c that leaves the rows alone.
LEMMA TypeFrame ==
  ASSUME TypeInv, NEW c \in Caller, NEW x \in Call, call' = [call EXCEPT ![c] = x], IsFiniteSet(x.seen),
         x.pc # "put", row' = row, UNCHANGED stages, tx' \in {"absent", "pending", "committed", "rolled_back"},
         reserved' \in {0, Estimate}, known' \in BOOLEAN, used' \in Nat,
         obj' \in [File -> [Place -> {0} \cup Size]], faults' \in 0 .. MaxFaults
  PROVE  TypeInv'
<1>1. call' \in [Caller -> Call] /\ \A d \in Caller : IsFiniteSet(call'[d].seen)
  BY DEF TypeInv, TypeOK, FiniteLists
<1>2. Recorded' = Recorded
  BY DEF Recorded
<1>3. PutSizes'
  BY DEF TypeInv, TypeOK, PutSizes
<1> QED
  BY <1>1, <1>2, <1>3 DEF TypeInv, TypeOK, FiniteLists

\* A step that writes, keeps or drops one row.
LEMMA RowsTyped ==
  ASSUME TypeInv, NEW f \in File, NEW r \in Row, row' = [row EXCEPT ![f] = r] \/ row' = row
  PROVE  row' \in [File -> Row] /\ IsFiniteSet(Recorded')
<1>1. row' \in [File -> Row]
  BY DEF TypeInv, TypeOK
<1>2. IsFiniteSet(Recorded \cup {f})
  BY FS_AddElement DEF TypeInv, FiniteLists
<1>3. Recorded' \subseteq Recorded \cup {f}
  BY DEF Recorded, TypeInv, TypeOK
<1> QED
  BY <1>1, <1>2, <1>3, FS_Subset

LEMMA TypeStep ==
  ASSUME TypeInv, NEW c \in Caller, Open(c) \/ Stage(c) \/ Commit(c) \/ Rollback(c) \/ Fail(c)
  PROVE  TypeInv'
<1>0. /\ call \in [Caller -> Call] /\ call[c] \in Call /\ row \in [File -> Row] /\ IsFiniteSet(call[c].seen)
      /\ obj \in [File -> [Place -> {0} \cup Size]] /\ used \in Nat /\ stages \in 0 .. MaxStages
      /\ tx \in {"absent", "pending", "committed", "rolled_back"} /\ reserved \in {0, Estimate} /\ known \in BOOLEAN
      /\ faults \in 0 .. MaxFaults /\ Estimate \in Nat /\ MaxStages \in Nat /\ MaxFaults \in Nat
  BY BatchAssumption DEF TypeInv, TypeOK, FiniteLists
<1>1. /\ call[c].pc \in Pc /\ call[c].seen \in SUBSET Seen /\ call[c].todo \in SUBSET Seen
      /\ call[c].hand \in SUBSET Seen /\ call[c].reserved \in Nat
  BY <1>0, CallFields
<1>2. ASSUME NEW x \in Call, x.seen = call[c].seen \/ x.seen = {}, call' = [call EXCEPT ![c] = x],
             x.pc # "put", row' = row, UNCHANGED stages, tx' \in {"absent", "pending", "committed", "rolled_back"},
             reserved' \in {0, Estimate}, known' \in BOOLEAN, used' \in Nat,
             obj' \in [File -> [Place -> {0} \cup Size]], faults' \in 0 .. MaxFaults
      PROVE  TypeInv'
  BY <1>0, <1>2, FS_EmptySet, TypeFrame
<1>3. ASSUME NEW f \in File, NEW r \in Row, row' = [row EXCEPT ![f] = r] \/ row' = row, NEW x \in Call,
             x.seen = call[c].seen \/ x.seen = {}, x.pc # "put", call' = [call EXCEPT ![c] = x],
             UNCHANGED <<tx, reserved, known, used, obj, stages, faults>>
      PROVE  TypeInv'
  <2>1. row' \in [File -> Row] /\ IsFiniteSet(Recorded')
    BY <1>3, RowsTyped
  <2>2. \A d \in Caller : IsFiniteSet(call'[d].seen)
    BY <1>0, <1>3, FS_EmptySet DEF TypeInv, FiniteLists
  <2>3. PutSizes'
    BY <1>0, <1>3 DEF TypeInv, PutSizes
  <2> QED
    BY <1>0, <1>3, <2>1, <2>2, <2>3 DEF TypeInv, TypeOK, FiniteLists
<1>4. ASSUME NEW pc \in Pc \ {"put"}, Goto(c, pc), UNCHANGED <<row, stages>>,
             tx' \in {"absent", "pending", "committed", "rolled_back"},
             reserved' \in {0, Estimate}, known' \in BOOLEAN, used' \in Nat,
             obj' \in [File -> [Place -> {0} \cup Size]], faults' \in 0 .. MaxFaults
      PROVE  TypeInv'
  <2>1. [call[c] EXCEPT !.pc = pc] \in Call /\ [call[c] EXCEPT !.pc = pc].seen = call[c].seen
       /\ [call[c] EXCEPT !.pc = pc].pc # "put"
    BY <1>0, <1>1 DEF Call
  <2>2. call' = [call EXCEPT ![c] = [call[c] EXCEPT !.pc = pc]]
    BY <1>0, <1>4 DEF Goto
  <2> QED
    BY <1>2, <1>4, <2>1, <2>2
<1>5. ASSUME Return(c), UNCHANGED <<row, stages>>,
             tx' \in {"absent", "pending", "committed", "rolled_back"},
             reserved' \in {0, Estimate}, known' \in BOOLEAN, used' \in Nat,
             obj' \in [File -> [Place -> {0} \cup Size]], faults' \in 0 .. MaxFaults
      PROVE  TypeInv'
  BY <1>2, <1>5, IdleTyped DEF Return, Idle
<1>6. /\ Bump(Estimate) => used' \in Nat
      /\ Bump(-Estimate) => used' \in Nat
      /\ Bump(-call[c].reserved) => used' \in Nat
      /\ Bump(Settlement(c)) => used' \in Nat
  <2>1. Estimate \in Int /\ -Estimate \in Int /\ -call[c].reserved \in Int
    BY <1>0, <1>1
  <2> QED
    BY <1>0, <2>1, BumpTyped, SettlementTyped
<1>7. CASE OpenReserve(c)
  <2>1. Goto(c, "unreserve") \/ Goto(c, "insert")
    BY <1>7 DEF OpenReserve
  <2> QED
    BY <1>0, <1>4, <1>6, <1>7, <2>1 DEF OpenReserve, Pc
<1>8. CASE OpenUnreserve(c)
  BY <1>0, <1>5, <1>6, <1>8 DEF OpenUnreserve
<1>9. CASE OpenInsert(c)
  <2>1. Goto(c, "mark") \/ Return(c)
    BY <1>9 DEF OpenInsert
  <2>2. tx' = "pending" /\ known' \in BOOLEAN
    BY <1>0, <1>9 DEF OpenInsert
  <2> QED
    BY <1>0, <1>4, <1>5, <1>9, <2>1, <2>2 DEF OpenInsert, Pc
<1>10. CASE OpenMark(c)
  BY <1>0, <1>5, <1>10 DEF OpenMark
<1>11. CASE StageBegin(c)
  <2>1. PICK f \in File, s \in Size :
          call' = [call EXCEPT ![c].pc = "put",
                     ![c].hand = {[file |-> f, id |-> stages', place |-> "staging", size |-> s]}]
    BY <1>11 DEF StageBegin
  <2>2. stages' \in 0 .. MaxStages
    BY <1>0, <1>11 DEF StageBegin
  <2>3. s \in Nat
    BY BatchAssumption
  <2>31. [file |-> f, id |-> stages', place |-> "staging", size |-> s] \in Seen
    BY <2>2, <2>3 DEF Seen, Place
  <2>4. PICK h \in SUBSET Seen : h = {[file |-> f, id |-> stages', place |-> "staging", size |-> s]}
    BY <2>31
  <2>5. PICK x \in Call : x = [call[c] EXCEPT !.pc = "put", !.hand = h]
    BY <1>0, <1>1, NewCall DEF Pc
  <2>6. call' = [call EXCEPT ![c] = x]
    BY <1>0, <2>1, <2>4, <2>5
  <2>7. x.seen = call[c].seen
    BY <1>0, <2>5 DEF Call
  <2>8. call' \in [Caller -> Call] /\ (\A d \in Caller : IsFiniteSet(call'[d].seen)) /\ Recorded' = Recorded
    BY <1>0, <1>11, <2>6, <2>7 DEF StageBegin, TypeInv, FiniteLists, Recorded
  <2>9. x.hand = h /\ \A g \in h : g.size \in Size
    BY <1>0, <2>4, <2>5 DEF Call
  <2>10. PutSizes'
    BY <1>0, <2>6, <2>9 DEF TypeInv, PutSizes
  <2> QED
    BY <1>0, <1>11, <2>2, <2>8, <2>10 DEF StageBegin, TypeInv, TypeOK, FiniteLists
<1>12. CASE StagePut(c)
  <2>1. PICK a \in call[c].hand : obj' = [obj EXCEPT ![a.file]["staging"] = a.size]
    BY <1>12 DEF StagePut
  <2>2. a.size \in {0} \cup Size
    BY <1>12, <2>1 DEF StagePut, At, TypeInv, PutSizes
  <2>3. obj' \in [File -> [Place -> {0} \cup Size]]
    BY <1>0, <1>1, <2>1, <2>2 DEF Seen, Place
  <2> QED
    BY <1>0, <1>4, <1>12, <2>3 DEF StagePut, Pc
<1>13. CASE StageRecord(c)
  <2>1. PICK a \in call[c].hand :
          row' = IF row[a.file].status = "absent"
                 THEN [row EXCEPT ![a.file] = [id |-> a.id, status |-> "pending", place |-> "staging", size |-> a.size]]
                 ELSE row
    BY <1>13 DEF StageRecord
  <2>2. a \in Seen
    BY <1>1
  <2>3. [id |-> a.id, status |-> "pending", place |-> "staging", size |-> a.size] \in Row /\ a.file \in File
    BY <2>2 DEF Seen, Row, Place
  <2>4. call' = [call EXCEPT ![c] = Idle]
    BY <1>13 DEF StageRecord, Return
  <2> QED
    BY <1>3, <1>13, <2>1, <2>3, <2>4, IdleTyped DEF StageRecord, Idle
<1>14. CASE CommitBegin(c) \/ RollbackBegin(c)
  <2>1. PICK pc \in {"list", "rlist"} : call' = [call EXCEPT ![c].pc = pc, ![c].reserved = reserved]
    BY <1>14 DEF CommitBegin, RollbackBegin
  <2>2. PICK x : x = [call[c] EXCEPT !.pc = pc, !.reserved = reserved]
    OBVIOUS
  <2>11. reserved \in Nat /\ pc \in Pc /\ pc # "put"
    BY <1>0 DEF Pc
  <2>3. x \in Call /\ x.seen = call[c].seen /\ x.pc # "put"
    BY <1>0, <1>1, <2>11, <2>2 DEF Call
  <2>4. call' = [call EXCEPT ![c] = x]
    BY <1>0, <2>1, <2>2
  <2> QED
    BY <1>0, <1>2, <1>14, <2>3, <2>4 DEF CommitBegin, RollbackBegin
<1>15. CASE CommitList(c)
  <2>1. PICK s : s = StagedRows
    OBVIOUS
  <2>2. s \in SUBSET Seen /\ IsFiniteSet(s)
    BY <2>1, RowsListed
  <2>3. PICK x : x = [call[c] EXCEPT !.pc = "move", !.seen = s, !.todo = s]
    OBVIOUS
  <2>4. x \in Call /\ IsFiniteSet(x.seen) /\ x.pc # "put"
    BY <1>0, <1>1, <2>2, <2>3 DEF Call, Pc
  <2>5. call' = [call EXCEPT ![c] = x]
    BY <1>0, <1>15, <2>1, <2>3 DEF CommitList
  <2> QED
    BY <1>0, <1>15, <2>4, <2>5, TypeFrame DEF CommitList
<1>16. CASE CommitMove(c)
  <2>1. ASSUME NEW x \in Call, x.seen = call[c].seen \/ x.seen = {}, x.pc # "put", call' = [call EXCEPT ![c] = x],
               obj' \in [File -> [Place -> {0} \cup Size]]
        PROVE  TypeInv'
    BY <1>0, <1>2, <1>16, <2>1 DEF CommitMove
  <2>2. CASE call' = [call EXCEPT ![c].pc = "publish", ![c].todo = call[c].seen] /\ UNCHANGED obj
    <3>1. PICK x : x = [call[c] EXCEPT !.pc = "publish", !.todo = call[c].seen]
      OBVIOUS
    <3>2. x \in Call /\ x.seen = call[c].seen /\ x.pc # "put"
      BY <1>0, <1>1, <3>1 DEF Call, Pc
    <3> QED
      BY <1>0, <2>1, <2>2, <3>1, <3>2
  <2>3. ASSUME NEW a \in call[c].todo,
               obj' = [obj EXCEPT ![a.file][Target(a)] = obj[a.file][a.place], ![a.file][a.place] = 0],
               call' = [call EXCEPT ![c].pc = "rekey", ![c].hand = {a}, ![c].todo = @ \ {a}]
        PROVE  TypeInv'
    <3>1. a.file \in File /\ a.place \in Place /\ Target(a) \in Place
      BY <1>1 DEF Seen, Target, Place
    <3>2. obj' \in [File -> [Place -> {0} \cup Size]]
      BY <1>0, <2>3, <3>1
    <3>3. PICK x : x = [call[c] EXCEPT !.pc = "rekey", !.hand = {a}, !.todo = @ \ {a}]
      OBVIOUS
    <3>4. x \in Call /\ x.seen = call[c].seen /\ x.pc # "put"
      BY <1>0, <1>1, <3>3 DEF Call, Pc
    <3> QED
      BY <1>0, <2>1, <2>3, <3>2, <3>3, <3>4
  <2>4. CASE Return(c) /\ UNCHANGED obj
    BY <1>0, <1>5, <1>16, <2>4 DEF CommitMove
  <2> QED
    BY <1>16, <2>2, <2>3, <2>4 DEF CommitMove
<1>17. CASE CommitRekey(c)
  <2>1. PICK a \in call[c].hand :
          row' = IF Exists(a)
                 THEN [row EXCEPT ![a.file].place = Target(a), ![a.file].status = "pending"]
                 ELSE row
    BY <1>17 DEF CommitRekey
  <2>2. a.file \in File /\ Target(a) \in Place
    BY <1>1 DEF Seen, Target, Place
  <2>3. PICK r : r = [row[a.file] EXCEPT !.place = Target(a), !.status = "pending"]
    OBVIOUS
  <2>4. r \in Row
    BY <1>0, <2>2, <2>3 DEF Row
  <2>5. row' = [row EXCEPT ![a.file] = r] \/ row' = row
    BY <1>0, <2>1, <2>2, <2>3
  <2>6. PICK x : x = [call[c] EXCEPT !.pc = "move"]
    OBVIOUS
  <2>7. x \in Call /\ x.seen = call[c].seen /\ x.pc # "put" /\ call' = [call EXCEPT ![c] = x]
    BY <1>0, <1>1, <1>17, <2>6 DEF Call, Pc, CommitRekey, Goto
  <2> QED
    BY <1>3, <1>17, <2>2, <2>4, <2>5, <2>7 DEF CommitRekey
<1>18. CASE CommitPublish(c)
  <2>1. CASE Goto(c, "close") /\ UNCHANGED row
    BY <1>0, <1>4, <1>18, <2>1 DEF CommitPublish, Pc
  <2>2. ASSUME NEW a \in call[c].todo,
               row' = IF Exists(a) THEN [row EXCEPT ![a.file].status = "available"] ELSE row,
               call' = [call EXCEPT ![c].todo = @ \ {a}]
        PROVE  TypeInv'
    <3>1. a.file \in File /\ call[c].pc # "put"
      BY <1>1, <1>18 DEF Seen, CommitPublish, At
    <3>2. PICK r : r = [row[a.file] EXCEPT !.status = "available"]
      OBVIOUS
    <3>3. r \in Row
      BY <1>0, <3>1, <3>2 DEF Row
    <3>4. row' = [row EXCEPT ![a.file] = r] \/ row' = row
      BY <1>0, <2>2, <3>1, <3>2
    <3>5. PICK x : x = [call[c] EXCEPT !.todo = @ \ {a}]
      OBVIOUS
    <3>6. x \in Call /\ x.seen = call[c].seen /\ x.pc # "put" /\ call' = [call EXCEPT ![c] = x]
      BY <1>0, <1>1, <2>2, <3>1, <3>5 DEF Call
    <3> QED
      BY <1>3, <1>18, <3>1, <3>3, <3>4, <3>6 DEF CommitPublish
  <2> QED
    BY <1>18, <2>1, <2>2 DEF CommitPublish
<1>19. CASE CommitClose(c) \/ RollbackClose(c)
  <2>1. Goto(c, "settle") \/ Goto(c, "refund")
    BY <1>19 DEF CommitClose, RollbackClose
  <2> QED
    BY <1>0, <1>4, <1>19, <2>1 DEF CommitClose, RollbackClose, Pc
<1>20. CASE CommitSettle(c) \/ RollbackRefund(c)
  BY <1>0, <1>5, <1>6, <1>20 DEF CommitSettle, RollbackRefund
<1>21. CASE RollbackList(c)
  <2>1. PICK x : x = [call[c] EXCEPT !.pc = "erase", !.todo = AllRows]
    OBVIOUS
  <2>2. x \in Call /\ x.seen = call[c].seen /\ x.pc # "put"
    BY <1>0, <1>1, <2>1, RowsListed DEF Call, Pc
  <2>3. call' = [call EXCEPT ![c] = x]
    BY <1>0, <1>21, <2>1 DEF RollbackList
  <2> QED
    BY <1>0, <1>2, <1>21, <2>2, <2>3 DEF RollbackList
<1>22. CASE RollbackErase(c)
  <2>1. CASE Goto(c, "rclose") /\ UNCHANGED <<obj, faults>>
    BY <1>0, <1>4, <1>22, <2>1 DEF RollbackErase, Pc
  <2>2. ASSUME NEW a \in call[c].todo,
               call' = [call EXCEPT ![c].pc = "drop", ![c].hand = {a}, ![c].todo = @ \ {a}],
               obj' = [obj EXCEPT ![a.file][a.place] = 0] \/ obj' = obj, faults' \in 0 .. MaxFaults
        PROVE  TypeInv'
    <3>1. a.file \in File /\ a.place \in Place
      BY <1>1 DEF Seen
    <3>2. obj' \in [File -> [Place -> {0} \cup Size]]
      BY <1>0, <2>2, <3>1
    <3>3. PICK x : x = [call[c] EXCEPT !.pc = "drop", !.hand = {a}, !.todo = @ \ {a}]
      OBVIOUS
    <3>4. x \in Call /\ x.seen = call[c].seen /\ x.pc # "put"
      BY <1>0, <1>1, <3>3 DEF Call, Pc
    <3>5. call' = [call EXCEPT ![c] = x]
      BY <1>0, <2>2, <3>3
    <3> QED
      BY <1>0, <1>2, <1>22, <2>2, <3>2, <3>4, <3>5 DEF RollbackErase
  <2>3. ASSUME NEW a \in call[c].todo,
               call' = [call EXCEPT ![c].pc = "drop", ![c].hand = {a}, ![c].todo = @ \ {a}],
               \/ /\ obj' = IF Erases(a) THEN [obj EXCEPT ![a.file][a.place] = 0] ELSE obj
                  /\ UNCHANGED faults
               \/ /\ Erases(a) /\ faults < MaxFaults
                  /\ faults' = faults + 1
                  /\ UNCHANGED obj
        PROVE  TypeInv'
    <3>1. obj' = [obj EXCEPT ![a.file][a.place] = 0] \/ obj' = obj
      BY <2>3
    <3>2. faults' \in 0 .. MaxFaults
      BY <1>0, <2>3
    <3> QED
      BY <2>2, <2>3, <3>1, <3>2
  <2> QED
    BY <1>22, <2>1, <2>3 DEF RollbackErase
<1>23. CASE RollbackDrop(c)
  <2>1. PICK a \in call[c].hand : row' = IF Exists(a) THEN [row EXCEPT ![a.file] = NoRow] ELSE row
    BY <1>23 DEF RollbackDrop
  <2>2. a.file \in File /\ NoRow \in Row
    BY <1>0, <1>1 DEF Seen, NoRow, Row, Place
  <2>3. PICK x : x = [call[c] EXCEPT !.pc = "erase"]
    OBVIOUS
  <2>4. x \in Call /\ x.seen = call[c].seen /\ x.pc # "put" /\ call' = [call EXCEPT ![c] = x]
    BY <1>0, <1>1, <1>23, <2>3 DEF Call, Pc, RollbackDrop, Goto
  <2> QED
    BY <1>3, <1>23, <2>1, <2>2, <2>4 DEF RollbackDrop
<1>24. CASE Fail(c)
  <2>1. faults' \in 0 .. MaxFaults
    BY <1>0, <1>24 DEF Fail
  <2> QED
    BY <1>0, <1>5, <1>24, <2>1 DEF Fail
<1> QED
  BY <1>7, <1>8, <1>9, <1>10, <1>11, <1>12, <1>13, <1>14, <1>15, <1>16, <1>17, <1>18, <1>19, <1>20, <1>21, <1>22,
     <1>23, <1>24 DEF Open, Stage, Commit, Rollback

LEMMA TypeInit == Init => TypeInv
<1>1. SUFFICES ASSUME Init PROVE TypeInv
  OBVIOUS
<1>2. NoRow \in Row
  BY BatchAssumption DEF NoRow, Row, Place
<1>3. Elsewhere \in Nat /\ 0 \in 0 .. MaxStages /\ 0 \in 0 .. MaxFaults
  BY BatchAssumption
<1>4. obj \in [File -> [Place -> {0} \cup Size]]
  BY <1>1 DEF Init
<1>5. TypeOK
  BY <1>1, <1>2, <1>3, <1>4, IdleTyped DEF Init, TypeOK
<1>6. Recorded = {} /\ \A c \in Caller : call[c].seen = {} /\ call[c].pc = "idle"
  BY <1>1 DEF Init, Recorded, NoRow, Idle
<1> QED
  BY <1>5, <1>6, FS_EmptySet DEF TypeInv, FiniteLists, PutSizes

LEMMA TypeNext == ASSUME TypeInv, [Next]_vars PROVE TypeInv'
<1>1. CASE UNCHANGED vars
  BY <1>1 DEF vars, TypeInv, TypeOK, FiniteLists, Recorded, PutSizes
<1> QED
  BY <1>1, TypeStep DEF Next

\* Every variable of the batch stays in its type, whatever overlaps and fails: in
\* particular the owner's usage never becomes negative.
THEOREM BatchIsTyped == Spec => []TypeOK
<1>1. TypeInv /\ [Next]_vars => TypeInv'
  BY TypeNext
<1>2. TypeInv => TypeOK
  BY DEF TypeInv
<1> QED
  BY <1>1, <1>2, TypeInit, PTL DEF Spec

-----------------------------------------------------------------------------
(* Calls that come one after the other: a commit that may stop half way and  *)
(* be tried again leaves nothing pending and closes the batch once; and as   *)
(* long as nothing has failed, rollbacks leave nothing behind and the quota  *)
(* is exact.                                                                 *)

\* There is one caller: the next call begins when the last has ended.
OneCaller == \A c, d \in Caller : c = d

-----------------------------------------------------------------------------
(* The inductive invariant, on top of Inv.                                   *)

AfterOpen == {"put", "record", "list", "move", "rekey", "publish", "close",
              "rlist", "erase", "drop", "rclose"}

\* While a call is at work on the batch the batch is open.
Working ==
  \A c \in Caller : /\ call[c].pc = "insert" => tx = "absent"
                    /\ call[c].pc \in AfterOpen => tx = "pending"

\* The row of f is among those that are left in S.
In(f, S) == \E a \in S : a.file = f /\ a.id = row[f].id

\* A commit has every pending row in its list until it has published it.
Gathered ==
  \A c \in Caller : \A f \in File : row[f].status = "pending" =>
    /\ call[c].pc \in Moving => In(f, call[c].seen)
    /\ call[c].pc = "publish" => In(f, call[c].todo)
    /\ call[c].pc # "close"

SerialInv == Inv /\ Working /\ Gathered /\ CommittedComplete

LEMMA OneCallerCommits == OneCaller => OneCommitter
  BY DEF OneCaller, OneCommitter

LEMMA InitSerial == Init => SerialInv
  <1> SUFFICES ASSUME Init PROVE SerialInv
    OBVIOUS
  <1>1. Working /\ Gathered /\ CommittedComplete
    BY DEF Init, Idle, NoRow, Working, Gathered, CommittedComplete, AfterOpen, Moving
  <1> QED
    BY <1>1, InitInv DEF SerialInv

-----------------------------------------------------------------------------

\* A step of the only caller that leaves rows alone and does not list, move or
\* publish any.
LEMMA Quiet ==
  ASSUME OneCaller, SerialInv, NEW c \in Caller, row' = row,
         call'[c].pc \notin {"move", "rekey", "publish", "close"},
         call'[c].pc = "insert" => tx' = "absent",
         call'[c].pc \in AfterOpen => tx' = "pending",
         tx' = "committed" => tx = "committed" \/ call[c].pc = "close"
  PROVE  Working' /\ Gathered' /\ CommittedComplete'
  <1>0. \A d \in Caller : d = c
    BY DEF OneCaller
  <1>1. Working'
    BY <1>0 DEF Working
  <1>2. Gathered'
    BY <1>0 DEF Gathered, Moving
  <1>3. CommittedComplete'
    BY DEF SerialInv, Gathered, CommittedComplete
  <1> QED
    BY <1>1, <1>2, <1>3

LEMMA SerialNext ==
  ASSUME OneCaller, SerialInv, [Next]_vars
  PROVE  SerialInv' /\ (tx \in {"committed", "rolled_back"} => tx' = tx)
  <1> DEFINE Rest == Working' /\ Gathered' /\ CommittedComplete'
             Closed == tx \in {"committed", "rolled_back"} => tx' = tx
  <1>0. Inv'
    BY OneCallerCommits, NextInv DEF SerialInv
  <1>1. CASE UNCHANGED vars
    BY <1>0, <1>1 DEF vars, SerialInv, Working, Gathered, CommittedComplete, In
  <1>2. ASSUME NEW c \in Caller, Open(c) \/ Stage(c) \/ Commit(c) \/ Rollback(c) \/ Fail(c)
        PROVE  Rest /\ Closed
    <2> DEFINE pc == call[c].pc
    <2>0. /\ call \in [Caller -> Call] /\ call[c] \in Call /\ row \in [File -> Row]
          /\ \A d \in Caller : d = c
          /\ pc = "insert" => tx = "absent"
          /\ pc \in AfterOpen => tx = "pending"
      BY DEF SerialInv, Inv, Typed, Working, OneCaller
    <2>1. \A x : /\ Goto(c, x) => call'[c].pc = x
                 /\ Return(c) => call'[c].pc = "idle"
      BY <2>0 DEF Goto, Return, Idle, Call
    <2>2. CASE Open(c)
      BY <2>0, <2>1, <2>2, Quiet DEF Open, OpenReserve, OpenUnreserve, OpenInsert, OpenMark, At, AfterOpen
    <2>3. CASE StageBegin(c) \/ StagePut(c)
      <3>1. call'[c].pc \in {"put", "record"} /\ row' = row /\ tx' = tx /\ tx = "pending"
        BY <2>0, <2>1, <2>3 DEF StageBegin, StagePut, At, AfterOpen, Call
      <3> QED
        BY <3>1, Quiet
    <2>4. CASE StageRecord(c)
      <3>1. call'[c].pc = "idle" /\ tx' = tx /\ tx = "pending"
        BY <2>0, <2>1, <2>4 DEF StageRecord, At, AfterOpen
      <3> QED
        BY <2>0, <3>1 DEF Working, Gathered, CommittedComplete, AfterOpen, Moving
    <2>5. CASE CommitBegin(c)
      <3>1. call'[c].pc = "list" /\ row' = row /\ tx' = tx /\ tx = "pending"
        BY <2>0, <2>5 DEF CommitBegin, StillPending, Call
      <3> QED
        BY <3>1, Quiet
    <2>6. CASE CommitList(c)
      <3>1. /\ call'[c].pc = "move" /\ call'[c].seen = StagedRows
            /\ row' = row /\ tx' = tx /\ tx = "pending"
        BY <2>0, <2>6 DEF CommitList, At, AfterOpen, Call
      <3>2. \A f \in File : row[f].status = "pending" =>
              \E a \in StagedRows : a.file = f /\ a.id = row[f].id
        <4> TAKE f \in File
        <4> HAVE row[f].status = "pending"
        <4>1. AsSeen(f) \in StagedRows
          BY DEF StagedRows
        <4> WITNESS AsSeen(f) \in StagedRows
        <4> QED
          BY DEF AsSeen
      <3>3. \A f \in File : row'[f].status = "pending" => In(f, call[c].seen)'
        BY <3>1, <3>2 DEF In
      <3> QED
        BY <2>0, <3>1, <3>3 DEF Working, Gathered, CommittedComplete, AfterOpen, Moving
    <2>7. CASE CommitMove(c)
      <3>1. row' = row /\ tx' = tx /\ tx = "pending" /\ pc = "move"
        BY <2>0, <2>7 DEF CommitMove, At, AfterOpen
      <3>2. \/ call'[c].pc = "publish" /\ call'[c].todo = call[c].seen
            \/ call'[c].pc = "rekey" /\ call'[c].seen = call[c].seen
            \/ call'[c].pc = "idle"
        <4>1. ASSUME NEW a \in call[c].todo,
                     call' = [call EXCEPT ![c].pc = "rekey", ![c].hand = {a}, ![c].todo = @ \ {a}]
              PROVE  call'[c].pc = "rekey" /\ call'[c].seen = call[c].seen
          BY <2>0, <4>1 DEF Call
        <4>2. call' = [call EXCEPT ![c].pc = "publish", ![c].todo = call[c].seen]
                => call'[c].pc = "publish" /\ call'[c].todo = call[c].seen
          BY <2>0 DEF Call
        <4> QED
          BY <2>1, <2>7, <4>1, <4>2 DEF CommitMove
      <3>3. \A f \in File : row'[f].status = "pending" => row[f].status = "pending" /\ In(f, call[c].seen)
        BY <3>1 DEF SerialInv, Gathered, Moving
      <3>4. Gathered'
        BY <2>0, <3>1, <3>2, <3>3 DEF Gathered, Moving, In
      <3> QED
        BY <2>0, <3>1, <3>2, <3>4 DEF Working, CommittedComplete, AfterOpen
    <2>8. CASE CommitRekey(c)
      <3>1. /\ tx' = tx /\ tx = "pending" /\ pc = "rekey"
            /\ call'[c].pc = "move" /\ call'[c].seen = call[c].seen
        BY <2>0, <2>8 DEF CommitRekey, At, Goto, AfterOpen, Call
      <3>2. PICK a \in call[c].hand :
              row' = IF Exists(a)
                     THEN [row EXCEPT ![a.file].place = Target(a), ![a.file].status = "pending"]
                     ELSE row
        BY <2>8 DEF CommitRekey
      <3>3. a \in call[c].seen /\ a.file \in File
        BY <2>0, <3>1 DEF SerialInv, Inv, Listing, Listed, Call, Seen
      <3>4. ASSUME NEW f \in File, row'[f].status = "pending"
            PROVE  In(f, call[c].seen)'
        <4>1. row'[f].id = row[f].id
          BY <2>0, <3>2, <3>3 DEF Row
        <4>2. CASE row[f].status = "pending"
          BY <3>1, <4>1, <4>2 DEF SerialInv, Gathered, Moving, In
        <4>3. CASE row[f].status # "pending"
          <5>1. f = a.file /\ Exists(a)
            BY <2>0, <3>2, <3>3, <3>4, <4>3
          <5> QED
            BY <3>1, <3>3, <4>1, <5>1 DEF In, Exists
        <4> QED
          BY <4>2, <4>3
      <3>5. Gathered'
        BY <2>0, <3>1, <3>4 DEF Gathered, Moving
      <3> QED
        BY <2>0, <3>1, <3>5 DEF Working, CommittedComplete, AfterOpen
    <2>9. CASE CommitPublish(c)
      <3>1. tx' = tx /\ tx = "pending" /\ pc = "publish"
        BY <2>0, <2>9 DEF CommitPublish, At, AfterOpen
      <3>2. \A f \in File : row[f].status = "pending" => In(f, call[c].todo)
        BY <3>1 DEF SerialInv, Gathered
      <3>3. CASE call[c].todo = {} /\ call'[c].pc = "close" /\ row' = row
        BY <2>0, <3>1, <3>2, <3>3 DEF Working, Gathered, CommittedComplete, AfterOpen, Moving, In
      <3>4. ASSUME NEW a \in call[c].todo,
                   row' = IF Exists(a) THEN [row EXCEPT ![a.file].status = "available"] ELSE row,
                   call' = [call EXCEPT ![c].todo = @ \ {a}]
            PROVE  Rest /\ Closed
        <4>1. call'[c].pc = "publish" /\ call'[c].todo = call[c].todo \ {a} /\ a.file \in File
          BY <2>0, <3>1, <3>4 DEF Call, Seen
        <4>2. ASSUME NEW f \in File, row'[f].status = "pending"
              PROVE  In(f, call[c].todo)'
          <5>1. row[f].status = "pending" /\ row'[f].id = row[f].id
            BY <2>0, <3>4, <4>1, <4>2 DEF Row
          <5>2. PICK b \in call[c].todo : b.file = f /\ b.id = row[f].id
            BY <3>2, <5>1 DEF In
          <5>3. b # a
            BY <2>0, <3>4, <4>1, <4>2, <5>2 DEF Exists
          <5> QED
            BY <4>1, <5>1, <5>2, <5>3 DEF In
        <4>3. Gathered'
          BY <2>0, <4>1, <4>2 DEF Gathered, Moving
        <4> QED
          BY <2>0, <3>1, <4>1, <4>3 DEF Working, CommittedComplete, AfterOpen
      <3> QED
        BY <2>1, <2>9, <3>3, <3>4 DEF CommitPublish
    <2>10. CASE CommitClose(c) \/ CommitSettle(c)
      BY <2>0, <2>1, <2>10, Quiet DEF CommitClose, CommitSettle, At, AfterOpen
    <2>11. CASE RollbackBegin(c) \/ RollbackList(c)
      <3>1. call'[c].pc \in {"rlist", "erase"} /\ row' = row /\ tx' = tx /\ tx = "pending"
        BY <2>0, <2>11 DEF RollbackBegin, RollbackList, At, AfterOpen, Call
      <3> QED
        BY <3>1, Quiet
    <2>12. CASE RollbackErase(c)
      <3>1. call'[c].pc \in {"drop", "rclose"} /\ row' = row /\ tx' = tx /\ tx = "pending"
        BY <2>0, <2>1, <2>12 DEF RollbackErase, At, AfterOpen, Call
      <3> QED
        BY <3>1, Quiet
    <2>13. CASE RollbackDrop(c)
      <3>1. call'[c].pc = "erase" /\ tx' = tx /\ tx = "pending"
        BY <2>0, <2>1, <2>13 DEF RollbackDrop, At, AfterOpen
      <3> QED
        BY <2>0, <3>1 DEF Working, Gathered, CommittedComplete, AfterOpen, Moving
    <2>14. CASE RollbackClose(c) \/ RollbackRefund(c) \/ Fail(c)
      BY <2>0, <2>1, <2>14, Quiet DEF RollbackClose, RollbackRefund, Fail, At, AfterOpen
    <2> QED
      BY <1>2, <2>2, <2>3, <2>4, <2>5, <2>6, <2>7, <2>8, <2>9, <2>10, <2>11, <2>12, <2>13, <2>14
         DEF Stage, Commit, Rollback
  <1> QED
    BY <1>0, <1>1, <1>2 DEF Next, SerialInv

-----------------------------------------------------------------------------

\* A batch that was committed has no file that readers cannot see, however often
\* the commit was interrupted and tried again.
THEOREM CommitsAreComplete ==
  ASSUME OneCaller
  PROVE  Spec => []CommittedComplete
  <1>1. Init => SerialInv
    BY InitSerial
  <1>2. SerialInv /\ [Next]_vars => SerialInv'
    BY OneCaller, SerialNext
  <1>3. SerialInv => CommittedComplete
    BY DEF SerialInv
  <1> QED
    BY <1>1, <1>2, <1>3, PTL DEF Spec

\* A batch that was committed or rolled back stays what it is.
THEOREM ClosedBatchesStayClosed ==
  ASSUME OneCaller
  PROVE  Spec => ClosedForGood
  <1>1. Init => SerialInv
    BY InitSerial
  <1>2. SerialInv /\ [Next]_vars => SerialInv'
    BY OneCaller, SerialNext
  <1>3. SerialInv /\ [Next]_vars => [(tx \in {"committed", "rolled_back"}) => tx' = tx]_vars
    BY OneCaller, SerialNext
  <1> QED
    BY <1>1, <1>2, <1>3, PTL DEF Spec, ClosedForGood
-----------------------------------------------------------------------------
(* As long as nothing fails: what a batch holds, and what its owner uses.    *)

\* Nothing is left of path f; and f is staged and no more.
Bare(f)   == row[f] = NoRow /\ \A p \in Place : obj[f][p] = 0
Staged(f) ==
  /\ row[f].status = "pending" /\ row[f].place = "staging"
  /\ obj[f]["staging"] # 0
  /\ \A p \in Place \ {"staging"} : obj[f][p] = 0

\* Before anything was staged and after a rollback there is nothing.
Emptied(c) ==
  tx \in {"absent", "rolled_back"} \/ call[c].pc = "rclose" => \A f \in File : Bare(f)

\* Until a commit or a rollback sets about it, a batch has staged files only.
Untouched(c) ==
  tx = "pending" /\ call[c].pc \in {"idle", "mark", "put", "list", "rlist"} =>
    \A f \in File : Bare(f) \/ Staged(f)

\* The file whose object is there is recorded next.
Recording(c) ==
  call[c].pc = "record" => \A h \in call[c].hand :
    /\ obj[h.file]["staging"] # 0
    /\ \A f \in File : \/ Bare(f) \/ Staged(f)
                       \/ /\ f = h.file /\ row[f] = NoRow
                          /\ \A p \in Place \ {"staging"} : obj[f][p] = 0

\* The listed rows that are left are staged, and as they were when they were listed.
Leaving(c) ==
  /\ call[c].pc \in {"move", "rekey", "erase", "drop"} =>
       \A a \in call[c].todo : a = AsSeen(a.file) /\ Staged(a.file)
  /\ call[c].pc \in {"rekey", "drop"} =>
       \A a \in call[c].todo : \A h \in call[c].hand : a.file # h.file

\* A rollback has all there is in its list, but for the row it deletes next.
Erasing(c) ==
  /\ call[c].pc = "erase" => \A f \in File : Bare(f) \/ AsSeen(f) \in call[c].todo
  /\ call[c].pc = "drop" => \A h \in call[c].hand :
       /\ Exists(h) /\ \A p \in Place : obj[h.file][p] = 0
       /\ \A f \in File : Bare(f) \/ AsSeen(f) \in call[c].todo \/ f = h.file

Contents(c) == Emptied(c) /\ Untouched(c) /\ Recording(c) /\ Leaving(c) /\ Erasing(c)

\* What a commit has listed is what the batch has.
Whole(c) ==
  call[c].pc \in {"move", "rekey", "publish", "close", "settle"} =>
    /\ \A a \in call[c].seen : Exists(a) /\ row[a.file].size = a.size /\ row[a.file].status # "absent"
    /\ \A f \in File : row[f].status # "absent" => \E a \in call[c].seen : a.file = f
    /\ \A a, b \in call[c].seen : a.file = b.file => a = b

\* The steps of a call that has read what the batch has reserved.
Reserving == {"list", "move", "rekey", "publish", "close", "settle",
              "rlist", "erase", "drop", "rclose", "refund"}

\* What the owner uses, from call to call and within one.
Accounts(c) ==
  /\ call[c].pc \in {"unreserve", "insert", "mark"} => used = Elsewhere + Estimate
  /\ call[c].pc = "idle" /\ tx \in {"absent", "rolled_back"} => used = Elsewhere
  /\ call[c].pc = "idle" /\ tx = "committed" => used = Elsewhere + Bytes(Visible)
  /\ (tx = "pending" /\ call[c].pc # "mark") \/ call[c].pc \in {"settle", "refund"} =>
       used = Elsewhere + reserved
  /\ call[c].pc \in Reserving => call[c].reserved = reserved

\* Where a call is, given what the batch is.
Phases(c) ==
  /\ call[c].pc \in {"unreserve", "insert"} => tx = "absent"
  /\ call[c].pc = "mark" => tx = "pending"
  /\ call[c].pc = "settle" => tx = "committed"
  /\ call[c].pc = "refund" => tx = "rolled_back"
  /\ tx = "absent" => call[c].pc \in {"idle", "unreserve", "insert"}
  /\ tx \in {"committed", "rolled_back"} => call[c].pc \in {"idle", "settle", "refund"}

\* A call is at one file at a time.
OneInHand(c) == \A g, h \in call[c].hand : g = h

\* With nobody to call, nothing ever happens.
Tidy ==
  /\ Caller = {} => Init
  /\ faults = 0 => \A c \in Caller : Contents(c) /\ Whole(c) /\ Accounts(c) /\ Phases(c) /\ OneInHand(c)

-----------------------------------------------------------------------------

\* What is to be known of a state and of a step that does not fail.
Known(c) ==
  /\ call \in [Caller -> Call] /\ call[c] \in Call /\ row \in [File -> Row]
  /\ obj \in [File -> [Place -> {0} \cup Size]]
  /\ used \in Nat /\ reserved \in Nat /\ reserved \in {0, Estimate}
  /\ Estimate \in Nat /\ Elsewhere \in Nat
  /\ IsFiniteSet(call[c].seen)
  /\ call[c].pc \in AfterOpen => tx = "pending"
  /\ call[c].pc = "insert" => tx = "absent"
  /\ call[c].pc = "rekey" => call[c].hand \subseteq call[c].seen
  /\ call[c].pc = "publish" => call[c].todo \subseteq call[c].seen
  /\ call[c].pc = "put" => \A h \in call[c].hand : h.size # 0
  /\ faults \in Nat /\ CommittedComplete
  /\ Contents(c) /\ Whole(c) /\ Accounts(c) /\ Phases(c) /\ OneInHand(c)

\* A file that a step does not touch is as it was.
LEMMA Apart ==
  ASSUME NEW f, row'[f] = row[f], obj'[f] = obj[f]
  PROVE  (Bare(f)' <=> Bare(f)) /\ (Staged(f)' <=> Staged(f)) /\ AsSeen(f)' = AsSeen(f)
BY DEF Bare, Staged, AsSeen

\* Where each step takes its caller.
Course(c) ==
  LET pc == call[c].pc
  IN /\ OpenReserve(c) => pc = "idle" /\ call'[c].pc \in {"unreserve", "insert"} /\ tx = "absent"
     /\ OpenUnreserve(c) => pc = "unreserve" /\ call'[c].pc = "idle"
     /\ OpenInsert(c) => pc = "insert" /\ call'[c].pc = IF Estimate > 0 THEN "mark" ELSE "idle"
     /\ OpenMark(c) => pc = "mark" /\ call'[c].pc = "idle"
     /\ StageBegin(c) => pc = "idle" /\ call'[c].pc = "put"
     /\ StagePut(c) => pc = "put" /\ call'[c].pc = "record" /\ call'[c].hand = call[c].hand
     /\ StageRecord(c) => pc = "record" /\ call'[c].pc = "idle"
     /\ CommitBegin(c) => pc = "idle" /\ call'[c].pc = "list" /\ call'[c].reserved = reserved
     /\ CommitList(c) => /\ pc = "list" /\ call'[c].pc = "move" /\ call'[c].reserved = call[c].reserved
                         /\ call'[c].seen = StagedRows /\ call'[c].todo = StagedRows
     /\ CommitMove(c) => /\ pc = "move" /\ call'[c].pc \in {"publish", "rekey", "idle"}
                         /\ call'[c].pc # "idle" =>
                              call'[c].seen = call[c].seen /\ call'[c].reserved = call[c].reserved
     /\ CommitRekey(c) => /\ pc = "rekey" /\ call'[c].pc = "move" /\ call'[c].todo = call[c].todo
                          /\ call'[c].seen = call[c].seen /\ call'[c].reserved = call[c].reserved
     /\ CommitPublish(c) => /\ pc = "publish" /\ call'[c].pc \in {"publish", "close"}
                            /\ call'[c].seen = call[c].seen /\ call'[c].reserved = call[c].reserved
     /\ CommitClose(c) => /\ pc = "close" /\ call'[c].pc = "settle"
                          /\ call'[c].seen = call[c].seen /\ call'[c].reserved = call[c].reserved
     /\ CommitSettle(c) => pc = "settle" /\ call'[c].pc = "idle"
     /\ RollbackBegin(c) => pc = "idle" /\ call'[c].pc = "rlist" /\ call'[c].reserved = reserved
     /\ RollbackList(c) => /\ pc = "rlist" /\ call'[c].pc = "erase" /\ call'[c].todo = AllRows
                           /\ call'[c].reserved = call[c].reserved
     /\ RollbackErase(c) => /\ pc = "erase" /\ call'[c].pc \in {"drop", "rclose"}
                            /\ call'[c].reserved = call[c].reserved
     /\ RollbackDrop(c) => /\ pc = "drop" /\ call'[c].pc = "erase" /\ call'[c].todo = call[c].todo
                           /\ call'[c].reserved = call[c].reserved
     /\ RollbackClose(c) => /\ pc = "rclose" /\ call'[c].pc = "refund"
                            /\ call'[c].reserved = call[c].reserved
     /\ RollbackRefund(c) => pc = "refund" /\ call'[c].pc = "idle"

LEMMA Courses ==
  ASSUME NEW c \in Caller, call \in [Caller -> Call]
  PROVE  Course(c)
<1>0. call[c] \in Call
  OBVIOUS
<1>2. OpenReserve(c) => call[c].pc = "idle" /\ call'[c].pc \in {"unreserve", "insert"} /\ tx = "absent"
  <2>1. ASSUME OpenReserve(c) PROVE Goto(c, "unreserve") \/ Goto(c, "insert")
    BY <2>1 DEF OpenReserve
  <2> QED
    BY <1>0, <2>1 DEF OpenReserve, At, Goto, Call
<1>3. OpenUnreserve(c) => call[c].pc = "unreserve" /\ call'[c].pc = "idle"
  BY <1>0 DEF OpenUnreserve, At, Goto, Return, Idle, Call
<1>4. OpenInsert(c) => call[c].pc = "insert" /\ call'[c].pc = IF Estimate > 0 THEN "mark" ELSE "idle"
  BY <1>0 DEF OpenInsert, At, Goto, Return, Idle, Call
<1>5. OpenMark(c) => call[c].pc = "mark" /\ call'[c].pc = "idle"
  BY <1>0 DEF OpenMark, At, Goto, Return, Idle, Call
<1>6. StageBegin(c) => call[c].pc = "idle" /\ call'[c].pc = "put"
  BY <1>0 DEF StageBegin, At, Call
<1>7. StagePut(c) => call[c].pc = "put" /\ call'[c].pc = "record" /\ call'[c].hand = call[c].hand
  BY <1>0 DEF StagePut, At, Goto, Return, Idle, Call
<1>8. StageRecord(c) => call[c].pc = "record" /\ call'[c].pc = "idle"
  BY <1>0 DEF StageRecord, At, Goto, Return, Idle, Call
<1>9. CommitBegin(c) => call[c].pc = "idle" /\ call'[c].pc = "list" /\ call'[c].reserved = reserved
  BY <1>0 DEF CommitBegin, At, Call
<1>10. CommitList(c) => /\ call[c].pc = "list" /\ call'[c].pc = "move" /\ call'[c].reserved = call[c].reserved
                        /\ call'[c].seen = StagedRows /\ call'[c].todo = StagedRows
  BY <1>0 DEF CommitList, At, Call
<1>11. CommitMove(c) => /\ call[c].pc = "move" /\ call'[c].pc \in {"publish", "rekey", "idle"}
                        /\ call'[c].pc # "idle" =>
                             call'[c].seen = call[c].seen /\ call'[c].reserved = call[c].reserved
  <2>1. ASSUME call' = [call EXCEPT ![c].pc = "publish", ![c].todo = call[c].seen]
        PROVE  call'[c].pc = "publish" /\ call'[c].seen = call[c].seen /\ call'[c].reserved = call[c].reserved
    BY <1>0, <2>1 DEF Call
  <2>2. ASSUME NEW a, call' = [call EXCEPT ![c].pc = "rekey", ![c].hand = {a}, ![c].todo = @ \ {a}]
        PROVE  call'[c].pc = "rekey" /\ call'[c].seen = call[c].seen /\ call'[c].reserved = call[c].reserved
    BY <1>0, <2>2 DEF Call
  <2>3. ASSUME Return(c) PROVE call'[c].pc = "idle"
    BY <1>0, <2>3 DEF Return, Idle
  <2> QED
    BY <2>1, <2>2, <2>3 DEF CommitMove, At
<1>12. CommitRekey(c) => /\ call[c].pc = "rekey" /\ call'[c].pc = "move" /\ call'[c].todo = call[c].todo
                         /\ call'[c].seen = call[c].seen /\ call'[c].reserved = call[c].reserved
  BY <1>0 DEF CommitRekey, At, Goto, Return, Idle, Call
<1>13. CommitPublish(c) => /\ call[c].pc = "publish" /\ call'[c].pc \in {"publish", "close"}
                           /\ call'[c].seen = call[c].seen /\ call'[c].reserved = call[c].reserved
  <2>1. ASSUME NEW a, call' = [call EXCEPT ![c].todo = @ \ {a}]
        PROVE  call'[c].pc = call[c].pc /\ call'[c].seen = call[c].seen /\ call'[c].reserved = call[c].reserved
    BY <1>0, <2>1 DEF Call
  <2> QED
    BY <1>0, <2>1 DEF CommitPublish, At, Goto, Call
<1>14. CommitClose(c) => /\ call[c].pc = "close" /\ call'[c].pc = "settle"
                         /\ call'[c].seen = call[c].seen /\ call'[c].reserved = call[c].reserved
  BY <1>0 DEF CommitClose, At, Goto, Return, Idle, Call
<1>15. CommitSettle(c) => call[c].pc = "settle" /\ call'[c].pc = "idle"
  BY <1>0 DEF CommitSettle, At, Goto, Return, Idle, Call
<1>16. RollbackBegin(c) => call[c].pc = "idle" /\ call'[c].pc = "rlist" /\ call'[c].reserved = reserved
  BY <1>0 DEF RollbackBegin, At, Call
<1>17. RollbackList(c) => /\ call[c].pc = "rlist" /\ call'[c].pc = "erase" /\ call'[c].todo = AllRows
                          /\ call'[c].reserved = call[c].reserved
  BY <1>0 DEF RollbackList, At, Call
<1>18. RollbackErase(c) => /\ call[c].pc = "erase" /\ call'[c].pc \in {"drop", "rclose"}
                           /\ call'[c].reserved = call[c].reserved
  <2>1. ASSUME NEW a, call' = [call EXCEPT ![c].pc = "drop", ![c].hand = {a}, ![c].todo = @ \ {a}]
        PROVE  call'[c].pc = "drop" /\ call'[c].reserved = call[c].reserved
    BY <1>0, <2>1 DEF Call
  <2> QED
    BY <1>0, <2>1 DEF RollbackErase, At, Goto, Call
<1>19. RollbackDrop(c) => /\ call[c].pc = "drop" /\ call'[c].pc = "erase" /\ call'[c].todo = call[c].todo
                          /\ call'[c].reserved = call[c].reserved
  BY <1>0 DEF RollbackDrop, At, Goto, Return, Idle, Call
<1>20. RollbackClose(c) => /\ call[c].pc = "rclose" /\ call'[c].pc = "refund"
                           /\ call'[c].reserved = call[c].reserved
  BY <1>0 DEF RollbackClose, At, Goto, Return, Idle, Call
<1>21. RollbackRefund(c) => call[c].pc = "refund" /\ call'[c].pc = "idle"
  BY <1>0 DEF RollbackRefund, At, Goto, Return, Idle, Call
<1> QED
  BY <1>2, <1>3, <1>4, <1>5, <1>6, <1>7, <1>8, <1>9, <1>10, <1>11, <1>12, <1>13, <1>14, <1>15, <1>16, <1>17, <1>18,
     <1>19, <1>20, <1>21 DEF Course

LEMMA PhasesStep ==
  ASSUME NEW c \in Caller, Known(c), Open(c) \/ Stage(c) \/ Commit(c) \/ Rollback(c)
  PROVE  Phases(c)'
<1>0. Course(c)
  BY Courses DEF Known
<1>1. /\ call[c].pc \in AfterOpen => tx = "pending"
      /\ call[c].pc = "insert" => tx = "absent"
      /\ Phases(c)
  BY DEF Known
<1>2. CASE Open(c)
  BY <1>0, <1>1, <1>2 DEF Course, Phases, Open, OpenReserve, OpenUnreserve, OpenInsert, OpenMark
<1>3. ASSUME tx' = "pending", call'[c].pc \notin {"unreserve", "insert", "settle", "refund"}
      PROVE  Phases(c)'
  BY <1>3 DEF Phases
<1>4. CASE Stage(c)
  <2>1. call'[c].pc \in {"put", "record", "idle"} /\ tx' = "pending"
    BY <1>0, <1>1, <1>4 DEF Course, AfterOpen, Stage, StageBegin, StagePut, StageRecord
  <2> QED
    BY <1>3, <2>1
<1>5. CASE CommitBegin(c) \/ CommitList(c) \/ CommitMove(c) \/ CommitRekey(c) \/ CommitPublish(c)
  <2>1. call'[c].pc \in {"list", "move", "rekey", "publish", "close", "idle"} /\ tx' = "pending"
    BY <1>0, <1>1, <1>5 DEF Course, AfterOpen, CommitBegin, StillPending, CommitList, CommitMove, CommitRekey,
                            CommitPublish
  <2> QED
    BY <1>3, <2>1
<1>6. CASE CommitClose(c) \/ CommitSettle(c) \/ RollbackClose(c) \/ RollbackRefund(c)
  BY <1>0, <1>1, <1>6 DEF Course, Phases, CommitClose, CommitSettle, RollbackClose, RollbackRefund
<1>7. CASE RollbackBegin(c) \/ RollbackList(c) \/ RollbackErase(c) \/ RollbackDrop(c)
  <2>1. call'[c].pc \in {"rlist", "erase", "drop", "rclose"} /\ tx' = "pending"
    BY <1>0, <1>1, <1>7 DEF Course, AfterOpen, RollbackBegin, RollbackList, RollbackErase, RollbackDrop
  <2> QED
    BY <1>3, <2>1
<1> QED
  BY <1>2, <1>4, <1>5, <1>6, <1>7 DEF Commit, Rollback

LEMMA WholeStep ==
  ASSUME NEW c \in Caller, Known(c), Open(c) \/ Stage(c) \/ Commit(c) \/ Rollback(c)
  PROVE  Whole(c)'
<1> DEFINE Late == {"move", "rekey", "publish", "close", "settle"}
<1>0. /\ call \in [Caller -> Call] /\ call[c] \in Call /\ row \in [File -> Row]
      /\ call[c].seen \in SUBSET Seen /\ call[c].hand \in SUBSET Seen /\ call[c].todo \in SUBSET Seen
  BY CallFields DEF Known
<1>01. Course(c)
  BY Courses DEF Known
<1>1. ASSUME call'[c].pc \notin Late PROVE Whole(c)'
  BY <1>1 DEF Whole
<1>2. ASSUME call[c].pc \in Late, call'[c].seen = call[c].seen, NEW f \in File, NEW r \in Row,
             r.id = row[f].id, r.size = row[f].size, r.status # "absent", row[f].status # "absent",
             row' = [row EXCEPT ![f] = r] \/ row' = row
      PROVE  Whole(c)'
  <2>1. \A a \in call[c].seen : Exists(a) /\ row[a.file].size = a.size /\ row[a.file].status # "absent"
    BY <1>2 DEF Known, Whole
  <2>2. ASSUME NEW a \in call[c].seen
        PROVE  Exists(a)' /\ row'[a.file].size = a.size /\ row'[a.file].status # "absent"
    BY <1>0, <1>2, <2>1, <2>2 DEF Exists, Seen
  <2>3. ASSUME NEW g \in File, row'[g].status # "absent"
        PROVE  \E a \in call[c].seen : a.file = g
    <3>1. CASE row[g].status # "absent"
      BY <1>2, <3>1 DEF Known, Whole
    <3>2. CASE g = f
      BY <1>2, <3>1, <3>2
    <3>3. CASE g # f
      <4>1. row'[g] = row[g]
        BY <1>0, <1>2, <3>3
      <4> QED
        BY <2>3, <3>1, <4>1
    <3> QED
      BY <3>2, <3>3
  <2>4. \A a, b \in call[c].seen : a.file = b.file => a = b
    BY <1>2 DEF Known, Whole
  <2> QED
    BY <1>2, <2>2, <2>3, <2>4 DEF Whole
<1>3. ASSUME call[c].pc \in Late, call'[c].seen = call[c].seen, row' = row PROVE Whole(c)'
  BY <1>3 DEF Known, Whole, Exists
<1>4. CASE Open(c)
  <2>1. call'[c].pc \in {"unreserve", "insert", "mark", "idle"}
    BY <1>01, <1>4 DEF Course, Open
  <2> QED
    BY <1>1, <2>1
<1>5. CASE Stage(c)
  <2>1. call'[c].pc \in {"put", "record", "idle"}
    BY <1>01, <1>5 DEF Course, Stage
  <2> QED
    BY <1>1, <2>1
<1>6. CASE Rollback(c)
  <2>1. call'[c].pc \in {"rlist", "erase", "drop", "rclose", "refund", "idle"}
    BY <1>01, <1>6 DEF Course, Rollback
  <2> QED
    BY <1>1, <2>1
<1>7. CASE CommitBegin(c)
  BY <1>01, <1>1, <1>7 DEF Course
<1>8. CASE CommitList(c)
  <2>1. call[c].pc = "list" /\ tx = "pending" /\ call'[c].seen = StagedRows /\ row' = row
    BY <1>01, <1>8 DEF Course, CommitList, Known, AfterOpen
  <2>2. \A f \in File : Bare(f) \/ Staged(f)
    BY <2>1 DEF Known, Contents, Untouched
  <2>3. \A a \in StagedRows : a = AsSeen(a.file) /\ a.file \in File /\ row[a.file].status = "pending"
    BY DEF StagedRows, AsSeen
  <2>4. \A a \in StagedRows : Exists(a) /\ row[a.file].size = a.size /\ row[a.file].status # "absent"
    BY <2>3 DEF Exists, AsSeen
  <2>5. ASSUME NEW f \in File, row[f].status # "absent" PROVE \E a \in StagedRows : a.file = f
    <3>1. row[f].status = "pending"
      BY <2>2, <2>5 DEF Bare, Staged, NoRow
    <3>2. AsSeen(f) \in StagedRows /\ AsSeen(f).file = f
      BY <3>1 DEF StagedRows, AsSeen
    <3> QED
      BY <3>2
  <2>6. \A a, b \in StagedRows : a.file = b.file => a = b
    BY <2>3
  <2> QED
    BY <2>1, <2>4, <2>5, <2>6 DEF Whole, Exists
<1>9. CASE CommitMove(c)
  <2>1. row' = row /\ call[c].pc = "move"
    BY <1>01, <1>9 DEF Course, CommitMove
  <2>2. call'[c].pc = "idle" \/ call'[c].seen = call[c].seen
    BY <1>01, <1>9 DEF Course
  <2> QED
    BY <1>1, <1>3, <2>1, <2>2
<1>10. CASE CommitRekey(c)
  <2>1. PICK a \in call[c].hand :
          row' = IF Exists(a)
                 THEN [row EXCEPT ![a.file].place = Target(a), ![a.file].status = "pending"]
                 ELSE row
    BY <1>10 DEF CommitRekey
  <2>2. a.file \in File /\ Target(a) \in Place
    BY <1>0 DEF Seen, Target, Place
  <2>3. PICK r : r = [row[a.file] EXCEPT !.place = Target(a), !.status = "pending"]
    OBVIOUS
  <2>4. r \in Row /\ r.id = row[a.file].id /\ r.size = row[a.file].size /\ r.status = "pending"
    BY <1>0, <2>2, <2>3 DEF Row
  <2>5. row' = [row EXCEPT ![a.file] = r] \/ row' = row
    BY <1>0, <2>1, <2>2, <2>3
  <2>6. call[c].pc = "rekey" /\ call'[c].seen = call[c].seen
    BY <1>01, <1>10 DEF Course
  <2>7. row[a.file].status # "absent"
    BY <1>01, <1>10 DEF Course, Known, Whole
  <2> QED
    BY <1>2, <2>2, <2>4, <2>5, <2>6, <2>7
<1>11. CASE CommitPublish(c)
  <2>1. call[c].pc = "publish" /\ call'[c].seen = call[c].seen
    BY <1>01, <1>11 DEF Course
  <2>2. CASE row' = row
    BY <1>3, <2>1, <2>2
  <2>3. ASSUME NEW a \in call[c].todo,
               row' = IF Exists(a) THEN [row EXCEPT ![a.file].status = "available"] ELSE row
        PROVE  Whole(c)'
    <3>1. a.file \in File
      BY <1>0 DEF Seen
    <3>2. PICK r : r = [row[a.file] EXCEPT !.status = "available"]
      OBVIOUS
    <3>3. r \in Row /\ r.id = row[a.file].id /\ r.size = row[a.file].size /\ r.status = "available"
      BY <1>0, <3>1, <3>2 DEF Row
    <3>4. row' = [row EXCEPT ![a.file] = r] \/ row' = row
      BY <1>0, <2>3, <3>1, <3>2
    <3>5. row[a.file].status # "absent"
      BY <2>1 DEF Known, Whole
    <3> QED
      BY <1>2, <2>1, <3>1, <3>3, <3>4, <3>5
  <2> QED
    BY <1>11, <2>2, <2>3 DEF CommitPublish
<1>12. CASE CommitClose(c)
  <2>1. call[c].pc = "close" /\ call'[c].seen = call[c].seen /\ row' = row
    BY <1>01, <1>12 DEF Course, CommitClose
  <2> QED
    BY <1>3, <2>1
<1>13. CASE CommitSettle(c)
  BY <1>01, <1>1, <1>13 DEF Course
<1> QED
  BY <1>4, <1>5, <1>6, <1>7, <1>8, <1>9, <1>10, <1>11, <1>12, <1>13 DEF Commit

LEMMA VisibleSum == Bytes(Visible) = Total([f \in Visible |-> row[f].size], Visible)
BY BytesTotal

LEMMA VisibleSumNext == (Bytes(Visible) = Total([f \in Visible |-> row[f].size], Visible))'
BY VisibleSum, PTL

LEMMA VisibleNat == ASSUME TypeInv PROVE Bytes(Visible) \in Nat
<1>1. IsFiniteSet(Visible)
  BY FS_Subset DEF TypeInv, FiniteLists, Recorded, Visible
<1>2. PICK v : v = [f \in Visible |-> row[f].size]
  OBVIOUS
<1>3. \A f \in Visible : v[f] \in Nat
  BY <1>2 DEF TypeInv, TypeOK, Row, Visible
<1>4. Total(v, Visible) \in Nat
  BY <1>1, <1>3, TotalNat
<1> QED
  BY <1>2, <1>4, VisibleSum

\* What a commit settles, when it comes to that, is what readers can see.
LEMMA SettledSum ==
  ASSUME NEW c \in Caller, Known(c), call[c].pc = "settle"
  PROVE  /\ Bytes(Visible) \in Nat
         /\ Settlement(c) = Bytes(Visible) - reserved
<1>1. PICK S : S = call[c].seen
  OBVIOUS
<1>2. IsFiniteSet(S) /\ S \in SUBSET Seen /\ row \in [File -> Row]
  BY <1>1, CallFields DEF Known
<1>3. \A a \in S : a.file \in File /\ a.size \in Nat
  BY <1>2 DEF Seen
<1>4. /\ \A a \in S : row[a.file].size = a.size /\ row[a.file].status # "absent"
      /\ \A f \in File : row[f].status # "absent" => \E a \in S : a.file = f
      /\ \A a, b \in S : a.file = b.file => a = b
  BY <1>1 DEF Known, Whole
<1>5. \A f \in File : row[f].status # "pending"
  BY DEF Known, Phases, CommittedComplete
<1>6. \A f \in File : row[f].status = "available" <=> row[f].status # "absent"
  BY <1>2, <1>5 DEF Row
<1>7. Visible = {a.file : a \in S}
  BY <1>3, <1>4, <1>6 DEF Visible
<1>8. PICK w : w = [a \in S |-> a.size]
  OBVIOUS
<1>9. PICK v : v = [f \in Visible |-> row[f].size]
  OBVIOUS
<1>10. \A a \in S : w[a] \in Nat /\ w[a] = v[a.file]
  BY <1>3, <1>4, <1>7, <1>8, <1>9
<1>11. Total(w, S) = Total(v, Visible)
  BY <1>2, <1>4, <1>7, <1>10, TotalByFile
<1>12. Total(w, S) \in Nat
  BY <1>2, <1>10, TotalNat
<1>13. Bytes(Visible) = Total(v, Visible)
  BY <1>9, VisibleSum
<1>14. MapThenSumSet(LAMBDA a : a.size, call[c].seen) = Total(w, S)
  <2>1. MapThenSumSet(LAMBDA a : a.size, call[c].seen) = Total([a \in call[c].seen |-> a.size], call[c].seen)
    BY ListedTotal
  <2> QED
    BY <1>1, <1>8, <2>1
<1>15. call[c].reserved = reserved
  BY DEF Known, Accounts, Reserving
<1> QED
  BY <1>11, <1>12, <1>13, <1>14, <1>15 DEF Settlement

LEMMA AccountsStep ==
  ASSUME NEW c \in Caller, Known(c), Open(c) \/ Stage(c) \/ Commit(c) \/ Rollback(c)
  PROVE  Accounts(c)'
<1>0. /\ used \in Nat /\ reserved \in Nat /\ reserved \in {0, Estimate} /\ Estimate \in Nat /\ Elsewhere \in Nat
      /\ call[c].pc \in AfterOpen => tx = "pending"
  BY DEF Known
<1>01. Course(c)
  BY Courses DEF Known
<1>02. Phases(c) /\ Accounts(c) /\ Phases(c)'
  BY PhasesStep DEF Known
<1>1. CASE OpenReserve(c)
  <2>1. used' = Elsewhere + Estimate
    BY <1>0, <1>01, <1>02, <1>1 DEF Course, OpenReserve, Bump, Accounts
  <2>2. tx' = "absent" /\ call'[c].pc \in {"unreserve", "insert"}
    BY <1>01, <1>1 DEF Course, OpenReserve
  <2> QED
    BY <2>1, <2>2 DEF Accounts, Reserving
<1>2. CASE OpenUnreserve(c)
  <2>1. used = Elsewhere + Estimate /\ tx = "absent"
    BY <1>01, <1>02, <1>2 DEF Course, Accounts, Phases
  <2>2. used' = Elsewhere /\ tx' = "absent" /\ call'[c].pc = "idle"
    BY <1>0, <1>01, <1>2, <2>1 DEF Course, OpenUnreserve, Bump
  <2> QED
    BY <2>2 DEF Accounts, Reserving
<1>3. CASE OpenInsert(c)
  <2>1. used = Elsewhere + Estimate
    BY <1>01, <1>02, <1>3 DEF Course, Accounts
  <2>2. used' = used /\ reserved' = reserved /\ tx' = "pending"
    BY <1>3 DEF OpenInsert
  <2>3. CASE Estimate > 0
    <3>1. call'[c].pc = "mark"
      BY <1>01, <1>3, <2>3 DEF Course
    <3> QED
      BY <2>1, <2>2, <3>1 DEF Accounts, Reserving
  <2>4. CASE ~(Estimate > 0)
    <3>1. call'[c].pc = "idle"
      BY <1>01, <1>3, <2>4 DEF Course
    <3>2. Estimate = 0 /\ reserved = 0
      BY <1>0, <2>4
    <3> QED
      BY <2>1, <2>2, <3>1, <3>2 DEF Accounts, Reserving
  <2> QED
    BY <2>3, <2>4
<1>4. CASE OpenMark(c)
  <2>1. used = Elsewhere + Estimate /\ tx = "pending"
    BY <1>01, <1>02, <1>4 DEF Course, Accounts, Phases
  <2>2. used' = used /\ reserved' = Estimate /\ tx' = "pending" /\ call'[c].pc = "idle"
    BY <1>01, <1>4, <2>1 DEF Course, OpenMark
  <2> QED
    BY <2>1, <2>2 DEF Accounts, Reserving
<1>5. ASSUME tx = "pending", call[c].pc # "mark", used' = used, reserved' = reserved,
             tx' = "pending" \/ call'[c].pc \in {"settle", "refund"},
             call'[c].pc \notin {"mark", "insert", "unreserve"},
             call'[c].pc \in Reserving => call'[c].reserved = reserved
      PROVE  Accounts(c)'
  <2>1. used = Elsewhere + reserved
    BY <1>02, <1>5 DEF Accounts
  <2> QED
    BY <1>5, <2>1 DEF Accounts
<1>6. CASE StageBegin(c) \/ StagePut(c) \/ StageRecord(c)
  <2>1. tx = "pending" /\ tx' = tx /\ used' = used /\ reserved' = reserved /\ call[c].pc # "mark"
    BY <1>0, <1>01, <1>6 DEF Course, StageBegin, StagePut, StageRecord, AfterOpen
  <2>2. call'[c].pc \in {"put", "record", "idle"}
    BY <1>01, <1>6 DEF Course
  <2> QED
    BY <1>5, <2>1, <2>2 DEF Reserving
<1>7. CASE CommitBegin(c) \/ RollbackBegin(c)
  <2>1. tx = "pending" /\ tx' = tx /\ used' = used /\ reserved' = reserved /\ call[c].pc # "mark"
    BY <1>01, <1>7 DEF Course, CommitBegin, StillPending, RollbackBegin
  <2>2. call'[c].pc \in {"list", "rlist"} /\ call'[c].reserved = reserved
    BY <1>01, <1>7 DEF Course
  <2> QED
    BY <1>5, <2>1, <2>2
<1>8. CASE CommitList(c) \/ CommitMove(c) \/ CommitRekey(c) \/ CommitPublish(c)
  <2>1. call[c].pc \in {"list", "move", "rekey", "publish"}
    BY <1>01, <1>8 DEF Course
  <2>2. tx = "pending" /\ tx' = tx /\ used' = used /\ reserved' = reserved
    BY <1>0, <1>8, <2>1 DEF AfterOpen, CommitList, CommitMove, CommitRekey, CommitPublish
  <2>3. call'[c].pc \in {"move", "publish", "rekey", "idle", "close"}
    BY <1>01, <1>8 DEF Course
  <2>4. call'[c].pc # "idle" => call'[c].reserved = call[c].reserved
    BY <1>01, <1>8 DEF Course
  <2>5. call[c].reserved = reserved
    BY <1>02, <2>1 DEF Accounts, Reserving
  <2>6. call'[c].pc \in Reserving => call'[c].pc # "idle"
    BY DEF Reserving
  <2> QED
    BY <1>5, <2>1, <2>2, <2>3, <2>4, <2>5, <2>6
<1>9. CASE CommitClose(c) \/ RollbackList(c) \/ RollbackErase(c) \/ RollbackDrop(c) \/ RollbackClose(c)
  <2>1. call[c].pc \in {"close", "rlist", "erase", "drop", "rclose"}
    BY <1>01, <1>9 DEF Course
  <2>2. tx = "pending" /\ used' = used /\ reserved' = reserved
    BY <1>0, <1>9, <2>1 DEF AfterOpen, CommitClose, RollbackList, RollbackErase, RollbackDrop, RollbackClose
  <2>3. call'[c].pc \in {"settle", "refund", "erase", "drop", "rclose"} /\ call'[c].reserved = call[c].reserved
    BY <1>01, <1>9 DEF Course
  <2>4. tx' = "pending" \/ call'[c].pc \in {"settle", "refund"}
    BY <1>01, <1>9, <2>2 DEF Course, CommitClose, RollbackList, RollbackErase, RollbackDrop, RollbackClose
  <2>5. call[c].reserved = reserved
    BY <1>02, <2>1 DEF Accounts, Reserving
  <2> QED
    BY <1>5, <2>1, <2>2, <2>3, <2>4, <2>5
<1>10. CASE CommitSettle(c)
  <2>1. call[c].pc = "settle" /\ call'[c].pc = "idle" /\ tx = "committed"
    BY <1>01, <1>02, <1>10 DEF Course, Phases
  <2>2. used = Elsewhere + reserved
    BY <1>02, <2>1 DEF Accounts
  <2>3. Bytes(Visible) \in Nat /\ Settlement(c) = Bytes(Visible) - reserved
    BY <2>1, SettledSum
  <2>4. used' = Elsewhere + Bytes(Visible)
    BY <1>0, <1>10, <2>2, <2>3 DEF CommitSettle, Bump
  <2>5. tx' = tx /\ row' = row
    BY <1>10 DEF CommitSettle
  <2>6. Visible' = Visible
    BY <2>5 DEF Visible
  <2>7. Total([f \in Visible |-> row[f].size], Visible)' = Total([f \in Visible |-> row[f].size], Visible)
    BY <2>5, <2>6
  <2>8. Bytes(Visible)' = Bytes(Visible)
    BY <2>7, VisibleSum, VisibleSumNext
  <2> QED
    BY <2>1, <2>4, <2>5, <2>8 DEF Accounts, Reserving
<1>11. CASE RollbackRefund(c)
  <2>1. call[c].pc = "refund" /\ call'[c].pc = "idle" /\ tx = "rolled_back"
    BY <1>01, <1>02, <1>11 DEF Course, Phases
  <2>2. used = Elsewhere + reserved /\ call[c].reserved = reserved
    BY <1>02, <2>1 DEF Accounts, Reserving
  <2>3. used' = Elsewhere /\ tx' = "rolled_back"
    BY <1>0, <1>11, <2>1, <2>2 DEF RollbackRefund, Bump
  <2> QED
    BY <2>1, <2>3 DEF Accounts, Reserving
<1> QED
  BY <1>1, <1>2, <1>3, <1>4, <1>6, <1>7, <1>8, <1>9, <1>10, <1>11 DEF Open, Stage, Commit, Rollback

LEMMA ContentsStep ==
  ASSUME NEW c \in Caller, Known(c), Open(c) \/ Stage(c) \/ Commit(c) \/ Rollback(c), faults' = faults
  PROVE  Contents(c)'
<1>0. /\ call \in [Caller -> Call] /\ call[c] \in Call /\ row \in [File -> Row]
      /\ obj \in [File -> [Place -> {0} \cup Size]]
      /\ call[c].hand \in SUBSET Seen /\ call[c].todo \in SUBSET Seen
      /\ call[c].pc \in AfterOpen => tx = "pending"
      /\ Contents(c) /\ Phases(c)
  BY CallFields DEF Known
<1>01. Course(c)
  BY Courses DEF Known
<1>02. Phases(c)' /\ faults \in Nat
  BY PhasesStep DEF Known
<1>03. ASSUME row' = row, obj' = obj
       PROVE  \A f : (Bare(f)' <=> Bare(f)) /\ (Staged(f)' <=> Staged(f)) /\ AsSeen(f)' = AsSeen(f)
  BY <1>03 DEF Bare, Staged, AsSeen
<1>04. ASSUME call'[c].pc \in {"unreserve", "insert", "settle", "refund", "publish", "close"},
              tx' \in {"absent", "rolled_back"} => \A f \in File : Bare(f)'
       PROVE  Contents(c)'
  BY <1>04 DEF Contents, Emptied, Untouched, Recording, Leaving, Erasing
<1>05. ASSUME call'[c].pc \in {"idle", "mark", "put", "list", "rlist"}, tx' = "pending",
              \A f \in File : Bare(f)' \/ Staged(f)'
       PROVE  Contents(c)'
  BY <1>05 DEF Contents, Emptied, Untouched, Recording, Leaving, Erasing
<1>06. ASSUME call'[c].pc = "idle", tx' \in {"absent", "rolled_back", "committed"},
              tx' = "committed" \/ \A f \in File : Bare(f)'
       PROVE  Contents(c)'
  BY <1>06 DEF Contents, Emptied, Untouched, Recording, Leaving, Erasing
<1>1. CASE OpenReserve(c)
  <2>1. tx = "absent" /\ tx' = tx /\ row' = row /\ obj' = obj /\ call'[c].pc \in {"unreserve", "insert"}
    BY <1>01, <1>1 DEF Course, OpenReserve
  <2>2. \A f \in File : Bare(f)
    BY <1>0, <2>1 DEF Contents, Emptied
  <2> QED
    BY <1>03, <1>04, <2>1, <2>2
<1>2. CASE OpenUnreserve(c)
  <2>1. tx = "absent" /\ tx' = tx /\ row' = row /\ obj' = obj /\ call'[c].pc = "idle"
    BY <1>0, <1>01, <1>2 DEF Course, OpenUnreserve, Phases
  <2>2. \A f \in File : Bare(f)
    BY <1>0, <2>1 DEF Contents, Emptied
  <2> QED
    BY <1>03, <1>06, <2>1, <2>2
<1>3. CASE OpenInsert(c) \/ OpenMark(c)
  <2>1. call[c].pc \in {"insert", "mark"} /\ call'[c].pc \in {"mark", "idle"}
    BY <1>01, <1>3 DEF Course
  <2>2. tx' = "pending" /\ row' = row /\ obj' = obj
    BY <1>0, <1>01, <1>3, <2>1 DEF Course, OpenInsert, OpenMark, Phases
  <2>3. \A f \in File : Bare(f) \/ Staged(f)
    BY <1>0, <2>1 DEF Contents, Emptied, Untouched, Phases
  <2> QED
    BY <1>03, <1>05, <2>1, <2>2, <2>3
<1>4. CASE StageBegin(c) \/ CommitBegin(c) \/ RollbackBegin(c)
  <2>1. call[c].pc = "idle" /\ call'[c].pc \in {"put", "list", "rlist"}
    BY <1>01, <1>4 DEF Course
  <2>2. tx = "pending" /\ tx' = tx /\ row' = row /\ obj' = obj
    BY <1>4 DEF StageBegin, CommitBegin, StillPending, RollbackBegin
  <2>3. \A f \in File : Bare(f) \/ Staged(f)
    BY <1>0, <2>1, <2>2 DEF Contents, Untouched
  <2> QED
    BY <1>03, <1>05, <2>1, <2>2, <2>3
<1>5. CASE StagePut(c)
  <2>1. call[c].pc = "put" /\ call'[c].pc = "record" /\ call'[c].hand = call[c].hand /\ tx = "pending"
    BY <1>0, <1>01, <1>5 DEF Course, AfterOpen
  <2>2. \A f \in File : Bare(f) \/ Staged(f)
    BY <1>0, <2>1 DEF Contents, Untouched
  <2>3. PICK a \in call[c].hand : obj' = [obj EXCEPT ![a.file]["staging"] = a.size]
    BY <1>5 DEF StagePut
  <2>4. a.file \in File /\ a.size # 0 /\ row' = row /\ tx' = tx
    BY <1>0, <1>5, <2>1 DEF Seen, Known, StagePut
  <2>5. \A h \in call[c].hand : h = a
    BY DEF Known, OneInHand
  <2>6. obj'[a.file]["staging"] # 0 /\ \A p \in Place \ {"staging"} : obj'[a.file][p] = obj[a.file][p]
    BY <1>0, <2>3, <2>4 DEF Place
  <2>7. \A f \in File : f # a.file => (Bare(f)' <=> Bare(f)) /\ (Staged(f)' <=> Staged(f))
    <3> TAKE f \in File
    <3> HAVE f # a.file
    <3>1. row'[f] = row[f] /\ obj'[f] = obj[f]
      BY <1>0, <2>3, <2>4
    <3> QED
      BY <3>1, Apart
  <2>8. \/ Staged(a.file)'
        \/ row'[a.file] = NoRow /\ \A p \in Place \ {"staging"} : obj'[a.file][p] = 0
    BY <2>2, <2>4, <2>6 DEF Bare, Staged
  <2>9. Recording(c)'
    BY <2>1, <2>2, <2>5, <2>6, <2>7, <2>8 DEF Recording
  <2> QED
    BY <2>1, <2>4, <2>9 DEF Contents, Emptied, Untouched, Leaving, Erasing
<1>6. CASE StageRecord(c)
  <2>1. call[c].pc = "record" /\ call'[c].pc = "idle" /\ tx = "pending"
    BY <1>0, <1>01, <1>6 DEF Course, AfterOpen
  <2>2. PICK a \in call[c].hand :
          row' = IF row[a.file].status = "absent"
                 THEN [row EXCEPT ![a.file] = [id |-> a.id, status |-> "pending", place |-> "staging", size |-> a.size]]
                 ELSE row
    BY <1>6 DEF StageRecord
  <2>3. a.file \in File /\ obj' = obj /\ tx' = tx
    BY <1>0, <1>6 DEF Seen, StageRecord
  <2>4. /\ obj[a.file]["staging"] # 0
        /\ \A f \in File : \/ Bare(f) \/ Staged(f)
                           \/ /\ f = a.file /\ row[f] = NoRow
                              /\ \A p \in Place \ {"staging"} : obj[f][p] = 0
    BY <1>0, <2>1 DEF Contents, Recording
  <2>5. \A f \in File : f # a.file => (Bare(f)' <=> Bare(f)) /\ (Staged(f)' <=> Staged(f))
    <3> TAKE f \in File
    <3> HAVE f # a.file
    <3>1. row'[f] = row[f] /\ obj'[f] = obj[f]
      BY <1>0, <2>2, <2>3
    <3> QED
      BY <3>1, Apart
  <2>6. Staged(a.file)'
    <3>1. CASE row[a.file].status = "absent"
      <4>1. row'[a.file].status = "pending" /\ row'[a.file].place = "staging"
        BY <1>0, <2>2, <2>3, <3>1
      <4>2. \A p \in Place \ {"staging"} : obj[a.file][p] = 0
        BY <2>3, <2>4 DEF Bare, Staged
      <4> QED
        BY <2>3, <2>4, <4>1, <4>2 DEF Staged
    <3>2. CASE row[a.file].status # "absent"
      <4>1. row' = row /\ Staged(a.file)
        BY <2>2, <2>3, <2>4, <3>2 DEF Bare, NoRow
      <4> QED
        BY <2>3, <4>1 DEF Staged
    <3> QED
      BY <3>1, <3>2
  <2> QED
    BY <1>05, <2>1, <2>3, <2>4, <2>5, <2>6
<1>7. CASE CommitList(c)
  <2>1. call[c].pc = "list" /\ call'[c].pc = "move" /\ call'[c].todo = StagedRows /\ tx = "pending"
    BY <1>0, <1>01, <1>7 DEF Course, AfterOpen
  <2>2. row' = row /\ obj' = obj /\ tx' = tx
    BY <1>7 DEF CommitList
  <2>3. \A f \in File : Bare(f) \/ Staged(f)
    BY <1>0, <2>1 DEF Contents, Untouched
  <2>4. \A a \in StagedRows : a = AsSeen(a.file) /\ Staged(a.file)
    BY <2>3 DEF StagedRows, AsSeen, Bare, NoRow
  <2>5. Leaving(c)'
    BY <1>03, <2>1, <2>2, <2>4 DEF Leaving
  <2> QED
    BY <2>1, <2>2, <2>5 DEF Contents, Emptied, Untouched, Recording, Erasing
<1>8. CASE CommitMove(c)
  <2>1. call[c].pc = "move" /\ tx = "pending" /\ tx' = tx /\ row' = row
    BY <1>0, <1>01, <1>8 DEF Course, AfterOpen, CommitMove
  <2>2. \A a \in call[c].todo : a = AsSeen(a.file) /\ Staged(a.file) /\ a.file \in File
    BY <1>0, <2>1 DEF Contents, Leaving, Seen
  <2>3. CASE call' = [call EXCEPT ![c].pc = "publish", ![c].todo = call[c].seen]
    <3>1. call'[c].pc = "publish"
      BY <1>0, <2>3 DEF Call
    <3> QED
      BY <1>04, <2>1, <3>1
  <2>4. ASSUME NEW a \in call[c].todo,
               obj' = [obj EXCEPT ![a.file][Target(a)] = obj[a.file][a.place], ![a.file][a.place] = 0],
               call' = [call EXCEPT ![c].pc = "rekey", ![c].hand = {a}, ![c].todo = @ \ {a}]
        PROVE  Contents(c)'
    <3>1. call'[c].pc = "rekey" /\ call'[c].hand = {a} /\ call'[c].todo = call[c].todo \ {a}
      BY <1>0, <2>4 DEF Call
    <3>2. ASSUME NEW b \in call[c].todo \ {a}
          PROVE  b.file # a.file /\ b = AsSeen(b.file)' /\ Staged(b.file)'
      <4>1. b.file # a.file
        BY <2>2, <3>2
      <4>2. row'[b.file] = row[b.file] /\ obj'[b.file] = obj[b.file]
        BY <1>0, <2>1, <2>2, <2>4, <4>1
      <4>3. PICK f : f = b.file
        OBVIOUS
      <4>4. (Staged(f)' <=> Staged(f)) /\ AsSeen(f)' = AsSeen(f)
        BY <4>2, <4>3, Apart
      <4> QED
        BY <2>2, <4>1, <4>3, <4>4
    <3>3. Leaving(c)'
      BY <3>1, <3>2 DEF Leaving
    <3> QED
      BY <2>1, <3>1, <3>3 DEF Contents, Emptied, Untouched, Recording, Erasing
  <2>5. \A a \in call[c].todo : Movable(a) /\ obj[a.file][a.place] # 0
    BY <2>2 DEF Staged, AsSeen, Movable
  <2> QED
    BY <1>8, <2>3, <2>4, <2>5 DEF CommitMove
<1>9. CASE CommitRekey(c)
  <2>1. /\ call[c].pc = "rekey" /\ call'[c].pc = "move" /\ call'[c].todo = call[c].todo
        /\ tx = "pending" /\ tx' = tx /\ obj' = obj
    BY <1>0, <1>01, <1>9 DEF Course, AfterOpen, CommitRekey
  <2>2. PICK a \in call[c].hand :
          row' = IF Exists(a)
                 THEN [row EXCEPT ![a.file].place = Target(a), ![a.file].status = "pending"]
                 ELSE row
    BY <1>9 DEF CommitRekey
  <2>3. ASSUME NEW b \in call[c].todo PROVE b = AsSeen(b.file)' /\ Staged(b.file)'
    <3>1. b = AsSeen(b.file) /\ Staged(b.file) /\ b.file # a.file /\ b.file \in File
      BY <1>0, <2>1 DEF Contents, Leaving, Seen
    <3>2. row'[b.file] = row[b.file] /\ obj'[b.file] = obj[b.file]
      BY <1>0, <2>1, <2>2, <3>1
    <3>3. PICK f : f = b.file
      OBVIOUS
    <3>4. (Staged(f)' <=> Staged(f)) /\ AsSeen(f)' = AsSeen(f)
      BY <3>2, <3>3, Apart
    <3> QED
      BY <3>1, <3>3, <3>4
  <2>4. Leaving(c)'
    BY <2>1, <2>3 DEF Leaving
  <2> QED
    BY <2>1, <2>4 DEF Contents, Emptied, Untouched, Recording, Erasing
<1>10. CASE CommitPublish(c) \/ CommitClose(c)
  <2>1. call[c].pc \in {"publish", "close"} /\ call'[c].pc \in {"publish", "close", "settle"}
    BY <1>01, <1>10 DEF Course
  <2>2. tx' \in {"pending", "committed"}
    BY <1>0, <1>10, <2>1 DEF AfterOpen, CommitPublish, CommitClose
  <2> QED
    BY <1>04, <2>1, <2>2
<1>11. CASE CommitSettle(c)
  <2>1. call'[c].pc = "idle" /\ tx' = "committed"
    BY <1>0, <1>01, <1>11 DEF Course, Phases, CommitSettle
  <2> QED
    BY <1>06, <2>1
<1>12. CASE RollbackList(c)
  <2>1. call[c].pc = "rlist" /\ call'[c].pc = "erase" /\ call'[c].todo = AllRows /\ tx = "pending"
    BY <1>0, <1>01, <1>12 DEF Course, AfterOpen
  <2>2. row' = row /\ obj' = obj /\ tx' = tx
    BY <1>12 DEF RollbackList
  <2>3. \A f \in File : Bare(f) \/ Staged(f)
    BY <1>0, <2>1 DEF Contents, Untouched
  <2>4. \A a \in AllRows : a = AsSeen(a.file) /\ Staged(a.file)
    BY <2>3 DEF AllRows, AsSeen, Bare, NoRow
  <2>5. \A f \in File : Bare(f) \/ AsSeen(f) \in AllRows
    BY <2>3 DEF AllRows, Staged
  <2>6. Leaving(c)'
    BY <1>03, <2>1, <2>2, <2>4 DEF Leaving
  <2>7. Erasing(c)'
    BY <1>03, <2>1, <2>2, <2>5 DEF Erasing
  <2> QED
    BY <2>1, <2>2, <2>6, <2>7 DEF Contents, Emptied, Untouched, Recording
<1>13. CASE RollbackErase(c)
  <2>1. call[c].pc = "erase" /\ tx = "pending" /\ tx' = tx /\ row' = row
    BY <1>0, <1>01, <1>13 DEF Course, AfterOpen, RollbackErase
  <2>2. \A a \in call[c].todo : a = AsSeen(a.file) /\ Staged(a.file) /\ a.file \in File
    BY <1>0, <2>1 DEF Contents, Leaving, Seen
  <2>3. \A f \in File : Bare(f) \/ AsSeen(f) \in call[c].todo
    BY <1>0, <2>1 DEF Contents, Erasing
  <2>4. CASE call[c].todo = {} /\ Goto(c, "rclose") /\ UNCHANGED obj
    <3>1. call'[c].pc = "rclose"
      BY <1>0, <2>4 DEF Goto, Call
    <3>2. \A f \in File : Bare(f)'
      BY <1>03, <2>1, <2>3, <2>4
    <3> QED
      BY <2>1, <3>1, <3>2 DEF Contents, Emptied, Untouched, Recording, Leaving, Erasing
  <2>5. ASSUME NEW a \in call[c].todo,
               call' = [call EXCEPT ![c].pc = "drop", ![c].hand = {a}, ![c].todo = @ \ {a}],
               obj' = IF Erases(a) THEN [obj EXCEPT ![a.file][a.place] = 0] ELSE obj
        PROVE  Contents(c)'
    <3>1. call'[c].pc = "drop" /\ call'[c].hand = {a} /\ call'[c].todo = call[c].todo \ {a}
      BY <1>0, <2>5 DEF Call
    <3>2. a.place = "staging" /\ a.file \in File /\ row[a.file].id = a.id
      BY <2>2 DEF AsSeen, Staged
    <3>3. obj' = [obj EXCEPT ![a.file]["staging"] = 0]
      BY <2>5, <3>2 DEF Erases
    <3>4. \A p \in Place : obj'[a.file][p] = 0
      BY <1>0, <2>2, <3>2, <3>3 DEF Staged
    <3>5. Exists(a)'
      BY <2>1, <3>2 DEF Exists
    <3>6. ASSUME NEW f \in File, f # a.file
          PROVE  (Bare(f)' <=> Bare(f)) /\ (Staged(f)' <=> Staged(f)) /\ AsSeen(f)' = AsSeen(f)
      <4>1. row'[f] = row[f] /\ obj'[f] = obj[f]
        BY <1>0, <2>1, <3>3, <3>6
      <4> QED
        BY <4>1, Apart
    <3>7. \A b \in call[c].todo \ {a} : b.file # a.file /\ b = AsSeen(b.file)' /\ Staged(b.file)'
      <4> TAKE b \in call[c].todo \ {a}
      <4>1. b.file # a.file
        BY <2>2
      <4>2. PICK f \in File : f = b.file
        BY <2>2
      <4>3. (Staged(f)' <=> Staged(f)) /\ AsSeen(f)' = AsSeen(f)
        BY <3>6, <4>1, <4>2
      <4> QED
        BY <2>2, <4>1, <4>2, <4>3
    <3>8. \A f \in File : Bare(f)' \/ AsSeen(f)' \in call[c].todo \ {a} \/ f = a.file
      <4> TAKE f \in File
      <4>1. CASE f # a.file
        <5>1. AsSeen(f) # a
          BY <4>1 DEF AsSeen
        <5> QED
          BY <2>3, <3>6, <4>1, <5>1
      <4> QED
        BY <4>1
    <3>9. Leaving(c)'
      BY <3>1, <3>7 DEF Leaving
    <3>10. Erasing(c)'
      BY <3>1, <3>4, <3>5, <3>8 DEF Erasing
    <3> QED
      BY <2>1, <3>1, <3>9, <3>10 DEF Contents, Emptied, Untouched, Recording
  <2>6. faults' # faults + 1
    BY <1>02
  <2> QED
    BY <1>13, <2>4, <2>5, <2>6 DEF RollbackErase
<1>14. CASE RollbackDrop(c)
  <2>1. /\ call[c].pc = "drop" /\ call'[c].pc = "erase" /\ call'[c].todo = call[c].todo
        /\ tx = "pending" /\ tx' = tx /\ obj' = obj
    BY <1>0, <1>01, <1>14 DEF Course, AfterOpen, RollbackDrop
  <2>2. PICK a \in call[c].hand : row' = IF Exists(a) THEN [row EXCEPT ![a.file] = NoRow] ELSE row
    BY <1>14 DEF RollbackDrop
  <2>3. /\ Exists(a) /\ \A p \in Place : obj[a.file][p] = 0
        /\ \A f \in File : Bare(f) \/ AsSeen(f) \in call[c].todo \/ f = a.file
    BY <1>0, <2>1 DEF Contents, Erasing
  <2>4. a.file \in File /\ row' = [row EXCEPT ![a.file] = NoRow]
    BY <1>0, <2>2, <2>3 DEF Seen
  <2>5. Bare(a.file)'
    BY <1>0, <2>1, <2>3, <2>4 DEF Bare
  <2>6. ASSUME NEW f \in File, f # a.file
        PROVE  (Bare(f)' <=> Bare(f)) /\ (Staged(f)' <=> Staged(f)) /\ AsSeen(f)' = AsSeen(f)
    <3>1. row'[f] = row[f] /\ obj'[f] = obj[f]
      BY <1>0, <2>1, <2>4, <2>6
    <3> QED
      BY <3>1, Apart
  <2>7. \A b \in call[c].todo : b = AsSeen(b.file)' /\ Staged(b.file)'
    <3> TAKE b \in call[c].todo
    <3>1. b = AsSeen(b.file) /\ Staged(b.file) /\ b.file # a.file /\ b.file \in File
      BY <1>0, <2>1 DEF Contents, Leaving, Seen
    <3>2. PICK f \in File : f = b.file
      BY <3>1
    <3>3. (Staged(f)' <=> Staged(f)) /\ AsSeen(f)' = AsSeen(f)
      BY <2>6, <3>1, <3>2
    <3> QED
      BY <3>1, <3>2, <3>3
  <2>8. \A f \in File : Bare(f)' \/ AsSeen(f)' \in call[c].todo
    <3> TAKE f \in File
    <3>1. CASE f # a.file
      BY <2>3, <2>6, <3>1
    <3> QED
      BY <2>5, <3>1
  <2>9. Leaving(c)' /\ Erasing(c)'
    BY <2>1, <2>7, <2>8 DEF Leaving, Erasing
  <2> QED
    BY <2>1, <2>9 DEF Contents, Emptied, Untouched, Recording
<1>15. CASE RollbackClose(c)
  <2>1. call[c].pc = "rclose" /\ call'[c].pc = "refund" /\ row' = row /\ obj' = obj
    BY <1>01, <1>15 DEF Course, RollbackClose
  <2>2. \A f \in File : Bare(f)
    BY <1>0, <2>1 DEF Contents, Emptied
  <2> QED
    BY <1>03, <1>04, <2>1, <2>2
<1>16. CASE RollbackRefund(c)
  <2>1. tx = "rolled_back" /\ tx' = tx /\ call'[c].pc = "idle" /\ row' = row /\ obj' = obj
    BY <1>0, <1>01, <1>16 DEF Course, Phases, RollbackRefund
  <2>2. \A f \in File : Bare(f)
    BY <1>0, <2>1 DEF Contents, Emptied
  <2> QED
    BY <1>03, <1>06, <2>1, <2>2
<1> QED
  BY <1>1, <1>2, <1>3, <1>4, <1>5, <1>6, <1>7, <1>8, <1>9, <1>10, <1>11, <1>12, <1>13, <1>14, <1>15, <1>16
     DEF Open, Stage, Commit, Rollback

LEMMA OneInHandStep ==
  ASSUME NEW c \in Caller, Known(c), Open(c) \/ Stage(c) \/ Commit(c) \/ Rollback(c)
  PROVE  OneInHand(c)'
<1>0. call \in [Caller -> Call] /\ call[c] \in Call
  BY DEF Known
<1>1. ASSUME call'[c].hand = call[c].hand PROVE OneInHand(c)'
  BY <1>1 DEF Known, OneInHand
<1>2. ASSUME NEW a, call'[c].hand = {a} PROVE OneInHand(c)'
  BY <1>2 DEF OneInHand
<1>3. ASSUME Return(c) PROVE OneInHand(c)'
  BY <1>0, <1>3 DEF Return, Idle, OneInHand
<1>4. ASSUME NEW pc, Goto(c, pc) PROVE OneInHand(c)'
  BY <1>0, <1>1, <1>4 DEF Goto, Call
<1>5. CASE Open(c)
  <2>1. \/ Return(c) \/ Goto(c, "unreserve") \/ Goto(c, "insert") \/ Goto(c, "mark")
    BY <1>5 DEF Open, OpenReserve, OpenUnreserve, OpenInsert, OpenMark
  <2> QED
    BY <1>3, <1>4, <2>1
<1>6. CASE StageBegin(c)
  <2>1. PICK f \in File, s \in Size :
          call' = [call EXCEPT ![c].pc = "put",
                     ![c].hand = {[file |-> f, id |-> stages', place |-> "staging", size |-> s]}]
    BY <1>6 DEF StageBegin
  <2> QED
    BY <1>0, <1>2, <2>1 DEF Call
<1>7. CASE StagePut(c) \/ StageRecord(c) \/ CommitRekey(c) \/ CommitClose(c) \/ CommitSettle(c)
           \/ RollbackDrop(c) \/ RollbackClose(c) \/ RollbackRefund(c)
  <2>1. \/ Return(c) \/ Goto(c, "record") \/ Goto(c, "move") \/ Goto(c, "settle")
        \/ Goto(c, "erase") \/ Goto(c, "refund")
    BY <1>7 DEF StagePut, StageRecord, CommitRekey, CommitClose, CommitSettle, RollbackDrop, RollbackClose,
                RollbackRefund
  <2> QED
    BY <1>3, <1>4, <2>1
<1>8. CASE CommitBegin(c) \/ RollbackBegin(c)
  <2>1. PICK pc : call' = [call EXCEPT ![c].pc = pc, ![c].reserved = reserved]
    BY <1>8 DEF CommitBegin, RollbackBegin
  <2> QED
    BY <1>0, <1>1, <2>1 DEF Call
<1>9. CASE CommitList(c)
  BY <1>0, <1>1, <1>9 DEF CommitList, Call
<1>10. CASE RollbackList(c)
  BY <1>0, <1>1, <1>10 DEF RollbackList, Call
<1>11. ASSUME NEW a, NEW pc, call' = [call EXCEPT ![c].pc = pc, ![c].hand = {a}, ![c].todo = @ \ {a}]
       PROVE  OneInHand(c)'
  BY <1>0, <1>2, <1>11 DEF Call
<1>12. CASE CommitMove(c)
  <2>1. CASE call' = [call EXCEPT ![c].pc = "publish", ![c].todo = call[c].seen]
    BY <1>0, <1>1, <2>1 DEF Call
  <2> QED
    BY <1>3, <1>11, <1>12, <2>1 DEF CommitMove
<1>13. CASE CommitPublish(c)
  <2>1. ASSUME NEW a, call' = [call EXCEPT ![c].todo = @ \ {a}] PROVE OneInHand(c)'
    BY <1>0, <1>1, <2>1 DEF Call
  <2> QED
    BY <1>4, <1>13, <2>1 DEF CommitPublish
<1>14. CASE RollbackErase(c)
  BY <1>4, <1>11, <1>14 DEF RollbackErase
<1> QED
  BY <1>5, <1>6, <1>7, <1>8, <1>9, <1>10, <1>12, <1>13, <1>14 DEF Stage, Commit, Rollback

LEMMA KnownFollows ==
  ASSUME SerialInv, TypeInv, Tidy, faults = 0, NEW c \in Caller
  PROVE  Known(c)
<1>1. /\ call \in [Caller -> Call] /\ call[c] \in Call /\ row \in [File -> Row]
      /\ obj \in [File -> [Place -> {0} \cup Size]]
      /\ used \in Nat /\ reserved \in {0, Estimate} /\ IsFiniteSet(call[c].seen)
  BY DEF TypeInv, TypeOK, FiniteLists
<1>2. Estimate \in Nat /\ Elsewhere \in Nat /\ 0 \notin Size
  BY BatchAssumption
<1>3. reserved \in Nat
  BY <1>1, <1>2
<1>4. call[c].pc = "put" => \A h \in call[c].hand : h.size # 0
  BY <1>2 DEF TypeInv, PutSizes
<1>5. /\ call[c].pc = "rekey" => call[c].hand \subseteq call[c].seen
      /\ call[c].pc = "publish" => call[c].todo \subseteq call[c].seen
  BY DEF SerialInv, Inv, Listing, Listed
<1>6. /\ call[c].pc \in AfterOpen => tx = "pending"
      /\ call[c].pc = "insert" => tx = "absent"
  BY DEF SerialInv, Working
<1>7. CommittedComplete
  BY DEF SerialInv
<1>8. Contents(c) /\ Whole(c) /\ Accounts(c) /\ Phases(c) /\ OneInHand(c)
  BY DEF Tidy
<1> QED
  BY <1>1, <1>2, <1>3, <1>4, <1>5, <1>6, <1>7, <1>8 DEF Known

LEMMA TidyInit == Init => Tidy
<1>1. SUFFICES ASSUME Init, NEW c \in Caller
               PROVE  Contents(c) /\ Whole(c) /\ Accounts(c) /\ Phases(c) /\ OneInHand(c)
  BY DEF Tidy
<1>2. /\ tx = "absent" /\ used = Elsewhere /\ call[c].pc = "idle" /\ call[c].hand = {}
      /\ \A f \in File : row[f] = NoRow /\ \A p \in Place : obj[f][p] = 0
  BY <1>1 DEF Init, Idle
<1>3. Contents(c)
  BY <1>2 DEF Contents, Emptied, Untouched, Recording, Leaving, Erasing, Bare
<1>4. Whole(c) /\ Accounts(c) /\ Phases(c) /\ OneInHand(c)
  BY <1>2 DEF Whole, Accounts, Reserving, Phases, OneInHand
<1> QED
  BY <1>3, <1>4

LEMMA TidyNext ==
  ASSUME OneCaller, SerialInv, TypeInv, Tidy, [Next]_vars
  PROVE  Tidy'
<1>1. CASE UNCHANGED vars
  <2>1. UNCHANGED <<tx, reserved, known, used, row, obj, call, stages, faults>>
    BY <1>1 DEF vars
  <2>2. Init' <=> Init
    BY <2>1 DEF Init
  <2>3. /\ Visible' = Visible
        /\ Total([f \in Visible |-> row[f].size], Visible)' = Total([f \in Visible |-> row[f].size], Visible)
    BY <2>1 DEF Visible
  <2>4. Bytes(Visible)' = Bytes(Visible)
    BY <2>3, VisibleSum, VisibleSumNext
  <2>5. \A f : (Bare(f)' <=> Bare(f)) /\ (Staged(f)' <=> Staged(f)) /\ AsSeen(f)' = AsSeen(f)
    BY <2>1 DEF Bare, Staged, AsSeen
  <2>6. \A c \in Caller : Contents(c) => Contents(c)'
    BY <2>1, <2>5 DEF Contents, Emptied, Untouched, Recording, Leaving, Erasing, Exists
  <2>7. \A c \in Caller : Whole(c) => Whole(c)'
    BY <2>1 DEF Whole, Exists
  <2>8. \A c \in Caller : Accounts(c) => Accounts(c)'
    BY <2>1, <2>4 DEF Accounts
  <2>9. \A c \in Caller : Phases(c) /\ OneInHand(c) => Phases(c)' /\ OneInHand(c)'
    BY <2>1 DEF Phases, OneInHand
  <2> QED
    BY <2>1, <2>2, <2>6, <2>7, <2>8, <2>9 DEF Tidy
<1>2. ASSUME NEW c \in Caller, Open(c) \/ Stage(c) \/ Commit(c) \/ Rollback(c) \/ Fail(c) PROVE Tidy'
  <2>1. SUFFICES ASSUME faults' = 0
                 PROVE  Contents(c)' /\ Whole(c)' /\ Accounts(c)' /\ Phases(c)' /\ OneInHand(c)'
    BY <1>2 DEF Tidy, OneCaller
  <2>2. faults \in Nat
    BY BatchAssumption DEF TypeInv, TypeOK
  <2>3. faults' = faults \/ faults' = faults + 1
    <3>1. CASE Open(c)
      BY <3>1 DEF Open, OpenReserve, OpenUnreserve, OpenInsert, OpenMark
    <3>2. CASE Stage(c)
      BY <3>2 DEF Stage, StageBegin, StagePut, StageRecord
    <3>3. CASE Commit(c)
      BY <3>3 DEF Commit, CommitBegin, CommitList, CommitMove, CommitRekey, CommitPublish, CommitClose, CommitSettle
    <3>4. CASE Rollback(c)
      BY <3>4 DEF Rollback, RollbackBegin, RollbackList, RollbackErase, RollbackDrop, RollbackClose, RollbackRefund
    <3>5. CASE Fail(c)
      BY <3>5 DEF Fail
    <3> QED
      BY <1>2, <3>1, <3>2, <3>3, <3>4, <3>5
  <2>4. faults = 0 /\ faults' = faults
    BY <2>1, <2>2, <2>3
  <2>5. Open(c) \/ Stage(c) \/ Commit(c) \/ Rollback(c)
    BY <1>2, <2>2, <2>4 DEF Fail
  <2>6. Known(c)
    BY <2>4, KnownFollows
  <2> QED
    BY <2>4, <2>5, <2>6, ContentsStep, WholeStep, AccountsStep, PhasesStep, OneInHandStep
<1> QED
  BY <1>1, <1>2 DEF Next

LEMMA CleanFollows == ASSUME Tidy PROVE RolledBackClean
<1>1. SUFFICES ASSUME faults = 0, tx = "rolled_back"
               PROVE  \A f \in File : Bare(f)
  BY DEF RolledBackClean, Bare
<1>2. PICK c \in Caller : TRUE
  BY <1>1 DEF Tidy, Init
<1> QED
  BY <1>1, <1>2 DEF Tidy, Contents, Emptied

LEMMA ExactFollows == ASSUME TypeInv, Tidy PROVE QuotaExact
<1>1. SUFFICES ASSUME AtRest, faults = 0
               PROVE  used = Elsewhere + Bytes(Visible) + (IF tx = "pending" THEN reserved ELSE 0)
  BY DEF QuotaExact
<1>2. Elsewhere \in Nat /\ reserved \in Nat /\ tx \in {"absent", "pending", "committed", "rolled_back"}
  BY BatchAssumption DEF TypeInv, TypeOK
<1>3. ASSUME \A f \in File : Bare(f) \/ Staged(f) PROVE Bytes(Visible) = 0
  <2>1. Visible = {}
    BY <1>3 DEF Visible, Bare, Staged, NoRow
  <2>2. \A w : Total(w, {}) = 0
    BY FS_EmptySet, TotalStep
  <2> QED
    BY <2>1, <2>2, VisibleSum
<1>4. CASE Caller = {}
  <2>1. tx = "absent" /\ used = Elsewhere /\ \A f \in File : Bare(f)
    BY <1>4 DEF Tidy, Init, Bare
  <2> QED
    BY <1>2, <1>3, <2>1
<1>5. ASSUME NEW c \in Caller PROVE used = Elsewhere + Bytes(Visible) + (IF tx = "pending" THEN reserved ELSE 0)
  <2>1. call[c].pc = "idle" /\ Contents(c) /\ Accounts(c)
    BY <1>1, <1>5 DEF AtRest, At, Tidy
  <2>2. CASE tx \in {"absent", "rolled_back"}
    <3>1. used = Elsewhere /\ \A f \in File : Bare(f)
      BY <2>1, <2>2 DEF Contents, Emptied, Accounts
    <3> QED
      BY <1>2, <1>3, <2>2, <3>1
  <2>3. CASE tx = "pending"
    <3>1. used = Elsewhere + reserved /\ \A f \in File : Bare(f) \/ Staged(f)
      BY <2>1, <2>3 DEF Contents, Untouched, Accounts
    <3> QED
      BY <1>2, <1>3, <2>3, <3>1
  <2>4. CASE tx = "committed"
    <3>1. used = Elsewhere + Bytes(Visible) /\ used \in Nat
      BY <2>1, <2>4 DEF Accounts, TypeInv, TypeOK
    <3>2. Bytes(Visible) \in Nat
      BY VisibleNat
    <3> QED
      BY <1>2, <2>4, <3>1, <3>2
  <2> QED
    BY <1>2, <2>2, <2>3, <2>4
<1> QED
  BY <1>4, <1>5

\* Calls one after the other of which none has failed: a batch that was rolled
\* back leaves no row and no object, whatever was staged in it and whenever.
THEOREM RollbacksAreClean ==
  ASSUME OneCaller
  PROVE  Spec => []RolledBackClean
<1>1. Init => SerialInv /\ TypeInv /\ Tidy
  BY InitSerial, TypeInit, TidyInit
<1>2. SerialInv /\ TypeInv /\ Tidy /\ [Next]_vars => SerialInv' /\ TypeInv' /\ Tidy'
  BY OneCaller, SerialNext, TypeNext, TidyNext
<1>3. Tidy => RolledBackClean
  BY CleanFollows
<1> QED
  BY <1>1, <1>2, <1>3, PTL DEF Spec

\* Calls one after the other of which none has failed: between them the quota in
\* use is what readers can see and what an open batch has reserved, to the byte.
THEOREM QuotaIsExact ==
  ASSUME OneCaller
  PROVE  Spec => []QuotaExact
<1>1. Init => SerialInv /\ TypeInv /\ Tidy
  BY InitSerial, TypeInit, TidyInit
<1>2. SerialInv /\ TypeInv /\ Tidy /\ [Next]_vars => SerialInv' /\ TypeInv' /\ Tidy'
  BY OneCaller, SerialNext, TypeNext, TidyNext
<1>3. TypeInv /\ Tidy => QuotaExact
  BY ExactFollows
<1> QED
  BY <1>1, <1>2, <1>3, PTL DEF Spec
=============================================================================
